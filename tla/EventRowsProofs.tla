--------------------------- MODULE EventRowsProofs ---------------------------
(***************************************************************************)
(* Facts about the data functions of EventRows: the earliest and the       *)
(* latest stamp of a set of rows exist, a merged row keeps its key and     *)
(* stays in range, and what the engines build is an audit entry.           *)
(***************************************************************************)
EXTENDS EventRows, NaturalsInduction, WellFoundedInduction, TLAPS

\* A non-empty set of natural numbers has a least element, and Min is it: the
\* loops of earliestDeadline and of the deadline clamp compute a deadline.
LEMMA MinOfNats ==
    ASSUME NEW S \in SUBSET Nat, S # {}
    PROVE  /\ Min(S) \in S
           /\ \A y \in S : Min(S) <= y
<1>1. IsWellFoundedOn(OpToRel(<, Nat), Nat)
  BY NatLessThanWellFounded
<1>2. \E x \in S : \A y \in S : ~(<<y, x>> \in OpToRel(<, Nat))
  BY <1>1, WFMin, Zenon
<1>3. PICK x \in S : \A y \in S : ~(<<y, x>> \in OpToRel(<, Nat))
  BY <1>2
<1>4. ASSUME NEW y \in S PROVE x =< y
  <2>1. ~(<<y, x>> \in {ss \in Nat \X Nat : ss[1] < ss[2]})
    BY <1>3 DEF OpToRel
  <2>2. ~(y < x)
    BY <2>1, SMT
  <2> QED
    BY <2>2
<1> QED
  BY <1>4 DEF Min

\* A non-empty set of stamps has a latest one, and Max is it: the window expiry
\* a break reports is one of its rows' deadlines.
LEMMA MaxOfStamps ==
    ASSUME NEW S \in SUBSET Stamps, S # {}
    PROVE  /\ Max(S) \in S
           /\ \A y \in S : y <= Max(S)
<1> DEFINE D == {Horizon - s : s \in S}
<1>1. Horizon \in Nat
  BY RowsAssumption
<1>2. D \in SUBSET Nat /\ D # {}
  <2>1. ASSUME NEW s \in S PROVE Horizon - s \in Nat
    BY <1>1 DEF Stamps
  <2>2. PICK s \in S : TRUE
    OBVIOUS
  <2> QED
    BY <2>1, <2>2
<1>3. PICK s \in S : Min(D) = Horizon - s
  <2>1. Min(D) \in D
    BY <1>2, MinOfNats
  <2> QED
    BY <2>1
<1>4. \A y \in S : s >= y
  <2> SUFFICES ASSUME NEW y \in S PROVE s >= y
    OBVIOUS
  <2>1. Horizon - s <= Horizon - y
    <3>1. Horizon - y \in D
      OBVIOUS
    <3>2. Min(D) <= Horizon - y
      BY <1>2, <3>1, MinOfNats
    <3> QED
      BY <3>2, <1>3
  <2> QED
    BY <2>1, <1>1 DEF Stamps
<1> QED
  BY <1>4, <1>1 DEF Max, Stamps

\* The earliest deadline of some rows is the deadline of one of them.
LEMMA EarliestDeadlineIsOne ==
    ASSUME NEW rows \in SUBSET Row, rows # {}
    PROVE  /\ EarliestDeadline(rows) \in {r.deadline : r \in rows}
           /\ EarliestDeadline(rows) \in Stamps
           /\ \A r \in rows : EarliestDeadline(rows) <= r.deadline
<1> DEFINE D == {r.deadline : r \in rows}
<1>1. D # {} /\ D \in SUBSET Nat /\ D \in SUBSET Stamps
  BY RowsAssumption DEF Row, Stamps
<1>2. Min(D) \in D /\ \A y \in D : Min(D) <= y
  BY <1>1, MinOfNats
<1> QED
  BY <1>1, <1>2 DEF EarliestDeadline

\* Likewise for the first time a trade was seen.
LEMMA FirstSeenIsStamp ==
    ASSUME NEW rows \in SUBSET Row, rows # {}
    PROVE  Min({r.firstSeen : r \in rows}) \in Stamps
<1> DEFINE F == {r.firstSeen : r \in rows}
<1>1. F # {} /\ F \in SUBSET Nat /\ F \in SUBSET Stamps
  BY RowsAssumption DEF Row, Stamps
<1>2. Min(F) \in F
  BY <1>1, MinOfNats
<1> QED
  BY <1>1, <1>2

\* Merging with the rows already there changes neither the trade nor the source
\* of a row and keeps its stamps in range, in both implementations.
LEMMA MergeKeepsKey ==
    ASSUME NEW impl, NEW existing \in SUBSET Row, NEW row \in Row
    PROVE  /\ Merge(impl, existing, row) \in Row
           /\ Merge(impl, existing, row).trade = row.trade
           /\ Merge(impl, existing, row).source = row.source
<1> DEFINE D == {row.deadline} \union {r.deadline : r \in existing}
<1>1. /\ ClampDeadline(existing, row) \in Row
      /\ ClampDeadline(existing, row).trade = row.trade
      /\ ClampDeadline(existing, row).source = row.source
  <2>1. D # {} /\ D \in SUBSET Nat /\ D \in SUBSET Stamps
    BY RowsAssumption DEF Row, Stamps
  <2>2. Min(D) \in Stamps
    BY <2>1, MinOfNats
  <2> HIDE DEF D
  <2>3. ClampDeadline(existing, row) = [row EXCEPT !.deadline = Min(D)]
    BY DEF ClampDeadline, D
  <2> QED
    BY <2>2, <2>3 DEF Row
<1>2. /\ InheritStamps(existing, row) \in Row
      /\ InheritStamps(existing, row).trade = row.trade
      /\ InheritStamps(existing, row).source = row.source
  <2>1. CASE existing = {}
    BY <2>1 DEF InheritStamps
  <2>2. CASE existing # {}
    <3>1. EarliestDeadline(existing) \in Stamps
      BY <2>2, EarliestDeadlineIsOne
    <3>2. Min({r.firstSeen : r \in existing}) \in Stamps
      BY <2>2, FirstSeenIsStamp
    <3> QED
      BY <2>2, <3>1, <3>2 DEF InheritStamps, Row
  <2> QED
    BY <2>1, <2>2
<1> QED
  BY <1>1, <1>2 DEF Merge

\* Both implementations make a whole number of milliseconds of a duration.
LEMMA MatchDurationIsInt ==
    ASSUME NEW impl, NEW d \in Int
    PROVE  MatchDuration(impl, d) \in Int
<1>1. Milli \in Nat \ {0}
  BY MillisecondsAssumption
<1>2. d \div Milli \in Int /\ (-d) \div Milli \in Int
  BY <1>1
<1>3. Milliseconds(d) \in Int
  BY <1>2 DEF Milliseconds
<1> QED
  BY <1>3 DEF MatchDuration, MillisecondsOfFloat

\* The two durations of a reconciled trade are equal, or Go's is whole and the
\* float product of Python has fallen below it by one.
LEMMA DurationsAlike ==
    ASSUME NEW d \in Nat
    PROVE  \/ MatchDuration("python", d) = MatchDuration("go", d)
           \/ /\ MatchDuration("go", d) * Milli \in FallsShort
              /\ MatchDuration("python", d) = MatchDuration("go", d) - 1
<1>1. MatchDuration("go", d) = d \div Milli
  BY DEF MatchDuration, Milliseconds
<1>2. CASE d \notin FallsShort
  BY <1>2 DEF MatchDuration, MillisecondsOfFloat
<1>3. CASE d \in FallsShort
  <2>1. Milli \in Nat /\ Milli > 0 /\ d % Milli = 0 /\ d > 0
    BY <1>3, MillisecondsAssumption
  <2>2. (d \div Milli) * Milli = d
    BY <2>1, SMTT(30)
  <2>3. MatchDuration("python", d) = d \div Milli - 1
    BY <1>3, <2>1 DEF MatchDuration, MillisecondsOfFloat, Milliseconds
  <2> QED
    BY <1>1, <1>3, <2>2, <2>3
<1> QED
  BY <1>2, <1>3

\* What the engine builds from the rows of a complete trade is an audit entry
\* of that trade.
LEMMA ReconciledIsEntry ==
    ASSUME NEW impl, NEW t \in Trades, NEW events \in SUBSET Row, events # {}, NEW now \in Stamps
    PROVE  /\ BuildReconciled(impl, t, events, now) \in AuditEntry
           /\ BuildReconciled(impl, t, events, now).trade = t
<1> DEFINE first    == Min({r.firstSeen : r \in events})
           duration == MatchDuration(impl, now - first)
<1>1. first \in Stamps
  BY FirstSeenIsStamp
<1>2. duration \in Int
  <2>1. now - first \in Int
    BY <1>1, RowsAssumption DEF Stamps
  <2> QED
    BY <2>1, MatchDurationIsInt
<1>3. SourcesOf(events) \in SUBSET Sources
  BY DEF SourcesOf, Row
<1> HIDE DEF first, duration
<1>4. BuildReconciled(impl, t, events, now) =
        [trade |-> t, outcome |-> "reconciled", sources |-> SourcesOf(events), at |-> now,
         detail |-> [matchDuration |-> duration]]
  BY DEF BuildReconciled, first, duration
<1>5. [matchDuration |-> duration] \in ReconciledDetail
  BY <1>2 DEF ReconciledDetail
<1> QED
  BY <1>3, <1>4, <1>5 DEF AuditEntry

\* What the engine builds from the rows of an expired trade is an audit entry
\* of that trade.
LEMMA BreakIsEntry ==
    ASSUME NEW t \in Trades, NEW events \in SUBSET Row, events # {},
           NEW expected \in SUBSET Sources, NEW now \in Stamps
    PROVE  /\ BuildBreak(t, events, expected, now) \in AuditEntry
           /\ BuildBreak(t, events, expected, now).trade = t
<1> DEFINE expiry  == Max({r.deadline : r \in events})
           missing == expected \ SourcesOf(events)
<1>1. expiry \in Stamps
  <2> DEFINE D == {r.deadline : r \in events}
  <2>1. D # {} /\ D \in SUBSET Stamps
    BY DEF Row
  <2>2. Max(D) \in D
    BY <2>1, MaxOfStamps
  <2> QED
    BY <2>1, <2>2
<1>2. SourcesOf(events) \in SUBSET Sources
  BY DEF SourcesOf, Row
<1>3. missing \in SUBSET Sources
  OBVIOUS
<1> HIDE DEF expiry, missing
<1>4. BuildBreak(t, events, expected, now) =
        [trade |-> t, outcome |-> "break", sources |-> SourcesOf(events), at |-> now,
         detail |-> [missing |-> missing, windowExpiry |-> expiry]]
  BY DEF BuildBreak, expiry, missing
<1>5. [missing |-> missing, windowExpiry |-> expiry] \in BreakDetail
  BY <1>1, <1>3 DEF BreakDetail
<1> QED
  BY <1>2, <1>4, <1>5 DEF AuditEntry

\* Min is the element that is at most every other.
LEMMA MinIs ==
    ASSUME NEW S \in SUBSET Nat, NEW m \in S, \A y \in S : m <= y
    PROVE  Min(S) = m
<1>1. Min(S) \in S /\ Min(S) <= m /\ m <= Min(S)
  BY MinOfNats
<1>2. Min(S) \in Nat /\ m \in Nat
  BY <1>1
<1> QED
  BY <1>1, <1>2

\* A row stored beside others never extends the window of its trade.
LEMMA MergeNarrows ==
    ASSUME NEW impl, NEW existing \in SUBSET Row, NEW row \in Row, NEW r \in existing
    PROVE  Merge(impl, existing, row).deadline <= r.deadline
<1>1. ClampDeadline(existing, row).deadline <= r.deadline
  <2> DEFINE D == {row.deadline} \union {s.deadline : s \in existing}
  <2>1. D # {} /\ D \in SUBSET Nat /\ r.deadline \in D
    BY RowsAssumption DEF Row, Stamps
  <2>2. Min(D) <= r.deadline
    BY <2>1, MinOfNats
  <2> HIDE DEF D
  <2>3. ClampDeadline(existing, row) = [row EXCEPT !.deadline = Min(D)]
    BY DEF ClampDeadline, D
  <2> QED
    BY <2>2, <2>3 DEF Row
<1>2. InheritStamps(existing, row).deadline <= r.deadline
  <2>1. EarliestDeadline(existing) <= r.deadline
    BY EarliestDeadlineIsOne
  <2>2. InheritStamps(existing, row) =
          [row EXCEPT !.firstSeen = Min({s.firstSeen : s \in existing}),
                      !.deadline  = EarliestDeadline(existing)]
    BY DEF InheritStamps
  <2> QED
    BY <2>1, <2>2 DEF Row
<1> QED
  BY <1>1, <1>2 DEF Merge

\* The least number of a set that one more has joined.
LEMMA MinOfOneMore ==
    ASSUME NEW S \in SUBSET Nat, S # {}, NEW x \in Nat
    PROVE  Min(S \union {x}) = IF x <= Min(S) THEN x ELSE Min(S)
<1>1. Min(S) \in S /\ Min(S) \in Nat /\ \A y \in S : y \in Nat /\ Min(S) <= y
  BY MinOfNats
<1> DEFINE m == IF x <= Min(S) THEN x ELSE Min(S)
<1>2. m \in S \union {x} /\ \A y \in S \union {x} : m <= y
  BY <1>1
<1> HIDE DEF m
<1>3. Min(S \union {x}) = m
  BY <1>2, MinIs
<1> QED
  BY <1>3 DEF m

\* The window of a trade ends a fixed time after its first event, whichever
\* implementation stores the next row and however late that call's stamp is:
\* Go lowers the deadline and keeps its stamp, Python takes both over.
WindowIs(rows, window) ==
    EarliestDeadline(rows) = Min({r.firstSeen : r \in rows}) + window

LEMMA MergeKeepsWindow ==
    ASSUME NEW impl, NEW existing \in SUBSET Row,
           NEW t, NEW s, NEW now, NEW window \in Nat, NewRow(t, s, now, window) \in Row,
           existing # {} => WindowIs(existing, window)
    PROVE  WindowIs(existing \union {Merge(impl, existing, NewRow(t, s, now, window))}, window)
<1> DEFINE new    == NewRow(t, s, now, window)
           merged == Merge(impl, existing, new)
           D      == {r.deadline : r \in existing}
           F      == {r.firstSeen : r \in existing}
<1>1. now \in Nat /\ new \in Row /\ new.firstSeen = now /\ new.deadline = now + window
  BY RowsAssumption DEF NewRow, Row, Stamps
<1>2. merged \in Row
  BY <1>1, MergeKeepsKey
<1>3. D \in SUBSET Nat /\ F \in SUBSET Nat
  BY RowsAssumption DEF Row, Stamps
<1>4. /\ {r.deadline : r \in existing \union {merged}} = D \union {merged.deadline}
      /\ {r.firstSeen : r \in existing \union {merged}} = F \union {merged.firstSeen}
  OBVIOUS
<1>5. merged.deadline \in Nat /\ merged.firstSeen \in Nat
  BY <1>2, RowsAssumption DEF Row, Stamps
<1>6. CASE existing = {}
  <2>1. D = {} /\ F = {}
    BY <1>6
  <2>2. merged.deadline = now + window /\ merged.firstSeen = now
    <3>1. CASE impl = "go"
      <4>1. Min({new.deadline} \union D) = new.deadline
        <5>1. {new.deadline} \union D = {new.deadline} /\ new.deadline \in Nat
          BY <1>1, <2>1
        <5> HIDE DEF new, D
        <5>2. Min({new.deadline}) = new.deadline
          BY <5>1, MinIs
        <5> QED
          BY <5>1, <5>2
      <4>2. merged = [new EXCEPT !.deadline = Min({new.deadline} \union D)]
        BY <3>1 DEF Merge, ClampDeadline
      <4> HIDE DEF merged
      <4> QED
        BY <1>1, <4>1, <4>2 DEF Row
    <3>2. CASE impl # "go"
      BY <1>1, <1>6, <3>2 DEF Merge, InheritStamps
    <3> QED
      BY <3>1, <3>2
  <2>3. Min({merged.deadline}) = merged.deadline /\ Min({merged.firstSeen}) = merged.firstSeen
    BY <1>5, MinIs
  <2> QED
    BY <1>4, <2>1, <2>2, <2>3 DEF WindowIs, EarliestDeadline
<1>7. CASE existing # {}
  <2>1. D # {} /\ F # {} /\ Min(D) = Min(F) + window /\ Min(D) \in Nat /\ Min(F) \in Nat
    <3>1. D # {} /\ F # {} /\ Min(D) = Min(F) + window
      BY <1>7 DEF WindowIs, EarliestDeadline
    <3> QED
      BY <1>3, <3>1, MinOfNats
  <2>2. CASE impl = "go"
    <3>1. Min(D \union {new.deadline}) = IF now + window <= Min(D) THEN now + window ELSE Min(D)
      <4>1. now + window \in Nat /\ new.deadline = now + window
        BY <1>1
      <4> HIDE DEF D, new
      <4> QED
        BY <1>3, <2>1, <4>1, MinOfOneMore
    <3>2. merged = [new EXCEPT !.deadline = Min(D \union {new.deadline})]
      <4>1. {new.deadline} \union D = D \union {new.deadline}
        OBVIOUS
      <4> QED
        BY <2>2, <4>1 DEF Merge, ClampDeadline
    <3>3. merged.deadline = (IF now + window <= Min(D) THEN now + window ELSE Min(D))
          /\ merged.firstSeen = now
      <4> HIDE DEF merged
      <4> QED
        BY <1>1, <3>1, <3>2 DEF Row
    <3>4. Min(D \union {merged.deadline}) = merged.deadline
      <4>1. Min(D \union {merged.deadline})
              = IF merged.deadline <= Min(D) THEN merged.deadline ELSE Min(D)
        BY <1>3, <1>5, <2>1, MinOfOneMore
      <4> HIDE DEF merged, D
      <4> QED
        BY <1>1, <2>1, <3>3, <4>1
    <3>5. Min(F \union {now}) = IF now <= Min(F) THEN now ELSE Min(F)
      BY <1>1, <1>3, <2>1, MinOfOneMore
    <3>6. merged.deadline = Min(F \union {merged.firstSeen}) + window
      <4> HIDE DEF merged, D, F
      <4> QED
        BY <1>1, <2>1, <3>3, <3>5
    <3> QED
      BY <1>4, <3>4, <3>6 DEF WindowIs, EarliestDeadline
  <2>3. CASE impl # "go"
    <3>1. merged = [new EXCEPT !.firstSeen = Min(F), !.deadline = Min(D)]
      BY <1>7, <2>3 DEF Merge, InheritStamps, EarliestDeadline
    <3>2. merged.firstSeen = Min(F) /\ merged.deadline = Min(D)
      <4> HIDE DEF merged, D, F
      <4> QED
        BY <1>1, <3>1 DEF Row
    <3>3. Min(D) \in D /\ Min(F) \in F
      BY <1>3, <2>1, MinOfNats
    <3>4. D \union {merged.deadline} = D /\ F \union {merged.firstSeen} = F
      BY <3>2, <3>3
    <3> QED
      BY <1>4, <2>1, <3>4 DEF WindowIs, EarliestDeadline
  <2> QED
    BY <2>2, <2>3
<1> QED
  BY <1>6, <1>7

\* The expected rows of a complete trade have exactly the expected sources.
LEMMA CompleteSources ==
    ASSUME NEW rows, NEW expected, HasEverySource(rows, expected)
    PROVE  SourcesOf(ExpectedEvents(rows, expected)) = expected
BY DEF HasEverySource, SourcesOf, ExpectedEvents
=============================================================================
