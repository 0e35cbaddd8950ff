--------------------------- MODULE EngineParityProofs ---------------------------
(***************************************************************************)
(* Theorems about EngineParity, for every set of trades and sources, every *)
(* window and every horizon.                                               *)
(*                                                                         *)
(* The two engines keep different rows.  What they agree on is where the   *)
(* window of a trade is anchored: as long as stamps come in order, each    *)
(* row ends with the window of the trade's first event, and one row has    *)
(* that event's stamp (Anchored).  The entries depend on nothing else.     *)
(***************************************************************************)
EXTENDS EngineParity, EventRowsProofs, FiniteSetTheorems, SequenceTheorems, TLAPS

\* The time stamps of ingest calls.
EventStamps == 0..Horizon - Window

\* Finitely many rows, all of expected sources.
RowsFit(ev) ==
    /\ ev \in SUBSET Row /\ IsFiniteSet(ev)
    /\ \A r \in ev : r.source \in Expected

Inv ==
    /\ DOMAIN events = Engines /\ DOMAIN audit = Engines
    /\ \A e \in Engines : RowsFit(events[e]) /\ audit[e] \in Seq(AuditEntry)
    /\ last \in Stamps /\ ordered \in BOOLEAN

-----------------------------------------------------------------------------
(***************************************************************************)
(* The operators.                                                          *)
(***************************************************************************)

\* A new row fits into the horizon of the model.
LEMMA NewRowIsRow ==
    ASSUME NEW t \in Trades, NEW s \in Expected, NEW now \in EventStamps
    PROVE  /\ NewRow(t, s, now, Window) \in Row
           /\ now \in Stamps /\ now \in Nat /\ Window \in Nat
<1>1. Horizon \in Nat /\ Window \in Nat /\ s \in Sources
  BY RowsAssumption, MemoryAssumption
<1>2. now \in Nat /\ now + Window \in Nat /\ now + Window <= Horizon /\ now <= Horizon
  BY <1>1 DEF EventStamps
<1> QED
  BY <1>1, <1>2 DEF NewRow, Row, Stamps

\* A number of a finite set has a rank, the number of elements below it.
LEMMA RankIsNat ==
    ASSUME NEW T \in SUBSET Nat, IsFiniteSet(T), NEW t \in T
    PROVE  /\ IsFiniteSet({u \in T : u < t})
           /\ Cardinality({u \in T : u < t}) \in Nat
           /\ Cardinality({u \in T : u < t}) < Cardinality(T)
<1> DEFINE A == {u \in T : u < t}
<1>1. A \in SUBSET T /\ t \notin A
  OBVIOUS
<1> HIDE DEF A
<1>2. IsFiniteSet(A) /\ Cardinality(A) <= Cardinality(T) /\ Cardinality(A) # Cardinality(T)
  BY <1>1, FS_Subset
<1>3. Cardinality(A) \in Nat /\ Cardinality(T) \in Nat
  BY <1>2, FS_CardinalityType
<1>4. Cardinality(A) < Cardinality(T)
  BY <1>2, <1>3
<1> QED
  BY <1>2, <1>3, <1>4 DEF A

\* The rank of a number in a set tells it from every other number of the set.
LEMMA RanksDiffer ==
    ASSUME NEW T \in SUBSET Nat, IsFiniteSet(T), NEW t \in T, NEW v \in T, t < v
    PROVE  Cardinality({u \in T : u < t}) < Cardinality({u \in T : u < v})
<1> DEFINE A == {u \in T : u < t}
           B == {u \in T : u < v}
<1>1. IsFiniteSet(A) /\ IsFiniteSet(B) /\ Cardinality(A) \in Nat /\ Cardinality(B) \in Nat
  BY RankIsNat
<1>2. A \subseteq B /\ t \in B /\ t \notin A
  <2>1. \A u \in T : u \in Nat
    OBVIOUS
  <2>2. ASSUME NEW u \in T, u < t PROVE u < v
    <3>1. u \in Nat /\ t \in Nat /\ v \in Nat
      BY <2>1
    <3> QED
      BY <2>2, <3>1
  <2>3. A \subseteq B
    BY <2>2
  <2>4. t \in B
    OBVIOUS
  <2>5. t \notin A
    BY <2>1
  <2> QED
    BY <2>3, <2>4, <2>5
<1> HIDE DEF A, B
<1>3. Cardinality(A) <= Cardinality(B) /\ (Cardinality(A) = Cardinality(B) => A = B)
  BY <1>1, <1>2, FS_Subset
<1>4. Cardinality(A) < Cardinality(B)
  BY <1>1, <1>2, <1>3
<1> QED
  BY <1>4 DEF A, B

\* A sweep visits each of its trades once.
LEMMA OrderIs ==
    ASSUME NEW T \in SUBSET Nat, IsFiniteSet(T)
    PROVE  /\ InOrder(T) \in [1..Cardinality(T) -> T]
           /\ \A i, j \in 1..Cardinality(T) : InOrder(T)[i] = InOrder(T)[j] => i = j
           /\ \A t \in T : \E i \in 1..Cardinality(T) : InOrder(T)[i] = t
<1> DEFINE n    == Cardinality(T)
           Rank == [t \in T |-> Cardinality({u \in T : u < t}) + 1]
<1>1. n \in Nat
  BY FS_CardinalityType
<1>2. \A t \in T : Rank[t] \in 1..n
  <2> SUFFICES ASSUME NEW t \in T PROVE Rank[t] \in 1..n
    OBVIOUS
  <2> DEFINE rank == Cardinality({u \in T : u < t})
  <2>1. rank \in Nat /\ rank < n
    BY RankIsNat
  <2>2. Rank[t] = rank + 1
    OBVIOUS
  <2> HIDE DEF rank, Rank, n
  <2> QED
    BY <1>1, <2>1, <2>2
<1>3. \A t, v \in T : Rank[t] = Rank[v] => t = v
  <2> SUFFICES ASSUME NEW t \in T, NEW v \in T, t # v PROVE Rank[t] # Rank[v]
    OBVIOUS
  <2>1. /\ Cardinality({u \in T : u < t}) \in Nat
        /\ Cardinality({u \in T : u < v}) \in Nat
    BY RankIsNat
  <2>2. t < v \/ v < t
    OBVIOUS
  <2>3. Cardinality({u \in T : u < t}) # Cardinality({u \in T : u < v})
    BY <2>1, <2>2, RanksDiffer
  <2> QED
    BY <2>1, <2>3
<1>4. Rank \in Surjection(T, 1..n)
  <2>1. Rank \in Injection(T, 1..n)
    BY <1>2, <1>3 DEF Injection, IsInjective
  <2>2. IsFiniteSet(1..n) /\ Cardinality(1..n) = n
    BY <1>1, FS_Interval
  <2> HIDE DEF Rank
  <2> QED
    BY <2>1, <2>2, FS_Injection
<1>5. \A i \in 1..n : \E t \in T : Cardinality({u \in T : u < t}) = i - 1
  <2> SUFFICES ASSUME NEW i \in 1..n
               PROVE  \E t \in T : Cardinality({u \in T : u < t}) = i - 1
    OBVIOUS
  <2>1. PICK t \in T : Rank[t] = i
    BY <1>4 DEF Surjection
  <2> DEFINE rank == Cardinality({u \in T : u < t})
  <2>2. rank \in Nat /\ Rank[t] = rank + 1
    BY RankIsNat
  <2>3. rank = i - 1
    <3> HIDE DEF rank, Rank, n
    <3> QED
      BY <1>1, <2>1, <2>2
  <2> QED
    BY <2>3
<1>6. \A i \in 1..n : InOrder(T)[i] \in T /\ Rank[InOrder(T)[i]] = i
  <2> SUFFICES ASSUME NEW i \in 1..n
               PROVE  InOrder(T)[i] \in T /\ Rank[InOrder(T)[i]] = i
    OBVIOUS
  <2> DEFINE x == CHOOSE t \in T : Cardinality({u \in T : u < t}) = i - 1
  <2>1. x \in T /\ Cardinality({u \in T : u < x}) = i - 1
    BY <1>5
  <2>2. InOrder(T)[i] = x
    BY DEF InOrder
  <2> HIDE DEF x
  <2> QED
    BY <2>1, <2>2
<1>7. InOrder(T) \in [1..n -> T]
  BY <1>6 DEF InOrder
<1>8. \A t \in T : InOrder(T)[Rank[t]] = t
  BY <1>2, <1>3, <1>6
<1> HIDE DEF Rank, n
<1>9. \A i, j \in 1..n : InOrder(T)[i] = InOrder(T)[j] => i = j
  BY <1>6
<1> QED
  BY <1>2, <1>7, <1>8, <1>9 DEF n

\* The trades that are due are finitely many and have rows.
LEMMA DueIs ==
    ASSUME NEW ev, RowsFit(ev), NEW now \in Stamps
    PROVE  /\ Due(ev, now) \in SUBSET Trades
           /\ Due(ev, now) \in SUBSET Nat
           /\ IsFiniteSet(Due(ev, now))
           /\ \A t \in Due(ev, now) : RowsOf(ev, t) # {}
<1> ev \in SUBSET Row /\ IsFiniteSet(ev)
  BY DEF RowsFit
<1> DEFINE Trade == [r \in ev |-> r.trade]
           named == {r.trade : r \in ev}
<1>1. Trade \in Surjection(ev, named)
  BY DEF Surjection
<1>2. IsFiniteSet(named)
  BY <1>1, FS_Surjection
<1>3. Due(ev, now) \in SUBSET named
  BY DEF Due, RowsOf
<1>4. IsFiniteSet(Due(ev, now))
  BY <1>2, <1>3, FS_Subset
<1> QED
  BY <1>4, RowsAssumption DEF Due

\* A sweep writes one break for each trade that is due and nothing else.
LEMMA BreaksIs ==
    ASSUME NEW ev, RowsFit(ev), NEW now \in Stamps
    PROVE  LET order == InOrder(Due(ev, now))
           IN  /\ Breaks(ev, now) \in Seq(AuditEntry)
               /\ Len(Breaks(ev, now)) = Cardinality(Due(ev, now))
               /\ Breaks(ev, now) = [i \in 1..Cardinality(Due(ev, now)) |->
                      BuildBreak(order[i], RowsOf(ev, order[i]), Expected, now)]
               /\ \A i \in 1..Cardinality(Due(ev, now)) :
                      /\ order[i] \in Due(ev, now)
                      /\ Breaks(ev, now)[i].trade = order[i]
<1> DEFINE T     == Due(ev, now)
           order == InOrder(T)
           n     == Cardinality(T)
<1>1. /\ T \in SUBSET Trades /\ T \in SUBSET Nat /\ IsFiniteSet(T)
      /\ \A t \in T : RowsOf(ev, t) # {}
  BY DueIs
<1>2. n \in Nat
  BY <1>1, FS_CardinalityType
<1>3. order \in [1..n -> T]
  BY <1>1, OrderIs
<1>4. Breaks(ev, now) = [i \in 1..n |-> BuildBreak(order[i], RowsOf(ev, order[i]), Expected, now)]
  BY <1>3 DEF Breaks
<1> HIDE DEF T, order, n
<1>5. ASSUME NEW i \in 1..n
      PROVE  /\ order[i] \in T
             /\ Breaks(ev, now)[i] \in AuditEntry
             /\ Breaks(ev, now)[i].trade = order[i]
  <2>1. order[i] \in T /\ order[i] \in Trades
    BY <1>1, <1>3
  <2>2. RowsOf(ev, order[i]) \in SUBSET Row /\ RowsOf(ev, order[i]) # {}
    BY <1>1, <2>1 DEF RowsFit, RowsOf
  <2>3. Expected \in SUBSET Sources
    BY MemoryAssumption
  <2>4. /\ BuildBreak(order[i], RowsOf(ev, order[i]), Expected, now) \in AuditEntry
        /\ BuildBreak(order[i], RowsOf(ev, order[i]), Expected, now).trade = order[i]
    BY <2>1, <2>2, <2>3, BreakIsEntry
  <2> QED
    BY <1>4, <2>1, <2>4
<1>6. Breaks(ev, now) \in [1..n -> AuditEntry]
  BY <1>4, <1>5
<1>7. Breaks(ev, now) \in Seq(AuditEntry) /\ Len(Breaks(ev, now)) = n
  BY <1>2, <1>6
<1> QED
  BY <1>4, <1>5, <1>7 DEF T, order, n

\* The row that an event of an open trade would be, and the trade with it.
StoredRow(impl, ev, t, s, now) == Merge(impl, RowsOf(ev, t), NewRow(t, s, now, Window))
Completed(impl, ev, t, s, now) == RowsOf(ev, t) \union {StoredRow(impl, ev, t, s, now)}

\* An event that comes too late or a second time.
Ignored(ev, log, t, s) == InAudit(log, t) \/ s \in SourcesOf(RowsOf(ev, t))

\* An ingest leaves the store as it was, adds a row, or reconciles the trade.
LEMMA IngestedIs ==
    ASSUME NEW impl, NEW ev, NEW log, NEW t, NEW s, NEW now
    PROVE  Ingested(impl, ev, log, t, s, now) =
               IF Ignored(ev, log, t, s)
               THEN [events |-> ev, audit |-> log]
               ELSE IF HasEverySource(Completed(impl, ev, t, s, now), Expected)
               THEN [events |-> ev \ RowsOf(ev, t),
                     audit  |-> Append(log, BuildReconciled(impl, t,
                                   ExpectedEvents(Completed(impl, ev, t, s, now), Expected), now))]
               ELSE [events |-> ev \union {StoredRow(impl, ev, t, s, now)}, audit |-> log]
BY DEF Ingested, Ignored, Completed, StoredRow

\* The rows of a trade with a new one are rows of expected sources.
LEMMA CompletedIs ==
    ASSUME NEW impl, NEW ev, RowsFit(ev),
           NEW t \in Trades, NEW s \in Expected, NEW now \in EventStamps
    PROVE  /\ StoredRow(impl, ev, t, s, now) \in Row
           /\ StoredRow(impl, ev, t, s, now).trade = t
           /\ StoredRow(impl, ev, t, s, now).source = s
           /\ Completed(impl, ev, t, s, now) \in (SUBSET Row) \ {{}}
           /\ ExpectedEvents(Completed(impl, ev, t, s, now), Expected)
                = Completed(impl, ev, t, s, now)
<1> DEFINE new == NewRow(t, s, now, Window)
           row == StoredRow(impl, ev, t, s, now)
<1>1. new \in Row /\ new.trade = t /\ new.source = s
  BY NewRowIsRow DEF NewRow
<1>2. RowsOf(ev, t) \in SUBSET Row
  BY DEF RowsFit, RowsOf
<1>3. row = Merge(impl, RowsOf(ev, t), new)
  BY DEF StoredRow
<1> HIDE DEF new, row
<1>4. row \in Row /\ row.trade = t /\ row.source = s
  BY <1>1, <1>2, <1>3, MergeKeepsKey
<1>5. Completed(impl, ev, t, s, now) = RowsOf(ev, t) \union {row}
  BY DEF Completed, row
<1>6. \A r \in RowsOf(ev, t) \union {row} : r.source \in Expected
  BY <1>4 DEF RowsFit, RowsOf
<1> QED
  BY <1>2, <1>4, <1>5, <1>6 DEF row, ExpectedEvents

-----------------------------------------------------------------------------
(***************************************************************************)
(* Types.                                                                  *)
(***************************************************************************)

\* An ingest keeps the tables well-formed.
LEMMA IngestedTypes ==
    ASSUME NEW impl, NEW ev, RowsFit(ev), NEW log \in Seq(AuditEntry),
           NEW t \in Trades, NEW s \in Expected, NEW now \in EventStamps
    PROVE  LET result == Ingested(impl, ev, log, t, s, now)
           IN  RowsFit(result.events) /\ result.audit \in Seq(AuditEntry)
<1> DEFINE result == Ingested(impl, ev, log, t, s, now)
           row    == StoredRow(impl, ev, t, s, now)
           rows   == Completed(impl, ev, t, s, now)
           entry  == BuildReconciled(impl, t, ExpectedEvents(rows, Expected), now)
<1>1. /\ row \in Row /\ row.source = s /\ rows \in (SUBSET Row) \ {{}}
      /\ ExpectedEvents(rows, Expected) = rows
  BY CompletedIs
<1>2. \/ result = [events |-> ev, audit |-> log]
      \/ result = [events |-> ev \union {row}, audit |-> log]
      \/ result = [events |-> ev \ RowsOf(ev, t), audit |-> Append(log, entry)]
  BY IngestedIs
<1>3. now \in Stamps
  BY NewRowIsRow
<1> HIDE DEF result, row, rows
<1>4. entry \in AuditEntry
  BY <1>1, <1>3, ReconciledIsEntry
<1>5. Append(log, entry) \in Seq(AuditEntry)
  BY <1>4
<1>6. RowsFit(ev \union {row})
  BY <1>1, FS_AddElement DEF RowsFit
<1>7. RowsFit(ev \ RowsOf(ev, t))
  BY FS_Difference DEF RowsFit
<1> HIDE DEF entry
<1>8. \/ result.events = ev /\ result.audit = log
      \/ result.events = ev \union {row} /\ result.audit = log
      \/ result.events = ev \ RowsOf(ev, t) /\ result.audit = Append(log, entry)
  BY <1>2
<1>9. RowsFit(result.events) /\ result.audit \in Seq(AuditEntry)
  BY <1>5, <1>6, <1>7, <1>8
<1> QED
  BY <1>9 DEF result

\* So does a sweep.
LEMMA SweptTypes ==
    ASSUME NEW ev, RowsFit(ev), NEW log \in Seq(AuditEntry), NEW now \in Stamps
    PROVE  LET result == Swept(ev, log, now)
           IN  RowsFit(result.events) /\ result.audit \in Seq(AuditEntry)
<1> DEFINE rest == {r \in ev : r.trade \notin Due(ev, now)}
<1>1. rest \in SUBSET ev
  OBVIOUS
<1>2. RowsFit(rest)
  BY <1>1, FS_Subset DEF RowsFit
<1>3. Breaks(ev, now) \in Seq(AuditEntry)
  BY BreaksIs
<1>4. log \o Breaks(ev, now) \in Seq(AuditEntry)
  BY <1>3
<1>5. Swept(ev, log, now) = [events |-> rest, audit |-> log \o Breaks(ev, now)]
  BY DEF Swept
<1> HIDE DEF rest
<1> QED
  BY <1>2, <1>4, <1>5

\* What a call does to each store.
LEMMA IngestSteps ==
    ASSUME NEW t, NEW s, NEW now, Ingest(t, s, now)
    PROVE  /\ DOMAIN events' = Engines /\ DOMAIN audit' = Engines
           /\ \A e \in Engines :
                 /\ events'[e] = Ingested(e, events[e], audit[e], t, s, now).events
                 /\ audit'[e] = Ingested(e, events[e], audit[e], t, s, now).audit
BY DEF Ingest

LEMMA SweepSteps ==
    ASSUME NEW now, Sweep(now)
    PROVE  /\ DOMAIN events' = Engines /\ DOMAIN audit' = Engines
           /\ \A e \in Engines :
                 /\ events'[e] = Swept(events[e], audit[e], now).events
                 /\ audit'[e] = Swept(events[e], audit[e], now).audit
BY DEF Sweep

LEMMA NextInv == Inv /\ [Next]_vars => Inv'
<1> SUFFICES ASSUME Inv, [Next]_vars PROVE Inv'
  OBVIOUS
<1>1. ASSUME NEW t \in Trades, NEW s \in Expected, NEW now \in EventStamps, Ingest(t, s, now)
      PROVE  Inv'
  <2>1. ASSUME NEW e \in Engines
        PROVE  RowsFit(events'[e]) /\ audit'[e] \in Seq(AuditEntry)
    BY <1>1, IngestSteps, IngestedTypes DEF Inv
  <2>2. last' \in Stamps /\ ordered' \in BOOLEAN
    BY <1>1, NewRowIsRow DEF Inv, Ingest, Stamped
  <2> QED
    BY <1>1, <2>1, <2>2, IngestSteps DEF Inv, RowsFit
<1>2. ASSUME NEW now \in Stamps, Sweep(now) PROVE Inv'
  <2>1. ASSUME NEW e \in Engines
        PROVE  RowsFit(events'[e]) /\ audit'[e] \in Seq(AuditEntry)
    BY <1>2, SweepSteps, SweptTypes DEF Inv
  <2>2. last' \in Stamps /\ ordered' \in BOOLEAN
    BY <1>2 DEF Inv, Sweep, Stamped
  <2> QED
    BY <1>2, <2>1, <2>2, SweepSteps DEF Inv, RowsFit
<1>3. CASE UNCHANGED vars
  BY <1>3 DEF vars, Inv, RowsFit
<1> QED
  BY <1>1, <1>2, <1>3 DEF Next, EventStamps

LEMMA InitInv == Init => Inv
<1> SUFFICES ASSUME Init PROVE Inv
  OBVIOUS
<1>1. 0 \in Stamps
  BY RowsAssumption DEF Stamps
<1>2. IsFiniteSet({})
  BY FS_EmptySet
<1> QED
  BY <1>1, <1>2 DEF Init, Inv, RowsFit

LEMMA Invariance == Spec => []Inv
BY InitInv, NextInv, PTL DEF Spec

-----------------------------------------------------------------------------
(***************************************************************************)
(* The engines agree.                                                      *)
(***************************************************************************)

\* The rows end with the window that the first of them opened.
Anchored(rows, first) ==
    /\ \A r \in rows : first <= r.firstSeen /\ r.deadline = first + Window
    /\ rows # {} => \E r \in rows : r.firstSeen = first

LEMMA AnchoredRows ==
    ASSUME NEW rows \in (SUBSET Row) \ {{}}, NEW first \in Nat, Anchored(rows, first)
    PROVE  /\ Min({r.firstSeen : r \in rows}) = first
           /\ EarliestDeadline(rows) = first + Window
           /\ Max({r.deadline : r \in rows}) = first + Window
<1> DEFINE D == {r.deadline : r \in rows}
           F == {r.firstSeen : r \in rows}
<1>1. D \in SUBSET Stamps /\ D \in SUBSET Nat /\ F \in SUBSET Nat
  BY RowsAssumption DEF Row, Stamps
<1>2. D = {first + Window}
  BY DEF Anchored
<1>3. first \in F /\ \A x \in F : first <= x
  BY DEF Anchored
<1> HIDE DEF D, F
<1>4. Min(F) = first
  BY <1>1, <1>3, MinIs
<1>5. Min(D) = first + Window
  BY <1>1, <1>2, MinOfNats
<1>6. Max(D) = first + Window
  BY <1>1, <1>2, MaxOfStamps
<1> QED
  BY <1>4, <1>5, <1>6 DEF D, F, EarliestDeadline

\* Each implementation keeps the anchor when a later event arrives: Go lowers
\* the new row's deadline to it, Python takes both stamps over.
LEMMA MergeAnchors ==
    ASSUME NEW impl, NEW existing \in SUBSET Row,
           NEW t \in Trades, NEW s \in Expected, NEW now \in EventStamps,
           NEW first \in Nat, Anchored(existing, first), first <= now,
           existing = {} => first = now
    PROVE  Anchored(existing \union {Merge(impl, existing, NewRow(t, s, now, Window))}, first)
<1> DEFINE new    == NewRow(t, s, now, Window)
           merged == Merge(impl, existing, new)
           D      == {r.deadline : r \in existing}
<1>1. /\ new \in Row /\ new.firstSeen = now /\ new.deadline = now + Window
      /\ now \in Nat /\ Window \in Nat
  BY NewRowIsRow DEF NewRow
<1>2. merged.deadline = first + Window
  <2>1. CASE impl = "go"
    <3>1. first + Window \in {new.deadline} \union D
      <4>1. CASE existing = {}
        BY <1>1, <4>1
      <4>2. CASE existing # {}
        BY <4>2 DEF Anchored
      <4> QED
        BY <4>1, <4>2
    <3>2. \A y \in {new.deadline} \union D : first + Window <= y
      BY <1>1 DEF Anchored
    <3>3. {new.deadline} \union D \in SUBSET Nat
      BY <1>1, RowsAssumption DEF Row, Stamps
    <3> HIDE DEF new, D
    <3>4. Min({new.deadline} \union D) = first + Window
      BY <3>1, <3>2, <3>3, MinIs
    <3>5. merged = [new EXCEPT !.deadline = Min({new.deadline} \union D)]
      BY <2>1 DEF Merge, ClampDeadline, D
    <3> HIDE DEF merged
    <3> QED
      BY <1>1, <3>4, <3>5 DEF Row
  <2>2. CASE impl # "go" /\ existing = {}
    BY <1>1, <2>2 DEF Merge, InheritStamps
  <2>3. CASE impl # "go" /\ existing # {}
    <3>1. EarliestDeadline(existing) = first + Window
      BY <2>3, AnchoredRows
    <3>2. merged = [new EXCEPT !.firstSeen = Min({r.firstSeen : r \in existing}),
                               !.deadline = EarliestDeadline(existing)]
      BY <2>3 DEF Merge, InheritStamps
    <3> HIDE DEF merged, new
    <3> QED
      BY <1>1, <3>1, <3>2 DEF Row
  <2> QED
    BY <2>1, <2>2, <2>3
<1>3. first <= merged.firstSeen /\ (existing = {} => merged.firstSeen = first)
  <2>1. CASE impl = "go"
    <3>1. merged = [new EXCEPT !.deadline = Min({new.deadline} \union D)]
      BY <2>1 DEF Merge, ClampDeadline
    <3> HIDE DEF merged, new, D
    <3>2. merged.firstSeen = now
      BY <1>1, <3>1 DEF Row
    <3> QED
      BY <3>2
  <2>2. CASE impl # "go" /\ existing = {}
    BY <1>1, <2>2 DEF Merge, InheritStamps
  <2>3. CASE impl # "go" /\ existing # {}
    <3>1. Min({r.firstSeen : r \in existing}) = first
      BY <2>3, AnchoredRows
    <3>2. merged = [new EXCEPT !.firstSeen = Min({r.firstSeen : r \in existing}),
                               !.deadline = EarliestDeadline(existing)]
      BY <2>3 DEF Merge, InheritStamps
    <3> HIDE DEF merged, new
    <3>3. merged.firstSeen = first
      BY <1>1, <3>1, <3>2 DEF Row
    <3> QED
      BY <2>3, <3>3
  <2> QED
    BY <2>1, <2>2, <2>3
<1> HIDE DEF merged
<1> QED
  BY <1>2, <1>3 DEF Anchored, merged

\* The entries depend on the sources and the anchor only.
LEMMA SameEntries ==
    ASSUME NEW rows \in (SUBSET Row) \ {{}}, NEW others \in (SUBSET Row) \ {{}},
           SourcesOf(rows) = SourcesOf(others),
           NEW first \in Nat, Anchored(rows, first), Anchored(others, first)
    PROVE  \A impl, t, now :
              /\ BuildReconciled(impl, t, rows, now) = BuildReconciled(impl, t, others, now)
              /\ BuildBreak(t, rows, Expected, now) = BuildBreak(t, others, Expected, now)
<1>1. /\ Min({r.firstSeen : r \in rows}) = Min({r.firstSeen : r \in others})
      /\ Max({r.deadline : r \in rows}) = Max({r.deadline : r \in others})
  BY AnchoredRows
<1> QED
  BY <1>1 DEF BuildReconciled, BuildBreak

\* The two engines make entries of one trade that differ in the duration only.
LEMMA EntriesAlike ==
    ASSUME NEW t \in Trades, NEW rows \in (SUBSET Row) \ {{}}, NEW now \in Stamps,
           NEW first \in 0..now, Anchored(rows, first)
    PROVE  SameEntry(BuildReconciled("go", t, rows, now), BuildReconciled("python", t, rows, now))
<1> DEFINE d          == now - first
           m(impl)    == MatchDuration(impl, d)
           entry(impl) ==
               [trade |-> t, outcome |-> "reconciled", sources |-> SourcesOf(rows), at |-> now,
                detail |-> [matchDuration |-> m(impl)]]
<1>1. d \in Nat /\ first \in Nat
  BY RowsAssumption DEF Stamps
<1>2. Min({r.firstSeen : r \in rows}) = first
  BY <1>1, AnchoredRows
<1>3. \A impl : BuildReconciled(impl, t, rows, now) = entry(impl)
  BY <1>2 DEF BuildReconciled
<1>4. \/ m("python") = m("go")
      \/ m("go") * Milli \in FallsShort /\ m("python") = m("go") - 1
  BY <1>1, DurationsAlike
<1> HIDE DEF m
<1>5. /\ entry("go").outcome = "reconciled" /\ entry("go").detail.matchDuration = m("go")
      /\ m("python") = m("go") - 1 =>
            entry("python") = [entry("go") EXCEPT !.detail.matchDuration = @ - 1]
  OBVIOUS
<1>6. m("python") = m("go") => entry("python") = entry("go")
  OBVIOUS
<1> HIDE DEF entry
<1> QED
  BY <1>3, <1>4, <1>5, <1>6 DEF SameEntry

\* Logs that are the same name the same trades.
LEMMA SameTrades ==
    ASSUME NEW go \in Seq(AuditEntry), NEW python \in Seq(AuditEntry), SameLog(go, python), NEW t
    PROVE  InAudit(go, t) <=> InAudit(python, t)
<1>1. DOMAIN go = DOMAIN python
  BY DEF SameLog
<1>2. ASSUME NEW i \in DOMAIN go PROVE go[i].trade = python[i].trade
  <2>1. go[i] \in AuditEntry /\ SameEntry(go[i], python[i])
    BY DEF SameLog
  <2>2. \A d : [go[i] EXCEPT !.detail.matchDuration = d].trade = go[i].trade
    BY <2>1 DEF AuditEntry
  <2> QED
    BY <2>1, <2>2 DEF SameEntry
<1> QED
  BY <1>1, <1>2 DEF InAudit

\* They stay the same when entries that are the same are appended.
LEMMA SameLogGrows ==
    ASSUME NEW go \in Seq(AuditEntry), NEW python \in Seq(AuditEntry), SameLog(go, python)
    PROVE  /\ \A a, b \in AuditEntry :
                  SameEntry(a, b) => SameLog(Append(go, a), Append(python, b))
           /\ \A more \in Seq(AuditEntry) : SameLog(go \o more, python \o more)
<1>1. Len(go) = Len(python) /\ \A i \in 1..Len(go) : SameEntry(go[i], python[i])
  BY DEF SameLog
<1>2. ASSUME NEW a \in AuditEntry, NEW b \in AuditEntry, SameEntry(a, b)
      PROVE  SameLog(Append(go, a), Append(python, b))
  BY <1>1, <1>2 DEF SameLog
<1>3. ASSUME NEW more \in Seq(AuditEntry) PROVE SameLog(go \o more, python \o more)
  <2>1. \A i \in 1..Len(more) : SameEntry(more[i], more[i])
    BY DEF SameEntry
  <2>2. Len(go \o more) = Len(go) + Len(more) /\ Len(python \o more) = Len(python) + Len(more)
    OBVIOUS
  <2>3. ASSUME NEW i \in 1..Len(go) + Len(more)
        PROVE  SameEntry((go \o more)[i], (python \o more)[i])
    <3>1. CASE i <= Len(go)
      <4>1. (go \o more)[i] = go[i] /\ (python \o more)[i] = python[i] /\ i \in 1..Len(go)
        BY <1>1, <3>1
      <4> QED
        BY <1>1, <4>1
    <3>2. CASE i > Len(go)
      <4>1. /\ (go \o more)[i] = more[i - Len(go)] /\ (python \o more)[i] = more[i - Len(go)]
            /\ i - Len(go) \in 1..Len(more)
        BY <1>1, <3>2
      <4> QED
        BY <2>1, <4>1
    <3>3. i <= Len(go) \/ i > Len(go)
      <4>1. Len(go) \in Int /\ i \in Int
        OBVIOUS
      <4> QED
        BY <4>1
    <3> QED
      BY <3>1, <3>2, <3>3
  <2>4. DOMAIN (go \o more) = 1..Len(go) + Len(more)
    BY <2>2
  <2> QED
    BY <1>1, <2>2, <2>3, <2>4 DEF SameLog
<1> QED
  BY <1>2, <1>3

\* The rows of a trade in the two stores.
Alike(rows, others, time) ==
    /\ SourcesOf(rows) = SourcesOf(others)
    /\ \E first \in 0..time : Anchored(rows, first) /\ Anchored(others, first)

Parallel ==
    ordered =>
        /\ SameLog(audit["go"], audit["python"])
        /\ \A t \in Trades : Alike(RowsOf(events["go"], t), RowsOf(events["python"], t), last)

\* Both stores find the same trades due and write the same breaks.
LEMMA SameBreaks ==
    ASSUME NEW ev, NEW other, RowsFit(ev), RowsFit(other), NEW time \in Nat,
           \A t \in Trades : Alike(RowsOf(ev, t), RowsOf(other, t), time),
           NEW now \in Stamps
    PROVE  Due(ev, now) = Due(other, now) /\ Breaks(ev, now) = Breaks(other, now)
<1>1. ASSUME NEW t \in Trades, RowsOf(ev, t) # {} \/ RowsOf(other, t) # {}
      PROVE  /\ RowsOf(ev, t) # {} /\ RowsOf(other, t) # {}
             /\ EarliestDeadline(RowsOf(ev, t)) = EarliestDeadline(RowsOf(other, t))
             /\ BuildBreak(t, RowsOf(ev, t), Expected, now)
                  = BuildBreak(t, RowsOf(other, t), Expected, now)
  <2>1. RowsOf(ev, t) \in SUBSET Row /\ RowsOf(other, t) \in SUBSET Row
    BY DEF RowsFit, RowsOf
  <2>2. PICK first \in 0..time : Anchored(RowsOf(ev, t), first) /\ Anchored(RowsOf(other, t), first)
    BY DEF Alike
  <2>3. SourcesOf(RowsOf(ev, t)) = SourcesOf(RowsOf(other, t))
    BY DEF Alike
  <2>4. RowsOf(ev, t) # {} /\ RowsOf(other, t) # {}
    BY <1>1, <2>3 DEF SourcesOf
  <2>5. first \in Nat
    OBVIOUS
  <2>6. /\ EarliestDeadline(RowsOf(ev, t)) = first + Window
        /\ EarliestDeadline(RowsOf(other, t)) = first + Window
    BY <2>1, <2>2, <2>4, <2>5, AnchoredRows
  <2>7. BuildBreak(t, RowsOf(ev, t), Expected, now) = BuildBreak(t, RowsOf(other, t), Expected, now)
    BY <2>1, <2>2, <2>3, <2>4, <2>5, SameEntries
  <2> QED
    BY <2>4, <2>6, <2>7
<1>2. Due(ev, now) = Due(other, now)
  BY <1>1 DEF Due
<1> DEFINE T     == Due(ev, now)
           order == InOrder(T)
<1>3. /\ Breaks(ev, now) = [i \in 1..Cardinality(T) |->
             BuildBreak(order[i], RowsOf(ev, order[i]), Expected, now)]
      /\ Breaks(other, now) = [i \in 1..Cardinality(T) |->
             BuildBreak(order[i], RowsOf(other, order[i]), Expected, now)]
      /\ \A i \in 1..Cardinality(T) : order[i] \in T
  BY <1>2, BreaksIs
<1>4. \A t \in T : t \in Trades /\ RowsOf(ev, t) # {}
  BY DEF Due
<1> HIDE DEF T, order
<1>5. \A i \in 1..Cardinality(T) :
          BuildBreak(order[i], RowsOf(ev, order[i]), Expected, now)
            = BuildBreak(order[i], RowsOf(other, order[i]), Expected, now)
  BY <1>1, <1>3, <1>4
<1>6. Breaks(ev, now) = Breaks(other, now)
  BY <1>3, <1>5
<1> QED
  BY <1>2, <1>6

\* A call with a stamp that is not older than the last one keeps the trades alike.
LEMMA IngestKeepsParallel ==
    ASSUME Inv, Parallel, ordered, NEW t \in Trades, NEW s \in Expected, NEW now \in EventStamps,
           last <= now, Ingest(t, s, now)
    PROVE  /\ SameLog(audit'["go"], audit'["python"])
           /\ \A u \in Trades : Alike(RowsOf(events'["go"], u), RowsOf(events'["python"], u), now)
<1> DEFINE ev(e)   == events[e]
           row(e)  == StoredRow(e, events[e], t, s, now)
           rows(e) == Completed(e, events[e], t, s, now)
           old(e)  == RowsOf(events[e], t)
<1>1. /\ SameLog(audit["go"], audit["python"])
      /\ \A u \in Trades : Alike(RowsOf(events["go"], u), RowsOf(events["python"], u), last)
  BY DEF Parallel
<1>2. /\ last \in Nat /\ now \in Nat /\ now \in Stamps
      /\ \A e \in Engines : RowsFit(events[e])
  BY NewRowIsRow, RowsAssumption DEF Inv, Stamps
<1>3. \A u \in Trades : Alike(RowsOf(events["go"], u), RowsOf(events["python"], u), now)
  BY <1>1, <1>2 DEF Alike
<1>4. PICK first \in 0..now :
          /\ Anchored(old("go"), first) /\ Anchored(old("python"), first)
          /\ old("go") = {} => first = now
          /\ old("python") = {} => first = now
  <2>1. SourcesOf(old("go")) = SourcesOf(old("python"))
    BY <1>1 DEF Alike
  <2>2. old("go") = {} <=> old("python") = {}
    BY <2>1 DEF SourcesOf
  <2>3. CASE old("go") = {}
    <3>1. Anchored({}, now)
      BY DEF Anchored
    <3> QED
      BY <1>2, <2>2, <2>3, <3>1
  <2>4. CASE old("go") # {}
    BY <1>3, <2>2, <2>4 DEF Alike
  <2> QED
    BY <2>3, <2>4
<1>5. ASSUME NEW e \in Engines
      PROVE  /\ row(e).trade = t /\ row(e).source = s
             /\ rows(e) = old(e) \union {row(e)} /\ rows(e) \in (SUBSET Row) \ {{}}
             /\ ExpectedEvents(rows(e), Expected) = rows(e)
             /\ old(e) \in SUBSET Row
             /\ SourcesOf(rows(e)) = SourcesOf(old(e)) \union {s}
  <2>1. /\ row(e).trade = t /\ row(e).source = s /\ rows(e) \in (SUBSET Row) \ {{}}
        /\ ExpectedEvents(rows(e), Expected) = rows(e)
    BY <1>2, CompletedIs
  <2>2. rows(e) = old(e) \union {row(e)}
    BY DEF Completed
  <2>3. old(e) \in SUBSET Row
    BY <1>2 DEF RowsFit, RowsOf
  <2> HIDE DEF row, rows, old
  <2> QED
    BY <2>1, <2>2, <2>3 DEF SourcesOf
<1>6. Anchored(rows("go"), first) /\ Anchored(rows("python"), first)
  <2>1. ASSUME NEW e \in Engines, Anchored(old(e), first), old(e) = {} => first = now
        PROVE  Anchored(rows(e), first)
    <3>1. old(e) \in SUBSET Row
      BY <1>5
    <3>2. Anchored(old(e) \union {Merge(e, old(e), NewRow(t, s, now, Window))}, first)
      <4>1. first \in Nat /\ first <= now
        BY <1>2
      <4> HIDE DEF old
      <4> QED
        BY <2>1, <3>1, <4>1, MergeAnchors
    <3> QED
      BY <3>2 DEF Completed, StoredRow
  <2> HIDE DEF old, rows
  <2> QED
    BY <1>4, <2>1 DEF Engines
<1>7. /\ SourcesOf(old("go")) = SourcesOf(old("python"))
      /\ SourcesOf(rows("go")) = SourcesOf(rows("python"))
  <2>1. SourcesOf(old("go")) = SourcesOf(old("python"))
    BY <1>1 DEF Alike
  <2> QED
    BY <1>5, <2>1 DEF Engines
<1>8. /\ Ignored(events["go"], audit["go"], t, s) <=> Ignored(events["python"], audit["python"], t, s)
      /\ HasEverySource(rows("go"), Expected) <=> HasEverySource(rows("python"), Expected)
  <2>1. InAudit(audit["go"], t) <=> InAudit(audit["python"], t)
    BY <1>1, SameTrades DEF Inv, Engines
  <2> QED
    BY <1>7, <2>1 DEF Ignored, HasEverySource
<1> DEFINE after(e) == Ingested(e, events[e], audit[e], t, s, now)
<1>9. \A e \in Engines : events'[e] = after(e).events /\ audit'[e] = after(e).audit
  BY IngestSteps
<1>10. CASE Ignored(events["go"], audit["go"], t, s)
  <2>1. \A e \in Engines : after(e) = [events |-> events[e], audit |-> audit[e]]
    BY <1>8, <1>10, IngestedIs DEF Engines
  <2> HIDE DEF after
  <2>2. \A e \in Engines : events'[e] = events[e] /\ audit'[e] = audit[e]
    BY <1>9, <2>1
  <2> QED
    BY <1>1, <1>3, <2>2 DEF Engines
<1>11. CASE ~Ignored(events["go"], audit["go"], t, s) /\ ~HasEverySource(rows("go"), Expected)
  <2>1. ASSUME NEW e \in Engines
        PROVE  after(e) = [events |-> events[e] \union {row(e)}, audit |-> audit[e]]
    <3>1. ~Ignored(events[e], audit[e], t, s) /\ ~HasEverySource(rows(e), Expected)
      BY <1>8, <1>11 DEF Engines
    <3> QED
      BY <3>1, IngestedIs
  <2> HIDE DEF after, row, rows
  <2>2. \A e \in Engines : events'[e] = events[e] \union {row(e)} /\ audit'[e] = audit[e]
    BY <1>9, <2>1
  <2>3. ASSUME NEW e \in Engines
        PROVE  /\ RowsOf(events'[e], t) = rows(e)
               /\ \A u \in Trades : u # t => RowsOf(events'[e], u) = RowsOf(events[e], u)
    BY <1>5, <2>2 DEF RowsOf
  <2>4. Alike(rows("go"), rows("python"), now)
    BY <1>6, <1>7 DEF Alike
  <2> QED
    BY <1>1, <1>3, <2>2, <2>3, <2>4 DEF Engines
<1>12. CASE ~Ignored(events["go"], audit["go"], t, s) /\ HasEverySource(rows("go"), Expected)
  <2> DEFINE entry(e) == BuildReconciled(e, t, rows(e), now)
  <2>1. ASSUME NEW e \in Engines
        PROVE  after(e) = [events |-> events[e] \ old(e), audit |-> Append(audit[e], entry(e))]
    <3>1. ~Ignored(events[e], audit[e], t, s) /\ HasEverySource(rows(e), Expected)
      BY <1>8, <1>12 DEF Engines
    <3>2. after(e) = [events |-> events[e] \ old(e),
                      audit  |-> Append(audit[e], BuildReconciled(e, t,
                                    ExpectedEvents(rows(e), Expected), now))]
      BY <3>1, IngestedIs
    <3>3. ExpectedEvents(rows(e), Expected) = rows(e)
      BY <1>5
    <3> HIDE DEF after, rows, old
    <3> QED
      BY <3>2, <3>3
  <2>2. /\ SameEntry(entry("go"), entry("python"))
        /\ entry("go") \in AuditEntry /\ entry("python") \in AuditEntry
    <3> HIDE DEF rows
    <3>1. entry("python") = BuildReconciled("python", t, rows("go"), now)
      BY <1>5, <1>6, <1>7, SameEntries DEF Engines
    <3>2. SameEntry(entry("go"), BuildReconciled("python", t, rows("go"), now))
      BY <1>2, <1>5, <1>6, EntriesAlike DEF Engines
    <3>3. \A e \in Engines : rows(e) \in SUBSET Row /\ rows(e) # {}
      BY <1>5
    <3>4. \A e \in Engines : entry(e) \in AuditEntry
      BY <1>2, <3>3, ReconciledIsEntry
    <3> HIDE DEF entry
    <3> QED
      BY <3>1, <3>2, <3>4 DEF Engines
  <2> HIDE DEF after, entry
  <2>3. \A e \in Engines : events'[e] = events[e] \ old(e) /\ audit'[e] = Append(audit[e], entry(e))
    BY <1>9, <2>1
  <2>4. ASSUME NEW e \in Engines
        PROVE  /\ RowsOf(events'[e], t) = {}
               /\ \A u \in Trades : u # t => RowsOf(events'[e], u) = RowsOf(events[e], u)
    BY <2>3 DEF RowsOf
  <2>5. Alike({}, {}, now)
    BY <1>2 DEF Alike, Anchored
  <2>6. SameLog(audit'["go"], audit'["python"])
    <3>1. audit["go"] \in Seq(AuditEntry) /\ audit["python"] \in Seq(AuditEntry)
      BY DEF Inv, Engines
    <3>2. SameLog(Append(audit["go"], entry("go")), Append(audit["python"], entry("python")))
      BY <1>1, <2>2, <3>1, SameLogGrows
    <3> QED
      BY <2>3, <3>2 DEF Engines
  <2> QED
    BY <1>3, <2>4, <2>5, <2>6 DEF Engines
<1> QED
  BY <1>10, <1>11, <1>12

LEMMA SweepKeepsParallel ==
    ASSUME Inv, Parallel, ordered, NEW now \in Stamps, last <= now, Sweep(now)
    PROVE  /\ SameLog(audit'["go"], audit'["python"])
           /\ \A u \in Trades : Alike(RowsOf(events'["go"], u), RowsOf(events'["python"], u), now)
<1>1. /\ SameLog(audit["go"], audit["python"])
      /\ \A u \in Trades : Alike(RowsOf(events["go"], u), RowsOf(events["python"], u), last)
  BY DEF Parallel
<1>2. last \in Nat /\ now \in Nat /\ RowsFit(events["go"]) /\ RowsFit(events["python"])
  BY RowsAssumption DEF Inv, Stamps, Engines
<1>3. \A u \in Trades : Alike(RowsOf(events["go"], u), RowsOf(events["python"], u), now)
  BY <1>1, <1>2 DEF Alike
<1>4. /\ Due(events["go"], now) = Due(events["python"], now)
      /\ Breaks(events["go"], now) = Breaks(events["python"], now)
  BY <1>1, <1>2, SameBreaks
<1>5. \A e \in Engines :
          /\ events'[e] = {r \in events[e] : r.trade \notin Due(events[e], now)}
          /\ audit'[e] = audit[e] \o Breaks(events[e], now)
  BY SweepSteps DEF Swept
<1>6. ASSUME NEW u \in Trades
      PROVE  Alike(RowsOf(events'["go"], u), RowsOf(events'["python"], u), now)
  <2>1. CASE u \in Due(events["go"], now)
    <3>1. RowsOf(events'["go"], u) = {} /\ RowsOf(events'["python"], u) = {}
      BY <1>4, <1>5, <2>1 DEF RowsOf, Engines
    <3>2. Alike({}, {}, now)
      BY <1>2 DEF Alike, Anchored
    <3> QED
      BY <3>1, <3>2
  <2>2. CASE u \notin Due(events["go"], now)
    <3>1. \A e \in Engines : RowsOf(events'[e], u) = RowsOf(events[e], u)
      BY <1>4, <1>5, <2>2 DEF RowsOf, Engines
    <3> QED
      BY <1>3, <3>1 DEF Engines
  <2> QED
    BY <2>1, <2>2
<1>7. SameLog(audit'["go"], audit'["python"])
  <2>1. Breaks(events["go"], now) \in Seq(AuditEntry)
    BY <1>2, BreaksIs
  <2>2. audit["go"] \in Seq(AuditEntry) /\ audit["python"] \in Seq(AuditEntry)
    BY DEF Inv, Engines
  <2>3. SameLog(audit["go"] \o Breaks(events["go"], now), audit["python"] \o Breaks(events["go"], now))
    BY <1>1, <2>1, <2>2, SameLogGrows
  <2> QED
    BY <1>4, <1>5, <2>3 DEF Engines
<1> QED
  BY <1>6, <1>7

\* As long as calls come in the order of their time stamps the two engines write
\* the same entries, although they keep different rows, but for the millisecond
\* that Python's float product may lose from a duration.
THEOREM EnginesWriteTheSame == Spec => []SameAudit
<1>1. Init => Parallel
  <2> SUFFICES ASSUME Init, NEW t \in Trades
               PROVE  Alike(RowsOf(events["go"], t), RowsOf(events["python"], t), last)
    BY DEF Init, Parallel, SameLog, Engines
  <2>1. RowsOf(events["go"], t) = {} /\ RowsOf(events["python"], t) = {} /\ last = 0
    BY DEF Init, RowsOf, Engines
  <2> QED
    BY <2>1 DEF Alike, Anchored
<1>2. Inv /\ Parallel /\ [Next]_vars => Parallel'
  <2> SUFFICES ASSUME Inv, Parallel, [Next]_vars, ordered'
               PROVE  /\ SameLog(audit'["go"], audit'["python"])
                      /\ \A t \in Trades :
                            Alike(RowsOf(events'["go"], t), RowsOf(events'["python"], t), last')
    BY DEF Parallel
  <2>1. ASSUME NEW t \in Trades, NEW s \in Expected, NEW now \in EventStamps, Ingest(t, s, now)
        PROVE  Parallel'
    <3>1. ordered /\ last <= now /\ last' = now
      BY <2>1 DEF Ingest, Stamped
    <3> QED
      BY <2>1, <3>1, IngestKeepsParallel DEF Parallel
  <2>2. ASSUME NEW now \in Stamps, Sweep(now) PROVE Parallel'
    <3>1. ordered /\ last <= now /\ last' = now
      BY <2>2 DEF Sweep, Stamped
    <3> QED
      BY <2>2, <3>1, SweepKeepsParallel DEF Parallel
  <2>3. CASE UNCHANGED vars
    BY <2>3 DEF vars, Parallel
  <2> QED
    BY <2>1, <2>2, <2>3 DEF Next, EventStamps, Parallel
<1>3. Parallel => SameAudit
  BY DEF Parallel, SameAudit
<1> QED
  BY <1>1, <1>2, <1>3, Invariance, PTL DEF Spec

-----------------------------------------------------------------------------
(***************************************************************************)
(* Sweeps are thorough.                                                    *)
(***************************************************************************)

\* A trade with a row whose deadline has come is due.
LEMMA RowIsDue ==
    ASSUME NEW ev, RowsFit(ev), NEW now \in Stamps, NEW r \in ev, r.deadline <= now
    PROVE  r.trade \in Due(ev, now)
<1>1. RowsOf(ev, r.trade) \in SUBSET Row /\ r \in RowsOf(ev, r.trade) /\ r \in Row
  BY DEF RowsFit, RowsOf
<1>2. /\ EarliestDeadline(RowsOf(ev, r.trade)) \in Stamps
      /\ EarliestDeadline(RowsOf(ev, r.trade)) <= r.deadline
  BY <1>1, EarliestDeadlineIsOne
<1>3. r.deadline \in Stamps /\ r.trade \in Trades
  BY <1>1 DEF Row
<1>4. EarliestDeadline(RowsOf(ev, r.trade)) <= now
  BY <1>2, <1>3, RowsAssumption DEF Stamps
<1> QED
  BY <1>1, <1>3, <1>4 DEF Due

\* A sweep finalizes each trade that is due.
LEMMA DueIsFinalized ==
    ASSUME NEW ev, RowsFit(ev), NEW log \in Seq(AuditEntry), NEW now \in Stamps,
           NEW t \in Due(ev, now)
    PROVE  InAudit(Swept(ev, log, now).audit, t) /\ RowsOf(Swept(ev, log, now).events, t) = {}
<1> DEFINE T == Due(ev, now)
           B == Breaks(ev, now)
<1>1. PICK i \in 1..Cardinality(T) : InOrder(T)[i] = t
  BY DueIs, OrderIs
<1>2. B \in Seq(AuditEntry) /\ Len(B) = Cardinality(T) /\ B[i].trade = t
  BY <1>1, BreaksIs
<1> HIDE DEF T, B
<1>3. Len(log) + i \in DOMAIN (log \o B) /\ (log \o B)[Len(log) + i] = B[i]
  BY <1>2
<1>4. InAudit(log \o B, t)
  BY <1>2, <1>3 DEF InAudit
<1> QED
  BY <1>4 DEF Swept, B, RowsOf

\* A sweep by either engine leaves no trade whose window has elapsed, and
\* writes an outcome for each.
THEOREM SweepsAreThorough == Spec => SweepIsThorough
<1>1. ASSUME Inv, NEW now \in Stamps, Sweep(now), NEW e \in Engines, NEW r \in events[e],
             r.deadline <= now
      PROVE  InAudit(audit'[e], r.trade) /\ RowsOf(events'[e], r.trade) = {}
  <2>1. RowsFit(events[e]) /\ audit[e] \in Seq(AuditEntry)
    BY <1>1 DEF Inv
  <2>2. r.trade \in Due(events[e], now)
    BY <1>1, <2>1, RowIsDue
  <2>3. /\ events'[e] = Swept(events[e], audit[e], now).events
        /\ audit'[e] = Swept(events[e], audit[e], now).audit
    BY <1>1, SweepSteps
  <2> QED
    BY <2>1, <2>2, <2>3, DueIsFinalized
<1>2. Inv => \A now \in Stamps : Sweep(now) =>
          \A e \in Engines : \A r \in events[e] : r.deadline <= now =>
              InAudit(audit'[e], r.trade) /\ RowsOf(events'[e], r.trade) = {}
  BY <1>1
<1> QED
  BY <1>2, Invariance, PTL DEF SweepIsThorough

-----------------------------------------------------------------------------
(***************************************************************************)
(* Each engine keeps the promise of Correlation.                           *)
(***************************************************************************)

\* The row of an event that is not ignored may be stored.
LEMMA StoredRowIsStorable ==
    ASSUME NEW impl, NEW ev, RowsFit(ev), NEW log,
           NEW t \in Trades, NEW s \in Expected, NEW now \in EventStamps,
           ~Ignored(ev, log, t, s)
    PROVE  LET row == StoredRow(impl, ev, t, s, now)
           IN  /\ row \in Row /\ row.trade = t /\ row.source \in Expected
               /\ ~InAudit(log, t)
               /\ \A r \in RowsOf(ev, t) : r.source # row.source /\ row.deadline <= r.deadline
<1> DEFINE row == StoredRow(impl, ev, t, s, now)
           new == NewRow(t, s, now, Window)
<1>1. row \in Row /\ row.trade = t /\ row.source = s
  BY CompletedIs
<1>2. \A r \in RowsOf(ev, t) : row.deadline <= r.deadline
  <2>1. new \in Row /\ RowsOf(ev, t) \in SUBSET Row
    BY NewRowIsRow DEF RowsFit, RowsOf
  <2>2. row = Merge(impl, RowsOf(ev, t), new)
    BY DEF StoredRow
  <2> HIDE DEF row, new
  <2> QED
    BY <2>1, <2>2, MergeNarrows
<1> HIDE DEF row
<1>3. ~InAudit(log, t) /\ \A r \in RowsOf(ev, t) : r.source # s
  BY DEF Ignored, SourcesOf
<1> QED
  BY <1>1, <1>2, <1>3 DEF row

\* A sweep that finds nothing due changes nothing, and otherwise writes the
\* breaks of all due trades in one order.
LEMMA SweptIs ==
    ASSUME NEW ev, RowsFit(ev), NEW log \in Seq(AuditEntry), NEW now \in Stamps
    PROVE  LET T     == Due(ev, now)
               order == InOrder(T)
           IN  /\ T \in SUBSET Trades
               /\ \A t \in T : RowsOf(ev, t) # {} /\ EarliestDeadline(RowsOf(ev, t)) <= now
               /\ order \in [1..Cardinality(T) -> T]
               /\ \A i, j \in 1..Cardinality(T) : order[i] = order[j] => i = j
               /\ Swept(ev, log, now) =
                     [events |-> {r \in ev : r.trade \notin T},
                      audit  |-> log \o [i \in 1..Cardinality(T) |->
                          BuildBreak(order[i], RowsOf(ev, order[i]), Expected, now)]]
               /\ T = {} => Swept(ev, log, now) = [events |-> ev, audit |-> log]
<1> DEFINE T == Due(ev, now)
<1>1. T \in SUBSET Trades /\ T \in SUBSET Nat /\ IsFiniteSet(T)
  BY DueIs
<1>2. \A t \in T : RowsOf(ev, t) # {} /\ EarliestDeadline(RowsOf(ev, t)) <= now
  BY DEF Due
<1>3. /\ InOrder(T) \in [1..Cardinality(T) -> T]
      /\ \A i, j \in 1..Cardinality(T) : InOrder(T)[i] = InOrder(T)[j] => i = j
  BY <1>1, OrderIs
<1>4. /\ Breaks(ev, now) \in Seq(AuditEntry) /\ Len(Breaks(ev, now)) = Cardinality(T)
      /\ Breaks(ev, now) = [i \in 1..Cardinality(T) |->
             BuildBreak(InOrder(T)[i], RowsOf(ev, InOrder(T)[i]), Expected, now)]
  BY BreaksIs
<1>5. Swept(ev, log, now) = [events |-> {r \in ev : r.trade \notin T},
                             audit |-> log \o Breaks(ev, now)]
  BY DEF Swept
<1>6. ASSUME T = {} PROVE Swept(ev, log, now) = [events |-> ev, audit |-> log]
  <2>1. Cardinality(T) = 0
    BY <1>6, FS_EmptySet
  <2>2. Breaks(ev, now) = <<>>
    BY <1>4, <2>1
  <2>3. log \o <<>> = log
    BY ConcatEmptySeq
  <2>4. {r \in ev : r.trade \notin T} = ev
    BY <1>6
  <2> QED
    BY <1>5, <2>2, <2>3, <2>4
<1> HIDE DEF T
<1>7. Swept(ev, log, now) = [events |-> {r \in ev : r.trade \notin T},
          audit |-> log \o [i \in 1..Cardinality(T) |->
              BuildBreak(InOrder(T)[i], RowsOf(ev, InOrder(T)[i]), Expected, now)]]
  BY <1>4, <1>5
<1> QED
  BY <1>1, <1>2, <1>3, <1>6, <1>7 DEF T

\* The promise to the Go engine speaks of the same rows and entries.
LEMMA GoTerms ==
    /\ \A rows, t : GoPromise!RowsOf(rows, t) = RowsOf(rows, t)
    /\ \A rows, x : GoPromise!HasEverySource(rows, x) <=> HasEverySource(rows, x)
    /\ \A rows, x : GoPromise!ExpectedEvents(rows, x) = ExpectedEvents(rows, x)
    /\ \A rows : GoPromise!EarliestDeadline(rows) = EarliestDeadline(rows)
    /\ \A impl, t, rows, at :
          GoPromise!BuildReconciled(impl, t, rows, at) = BuildReconciled(impl, t, rows, at)
    /\ \A t, rows, x, at : GoPromise!BuildBreak(t, rows, x, at) = BuildBreak(t, rows, x, at)
    /\ \A t : GoPromise!Finalized(t) <=> InAudit(audit["go"], t)
    /\ \A S : GoPromise!Cardinality(S) = Cardinality(S)
    /\ GoPromise!Row = Row /\ GoPromise!Stamps = Stamps
<1>1. \A S : GoPromise!Min(S) = Min(S) /\ GoPromise!Max(S) = Max(S)
  BY DEF GoPromise!Min, Min, GoPromise!Max, Max
<1>2. \A S : GoPromise!Cardinality(S) = Cardinality(S)
  BY DEF GoPromise!Cardinality, Cardinality
<1>3. \A rows : GoPromise!EarliestDeadline(rows) = EarliestDeadline(rows)
  BY <1>1 DEF GoPromise!EarliestDeadline, EarliestDeadline
<1>4. /\ \A impl, t, rows, at :
            GoPromise!BuildReconciled(impl, t, rows, at) = BuildReconciled(impl, t, rows, at)
      /\ \A t, rows, x, at : GoPromise!BuildBreak(t, rows, x, at) = BuildBreak(t, rows, x, at)
  <2>1. \A impl, d : GoPromise!MatchDuration(impl, d) = MatchDuration(impl, d)
    BY DEF GoPromise!MatchDuration, MatchDuration, GoPromise!Milliseconds, Milliseconds,
       GoPromise!MillisecondsOfFloat, MillisecondsOfFloat
  <2> QED
    BY <1>1, <2>1 DEF GoPromise!BuildReconciled, BuildReconciled, GoPromise!BuildBreak, BuildBreak,
       GoPromise!SourcesOf, SourcesOf
<1>5. \A t : GoPromise!Finalized(t) <=> InAudit(audit["go"], t)
  BY DEF GoPromise!Finalized, InAudit
<1> QED
  BY <1>2, <1>3, <1>4, <1>5 DEF GoPromise!RowsOf, RowsOf, GoPromise!HasEverySource, HasEverySource,
     GoPromise!SourcesOf, SourcesOf, GoPromise!ExpectedEvents, ExpectedEvents,
     GoPromise!Row, Row, GoPromise!Stamps, Stamps

\* An ingest is one step of the promise to the Go engine, or changes nothing.
LEMMA GoIngest ==
    ASSUME Inv, NEW t \in Trades, NEW s \in Expected, NEW now \in EventStamps, Ingest(t, s, now)
    PROVE  [GoPromise!Next]_(GoPromise!vars)
<1> DEFINE ev    == events["go"]
           log   == audit["go"]
           row   == StoredRow("go", ev, t, s, now)
           rows  == Completed("go", ev, t, s, now)
           after == Ingested("go", ev, log, t, s, now)
<1>1. events'["go"] = after.events /\ audit'["go"] = after.audit
  BY IngestSteps DEF Engines
<1>2. RowsFit(ev) /\ now \in Stamps
  BY NewRowIsRow DEF Inv, Engines
<1>3. rows = RowsOf(ev, t) \union {row} /\ ExpectedEvents(rows, Expected) = rows
  BY <1>2, CompletedIs DEF Completed
<1>4. CASE Ignored(ev, log, t, s)
  <2>1. after = [events |-> ev, audit |-> log]
    BY <1>4, IngestedIs
  <2> HIDE DEF after
  <2>2. events'["go"] = events["go"] /\ audit'["go"] = audit["go"]
    BY <1>1, <2>1
  <2> QED
    BY <2>2 DEF GoPromise!vars
<1>5. CASE ~Ignored(ev, log, t, s)
  <2>1. /\ row \in Row /\ row.trade = t /\ row.source \in Expected
        /\ ~InAudit(log, t)
        /\ \A r \in RowsOf(ev, t) : r.source # row.source /\ row.deadline <= r.deadline
    BY <1>2, <1>5, StoredRowIsStorable
  <2>2. GoPromise!Storable(row)
    <3> HIDE DEF row
    <3> QED
      BY <2>1, GoTerms DEF GoPromise!Storable
  <2>3. CASE ~HasEverySource(rows, Expected)
    <3>1. after = [events |-> ev \union {row}, audit |-> log]
      BY <1>5, <2>3, IngestedIs
    <3> HIDE DEF after, row, rows
    <3>2. events'["go"] = events["go"] \union {row} /\ audit'["go"] = audit["go"]
      BY <1>1, <3>1
    <3>3. \E expected \in {Expected} :
             /\ row.source \in expected
             /\ ~GoPromise!HasEverySource(
                     GoPromise!RowsOf(events["go"], row.trade) \union {row}, expected)
      BY <1>3, <2>1, <2>3, GoTerms
    <3>4. GoPromise!Record(row)
      BY <2>2, <3>2, <3>3 DEF GoPromise!Record
    <3> QED
      BY <2>1, <3>4, GoTerms DEF GoPromise!Next
  <2>4. CASE HasEverySource(rows, Expected)
    <3>1. after = [events |-> ev \ RowsOf(ev, t),
                   audit |-> Append(log, BuildReconciled("go", t, ExpectedEvents(rows, Expected), now))]
      BY <1>5, <2>4, IngestedIs
    <3> HIDE DEF after, row, rows
    <3>2. /\ events'["go"] = events["go"] \ RowsOf(events["go"], row.trade)
          /\ audit'["go"] = Append(audit["go"],
                 BuildReconciled("go", row.trade, ExpectedEvents(rows, Expected), now))
      BY <1>1, <2>1, <3>1
    <3>3. \E impl \in Engines, expected \in {Expected}, at \in GoPromise!Stamps :
             LET all == GoPromise!RowsOf(events["go"], row.trade) \union {row} IN
             /\ row.source \in expected
             /\ GoPromise!HasEverySource(all, expected)
             /\ audit'["go"] = Append(audit["go"], GoPromise!BuildReconciled(impl, row.trade,
                                          GoPromise!ExpectedEvents(all, expected), at))
      <4>1. GoPromise!RowsOf(events["go"], row.trade) \union {row} = rows
        BY <1>3, <2>1, GoTerms
      <4>2. /\ "go" \in Engines /\ Expected \in {Expected} /\ now \in GoPromise!Stamps
            /\ GoPromise!HasEverySource(rows, Expected)
            /\ GoPromise!BuildReconciled("go", row.trade, GoPromise!ExpectedEvents(rows, Expected), now)
                 = BuildReconciled("go", row.trade, ExpectedEvents(rows, Expected), now)
        BY <1>2, <2>4, GoTerms DEF Engines
      <4> QED
        BY <2>1, <3>2, <4>1, <4>2
    <3>4. GoPromise!Reconcile(row)
      BY <2>2, <3>2, <3>3, GoTerms DEF GoPromise!Reconcile, Engines
    <3> QED
      BY <2>1, <3>4, GoTerms DEF GoPromise!Next
  <2> QED
    BY <2>3, <2>4
<1> QED
  BY <1>4, <1>5

\* A sweep of the Go engine is one break of all due trades, or changes nothing.
LEMMA GoSweep ==
    ASSUME Inv, NEW now \in Stamps, Sweep(now)
    PROVE  [GoPromise!Next]_(GoPromise!vars)
<1> DEFINE ev    == events["go"]
           log   == audit["go"]
           T     == Due(ev, now)
           order == InOrder(T)
           after == Swept(ev, log, now)
<1>1. events'["go"] = after.events /\ audit'["go"] = after.audit
  BY SweepSteps DEF Engines
<1>2. RowsFit(ev) /\ log \in Seq(AuditEntry)
  BY DEF Inv, Engines
<1>3. /\ T \in SUBSET Trades
      /\ \A t \in T : RowsOf(ev, t) # {} /\ EarliestDeadline(RowsOf(ev, t)) <= now
      /\ order \in [1..Cardinality(T) -> T]
      /\ \A i, j \in 1..Cardinality(T) : order[i] = order[j] => i = j
      /\ after = [events |-> {r \in ev : r.trade \notin T},
                  audit  |-> log \o [i \in 1..Cardinality(T) |->
                      BuildBreak(order[i], RowsOf(ev, order[i]), Expected, now)]]
      /\ T = {} => after = [events |-> ev, audit |-> log]
  BY <1>2, SweptIs
<1> HIDE DEF T, order, after
<1>4. CASE T = {}
  <2>1. events'["go"] = events["go"] /\ audit'["go"] = audit["go"]
    BY <1>1, <1>3, <1>4
  <2> QED
    BY <2>1 DEF GoPromise!vars
<1>5. CASE T # {}
  <2>1. /\ events'["go"] = {r \in events["go"] : r.trade \notin T}
        /\ audit'["go"] = log \o [i \in 1..Cardinality(T) |->
               BuildBreak(order[i], RowsOf(ev, order[i]), Expected, now)]
    BY <1>1, <1>3
  <2>2. \A t \in T : /\ GoPromise!RowsOf(events["go"], t) # {}
                     /\ GoPromise!EarliestDeadline(GoPromise!RowsOf(events["go"], t)) <= now
    BY <1>3, GoTerms
  <2>3. DOMAIN order = 1..Cardinality(T)
    BY <1>3
  <2>4. order \in GoPromise!Orders(T)
    BY <1>3, <2>3, GoTerms DEF GoPromise!Orders
  <2> DEFINE config == [t \in T |-> Expected]
  <2>5. config \in [T -> {Expected}] /\ \A i \in DOMAIN order : config[order[i]] = Expected
    BY <1>3, <2>3
  <2> HIDE DEF config
  <2>6. [i \in DOMAIN order |-> GoPromise!BuildBreak(order[i],
             GoPromise!RowsOf(events["go"], order[i]), config[order[i]], now)]
          = [i \in 1..Cardinality(T) |-> BuildBreak(order[i], RowsOf(ev, order[i]), Expected, now)]
    BY <2>3, <2>5, GoTerms
  <2> DEFINE outcome(o, c) == audit["go"] \o [i \in DOMAIN o |-> GoPromise!BuildBreak(o[i],
                 GoPromise!RowsOf(events["go"], o[i]), c[o[i]], now)]
  <2>7. audit'["go"] = outcome(order, config)
    BY <2>1, <2>6
  <2>8. \E o \in GoPromise!Orders(T), c \in [T -> {Expected}] : audit'["go"] = outcome(o, c)
    <3> HIDE DEF outcome
    <3> QED
      BY <2>4, <2>5, <2>7
  <2>9. GoPromise!Break(T, now)
    BY <2>1, <2>2, <2>8 DEF GoPromise!Break
  <2> QED
    BY <1>3, <1>5, <2>9, GoTerms DEF GoPromise!Next
<1> QED
  BY <1>4, <1>5

-----------------------------------------------------------------------------
(***************************************************************************)
(* The same for the Python engine, whose rows have other stamps.           *)
(***************************************************************************)

\* The promise to the Python engine speaks of the same rows and entries.
LEMMA PyTerms ==
    /\ \A rows, t : PyPromise!RowsOf(rows, t) = RowsOf(rows, t)
    /\ \A rows, x : PyPromise!HasEverySource(rows, x) <=> HasEverySource(rows, x)
    /\ \A rows, x : PyPromise!ExpectedEvents(rows, x) = ExpectedEvents(rows, x)
    /\ \A rows : PyPromise!EarliestDeadline(rows) = EarliestDeadline(rows)
    /\ \A impl, t, rows, at :
          PyPromise!BuildReconciled(impl, t, rows, at) = BuildReconciled(impl, t, rows, at)
    /\ \A t, rows, x, at : PyPromise!BuildBreak(t, rows, x, at) = BuildBreak(t, rows, x, at)
    /\ \A t : PyPromise!Finalized(t) <=> InAudit(audit["python"], t)
    /\ \A S : PyPromise!Cardinality(S) = Cardinality(S)
    /\ PyPromise!Row = Row /\ PyPromise!Stamps = Stamps
<1>1. \A S : PyPromise!Min(S) = Min(S) /\ PyPromise!Max(S) = Max(S)
  BY DEF PyPromise!Min, Min, PyPromise!Max, Max
<1>2. \A S : PyPromise!Cardinality(S) = Cardinality(S)
  BY DEF PyPromise!Cardinality, Cardinality
<1>3. \A rows : PyPromise!EarliestDeadline(rows) = EarliestDeadline(rows)
  BY <1>1 DEF PyPromise!EarliestDeadline, EarliestDeadline
<1>4. /\ \A impl, t, rows, at :
            PyPromise!BuildReconciled(impl, t, rows, at) = BuildReconciled(impl, t, rows, at)
      /\ \A t, rows, x, at : PyPromise!BuildBreak(t, rows, x, at) = BuildBreak(t, rows, x, at)
  <2>1. \A impl, d : PyPromise!MatchDuration(impl, d) = MatchDuration(impl, d)
    BY DEF PyPromise!MatchDuration, MatchDuration, PyPromise!Milliseconds, Milliseconds,
       PyPromise!MillisecondsOfFloat, MillisecondsOfFloat
  <2> QED
    BY <1>1, <2>1 DEF PyPromise!BuildReconciled, BuildReconciled, PyPromise!BuildBreak, BuildBreak,
       PyPromise!SourcesOf, SourcesOf
<1>5. \A t : PyPromise!Finalized(t) <=> InAudit(audit["python"], t)
  BY DEF PyPromise!Finalized, InAudit
<1> QED
  BY <1>2, <1>3, <1>4, <1>5 DEF PyPromise!RowsOf, RowsOf, PyPromise!HasEverySource, HasEverySource,
     PyPromise!SourcesOf, SourcesOf, PyPromise!ExpectedEvents, ExpectedEvents,
     PyPromise!Row, Row, PyPromise!Stamps, Stamps

\* An ingest is one step of the promise to the Python engine, or changes nothing.
LEMMA PyIngest ==
    ASSUME Inv, NEW t \in Trades, NEW s \in Expected, NEW now \in EventStamps, Ingest(t, s, now)
    PROVE  [PyPromise!Next]_(PyPromise!vars)
<1> DEFINE ev    == events["python"]
           log   == audit["python"]
           row   == StoredRow("python", ev, t, s, now)
           rows  == Completed("python", ev, t, s, now)
           after == Ingested("python", ev, log, t, s, now)
<1>1. events'["python"] = after.events /\ audit'["python"] = after.audit
  BY IngestSteps DEF Engines
<1>2. RowsFit(ev) /\ now \in Stamps
  BY NewRowIsRow DEF Inv, Engines
<1>3. rows = RowsOf(ev, t) \union {row} /\ ExpectedEvents(rows, Expected) = rows
  BY <1>2, CompletedIs DEF Completed
<1>4. CASE Ignored(ev, log, t, s)
  <2>1. after = [events |-> ev, audit |-> log]
    BY <1>4, IngestedIs
  <2> HIDE DEF after
  <2>2. events'["python"] = events["python"] /\ audit'["python"] = audit["python"]
    BY <1>1, <2>1
  <2> QED
    BY <2>2 DEF PyPromise!vars
<1>5. CASE ~Ignored(ev, log, t, s)
  <2>1. /\ row \in Row /\ row.trade = t /\ row.source \in Expected
        /\ ~InAudit(log, t)
        /\ \A r \in RowsOf(ev, t) : r.source # row.source /\ row.deadline <= r.deadline
    BY <1>2, <1>5, StoredRowIsStorable
  <2>2. PyPromise!Storable(row)
    <3> HIDE DEF row
    <3> QED
      BY <2>1, PyTerms DEF PyPromise!Storable
  <2>3. CASE ~HasEverySource(rows, Expected)
    <3>1. after = [events |-> ev \union {row}, audit |-> log]
      BY <1>5, <2>3, IngestedIs
    <3> HIDE DEF after, row, rows
    <3>2. events'["python"] = events["python"] \union {row} /\ audit'["python"] = audit["python"]
      BY <1>1, <3>1
    <3>3. \E expected \in {Expected} :
             /\ row.source \in expected
             /\ ~PyPromise!HasEverySource(
                     PyPromise!RowsOf(events["python"], row.trade) \union {row}, expected)
      BY <1>3, <2>1, <2>3, PyTerms
    <3>4. PyPromise!Record(row)
      BY <2>2, <3>2, <3>3 DEF PyPromise!Record
    <3> QED
      BY <2>1, <3>4, PyTerms DEF PyPromise!Next
  <2>4. CASE HasEverySource(rows, Expected)
    <3>1. after = [events |-> ev \ RowsOf(ev, t),
                   audit |-> Append(log, BuildReconciled("python", t, ExpectedEvents(rows, Expected), now))]
      BY <1>5, <2>4, IngestedIs
    <3> HIDE DEF after, row, rows
    <3>2. /\ events'["python"] = events["python"] \ RowsOf(events["python"], row.trade)
          /\ audit'["python"] = Append(audit["python"],
                 BuildReconciled("python", row.trade, ExpectedEvents(rows, Expected), now))
      BY <1>1, <2>1, <3>1
    <3>3. \E impl \in Engines, expected \in {Expected}, at \in PyPromise!Stamps :
             LET all == PyPromise!RowsOf(events["python"], row.trade) \union {row} IN
             /\ row.source \in expected
             /\ PyPromise!HasEverySource(all, expected)
             /\ audit'["python"] = Append(audit["python"], PyPromise!BuildReconciled(impl, row.trade,
                                          PyPromise!ExpectedEvents(all, expected), at))
      <4>1. PyPromise!RowsOf(events["python"], row.trade) \union {row} = rows
        BY <1>3, <2>1, PyTerms
      <4>2. /\ "python" \in Engines /\ Expected \in {Expected} /\ now \in PyPromise!Stamps
            /\ PyPromise!HasEverySource(rows, Expected)
            /\ PyPromise!BuildReconciled("python", row.trade, PyPromise!ExpectedEvents(rows, Expected), now)
                 = BuildReconciled("python", row.trade, ExpectedEvents(rows, Expected), now)
        BY <1>2, <2>4, PyTerms DEF Engines
      <4> QED
        BY <2>1, <3>2, <4>1, <4>2
    <3>4. PyPromise!Reconcile(row)
      BY <2>2, <3>2, <3>3, PyTerms DEF PyPromise!Reconcile, Engines
    <3> QED
      BY <2>1, <3>4, PyTerms DEF PyPromise!Next
  <2> QED
    BY <2>3, <2>4
<1> QED
  BY <1>4, <1>5

\* A sweep of the Python engine is one break of all due trades, or changes nothing.
LEMMA PySweep ==
    ASSUME Inv, NEW now \in Stamps, Sweep(now)
    PROVE  [PyPromise!Next]_(PyPromise!vars)
<1> DEFINE ev    == events["python"]
           log   == audit["python"]
           T     == Due(ev, now)
           order == InOrder(T)
           after == Swept(ev, log, now)
<1>1. events'["python"] = after.events /\ audit'["python"] = after.audit
  BY SweepSteps DEF Engines
<1>2. RowsFit(ev) /\ log \in Seq(AuditEntry)
  BY DEF Inv, Engines
<1>3. /\ T \in SUBSET Trades
      /\ \A t \in T : RowsOf(ev, t) # {} /\ EarliestDeadline(RowsOf(ev, t)) <= now
      /\ order \in [1..Cardinality(T) -> T]
      /\ \A i, j \in 1..Cardinality(T) : order[i] = order[j] => i = j
      /\ after = [events |-> {r \in ev : r.trade \notin T},
                  audit  |-> log \o [i \in 1..Cardinality(T) |->
                      BuildBreak(order[i], RowsOf(ev, order[i]), Expected, now)]]
      /\ T = {} => after = [events |-> ev, audit |-> log]
  BY <1>2, SweptIs
<1> HIDE DEF T, order, after
<1>4. CASE T = {}
  <2>1. events'["python"] = events["python"] /\ audit'["python"] = audit["python"]
    BY <1>1, <1>3, <1>4
  <2> QED
    BY <2>1 DEF PyPromise!vars
<1>5. CASE T # {}
  <2>1. /\ events'["python"] = {r \in events["python"] : r.trade \notin T}
        /\ audit'["python"] = log \o [i \in 1..Cardinality(T) |->
               BuildBreak(order[i], RowsOf(ev, order[i]), Expected, now)]
    BY <1>1, <1>3
  <2>2. \A t \in T : /\ PyPromise!RowsOf(events["python"], t) # {}
                     /\ PyPromise!EarliestDeadline(PyPromise!RowsOf(events["python"], t)) <= now
    BY <1>3, PyTerms
  <2>3. DOMAIN order = 1..Cardinality(T)
    BY <1>3
  <2>4. order \in PyPromise!Orders(T)
    BY <1>3, <2>3, PyTerms DEF PyPromise!Orders
  <2> DEFINE config == [t \in T |-> Expected]
  <2>5. config \in [T -> {Expected}] /\ \A i \in DOMAIN order : config[order[i]] = Expected
    BY <1>3, <2>3
  <2> HIDE DEF config
  <2>6. [i \in DOMAIN order |-> PyPromise!BuildBreak(order[i],
             PyPromise!RowsOf(events["python"], order[i]), config[order[i]], now)]
          = [i \in 1..Cardinality(T) |-> BuildBreak(order[i], RowsOf(ev, order[i]), Expected, now)]
    BY <2>3, <2>5, PyTerms
  <2> DEFINE outcome(o, c) == audit["python"] \o [i \in DOMAIN o |-> PyPromise!BuildBreak(o[i],
                 PyPromise!RowsOf(events["python"], o[i]), c[o[i]], now)]
  <2>7. audit'["python"] = outcome(order, config)
    BY <2>1, <2>6
  <2>8. \E o \in PyPromise!Orders(T), c \in [T -> {Expected}] : audit'["python"] = outcome(o, c)
    <3> HIDE DEF outcome
    <3> QED
      BY <2>4, <2>5, <2>7
  <2>9. PyPromise!Break(T, now)
    BY <2>1, <2>2, <2>8 DEF PyPromise!Break
  <2> QED
    BY <1>3, <1>5, <2>9, PyTerms DEF PyPromise!Next
<1> QED
  BY <1>4, <1>5
-----------------------------------------------------------------------------

\* Each of the two engines keeps the promise of the store interface.
THEOREM EnginesKeepPromise == Spec => ImplementsCorrelation
<1>1. Init => GoPromise!Init /\ PyPromise!Init
  BY DEF Init, Engines, GoPromise!Init, PyPromise!Init
<1>2. Inv /\ [Next]_vars => [GoPromise!Next]_(GoPromise!vars) /\ [PyPromise!Next]_(PyPromise!vars)
  <2> SUFFICES ASSUME Inv, [Next]_vars
               PROVE  [GoPromise!Next]_(GoPromise!vars) /\ [PyPromise!Next]_(PyPromise!vars)
    OBVIOUS
  <2>1. ASSUME NEW t \in Trades, NEW s \in Expected, NEW now \in EventStamps, Ingest(t, s, now)
        PROVE  [GoPromise!Next]_(GoPromise!vars) /\ [PyPromise!Next]_(PyPromise!vars)
    BY <2>1, GoIngest, PyIngest
  <2>2. ASSUME NEW now \in Stamps, Sweep(now)
        PROVE  [GoPromise!Next]_(GoPromise!vars) /\ [PyPromise!Next]_(PyPromise!vars)
    BY <2>2, GoSweep, PySweep
  <2>3. CASE UNCHANGED vars
    BY <2>3 DEF vars, GoPromise!vars, PyPromise!vars
  <2> QED
    BY <2>1, <2>2, <2>3 DEF Next, EventStamps
<1> QED
  BY <1>1, <1>2, Invariance, PTL DEF Spec, ImplementsCorrelation, GoPromise!Spec, PyPromise!Spec

-----------------------------------------------------------------------------
(***************************************************************************)
(* What the promise is for.                                                *)
(***************************************************************************)

\* A log has one entry for a trade, and no row of a trade with an entry waits.
OneOutcomeIn(ev, log) ==
    /\ \A i, j \in DOMAIN log : log[i].trade = log[j].trade => i = j
    /\ \A t \in Trades : InAudit(log, t) => RowsOf(ev, t) = {}

\* Further entries of one trade each, of trades without an entry, keep a log so.
LEMMA LogsConcatenate ==
    ASSUME NEW log \in Seq(AuditEntry), NEW more \in Seq(AuditEntry),
           \A i, j \in DOMAIN log : log[i].trade = log[j].trade => i = j,
           \A i, j \in DOMAIN more : more[i].trade = more[j].trade => i = j,
           \A i \in DOMAIN more : ~InAudit(log, more[i].trade)
    PROVE  LET both == log \o more
           IN  /\ \A i, j \in DOMAIN both : both[i].trade = both[j].trade => i = j
               /\ \A t : InAudit(both, t) <=> InAudit(log, t) \/ InAudit(more, t)
<1> DEFINE both == log \o more
           n    == Len(log)
           m    == Len(more)
<1>1. n \in Nat /\ m \in Nat /\ DOMAIN log = 1..n /\ DOMAIN more = 1..m
  OBVIOUS
<1>2. both \in Seq(AuditEntry) /\ Len(both) = n + m /\ DOMAIN both = 1..n + m
  OBVIOUS
<1>3. \A i \in 1..n : i \in 1..n + m /\ both[i] = log[i]
  BY <1>1
<1>4. \A i \in 1..m : n + i \in 1..n + m /\ both[n + i] = more[i]
  BY <1>1
<1>5. \A i \in 1..n + m : i \in 1..n \/ (i - n \in 1..m /\ both[i] = more[i - n])
  BY <1>1
<1> HIDE DEF both, n, m
<1>6. ASSUME NEW i \in 1..n + m, NEW j \in 1..n + m, both[i].trade = both[j].trade
      PROVE  i = j
  <2>1. CASE i \in 1..n /\ j \in 1..n
    BY <1>1, <1>3, <1>6, <2>1
  <2>2. CASE i \in 1..n /\ j \notin 1..n
    <3>1. j - n \in 1..m /\ both[j] = more[j - n] /\ both[i] = log[i]
      BY <1>3, <1>5, <2>2
    <3>2. InAudit(log, more[j - n].trade)
      BY <1>1, <1>6, <2>2, <3>1 DEF InAudit
    <3> QED
      BY <1>1, <3>1, <3>2
  <2>3. CASE i \notin 1..n /\ j \in 1..n
    <3>1. i - n \in 1..m /\ both[i] = more[i - n] /\ both[j] = log[j]
      BY <1>3, <1>5, <2>3
    <3>2. InAudit(log, more[i - n].trade)
      BY <1>1, <1>6, <2>3, <3>1 DEF InAudit
    <3> QED
      BY <1>1, <3>1, <3>2
  <2>4. CASE i \notin 1..n /\ j \notin 1..n
    <3>1. /\ i - n \in 1..m /\ both[i] = more[i - n]
          /\ j - n \in 1..m /\ both[j] = more[j - n]
      BY <1>5, <2>4
    <3>2. i - n = j - n
      BY <1>1, <1>6, <3>1
    <3> QED
      BY <1>1, <3>2
  <2> QED
    BY <2>1, <2>2, <2>3, <2>4
<1>7. ASSUME NEW t
      PROVE  InAudit(both, t) <=> InAudit(log, t) \/ InAudit(more, t)
  <2>1. ASSUME NEW i \in 1..n + m, both[i].trade = t
        PROVE  InAudit(log, t) \/ InAudit(more, t)
    <3>1. CASE i \in 1..n
      BY <1>1, <1>3, <2>1, <3>1 DEF InAudit
    <3>2. CASE i - n \in 1..m /\ both[i] = more[i - n]
      BY <1>1, <2>1, <3>2 DEF InAudit
    <3> QED
      BY <1>5, <3>1, <3>2
  <2>2. ASSUME NEW i \in 1..n, log[i].trade = t PROVE InAudit(both, t)
    BY <1>2, <1>3, <2>2 DEF InAudit
  <2>3. ASSUME NEW i \in 1..m, more[i].trade = t PROVE InAudit(both, t)
    BY <1>2, <1>4, <2>3 DEF InAudit
  <2> QED
    BY <1>1, <1>2, <2>1, <2>2, <2>3 DEF InAudit
<1> QED
  BY <1>2, <1>6, <1>7 DEF both

\* An ingest gives a trade no second outcome, and stores no row after one.
LEMMA IngestedKeepsOne ==
    ASSUME NEW impl, NEW ev, RowsFit(ev), NEW log \in Seq(AuditEntry),
           NEW t \in Trades, NEW s \in Expected, NEW now \in EventStamps,
           OneOutcomeIn(ev, log)
    PROVE  LET result == Ingested(impl, ev, log, t, s, now)
           IN  OneOutcomeIn(result.events, result.audit)
<1> DEFINE result == Ingested(impl, ev, log, t, s, now)
           row    == StoredRow(impl, ev, t, s, now)
           rows   == Completed(impl, ev, t, s, now)
           entry  == BuildReconciled(impl, t, ExpectedEvents(rows, Expected), now)
<1>1. /\ row.trade = t /\ rows \in (SUBSET Row) \ {{}}
      /\ ExpectedEvents(rows, Expected) = rows /\ now \in Stamps
  BY CompletedIs, NewRowIsRow
<1>2. entry \in AuditEntry
  <2> HIDE DEF rows
  <2> QED
    BY <1>1, ReconciledIsEntry
<1>3. entry.trade = t
  BY DEF BuildReconciled
<1>4. \/ result = [events |-> ev, audit |-> log]
      \/ /\ ~InAudit(log, t)
         /\ \/ result = [events |-> ev \union {row}, audit |-> log]
            \/ result = [events |-> ev \ RowsOf(ev, t), audit |-> Append(log, entry)]
  BY IngestedIs DEF Ignored
<1> HIDE DEF result, row, rows, entry
<1>5. CASE result = [events |-> ev, audit |-> log]
  BY <1>5 DEF result
<1>6. CASE ~InAudit(log, t) /\ result = [events |-> ev \union {row}, audit |-> log]
  <2>1. \A u : u # t => RowsOf(ev \union {row}, u) = RowsOf(ev, u)
    BY <1>1 DEF RowsOf
  <2>2. OneOutcomeIn(ev \union {row}, log)
    BY <1>6, <2>1 DEF OneOutcomeIn
  <2> QED
    BY <1>6, <2>2 DEF result
<1>7. CASE /\ ~InAudit(log, t)
           /\ result = [events |-> ev \ RowsOf(ev, t), audit |-> Append(log, entry)]
  <2> DEFINE one  == <<entry>>
             both == log \o one
  <2>1. one \in Seq(AuditEntry) /\ DOMAIN one = {1} /\ one[1] = entry
    BY <1>2
  <2>2. Append(log, entry) = both
    BY <1>2, AppendIsConcat
  <2>3. \A i, j \in DOMAIN log : log[i].trade = log[j].trade => i = j
    BY DEF OneOutcomeIn
  <2> HIDE DEF one
  <2>4. \A i \in DOMAIN one : ~InAudit(log, one[i].trade)
    BY <1>3, <1>7, <2>1
  <2>5. \A i, j \in DOMAIN one : one[i].trade = one[j].trade => i = j
    BY <2>1
  <2>6. /\ \A i, j \in DOMAIN both : both[i].trade = both[j].trade => i = j
        /\ \A u : InAudit(both, u) <=> InAudit(log, u) \/ InAudit(one, u)
    BY <2>1, <2>3, <2>4, <2>5, LogsConcatenate
  <2> HIDE DEF both
  <2>7. \A u : InAudit(one, u) <=> u = t
    BY <1>3, <2>1 DEF InAudit
  <2>8. \A u : RowsOf(ev \ RowsOf(ev, t), u) \in SUBSET RowsOf(ev, u)
    BY DEF RowsOf
  <2>9. RowsOf(ev \ RowsOf(ev, t), t) = {}
    BY DEF RowsOf
  <2>10. \A u \in Trades : InAudit(both, u) => RowsOf(ev \ RowsOf(ev, t), u) = {}
    BY <2>6, <2>7, <2>8, <2>9 DEF OneOutcomeIn
  <2>11. OneOutcomeIn(ev \ RowsOf(ev, t), both)
    BY <2>6, <2>10 DEF OneOutcomeIn
  <2> QED
    BY <1>7, <2>2, <2>11 DEF result
<1> QED
  BY <1>4, <1>5, <1>6, <1>7

\* A sweep breaks only trades that have rows, hence no outcome yet, each once.
LEMMA SweptKeepsOne ==
    ASSUME NEW ev, RowsFit(ev), NEW log \in Seq(AuditEntry), NEW now \in Stamps,
           OneOutcomeIn(ev, log)
    PROVE  LET result == Swept(ev, log, now)
           IN  OneOutcomeIn(result.events, result.audit)
<1> DEFINE T    == Due(ev, now)
           B    == Breaks(ev, now)
           rest == {r \in ev : r.trade \notin T}
<1>1. /\ T \in SUBSET Trades /\ T \in SUBSET Nat /\ IsFiniteSet(T)
      /\ \A t \in T : RowsOf(ev, t) # {}
  BY DueIs
<1>2. /\ B \in Seq(AuditEntry) /\ Len(B) = Cardinality(T)
      /\ \A i \in 1..Cardinality(T) : InOrder(T)[i] \in T /\ B[i].trade = InOrder(T)[i]
  BY BreaksIs
<1>3. \A i, j \in 1..Cardinality(T) : InOrder(T)[i] = InOrder(T)[j] => i = j
  BY <1>1, OrderIs
<1>4. Swept(ev, log, now) = [events |-> rest, audit |-> log \o B]
  BY DEF Swept
<1>5. \A t : RowsOf(rest, t) \in SUBSET RowsOf(ev, t) /\ (t \in T => RowsOf(rest, t) = {})
  BY DEF RowsOf
<1> HIDE DEF T, B, rest
<1>6. DOMAIN B = 1..Cardinality(T)
  BY <1>2
<1>7. \A i \in DOMAIN B : B[i].trade \in T /\ ~InAudit(log, B[i].trade)
  BY <1>1, <1>2, <1>6 DEF OneOutcomeIn
<1>8. \A i, j \in DOMAIN B : B[i].trade = B[j].trade => i = j
  BY <1>2, <1>3, <1>6
<1>9. /\ \A i, j \in DOMAIN (log \o B) : (log \o B)[i].trade = (log \o B)[j].trade => i = j
      /\ \A t : InAudit(log \o B, t) <=> InAudit(log, t) \/ InAudit(B, t)
  <2>1. \A i, j \in DOMAIN log : log[i].trade = log[j].trade => i = j
    BY DEF OneOutcomeIn
  <2> QED
    BY <1>2, <1>7, <1>8, <2>1, LogsConcatenate
<1>10. \A t : InAudit(B, t) => t \in T
  BY <1>7 DEF InAudit
<1>11. \A t \in Trades : InAudit(log \o B, t) => RowsOf(rest, t) = {}
  BY <1>5, <1>9, <1>10 DEF OneOutcomeIn
<1>12. OneOutcomeIn(rest, log \o B)
  BY <1>9, <1>11 DEF OneOutcomeIn
<1> QED
  BY <1>4, <1>12

\* The stores of both engines.
OutcomesInv == \A e \in Engines : OneOutcomeIn(events[e], audit[e])

\* Each engine gives a trade one outcome, a reconciliation or a break, and
\* keeps no row of a trade that has one, in whatever order the stamps of the
\* calls come.
THEOREM OutcomesAreUnique == Spec => [](GoPromise!OneOutcome /\ PyPromise!OneOutcome)
<1>1. Init => OutcomesInv
  BY DEF Init, OutcomesInv, OneOutcomeIn, InAudit
<1>2. Inv /\ OutcomesInv /\ [Next]_vars => OutcomesInv'
  <2> SUFFICES ASSUME Inv, OutcomesInv, [Next]_vars PROVE OutcomesInv'
    OBVIOUS
  <2>1. ASSUME NEW t \in Trades, NEW s \in Expected, NEW now \in EventStamps, Ingest(t, s, now)
        PROVE  OutcomesInv'
    <3>1. ASSUME NEW e \in Engines PROVE OneOutcomeIn(events'[e], audit'[e])
      BY <2>1, IngestSteps, IngestedKeepsOne DEF Inv, OutcomesInv
    <3> QED
      BY <3>1 DEF OutcomesInv, OneOutcomeIn
  <2>2. ASSUME NEW now \in Stamps, Sweep(now) PROVE OutcomesInv'
    <3>1. ASSUME NEW e \in Engines PROVE OneOutcomeIn(events'[e], audit'[e])
      BY <2>2, SweepSteps, SweptKeepsOne DEF Inv, OutcomesInv
    <3> QED
      BY <3>1 DEF OutcomesInv, OneOutcomeIn
  <2>3. CASE UNCHANGED vars
    BY <2>3 DEF vars, OutcomesInv, OneOutcomeIn, InAudit
  <2> QED
    BY <2>1, <2>2, <2>3 DEF Next, EventStamps
<1>3. OutcomesInv => GoPromise!OneOutcome
  BY GoTerms DEF OutcomesInv, OneOutcomeIn, Engines, GoPromise!OneOutcome
<1>4. OutcomesInv => PyPromise!OneOutcome
  BY PyTerms DEF OutcomesInv, OneOutcomeIn, Engines, PyPromise!OneOutcome
<1> QED
  BY <1>1, <1>2, <1>3, <1>4, Invariance, PTL DEF Spec
=============================================================================
