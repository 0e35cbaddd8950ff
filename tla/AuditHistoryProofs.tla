--------------------------- MODULE AuditHistoryProofs ---------------------------
(***************************************************************************)
(* Theorems about AuditHistory, for every number of callers, trades and    *)
(* limits and however many transactions read the same time.                *)
(*                                                                         *)
(* What a history query returns is right because of what writes the log.   *)
(* The advisory lock gives a trade one entry (LockInv, OutcomesInv); an    *)
(* entry carries the time its transaction began, which is after every      *)
(* entry that was reported when the transaction's call started (TimesInv), *)
(* and identifiers break ties (IdsInv).  So the order of the SELECT is     *)
(* total and respects real time, and what a query finds at one moment      *)
(* stays what it may answer, because the log only grows by trades nobody   *)
(* has been told of (AnswersInv).                                          *)
(***************************************************************************)
EXTENDS AuditHistory, FiniteSetTheorems, SequenceTheorems, TLAPS

Logged == {e.trade : e \in Range(log)}

InTransaction(p) == pc[p] \in {"lock", "record", "commit"}
HasLock(p) == pc[p] \in {"record", "commit"}

\* What handlers ask of the store.
Query == [trade : Trades \union {None}, outcome : Outcomes \union {None}, limit : 1..MaxLimit]

TypeInv ==
    /\ dbClock \in Nat
    /\ log \in Seq(Entry)
    /\ pc \in [Recorders \union Readers ->
                  {"idle", "begin", "lock", "record", "commit", "select"}]
    /\ trade \in [Recorders -> Trades \union {None}]
    /\ begunAt \in [Recorders -> Nat]
    /\ row \in [Recorders -> Entry \union {None}]
    /\ claimed \in [Recorders -> SUBSET Trades] /\ reported \subseteq Trades
    /\ asked \in [Readers -> Query \union {None}]
    /\ DOMAIN answer = Readers /\ DOMAIN earlier = Readers
    /\ known \in [Recorders \union Readers -> SUBSET Trades]
    /\ fence \in [Trades -> SUBSET Trades]

\* The lock keeps transactions off each other's trade, which has no entry yet, and the
\* row that a transaction has inserted is about that trade.
LockInv ==
    /\ \A p \in Recorders : InTransaction(p) => trade[p] \in Trades
    /\ \A p \in Recorders : HasLock(p) => trade[p] \notin Logged
    /\ \A p, q \in Recorders : HasLock(p) /\ HasLock(q) /\ trade[p] = trade[q] => p = q
    /\ \A p \in Recorders : pc[p] = "commit" =>
          row[p] \in Entry /\ row[p].trade = trade[p] /\ row[p].recordedAt = begunAt[p]

\* Identifiers are unique among the committed rows and those that wait for their commit.
IdsInv ==
    /\ \A e, f \in Range(log) : e.id = f.id => e = f
    /\ \A p \in Recorders : pc[p] = "commit" =>
          /\ \A e \in Range(log) : e.id # row[p].id
          /\ \A q \in Recorders : pc[q] = "commit" /\ row[q].id = row[p].id => p = q

\* A trade has one entry, and a call knows only of outcomes that are in the log.
OutcomesInv ==
    /\ \A e, f \in Range(log) : e.trade = f.trade => e = f
    /\ reported \subseteq Logged
    /\ \A p \in Recorders : claimed[p] \subseteq Logged
    /\ \A p \in Recorders \union Readers : known[p] \subseteq Logged
    /\ \A t \in Trades : fence[t] \subseteq Logged

\* The clock is past the time stamps of the log, and a transaction began after the
\* entries its call knew of.
TimesInv ==
    /\ \A e \in Range(log) : e.recordedAt < dbClock
    /\ \A p \in Recorders : InTransaction(p) =>
          /\ begunAt[p] <= dbClock
          /\ \A e \in Range(log) : e.trade \in known[p] => e.recordedAt < begunAt[p]
    /\ \A e, f \in Range(log) : e.trade \in fence[f.trade] => e.recordedAt < f.recordedAt

LogInv == TypeInv /\ LockInv /\ IdsInv /\ OutcomesInv /\ TimesInv

\* s lists some of the rows, each once, in the order of the SELECT.
IsListing(s, rows) ==
    /\ s \in Seq(rows)
    /\ \A i, j \in 1..Len(s) : s[i] = s[j] => i = j
    /\ \A i, j \in 1..Len(s) : i < j => ~ListedBefore(s[j], s[i])

\* A reader's answer lists rows that match its query, leaves no row out that was reported
\* when it was asked unless it is full, and has the rows of the answer before it.
AnswerOK(r) ==
    /\ pc[r] \in {"idle", "select"}
    /\ pc[r] = "select" \/ Answered(r) => asked[r] \in Query
    /\ Answered(r) => IsListing(answer[r], Matching(asked[r]))
    /\ earlier[r] # None => asked[r] \in Query /\ IsListing(earlier[r], Matching(asked[r]))
    /\ Answered(r) /\ earlier[r] # None /\ ~Full(r)
          => Range(earlier[r]) \subseteq Range(answer[r])
    /\ \A e \in Range(log) :
          /\ Answered(r)
          /\ e.trade \in known[r]
          /\ Matches(e, asked[r])
          => \/ Listed(r, e.trade)
             \/ Full(r) /\ \A f \in Range(answer[r]) : f.recordedAt >= e.recordedAt

AnswersInv == \A r \in Readers : AnswerOK(r)

Inv == LogInv /\ AnswersInv


-----------------------------------------------------------------------------
(***************************************************************************)
(* The operators.                                                          *)
(***************************************************************************)

LEMMA MinOfTwo ==
    ASSUME NEW a \in Int, NEW b \in Int
    PROVE  Min({a, b}) = IF a <= b THEN a ELSE b
BY DEF Min

LEMMA MaxOfTwo ==
    ASSUME NEW a \in Int, NEW b \in Int
    PROVE  Max({a, b}) = IF a >= b THEN a ELSE b
BY DEF Max

\* The limits that handlers accept are those that both stores use as they are.
LEMMA AcceptedLimitIsUsed ==
    ASSUME NEW impl, NEW raw \in RawLimits, LimitAccepted(raw)
    PROVE  /\ StoreLimit(impl, raw) = IF raw = None THEN DefaultLimit ELSE raw
           /\ StoreLimit(impl, raw) \in 1..MaxLimit
<1> DEFINE limit == IF raw = None THEN DefaultLimit ELSE raw
<1>1. limit \in 1..MaxLimit /\ MaxLimit \in Nat
  BY AuditAssumption DEF LimitAccepted
<1> HIDE DEF limit
<1>2. GoStoreLimit(limit) = limit
  BY <1>1, MinOfTwo DEF GoStoreLimit
<1>3. PyStoreLimit(limit) = limit
  BY <1>1, MinOfTwo, MaxOfTwo DEF PyStoreLimit
<1>4. StoreLimit(impl, raw) = limit
  BY <1>2, <1>3 DEF StoreLimit, limit
<1> QED
  BY <1>1, <1>4 DEF limit

LEMMA RangeOfAppend ==
    ASSUME NEW S, NEW s \in Seq(S), NEW x \in S
    PROVE  /\ Append(s, x) \in Seq(S)
           /\ Range(Append(s, x)) = Range(s) \union {x}
<1>1. /\ Append(s, x) \in Seq(S) /\ Len(Append(s, x)) = Len(s) + 1
      /\ \A i \in 1..Len(s) : Append(s, x)[i] = s[i]
      /\ Append(s, x)[Len(s) + 1] = x
  BY AppendProperties
<1>2. DOMAIN s = 1..Len(s) /\ DOMAIN Append(s, x) = 1..(Len(s) + 1) /\ Len(s) \in Nat
  BY <1>1, LenProperties
<1>3. ASSUME NEW y \in Range(s) PROVE y \in Range(Append(s, x))
  BY <1>1, <1>2 DEF Range
<1>4. x \in Range(Append(s, x))
  BY <1>1, <1>2 DEF Range
<1>5. ASSUME NEW y \in Range(Append(s, x)) PROVE y \in Range(s) \union {x}
  <2>1. PICK i \in 1..(Len(s) + 1) : y = Append(s, x)[i]
    BY <1>2 DEF Range
  <2>2. CASE i \in 1..Len(s)
    BY <1>1, <1>2, <2>1, <2>2 DEF Range
  <2>3. CASE i = Len(s) + 1
    BY <1>1, <2>1, <2>3
  <2> QED
    BY <1>2, <2>2, <2>3
<1> QED
  BY <1>1, <1>3, <1>4, <1>5

LEMMA RangeInSet ==
    ASSUME NEW S, NEW s \in Seq(S)
    PROVE  Range(s) \subseteq S
BY LenProperties DEF Range

\* The rows of a sequence are finitely many.
LEMMA RangeIsFinite ==
    ASSUME NEW S, NEW s \in Seq(S)
    PROVE  IsFiniteSet(Range(s))
<1>1. Len(s) \in Nat /\ DOMAIN s = 1..Len(s) /\ s \in [1..Len(s) -> S]
  BY LenProperties
<1>2. s \in Surjection(1..Len(s), Range(s))
  BY <1>1 DEF Surjection, Range
<1>3. IsFiniteSet(1..Len(s))
  BY <1>1, FS_Interval
<1> QED
  BY <1>2, <1>3, FS_Surjection

-----------------------------------------------------------------------------
(***************************************************************************)
(* The log.                                                                *)
(***************************************************************************)

RecorderStep(p) ==
    \/ StartCall(p) \/ Begin(p) \/ Lock(p) \/ NothingToRecord(p)
    \/ RecordAudit(p) \/ Commit(p) \/ FinishSweep(p) \/ FailCall(p)

ReaderStep(r) == StartQuery(r) \/ Select(r) \/ RefuseQuery(r)

\* The steps of a recorder that leave the log alone.
LogStays(p) == RecorderStep(p) /\ log' = log /\ fence' = fence

\* The row of p becomes visible.
LogGrows(p) ==
    /\ RecorderStep(p)
    /\ pc[p] = "commit"
    /\ WriteRow(p)
    /\ EndTransaction(p)
    /\ pc' = [pc EXCEPT ![p] = pc'[p]] /\ pc'[p] \in {"begin", "idle"}

LEMMA RecorderSteps ==
    ASSUME TypeInv, NEW p \in Recorders, RecorderStep(p)
    PROVE  LogStays(p) \/ LogGrows(p)
<1>0. pc \in [Recorders \union Readers ->
                {"idle", "begin", "lock", "record", "commit", "select"}]
  BY DEF TypeInv
<1>1. CASE StartCall(p) \/ Begin(p) \/ Lock(p) \/ NothingToRecord(p) \/ RecordAudit(p)
             \/ FinishSweep(p)
  BY <1>1 DEF StartCall, Begin, Lock, NothingToRecord, RecordAudit, FinishSweep, LogStays
<1>2. CASE Commit(p)
  <2>1. pc[p] = "commit" /\ WriteRow(p) /\ EndTransaction(p) /\ (Go(p, "begin") \/ Go(p, "idle"))
    BY <1>2 DEF Commit, AfterTransaction
  <2> QED
    BY <1>0, <2>1 DEF LogGrows, Go
<1>3. CASE FailCall(p)
  <2>1. EndTransaction(p) /\ Go(p, "idle")
    BY <1>3 DEF FailCall
  <2>2. CASE pc[p] = "commit" /\ WriteRow(p)
    BY <1>0, <2>1, <2>2 DEF LogGrows, Go
  <2>3. CASE UNCHANGED <<dbClock, log, fence>>
    BY <2>3 DEF LogStays
  <2> QED
    BY <1>3, <2>2, <2>3 DEF FailCall
<1> QED
  BY <1>1, <1>2, <1>3 DEF RecorderStep

LEMMA TypeOfRecorderStep ==
    ASSUME TypeInv, LockInv, NEW p \in Recorders, RecorderStep(p)
    PROVE  TypeInv'
<1>1. reading' = reading
  BY DEF RecorderStep, StartCall, Begin, Lock, NothingToRecord, RecordAudit, Commit, FinishSweep,
         FailCall
<1>2. dbClock' \in Nat /\ begunAt' \in [Recorders -> Nat]
  <2>1. CASE Begin(p)
    BY <2>1 DEF Begin, TypeInv
  <2>2. CASE LogGrows(p)
    BY <2>2 DEF LogGrows, WriteRow, EndTransaction, TypeInv
  <2>3. CASE LogStays(p) /\ ~Begin(p)
    <3>1. dbClock' = dbClock
      BY <2>3 DEF LogStays, RecorderStep, StartCall, Lock, NothingToRecord, RecordAudit, Commit,
                  FinishSweep, FailCall, WriteRow, TypeInv
    <3>2. begunAt' \in [Recorders -> Nat]
      BY <2>3 DEF TypeInv, LogStays, RecorderStep, StartCall, Lock, NothingToRecord, RecordAudit,
                  Commit, FinishSweep, FailCall, EndTransaction, transaction
    <3> QED
      BY <3>1, <3>2 DEF TypeInv
  <2> QED
    BY <2>1, <2>2, <2>3, RecorderSteps
<1>3. pc' \in [Recorders \union Readers ->
                 {"idle", "begin", "lock", "record", "commit", "select"}]
  BY DEF TypeInv, RecorderStep, StartCall, Begin, Lock, NothingToRecord, RecordAudit, Commit,
         FinishSweep, FailCall, AfterTransaction, Go
<1>4. trade' \in [Recorders -> Trades \union {None}]
  <2>1. CASE Begin(p)
    BY <2>1 DEF Begin, TypeInv
  <2>2. CASE ~Begin(p)
    BY <2>2 DEF TypeInv, RecorderStep, StartCall, Lock, NothingToRecord, RecordAudit, Commit,
                FinishSweep, FailCall, EndTransaction, transaction
  <2> QED
    BY <2>1, <2>2
<1>5. row' \in [Recorders -> Entry \union {None}]
  <2>1. CASE RecordAudit(p)
    <3>1. trade[p] \in Trades /\ begunAt[p] \in Nat
      BY <2>1 DEF RecordAudit, LockInv, InTransaction, TypeInv
    <3> QED
      BY <2>1, <3>1 DEF RecordAudit, TypeInv, Entry, Outcomes
  <2>2. CASE ~RecordAudit(p)
    BY <2>2 DEF TypeInv, RecorderStep, StartCall, Begin, Lock, NothingToRecord, Commit,
                FinishSweep, FailCall, EndTransaction, transaction
  <2> QED
    BY <2>1, <2>2
<1>6. claimed' \in [Recorders -> SUBSET Trades] /\ reported' \subseteq Trades
  <2>1. CASE Commit(p)
    <3>1. trade[p] \in Trades
      BY <2>1 DEF Commit, LockInv, InTransaction
    <3>2. p \in Sweepers => claimed' = [claimed EXCEPT ![p] = claimed[p] \union {trade[p]}]
                            /\ reported' = reported
      BY <2>1 DEF Commit
    <3>3. p \notin Sweepers => claimed' = claimed /\ reported' = reported \union {trade[p]}
      BY <2>1 DEF Commit
    <3>4. claimed \in [Recorders -> SUBSET Trades] /\ reported \subseteq Trades
      BY DEF TypeInv
    <3>5. claimed[p] \union {trade[p]} \in SUBSET Trades
      BY <3>1, <3>4
    <3> QED
      BY <3>1, <3>2, <3>3, <3>4, <3>5
  <2>2. CASE ~Commit(p)
    BY <2>2 DEF TypeInv, RecorderStep, StartCall, Begin, Lock, NothingToRecord, RecordAudit,
                FinishSweep, FailCall
  <2> QED
    BY <2>1, <2>2
<1>7. known' \in [Recorders \union Readers -> SUBSET Trades]
  BY DEF TypeInv, RecorderStep, StartCall, Begin, Lock, NothingToRecord, RecordAudit, Commit,
         FinishSweep, FailCall, AfterTransaction
<1>8. log' \in Seq(Entry) /\ fence' \in [Trades -> SUBSET Trades]
  <2>1. CASE LogStays(p)
    BY <2>1 DEF LogStays, TypeInv
  <2>2. CASE LogGrows(p)
    <3>1. row[p] \in Entry /\ trade[p] \in Trades
      BY <2>2 DEF LogGrows, LockInv, InTransaction
    <3> QED
      BY <2>2, <3>1, RangeOfAppend DEF LogGrows, WriteRow, TypeInv
  <2> QED
    BY <2>1, <2>2, RecorderSteps
<1> QED
  BY <1>1, <1>2, <1>3, <1>4, <1>5, <1>6, <1>7, <1>8 DEF TypeInv, reading

\* A recorder changes no one else's transaction.
LEMMA OthersKeepTransactions ==
    ASSUME TypeInv, NEW p \in Recorders, RecorderStep(p), NEW q \in Recorders, q # p
    PROVE  /\ pc'[q] = pc[q] /\ known'[q] = known[q] /\ claimed'[q] = claimed[q]
           /\ trade'[q] = trade[q] /\ begunAt'[q] = begunAt[q] /\ row'[q] = row[q]
<1>1. pc'[q] = pc[q] /\ known'[q] = known[q]
  BY DEF TypeInv, RecorderStep, StartCall, Begin, Lock, NothingToRecord, RecordAudit, Commit,
         FinishSweep, FailCall, AfterTransaction, Go
<1>2. claimed'[q] = claimed[q]
  BY DEF TypeInv, RecorderStep, StartCall, Begin, Lock, NothingToRecord, RecordAudit, Commit,
         FinishSweep, FailCall
<1>3. CASE Begin(p)
  BY <1>1, <1>2, <1>3 DEF Begin, TypeInv
<1>4. CASE RecordAudit(p)
  BY <1>1, <1>2, <1>4 DEF RecordAudit, TypeInv
<1>5. CASE ~Begin(p) /\ ~RecordAudit(p)
  BY <1>1, <1>2, <1>5 DEF TypeInv, RecorderStep, StartCall, Lock, NothingToRecord, Commit,
         FinishSweep, FailCall, EndTransaction, transaction
<1> QED
  BY <1>3, <1>4, <1>5

\* What a step does to the transaction of its caller.
LEMMA OwnTransaction ==
    ASSUME TypeInv, NEW p \in Recorders, RecorderStep(p)
    PROVE  \/ Begin(p) /\ pc'[p] = "lock"
           \/ Lock(p) /\ pc'[p] = "record"
           \/ RecordAudit(p) /\ pc'[p] = "commit"
           \/ pc'[p] \in {"begin", "idle"}
BY DEF TypeInv, RecorderStep, StartCall, Begin, Lock, NothingToRecord, RecordAudit, Commit,
       FinishSweep, FailCall, AfterTransaction, Go

LEMMA LoggedStays ==
    ASSUME NEW p \in Recorders, LogStays(p)
    PROVE  Range(log)' = Range(log) /\ Logged' = Logged
BY DEF LogStays, Logged, Range

LEMMA LoggedGrows ==
    ASSUME TypeInv, LockInv, NEW p \in Recorders, LogGrows(p)
    PROVE  /\ row[p] \in Entry /\ row[p].trade = trade[p] /\ row[p].recordedAt = begunAt[p]
           /\ trade[p] \in Trades /\ trade[p] \notin Logged
           /\ Range(log)' = Range(log) \union {row[p]}
           /\ Logged' = Logged \union {trade[p]}
<1>1. /\ row[p] \in Entry /\ row[p].trade = trade[p] /\ row[p].recordedAt = begunAt[p]
      /\ trade[p] \in Trades /\ trade[p] \notin Logged
  BY DEF LogGrows, LockInv, InTransaction, HasLock
<1>2. log' = Append(log, row[p]) /\ log \in Seq(Entry)
  BY DEF LogGrows, WriteRow, TypeInv
<1>3. Range(log)' = Range(log) \union {row[p]}
  BY <1>1, <1>2, RangeOfAppend
<1>4. Logged' = Logged \union {trade[p]}
  BY <1>1, <1>3 DEF Logged
<1> QED
  BY <1>1, <1>3, <1>4

LEMMA LockInvOfRecorderStep ==
    ASSUME TypeInv, LockInv, NEW p \in Recorders, RecorderStep(p)
    PROVE  LockInv'
<1>1. \A q \in Recorders \ {p} :
         pc'[q] = pc[q] /\ trade'[q] = trade[q] /\ begunAt'[q] = begunAt[q] /\ row'[q] = row[q]
  BY OthersKeepTransactions
<1>2. \A q \in Recorders \ {p} : HasLock(q) => trade[q] \notin Logged'
  <2>1. CASE LogStays(p)
    BY <2>1, LoggedStays DEF LockInv
  <2>2. CASE LogGrows(p)
    BY <2>2, LoggedGrows DEF LogGrows, HasLock, LockInv
  <2> QED
    BY <2>1, <2>2, RecorderSteps
<1>3. CASE pc'[p] \in {"begin", "idle"}
  BY <1>1, <1>2, <1>3 DEF LockInv, InTransaction, HasLock
<1>4. CASE Begin(p) /\ pc'[p] = "lock"
  <2>1. trade'[p] \in Trades
    BY <1>4 DEF Begin, TypeInv
  <2> QED
    BY <1>1, <1>2, <1>4, <2>1 DEF LockInv, InTransaction, HasLock
<1>5. CASE Lock(p) /\ pc'[p] = "record"
  <2>1. /\ pc[p] = "lock" /\ trade' = trade /\ log' = log
        /\ \A q \in Recorders \ {p} : HasLock(q) => trade[q] # trade[p]
        /\ ~Finalized(trade[p])
    BY <1>5 DEF Lock, LockFree, HoldsLock, HasLock, transaction
  <2>2. trade[p] \in Trades /\ trade[p] \notin Logged'
    BY <2>1 DEF LockInv, InTransaction, Finalized, Logged, Range
  <2> QED
    BY <1>1, <1>2, <1>5, <2>1, <2>2 DEF LockInv, InTransaction, HasLock
<1>6. CASE RecordAudit(p) /\ pc'[p] = "commit"
  <2>1. /\ pc[p] = "record" /\ trade' = trade /\ begunAt' = begunAt /\ log' = log
        /\ trade[p] \in Trades /\ trade[p] \notin Logged /\ Logged' = Logged
    BY <1>6 DEF RecordAudit, LockInv, InTransaction, HasLock, Logged, Range
  <2>2. row'[p] \in Entry /\ row'[p].trade = trade[p] /\ row'[p].recordedAt = begunAt[p]
    <3>1. begunAt[p] \in Nat
      BY DEF TypeInv
    <3> QED
      BY <1>6, <2>1, <3>1 DEF RecordAudit, TypeInv, Entry, Outcomes
  <2> QED
    BY <1>1, <1>2, <1>6, <2>1, <2>2 DEF LockInv, InTransaction, HasLock
<1> QED
  BY <1>3, <1>4, <1>5, <1>6, OwnTransaction

LEMMA IdsInvOfRecorderStep ==
    ASSUME TypeInv, LockInv, IdsInv, NEW p \in Recorders, RecorderStep(p)
    PROVE  IdsInv'
<1>1. \A q \in Recorders \ {p} : pc'[q] = pc[q] /\ row'[q] = row[q]
  BY OthersKeepTransactions
<1>2. CASE LogStays(p) /\ pc'[p] # "commit"
  BY <1>1, <1>2, LoggedStays DEF IdsInv
<1>3. CASE LogStays(p) /\ RecordAudit(p) /\ pc'[p] = "commit"
  <2>1. PICK id \in Ids \ ({e.id : e \in Range(log)}
                        \union {row[q].id : q \in {q \in Recorders : row[q] # None}}) :
             row'[p].id = id
    BY <1>3 DEF RecordAudit, TypeInv
  <2>2. \A q \in Recorders : pc[q] = "commit" => row[q] # None
    BY AuditAssumption DEF LockInv
  <2>3. /\ \A e \in Range(log) : e.id # row'[p].id
        /\ \A q \in Recorders : pc[q] = "commit" => row[q].id # row'[p].id
    BY <2>1, <2>2
  <2> QED
    BY <1>1, <1>3, <2>3, LoggedStays DEF IdsInv
<1>4. CASE LogGrows(p)
  <2>1. Range(log)' = Range(log) \union {row[p]} /\ pc[p] = "commit" /\ pc'[p] # "commit"
    BY <1>4, LoggedGrows DEF LogGrows
  <2> QED
    BY <1>1, <2>1 DEF IdsInv
<1> QED
  BY <1>2, <1>3, <1>4, RecorderSteps, OwnTransaction

LEMMA OutcomesInvOfRecorderStep ==
    ASSUME TypeInv, LockInv, OutcomesInv, NEW p \in Recorders, RecorderStep(p)
    PROVE  OutcomesInv'
<1>1. Logged \subseteq Logged'
  BY LoggedStays, LoggedGrows, RecorderSteps
<1>2. \A e, f \in Range(log)' : e.trade = f.trade => e = f
  <2>1. CASE LogStays(p)
    BY <2>1, LoggedStays DEF OutcomesInv
  <2>2. CASE LogGrows(p)
    BY <2>2, LoggedGrows DEF OutcomesInv, Logged
  <2> QED
    BY <2>1, <2>2, RecorderSteps
<1>3. /\ reported' \subseteq Logged'
      /\ claimed'[p] \subseteq Logged'
  <2>1. CASE Commit(p)
    <3>1. trade[p] \in Logged'
      <4>1. WriteRow(p) /\ row[p] \in Entry /\ row[p].trade = trade[p] /\ log \in Seq(Entry)
        BY <2>1 DEF Commit, LockInv, TypeInv
      <4> QED
        BY <4>1, RangeOfAppend DEF WriteRow, Logged
    <3>2. p \in Sweepers => claimed' = [claimed EXCEPT ![p] = claimed[p] \union {trade[p]}]
                            /\ reported' = reported
      BY <2>1 DEF Commit
    <3>3. p \notin Sweepers => claimed' = claimed /\ reported' = reported \union {trade[p]}
      BY <2>1 DEF Commit
    <3>4. claimed \in [Recorders -> SUBSET Trades]
      BY DEF TypeInv
    <3> QED
      BY <1>1, <3>1, <3>2, <3>3, <3>4 DEF OutcomesInv
  <2>2. CASE FinishSweep(p)
    BY <1>1, <2>2 DEF FinishSweep, OutcomesInv, TypeInv
  <2>3. CASE ~Commit(p) /\ ~FinishSweep(p)
    BY <1>1, <2>3 DEF OutcomesInv, TypeInv, RecorderStep, StartCall, Begin, Lock,
                      NothingToRecord, RecordAudit, FailCall
  <2> QED
    BY <2>1, <2>2, <2>3
<1>4. known'[p] \subseteq Logged'
  <2>1. known'[p] \in {known[p], reported, {}}
    BY DEF TypeInv, RecorderStep, StartCall, Begin, Lock, NothingToRecord, RecordAudit, Commit,
           FinishSweep, FailCall, AfterTransaction
  <2> QED
    BY <1>1, <2>1 DEF OutcomesInv
<1>5. \A q \in (Recorders \union Readers) \ {p} : known'[q] = known[q]
  BY DEF TypeInv, RecorderStep, StartCall, Begin, Lock, NothingToRecord, RecordAudit, Commit,
         FinishSweep, FailCall, AfterTransaction
<1>6. \A q \in Recorders \ {p} : claimed'[q] = claimed[q]
  BY OthersKeepTransactions
<1>7. \A t \in Trades : fence'[t] \subseteq Logged'
  <2>1. CASE LogStays(p)
    BY <1>1, <2>1 DEF LogStays, OutcomesInv
  <2>2. CASE LogGrows(p)
    <3>1. fence' = [fence EXCEPT ![trade[p]] = known[p]] /\ fence \in [Trades -> SUBSET Trades]
      BY <2>2 DEF LogGrows, WriteRow, TypeInv
    <3> QED
      BY <1>1, <3>1 DEF OutcomesInv
  <2> QED
    BY <2>1, <2>2, RecorderSteps
<1>8. \A q \in Recorders : claimed'[q] \subseteq Logged'
  BY <1>1, <1>3, <1>6 DEF OutcomesInv
<1>9. \A q \in Recorders \union Readers : known'[q] \subseteq Logged'
  BY <1>1, <1>4, <1>5 DEF OutcomesInv
<1> QED
  BY <1>2, <1>3, <1>7, <1>8, <1>9 DEF OutcomesInv

LEMMA TimesInvOfRecorderStep ==
    ASSUME TypeInv, LockInv, OutcomesInv, TimesInv, NEW p \in Recorders, RecorderStep(p)
    PROVE  TimesInv'
<1>0. /\ dbClock \in Nat /\ begunAt \in [Recorders -> Nat]
      /\ \A e \in Range(log) : e \in Entry /\ e.recordedAt \in Nat /\ e.trade \in Logged
  <2>1. Range(log) \subseteq Entry
    BY RangeInSet DEF TypeInv
  <2> QED
    BY <2>1 DEF TypeInv, Entry, Logged
<1>1. \A q \in Recorders \ {p} :
         pc'[q] = pc[q] /\ known'[q] = known[q] /\ begunAt'[q] = begunAt[q]
  BY OthersKeepTransactions
<1>2. CASE LogStays(p)
  <2>1. Range(log)' = Range(log) /\ fence' = fence
    BY <1>2, LoggedStays DEF LogStays
  <2>2. CASE Begin(p)
    <3>1. /\ dbClock' \in {dbClock, dbClock + 1} /\ begunAt'[p] = dbClock' /\ known' = known
      BY <2>2 DEF Begin, TypeInv
    <3> QED
      BY <1>0, <1>1, <2>1, <3>1 DEF TimesInv, InTransaction
  <2>3. CASE Lock(p) \/ RecordAudit(p)
    <3>1. /\ dbClock' = dbClock /\ begunAt' = begunAt /\ known' = known
          /\ InTransaction(p)
      BY <2>3 DEF Lock, RecordAudit, transaction, InTransaction
    <3> QED
      BY <1>1, <2>1, <3>1 DEF TimesInv, InTransaction
  <2>4. CASE ~Begin(p) /\ pc'[p] \in {"begin", "idle"}
    <3>1. dbClock' = dbClock
      BY <1>2, <2>4 DEF LogStays, TypeInv, RecorderStep, StartCall, Lock, NothingToRecord,
                        RecordAudit, Commit, FinishSweep, FailCall, WriteRow
    <3> QED
      BY <1>1, <2>1, <2>4, <3>1 DEF TimesInv, InTransaction
  <2> QED
    BY <2>2, <2>3, <2>4, OwnTransaction
<1>3. CASE LogGrows(p)
  <2> DEFINE new == row[p]
  <2>1. /\ new \in Entry /\ new.trade = trade[p] /\ new.recordedAt = begunAt[p]
        /\ trade[p] \in Trades /\ trade[p] \notin Logged
        /\ Range(log)' = Range(log) \union {new}
    BY <1>3, LoggedGrows
  <2>2. /\ dbClock' = dbClock + 1 /\ pc'[p] \in {"begin", "idle"} /\ InTransaction(p)
        /\ fence' = [fence EXCEPT ![trade[p]] = known[p]]
    BY <1>3 DEF LogGrows, WriteRow, InTransaction
  <2>3. /\ fence'[trade[p]] = known[p]
        /\ \A t \in Trades \ {trade[p]} : fence'[t] = fence[t]
    BY <2>1, <2>2 DEF TypeInv
  <2>4. begunAt[p] < dbClock' /\ begunAt[p] <= dbClock
    BY <1>0, <2>2 DEF TimesInv
  <2> HIDE DEF new
  <2>5. \A e \in Range(log)' : e.recordedAt < dbClock'
    BY <1>0, <2>1, <2>2, <2>4 DEF TimesInv
  <2>6. ASSUME NEW q \in Recorders, InTransaction(q)'
        PROVE  /\ begunAt'[q] <= dbClock'
               /\ \A e \in Range(log)' : e.trade \in known'[q] => e.recordedAt < begunAt'[q]
    <3>1. q # p /\ InTransaction(q)
      BY <1>1, <2>2, <2>6 DEF InTransaction
    <3>2. new.trade \notin known[q]
      BY <2>1 DEF OutcomesInv
    <3> QED
      BY <1>0, <1>1, <2>1, <2>2, <3>1, <3>2 DEF TimesInv
  <2>7. ASSUME NEW e \in Range(log)', NEW f \in Range(log)', e.trade \in fence'[f.trade]
        PROVE  e.recordedAt < f.recordedAt
    <3>1. \A t \in Trades : trade[p] \notin fence[t]
      BY <2>1 DEF OutcomesInv
    <3>2. trade[p] \notin known[p]
      BY <2>1 DEF OutcomesInv
    <3>3. f.trade \in Trades
      BY <1>0, <2>1 DEF Entry
    <3>4. e # new
      BY <2>1, <2>3, <2>7, <3>1, <3>2, <3>3
    <3>5. CASE f = new
      BY <2>1, <2>2, <2>3, <2>7, <3>4, <3>5 DEF TimesInv
    <3>6. CASE f # new
      <4>1. f \in Range(log) /\ f.trade # trade[p]
        BY <1>0, <2>1, <3>6
      <4> QED
        BY <2>1, <2>3, <2>7, <3>3, <3>4, <4>1 DEF TimesInv
    <3> QED
      BY <3>5, <3>6
  <2> QED
    BY <2>5, <2>6, <2>7 DEF TimesInv
<1> QED
  BY <1>2, <1>3, RecorderSteps

\* A reader changes nothing that recorders use.
LEMMA ReaderLeavesRecorders ==
    ASSUME TypeInv, NEW r \in Readers, ReaderStep(r)
    PROVE  /\ UNCHANGED <<dbClock, log, transaction, claimed, reported, fence>>
           /\ \A p \in (Recorders \union Readers) \ {r} : pc'[p] = pc[p] /\ known'[p] = known[p]
           /\ known'[r] \in {known[r], reported} /\ pc'[r] \in {"idle", "select"}
           /\ r \notin Recorders
<1>1. r \notin Recorders
  BY AuditAssumption
<1> QED
  BY <1>1 DEF TypeInv, ReaderStep, StartQuery, Select, RefuseQuery, Go

LEMMA TypeOfReaderStep ==
    ASSUME TypeInv, NEW r \in Readers, ReaderStep(r)
    PROVE  TypeInv'
<1>1. asked' \in [Readers -> Query \union {None}]
  <2>1. CASE StartQuery(r)
    <3>1. PICK impl \in {"go", "python"}, t \in TradeFilters, o \in OutcomeFilters,
               raw \in RawLimits :
             LET query == [trade |-> t, outcome |-> o, limit |-> StoreLimit(impl, raw)] IN
             /\ LimitAccepted(raw)
             /\ asked' = [asked EXCEPT ![r] = query]
             /\ earlier' = [earlier EXCEPT ![r] = IF query = asked[r] THEN answer[r] ELSE None]
      BY <2>1, Zenon DEF StartQuery
    <3>2. StoreLimit(impl, raw) \in 1..MaxLimit
      BY <3>1, AcceptedLimitIsUsed
    <3>3. [trade |-> t, outcome |-> o, limit |-> StoreLimit(impl, raw)] \in Query
      BY <3>2, AuditAssumption DEF Query
    <3>4. asked \in [Readers -> Query \union {None}]
      BY DEF TypeInv
    <3> QED
      BY <3>1, <3>3, <3>4
  <2>2. CASE Select(r) \/ RefuseQuery(r)
    BY <2>2 DEF Select, RefuseQuery, TypeInv
  <2> QED
    BY <2>1, <2>2 DEF ReaderStep
<1>2. DOMAIN answer' = Readers /\ DOMAIN earlier' = Readers
  BY DEF ReaderStep, StartQuery, Select, RefuseQuery, TypeInv
<1>3. /\ pc' \in [Recorders \union Readers ->
                    {"idle", "begin", "lock", "record", "commit", "select"}]
      /\ known' \in [Recorders \union Readers -> SUBSET Trades]
  BY DEF ReaderStep, StartQuery, Select, RefuseQuery, TypeInv, Go
<1> QED
  BY <1>1, <1>2, <1>3, ReaderLeavesRecorders DEF TypeInv, transaction

LEMMA LogInvOfReaderStep ==
    ASSUME LogInv, NEW r \in Readers, ReaderStep(r)
    PROVE  LogInv'
<1>1. /\ UNCHANGED <<dbClock, log, trade, begunAt, row, claimed, reported, fence>>
      /\ \A p \in Recorders : pc'[p] = pc[p] /\ known'[p] = known[p]
      /\ \A p \in Readers : known'[p] \in {known[p], reported}
  BY ReaderLeavesRecorders DEF LogInv, transaction
<1>2. Range(log)' = Range(log) /\ Logged' = Logged
  BY <1>1 DEF Range, Logged
<1>3. TypeInv'
  BY TypeOfReaderStep DEF LogInv
<1>4. LockInv'
  BY <1>1, <1>2 DEF LogInv, LockInv, InTransaction, HasLock
<1>5. IdsInv'
  BY <1>1, <1>2 DEF LogInv, IdsInv
<1>6. OutcomesInv'
  <2>1. \A p \in Recorders \union Readers : known'[p] \subseteq Logged
    BY <1>1 DEF LogInv, OutcomesInv
  <2> QED
    BY <1>1, <1>2, <2>1 DEF LogInv, OutcomesInv
<1>7. TimesInv'
  BY <1>1, <1>2 DEF LogInv, TimesInv, InTransaction
<1> QED
  BY <1>3, <1>4, <1>5, <1>6, <1>7 DEF LogInv

LEMMA NextIsStep == Next <=> (\E p \in Recorders : RecorderStep(p))
                             \/ (\E r \in Readers : ReaderStep(r))
BY DEF Next, RecorderStep, ReaderStep

LEMMA NextLogInv == LogInv /\ [Next]_vars => LogInv'
<1>1. ASSUME LogInv, NEW p \in Recorders, RecorderStep(p) PROVE LogInv'
  BY <1>1, TypeOfRecorderStep, LockInvOfRecorderStep, IdsInvOfRecorderStep,
     OutcomesInvOfRecorderStep, TimesInvOfRecorderStep DEF LogInv
<1>2. ASSUME LogInv, UNCHANGED vars PROVE LogInv'
  <2>1. UNCHANGED <<dbClock, log, pc, trade, begunAt, row, claimed, asked, answer, earlier,
                    reported, known, fence>>
    BY <1>2 DEF vars, transaction, reading
  <2>2. Range(log)' = Range(log) /\ Logged' = Logged
    BY <2>1 DEF Range, Logged
  <2>3. TypeInv' /\ LockInv'
    BY <1>2, <2>1, <2>2 DEF LogInv, TypeInv, LockInv, InTransaction, HasLock
  <2>4. IdsInv' /\ OutcomesInv'
    BY <1>2, <2>1, <2>2 DEF LogInv, IdsInv, OutcomesInv
  <2>5. TimesInv'
    BY <1>2, <2>1, <2>2 DEF LogInv, TimesInv, InTransaction
  <2> QED
    BY <2>3, <2>4, <2>5 DEF LogInv
<1> QED
  BY <1>1, <1>2, LogInvOfReaderStep, NextIsStep

LEMMA InitLogInv == Init => LogInv
<1> SUFFICES ASSUME Init PROVE LogInv
  OBVIOUS
<1>1. Range(log) = {} /\ Logged = {}
  BY DEF Init, Range, Logged
<1>2. TypeInv
  BY AuditAssumption DEF Init, TypeInv
<1>3. LockInv /\ IdsInv /\ OutcomesInv /\ TimesInv
  BY <1>1 DEF Init, LockInv, IdsInv, OutcomesInv, TimesInv, InTransaction, HasLock
<1> QED
  BY <1>2, <1>3 DEF LogInv

-----------------------------------------------------------------------------
(***************************************************************************)
(* The answers.                                                            *)
(***************************************************************************)

\* A listing leaves rows out only when it is full, and none that go before its own.
LEMMA ListingIs ==
    ASSUME NEW rows, IsFiniteSet(rows), NEW limit \in Nat, NEW s \in Listings(rows, limit)
    PROVE  /\ IsListing(s, rows)
           /\ \A e \in rows \ Range(s) :
                 Len(s) = limit /\ \A f \in Range(s) : ~ListedBefore(e, f)
<1> DEFINE n == Min({limit, Cardinality(rows)})
<1>1. Cardinality(rows) \in Nat
  BY FS_CardinalityType
<1>2. n = IF limit <= Cardinality(rows) THEN limit ELSE Cardinality(rows)
  BY <1>1, MinOfTwo
<1>3. /\ s \in [1..n -> rows]
      /\ \A i, j \in DOMAIN s : s[i] = s[j] => i = j
      /\ \A i, j \in DOMAIN s : i < j => ~ListedBefore(s[j], s[i])
      /\ \A e \in rows \ Range(s), i \in DOMAIN s : ~ListedBefore(e, s[i])
  BY DEF Listings, IsInjective
<1> HIDE DEF n
<1>4. n \in Nat
  BY <1>1, <1>2
<1>5. s \in Seq(rows)
  BY <1>3, <1>4, SeqDef
<1>6. Len(s) = n /\ DOMAIN s = 1..n
  BY <1>3, <1>4, <1>5, LenProperties
<1>7. ASSUME NEW e \in rows \ Range(s) PROVE Len(s) = limit
  <2>1. SUFFICES ASSUME n # limit PROVE FALSE
    BY <1>6
  <2>2. n = Cardinality(rows)
    BY <1>2, <2>1
  <2>3. Cardinality(1..n) = Cardinality(rows) /\ IsFiniteSet(1..n)
    BY <1>1, <2>2, FS_Interval
  <2>4. s \in Injection(1..n, rows)
    BY <1>3, <1>6 DEF Injection, IsInjective
  <2>5. s \in Surjection(1..n, rows)
    BY <2>3, <2>4, FS_Injection
  <2> QED
    BY <1>7, <2>5, <1>6 DEF Surjection, Range
<1>8. ASSUME NEW e \in rows \ Range(s), NEW f \in Range(s) PROVE ~ListedBefore(e, f)
  BY <1>3, <1>8 DEF Range
<1> QED
  BY <1>3, <1>5, <1>6, <1>7, <1>8 DEF IsListing

\* A listing stays one when there are more rows.
LEMMA ListingStays ==
    ASSUME NEW rows, NEW more, rows \subseteq more, NEW s, IsListing(s, rows)
    PROVE  IsListing(s, more)
BY SeqMonotonic DEF IsListing

\* What is written after a query does not make its answer wrong.
LEMMA AnswerStays ==
    ASSUME LogInv, NEW r \in Readers, AnswerOK(r),
           pc'[r] = pc[r] /\ known'[r] = known[r] /\ asked'[r] = asked[r],
           answer'[r] = answer[r] /\ earlier'[r] = earlier[r],
           Range(log) \subseteq Range(log)',
           \A e \in Range(log)' \ Range(log) : e.trade \notin Logged
    PROVE  AnswerOK(r)'
<1>1. known[r] \subseteq Logged
  BY DEF LogInv, OutcomesInv
<1>2. Answered(r)' = Answered(r) /\ Full(r)' = Full(r)
      /\ \A t : Listed(r, t)' = Listed(r, t)
  BY DEF Answered, Full, Listed
<1>3. Matching(asked[r]) \subseteq Matching(asked[r])'
  BY DEF Matching, Matches
<1>4. /\ (Answered(r) => IsListing(answer[r], Matching(asked[r])))'
      /\ (earlier[r] # None => asked[r] \in Query /\ IsListing(earlier[r], Matching(asked[r])))'
  <2>1. \A s : IsListing(s, Matching(asked[r])) => IsListing(s, Matching(asked[r])')
    BY <1>3, ListingStays
  <2>2. (Answered(r) => IsListing(answer[r], Matching(asked[r])))'
    <3> SUFFICES ASSUME Answered(r)' PROVE IsListing(answer'[r], Matching(asked[r])')
      BY DEF IsListing
    <3> QED
      BY <1>2, <2>1 DEF AnswerOK
  <2>3. (earlier[r] # None => asked[r] \in Query /\ IsListing(earlier[r], Matching(asked[r])))'
    <3> SUFFICES ASSUME earlier'[r] # None
                 PROVE  asked'[r] \in Query /\ IsListing(earlier'[r], Matching(asked[r])')
      BY DEF IsListing, Query
    <3> QED
      BY <2>1 DEF AnswerOK
  <2> QED
    BY <2>2, <2>3
<1>5. ASSUME NEW e \in Range(log)', Answered(r)', e.trade \in known'[r], Matches(e, asked'[r])
      PROVE  \/ Listed(r, e.trade)'
             \/ Full(r)' /\ \A f \in Range(answer'[r]) : f.recordedAt >= e.recordedAt
  BY <1>1, <1>2, <1>5 DEF AnswerOK
<1> QED
  BY <1>2, <1>4, <1>5 DEF AnswerOK, Query

LEMMA AnswersOfRecorderStep ==
    ASSUME LogInv, AnswersInv, NEW p \in Recorders, RecorderStep(p)
    PROVE  AnswersInv'
<1>1. Range(log) \subseteq Range(log)' /\ \A e \in Range(log)' \ Range(log) : e.trade \notin Logged
  <2>1. CASE LogStays(p)
    BY <2>1, LoggedStays
  <2>2. CASE LogGrows(p)
    BY <2>2, LoggedGrows DEF LogInv
  <2> QED
    BY <2>1, <2>2, RecorderSteps DEF LogInv
<1>2. UNCHANGED <<asked, answer, earlier>>
  BY DEF reading, RecorderStep, StartCall, Begin, Lock, NothingToRecord, RecordAudit, Commit,
         FinishSweep, FailCall
<1>3. ASSUME NEW r \in Readers PROVE AnswerOK(r)'
  <2>1. r # p
    BY AuditAssumption
  <2>2. pc'[r] = pc[r] /\ known'[r] = known[r]
    BY <2>1 DEF LogInv, TypeInv, RecorderStep, StartCall, Begin, Lock, NothingToRecord,
                RecordAudit, Commit, FinishSweep, FailCall, AfterTransaction, Go
  <2> QED
    BY <1>1, <1>2, <2>2, AnswerStays DEF AnswersInv
<1> QED
  BY <1>3 DEF AnswersInv

LEMMA SelectAnswer ==
    ASSUME LogInv, NEW r \in Readers, AnswerOK(r), Select(r)
    PROVE  AnswerOK(r)'
<1> DEFINE rows == Matching(asked[r])
<1>1. asked[r] \in Query /\ pc[r] = "select"
  BY DEF Select, AnswerOK
<1>2. PICK s \in Listings(rows, asked[r].limit) : answer' = [answer EXCEPT ![r] = s]
  BY DEF Select
<1>3. IsFiniteSet(rows) /\ rows \subseteq Range(log)
  <2>1. IsFiniteSet(Range(log)) /\ rows \subseteq Range(log)
    BY RangeIsFinite DEF LogInv, TypeInv, Matching
  <2> QED
    BY <2>1, FS_Subset
<1>4. asked[r].limit \in Nat
  BY <1>1, AuditAssumption DEF Query
<1>5. /\ UNCHANGED <<log, asked, earlier, known>>
      /\ pc'[r] = "idle" /\ answer'[r] = s
  BY <1>2 DEF Select, Go, LogInv, TypeInv
<1>6. Matching(asked[r])' = rows /\ Range(log)' = Range(log)
  BY <1>5 DEF Matching, Matches, Range
<1> HIDE DEF rows
<1>7. /\ IsListing(s, rows)
      /\ \A e \in rows \ Range(s) :
            Len(s) = asked[r].limit /\ \A f \in Range(s) : ~ListedBefore(e, f)
  BY <1>2, <1>3, <1>4, ListingIs
<1>8. Range(s) \subseteq rows /\ rows \subseteq Entry
  BY <1>3, <1>7, RangeInSet DEF IsListing, LogInv, TypeInv
<1>9. ASSUME earlier[r] # None, Len(s) # asked[r].limit PROVE Range(earlier[r]) \subseteq Range(s)
  <2>1. Range(earlier[r]) \subseteq rows
    BY <1>9, RangeInSet DEF AnswerOK, IsListing, rows
  <2> QED
    BY <1>7, <1>9, <2>1
<1>10. ASSUME NEW e \in rows, \A f \in Range(s) : f.trade # e.trade
       PROVE  Len(s) = asked[r].limit /\ \A f \in Range(s) : f.recordedAt >= e.recordedAt
  <2>1. e \notin Range(s)
    BY <1>10
  <2>2. ASSUME NEW f \in Range(s) PROVE f.recordedAt >= e.recordedAt
    <3>1. e.recordedAt \in Nat /\ f.recordedAt \in Nat
      BY <1>8 DEF Entry
    <3>2. ~ListedBefore(e, f)
      BY <1>7, <2>1
    <3> QED
      BY <3>1, <3>2 DEF ListedBefore
  <2> QED
    BY <1>7, <2>1, <2>2
<1>11. Full(r)' <=> Len(s) = asked[r].limit
  BY <1>5 DEF Full
<1>12. (\A e \in Range(log) :
          /\ Answered(r)
          /\ e.trade \in known[r]
          /\ Matches(e, asked[r])
          => \/ Listed(r, e.trade)
             \/ Full(r) /\ \A f \in Range(answer[r]) : f.recordedAt >= e.recordedAt)'
  <2> SUFFICES ASSUME NEW e \in Range(log), Matches(e, asked[r])
               PROVE  \/ \E f \in Range(s) : f.trade = e.trade
                      \/ Len(s) = asked[r].limit
                         /\ \A f \in Range(s) : f.recordedAt >= e.recordedAt
    BY <1>5, <1>6, <1>11 DEF Listed, Matches
  <2>1. e \in rows
    BY DEF rows, Matching
  <2> QED
    BY <1>10, <2>1
<1>13. (earlier[r] # None => asked[r] \in Query /\ IsListing(earlier[r], Matching(asked[r])))'
  <2> SUFFICES ASSUME earlier[r] # None PROVE IsListing(earlier[r], rows)
    BY <1>1, <1>5, <1>6 DEF IsListing, Query
  <2> QED
    BY DEF AnswerOK, rows
<1>14. IsListing(answer[r], Matching(asked[r]))'
  BY <1>5, <1>6, <1>7 DEF IsListing
<1>15. (Answered(r) /\ earlier[r] # None /\ ~Full(r)
          => Range(earlier[r]) \subseteq Range(answer[r]))'
  BY <1>5, <1>9, <1>11
<1> QED
  BY <1>1, <1>5, <1>12, <1>13, <1>14, <1>15 DEF AnswerOK, Query

LEMMA AnswersOfReaderStep ==
    ASSUME LogInv, AnswersInv, NEW r \in Readers, ReaderStep(r)
    PROVE  AnswersInv'
<1>1. /\ Range(log)' = Range(log)
      /\ \A q \in Readers \ {r} : pc'[q] = pc[q] /\ known'[q] = known[q]
  BY ReaderLeavesRecorders DEF LogInv, Range
<1>2. \A q \in Readers \ {r} :
         asked'[q] = asked[q] /\ answer'[q] = answer[q] /\ earlier'[q] = earlier[q]
  <2>1. CASE StartQuery(r)
    BY <2>1 DEF StartQuery, LogInv, TypeInv
  <2>2. CASE Select(r) \/ RefuseQuery(r)
    BY <2>2 DEF Select, RefuseQuery, LogInv, TypeInv
  <2> QED
    BY <2>1, <2>2 DEF ReaderStep
<1>3. \A q \in Readers \ {r} : AnswerOK(q)'
  BY <1>1, <1>2, AnswerStays DEF AnswersInv
<1>4. AnswerOK(r)'
  <2>0. AnswerOK(r)
    BY DEF AnswersInv
  <2>1. CASE StartQuery(r)
    <3>1. PICK impl \in {"go", "python"}, t \in TradeFilters, o \in OutcomeFilters,
               raw \in RawLimits :
             LET query == [trade |-> t, outcome |-> o, limit |-> StoreLimit(impl, raw)] IN
             /\ LimitAccepted(raw)
             /\ asked' = [asked EXCEPT ![r] = query]
             /\ earlier' = [earlier EXCEPT ![r] = IF query = asked[r] THEN answer[r] ELSE None]
      BY <2>1, Zenon DEF StartQuery
    <3> DEFINE query == [trade |-> t, outcome |-> o, limit |-> StoreLimit(impl, raw)]
    <3>2. query \in Query
      BY <3>1, AcceptedLimitIsUsed, AuditAssumption DEF Query
    <3> HIDE DEF query
    <3>3. /\ asked'[r] = query /\ answer'[r] = None /\ pc'[r] = "select"
          /\ earlier'[r] = IF query = asked[r] THEN answer[r] ELSE None
      BY <2>1, <3>1 DEF StartQuery, LogInv, TypeInv, Go, query
    <3>4. Matching(query)' = Matching(query)
      BY <1>1 DEF Matching, Matches
    <3>5. (earlier[r] # None => asked[r] \in Query /\ IsListing(earlier[r], Matching(asked[r])))'
      <4> SUFFICES ASSUME earlier'[r] # None
                   PROVE  asked'[r] \in Query /\ IsListing(earlier'[r], Matching(asked[r])')
        BY DEF IsListing, Query
      <4>1. query = asked[r] /\ earlier'[r] = answer[r] /\ Answered(r)
        BY <3>3 DEF Answered
      <4>2. Matching(asked[r])' = Matching(asked[r])
        BY <1>1, <3>3, <4>1 DEF Matching, Matches
      <4> QED
        BY <2>0, <3>2, <3>3, <4>1, <4>2 DEF AnswerOK
    <3> QED
      BY <3>2, <3>3, <3>5 DEF AnswerOK, Answered, Query
  <2>2. CASE Select(r)
    BY <2>0, <2>2, SelectAnswer
  <2>3. CASE RefuseQuery(r)
    <3>1. answer'[r] = None /\ earlier'[r] = None /\ pc'[r] = "idle"
      BY <2>3 DEF RefuseQuery, LogInv, TypeInv, Go
    <3> QED
      BY <3>1 DEF AnswerOK, Answered
  <2> QED
    BY <2>1, <2>2, <2>3 DEF ReaderStep
<1> QED
  BY <1>3, <1>4 DEF AnswersInv

-----------------------------------------------------------------------------
(***************************************************************************)
(* The inductive invariant.                                                *)
(***************************************************************************)

LEMMA InitInv == Init => Inv
<1>1. Init => AnswersInv
  BY DEF Init, AnswersInv, AnswerOK, Answered
<1> QED
  BY <1>1, InitLogInv DEF Inv

LEMMA NextInv == Inv /\ [Next]_vars => Inv'
<1> SUFFICES ASSUME Inv, [Next]_vars PROVE AnswersInv'
  BY NextLogInv DEF Inv
<1>1. ASSUME NEW p \in Recorders, RecorderStep(p) PROVE AnswersInv'
  BY <1>1, AnswersOfRecorderStep DEF Inv
<1>2. ASSUME NEW r \in Readers, ReaderStep(r) PROVE AnswersInv'
  BY <1>2, AnswersOfReaderStep DEF Inv
<1>3. ASSUME UNCHANGED vars PROVE AnswersInv'
  <2>1. UNCHANGED <<log, pc, known, asked, answer, earlier>>
    BY <1>3 DEF vars, reading
  <2>2. Range(log)' = Range(log)
    BY <2>1 DEF Range
  <2> QED
    BY <2>1, <2>2, AnswerStays DEF Inv, AnswersInv
<1> QED
  BY <1>1, <1>2, <1>3, NextIsStep

LEMMA Invariance == Spec => []Inv
BY InitInv, NextInv, PTL DEF Spec

-----------------------------------------------------------------------------
(***************************************************************************)
(* What callers may conclude from an answer.                               *)
(***************************************************************************)

\* An outcome that some caller was told of before a query began is in its answer,
\* unless the answer is full with rows that are at least as recent.
THEOREM ReportedOutcomesAreListed == Spec => []ReportedIsListed
<1>1. Inv => ReportedIsListed
  BY DEF Inv, AnswersInv, AnswerOK, ReportedIsListed
<1> QED
  BY Invariance, <1>1, PTL

\* An outcome whose call began after another outcome was reported is listed above it,
\* whatever either call waited for and although entries carry the time at which their
\* transactions began.
THEOREM AnswersKeepRealTime == Spec => []RealTimeOrder
<1>1. ASSUME Inv, NEW r \in Readers, Answered(r),
             NEW i \in DOMAIN answer[r], NEW j \in DOMAIN answer[r], i < j
      PROVE  answer[r][i].trade \notin fence[answer[r][j].trade]
  <2> DEFINE e == answer[r][i]  f == answer[r][j]
  <2>1. IsListing(answer[r], Matching(asked[r]))
    BY <1>1 DEF Inv, AnswersInv, AnswerOK
  <2>2. DOMAIN answer[r] = 1..Len(answer[r])
    BY <2>1, LenProperties DEF IsListing
  <2>3. ~ListedBefore(f, e)
    BY <1>1, <2>1, <2>2 DEF IsListing
  <2>4. e \in Range(log) /\ f \in Range(log)
    BY <2>1, RangeInSet DEF IsListing, Matching, Range
  <2>5. e.recordedAt \in Nat /\ f.recordedAt \in Nat
    BY <1>1, <2>4, RangeInSet DEF Inv, LogInv, TypeInv, Entry
  <2>6. e.trade \in fence[f.trade] => e.recordedAt < f.recordedAt
    BY <1>1, <2>4 DEF Inv, LogInv, TimesInv
  <2> QED
    BY <2>3, <2>5, <2>6 DEF ListedBefore
<1>2. Inv => RealTimeOrder
  BY <1>1 DEF RealTimeOrder
<1> QED
  BY Invariance, <1>2, PTL

\* The order of the SELECT is total on the log: identifiers break ties.
LEMMA OrderIsTotal ==
    ASSUME LogInv, NEW e \in Range(log), NEW f \in Range(log), e # f
    PROVE  ListedBefore(e, f) <=> ~ListedBefore(f, e)
<1>1. e \in Entry /\ f \in Entry
  BY RangeInSet DEF LogInv, TypeInv
<1>2. Ids \subseteq Int
  BY DEF Ids
<1>3. e.recordedAt \in Nat /\ f.recordedAt \in Nat /\ e.id \in Int /\ f.id \in Int
  <2>1. \A g \in Entry : g.recordedAt \in Nat /\ g.id \in Ids
    BY DEF Entry
  <2>2. e.id \in Ids /\ f.id \in Ids
    BY <1>1, <2>1
  <2> QED
    BY <1>1, <1>2, <2>1, <2>2
<1>4. e.id # f.id
  BY DEF LogInv, IdsInv
<1> QED
  BY <1>3, <1>4 DEF ListedBefore

\* Two answers to one query do not disagree: the later one has the rows of the earlier
\* one unless newer ones fill it, and lists what both have in the same order.
THEOREM RepeatedAnswersAgree == Spec => []AnswersAgree
<1>1. ASSUME Inv, NEW r \in Readers, Answered(r), earlier[r] # None,
             NEW i \in DOMAIN earlier[r], NEW j \in DOMAIN earlier[r],
             NEW k \in DOMAIN answer[r], NEW l \in DOMAIN answer[r],
             earlier[r][i] = answer[r][k], earlier[r][j] = answer[r][l], i < j
      PROVE  k < l
  <2> DEFINE e == answer[r][k]  f == answer[r][l]
  <2>1. IsListing(answer[r], Matching(asked[r])) /\ IsListing(earlier[r], Matching(asked[r]))
    BY <1>1 DEF Inv, AnswersInv, AnswerOK
  <2>2. /\ DOMAIN answer[r] = 1..Len(answer[r]) /\ DOMAIN earlier[r] = 1..Len(earlier[r])
        /\ k \in Int /\ l \in Int /\ i \in Int /\ j \in Int
    <3>1. DOMAIN answer[r] = 1..Len(answer[r]) /\ DOMAIN earlier[r] = 1..Len(earlier[r])
      BY <2>1, LenProperties DEF IsListing
    <3> QED
      BY <3>1
  <2>3. e # f
    BY <1>1, <2>1, <2>2 DEF IsListing
  <2>4. ~ListedBefore(f, e)
    BY <1>1, <2>1, <2>2 DEF IsListing
  <2>5. e \in Range(log) /\ f \in Range(log)
    BY <2>1, RangeInSet DEF IsListing, Matching, Range
  <2>6. ListedBefore(e, f)
    BY <1>1, <2>3, <2>4, <2>5, OrderIsTotal DEF Inv
  <2>7. ~ (l < k)
    BY <2>1, <2>2, <2>6 DEF IsListing
  <2> QED
    BY <2>2, <2>3, <2>7
<1>2. ASSUME Inv, NEW r \in Readers, Answered(r), earlier[r] # None, ~Full(r)
      PROVE  Range(earlier[r]) \subseteq Range(answer[r])
  BY <1>2 DEF Inv, AnswersInv, AnswerOK
<1>3. Inv => AnswersAgree
  BY <1>1, <1>2 DEF AnswersAgree
<1> QED
  BY Invariance, <1>3, PTL
=============================================================================
