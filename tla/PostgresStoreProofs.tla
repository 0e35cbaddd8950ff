------------------------- MODULE PostgresStoreProofs -------------------------
(***************************************************************************)
(* Theorems about PostgresStore, for every set of callers, trades and      *)
(* sources, any mix of implementations and configurations, any advisory    *)
(* lock keys, colliding or not, and any bounds.                            *)
(*                                                                         *)
(* The inductive invariant Inv says who holds the advisory lock (LockOK),  *)
(* what a transaction knows about its trade at each statement (TxnOK), and *)
(* that a trade is finalized once and then has no rows (FinalizedOnce,     *)
(* FinalizedHasNoPending).  TypeOK needs CallOK, which says which values a *)
(* call has fetched when it reaches a statement.                           *)
(*                                                                         *)
(* The second half is about what calls write.  Work adds what a            *)
(* transaction computes from the rows it read: the row it inserts and the  *)
(* entry it records are functions of the rows that are committed when it   *)
(* commits.  CommitKinds concludes that a commit is one of four changes of *)
(* the tables; no event and no report of a break is lost or doubled, and   *)
(* the statements implement the promise of Correlation.                    *)
(***************************************************************************)
EXTENDS PostgresStore, EventRowsProofs, FiniteSetTheorems

CallOK ==
    \A p \in Procs :
        /\ pc[p] \in IngestPcs =>
              /\ trade[p] \in Trades /\ source[p] \in Sources
              /\ now[p] + Window[p] <= Horizon
        /\ pc[p] \in LockedPcs => trade[p] \in Trades
        /\ pc[p] \in {"delete", "record"} => ExpectedEvents(seen[p], Expected[p]) # {}
        /\ pc[p] \in {"claimDelete", "claimRecord"} => seen[p] # {}

TypeInv == TypeOK /\ CallOK

\* A transaction past its first statement holds the lock of its trade.
LockOK ==
    \A p \in Procs : pc[p] \in LockedPcs => locks[LockKey[trade[p]]] = p

Clean(p) == ins[p] = {} /\ del[p] = {} /\ entry[p] = None

\* What p's transaction has written, read and found out at each statement.
Txn(p) ==
    /\ pc[p] \notin {"events", "delete", "record", "commit",
                    "claimRecord", "claimCommit", "rollback"} => Clean(p)
    /\ pc[p] \in LockedPcs =>
          /\ \A r \in ins[p] \union del[p] : r.trade = trade[p]
          /\ entry[p] # None => entry[p].trade = trade[p]
    /\ pc[p] \in {"events", "delete"} => del[p] = {} /\ entry[p] = None
    /\ pc[p] \in {"existing", "insert", "events", "delete", "record"} => ~Finalized(trade[p])
    /\ pc[p] = "commit" /\ ~Clean(p) => ~Finalized(trade[p])
    /\ pc[p] \in {"insert", "delete", "claimDelete"} => seen[p] = View(p)
    /\ pc[p] = "record" =>
          ins[p] = {} /\ entry[p] = None /\ del[p] = RowsOf(pending, trade[p])
    /\ pc[p] = "commit" /\ entry[p] = None => del[p] = {}
    /\ pc[p] = "commit" /\ entry[p] # None =>
          ins[p] = {} /\ del[p] = RowsOf(pending, trade[p])
    /\ pc[p] = "claimRecord" =>
          /\ ins[p] = {} /\ entry[p] = None
          /\ del[p] = RowsOf(pending, trade[p]) /\ seen[p] = del[p]
    /\ pc[p] = "claimCommit" /\ entry[p] = None => Clean(p)
    /\ pc[p] = "claimCommit" /\ entry[p] # None =>
          ins[p] = {} /\ del[p] = RowsOf(pending, trade[p]) /\ del[p] # {}

TxnOK == \A p \in Procs : Txn(p)

Inv == TypeInv /\ LockOK /\ TxnOK /\ FinalizedOnce /\ FinalizedHasNoPending

-----------------------------------------------------------------------------
(***************************************************************************)
(* Facts used in several places.                                           *)
(***************************************************************************)

\* A transaction sees rows of its own trade, and they are rows.
LEMMA ViewIsRows ==
    ASSUME TypeInv, NEW p \in Procs
    PROVE  View(p) \in SUBSET Row /\ RowsOf(pending, trade[p]) \in SUBSET Row
BY DEF View, RowsOf, TypeInv, TypeOK

\* The configuration of a caller names sources, at least one, and a window.
LEMMA ConfigIsOK ==
    ASSUME NEW p \in Procs
    PROVE  /\ Expected[p] \in SUBSET Sources /\ Expected[p] # {}
           /\ Window[p] \in Nat
BY StoreAssumption

\* The row an ingest call inserts is a row of its trade.
LEMMA InsertedRow ==
    ASSUME TypeInv, NEW p \in Procs, pc[p] = "insert"
    PROVE  LET row == Merge(Impl[p], seen[p], NewRow(trade[p], source[p], now[p], Window[p]))
           IN  row \in Row /\ row.trade = trade[p]
<1> DEFINE new == NewRow(trade[p], source[p], now[p], Window[p])
<1>1. new \in Row /\ new.trade = trade[p]
  BY ConfigIsOK, RowsAssumption DEF NewRow, Row, Stamps, TypeInv, TypeOK, CallOK, IngestPcs
<1>2. seen[p] \in SUBSET Row
  BY DEF TypeInv, TypeOK
<1> HIDE DEF new
<1>3. Merge(Impl[p], seen[p], new) \in Row /\ Merge(Impl[p], seen[p], new).trade = trade[p]
  BY <1>1, <1>2, MergeKeepsKey
<1> QED
  BY <1>3 DEF new

\* The end of a transaction leaves well-typed tables and locks.
LEMMA EndIsTyped ==
    ASSUME TypeInv, NEW p \in Procs
    PROVE  /\ ApplyWrites(p) => pending' \subseteq Row /\ audit' \in Seq(AuditEntry)
           /\ ReleaseLock(p) => locks' \in [Keys -> Procs \union {None}]
<1>1. ASSUME ApplyWrites(p) PROVE pending' \subseteq Row
  BY <1>1 DEF ApplyWrites, TypeInv, TypeOK
<1>2. ASSUME ApplyWrites(p) PROVE audit' \in Seq(AuditEntry)
  <2>1. CASE entry[p] = None
    BY <1>2, <2>1 DEF ApplyWrites, TypeInv, TypeOK
  <2>2. CASE entry[p] # None
    <3>1. entry[p] \in AuditEntry
      BY <2>2 DEF TypeInv, TypeOK
    <3>2. audit' = Append(audit, entry[p])
      BY <1>2, <2>2 DEF ApplyWrites
    <3> QED
      BY <3>1, <3>2 DEF TypeInv, TypeOK
  <2> QED
    BY <2>1, <2>2
<1>3. ASSUME ReleaseLock(p) PROVE locks' \in [Keys -> Procs \union {None}]
  BY <1>3 DEF ReleaseLock, TypeInv, TypeOK
<1> QED
  BY <1>1, <1>2, <1>3

-----------------------------------------------------------------------------
(***************************************************************************)
(* Type correctness.                                                       *)
(***************************************************************************)

\* Initially every variable has its type and every call is idle.
LEMMA InitTypeInv == Init => TypeInv
<1> SUFFICES ASSUME Init PROVE TypeInv
  OBVIOUS
<1>1. TypeOK
  BY RowsAssumption, StoreAssumption DEF Init, TypeOK, Stamps
<1>2. CallOK
  BY DEF Init, CallOK, IngestPcs, LockedPcs
<1> QED
  BY <1>1, <1>2 DEF TypeInv

\* The steps of an ingest call keep the types.
LEMMA IngestTypeInv ==
    ASSUME TypeInv, NEW p \in Ingesters, StartIngest(p) \/ LockTrade(p) \/ IngestStep(p)
    PROVE  TypeInv'
<1> USE DEF IngestPcs, SweepPcs, LockedPcs, Go
<1> p \in Procs
  BY DEF Procs
<1>1. CASE StartIngest(p)
  BY <1>1, ConfigIsOK, RowsAssumption, StoreAssumption
     DEF StartIngest, TypeInv, TypeOK, CallOK, tables, writes, sweep, Stamps
<1>2. CASE LockTrade(p)
  BY <1>2, StoreAssumption DEF LockTrade, TypeInv, TypeOK, CallOK, tables, writes, sweep, request, history
<1>3. CASE CheckFinalized(p)
  BY <1>3 DEF CheckFinalized, TypeInv, TypeOK, CallOK, tables, writes, sweep, request, history
<1>4. CASE ReadExisting(p)
  BY <1>4, ViewIsRows DEF ReadExisting, TypeInv, TypeOK, CallOK, tables, writes, sweep, request, history
<1>5. CASE InsertPending(p)
  <2> DEFINE row == Merge(Impl[p], seen[p], NewRow(trade[p], source[p], now[p], Window[p]))
  <2>2. row \in Row
    BY <1>5, InsertedRow DEF InsertPending
  <2> HIDE DEF row
  <2>3. ins' = [ins EXCEPT ![p] = {row}] \/ ins' = ins
    BY <1>5 DEF InsertPending, row
  <2>4. ins' \in [Procs -> SUBSET Row]
    <3>1. {row} \in SUBSET Row /\ ins \in [Procs -> SUBSET Row]
      BY <2>2 DEF TypeInv, TypeOK
    <3> QED
      BY <2>3, <3>1
  <2>5. pc' = [pc EXCEPT ![p] = "commit"] \/ pc' = [pc EXCEPT ![p] = "events"]
    BY <1>5 DEF InsertPending
  <2>6. UNCHANGED <<clock, tables, locks, request, seen, del, entry, sweep, history>>
    BY <1>5 DEF InsertPending
  <2>7. pc[p] = "insert"
    BY <1>5 DEF InsertPending
  <2>8. TypeOK'
    BY <2>4, <2>5, <2>6 DEF TypeInv, TypeOK, tables, sweep, request, history
  <2>9. CallOK'
    BY <2>5, <2>6, <2>7 DEF TypeInv, TypeOK, CallOK, request
  <2> QED
    BY <2>8, <2>9 DEF TypeInv
<1>6. CASE ReadEvents(p)
  <2>1. HasEverySource(View(p), Expected[p]) => ExpectedEvents(View(p), Expected[p]) # {}
    BY ConfigIsOK DEF HasEverySource, ExpectedEvents, SourcesOf
  <2> QED
    BY <1>6, <2>1, ViewIsRows
       DEF ReadEvents, TypeInv, TypeOK, CallOK, tables, writes, sweep, request, history
<1>7. CASE DeletePending(p)
  BY <1>7, ViewIsRows
     DEF DeletePending, DeleteRows, TypeInv, TypeOK, CallOK, tables, sweep, request, history
<1>8. CASE RecordReconciled(p)
  <2>1. BuildReconciled(Impl[p], trade[p], ExpectedEvents(seen[p], Expected[p]), now[p]) \in AuditEntry
    <3>1. ExpectedEvents(seen[p], Expected[p]) \in SUBSET Row
      BY DEF ExpectedEvents, TypeInv, TypeOK
    <3> QED
      BY <1>8, <3>1, ReconciledIsEntry DEF RecordReconciled, TypeInv, TypeOK, CallOK
  <2> QED
    BY <1>8, <2>1 DEF RecordReconciled, TypeInv, TypeOK, CallOK, tables, sweep, request, history
<1>9. CASE CommitIngest(p)
  <2>1. acked' \subseteq Trades \X Sources
    BY <1>9 DEF CommitIngest, TypeInv, TypeOK, CallOK
  <2>2. reported' \in [Trades -> Nat]
    <3>1. reported' = reported \/ reported' = [reported EXCEPT ![trade[p]] = @ + 1]
      BY <1>9 DEF CommitIngest
    <3>2. reported[trade[p]] + 1 \in Nat /\ reported \in [Trades -> Nat]
      BY <1>9 DEF CommitIngest, TypeInv, TypeOK, CallOK
    <3> QED
      BY <3>1, <3>2
  <2>3. pending' \subseteq Row /\ audit' \in Seq(AuditEntry)
        /\ locks' \in [Keys -> Procs \union {None}]
    BY <1>9, EndIsTyped DEF CommitIngest
  <2>4. ForgetCall(p) /\ UNCHANGED <<clock, calls, fails>>
    BY <1>9 DEF CommitIngest
  <2> QED
    BY <2>1, <2>2, <2>3, <2>4, RowsAssumption
       DEF ForgetCall, ForgetTransaction, TypeInv, TypeOK, CallOK, Stamps
<1> QED
  BY <1>1, <1>2, <1>3, <1>4, <1>5, <1>6, <1>7, <1>8, <1>9 DEF IngestStep

\* The steps of a sweep keep the types.
LEMMA SweepTypeInv ==
    ASSUME TypeInv, NEW p \in Sweepers, StartSweep(p) \/ SweepStep(p)
    PROVE  TypeInv'
<1> USE DEF IngestPcs, SweepPcs, LockedPcs, Go
<1> p \in Procs
  BY DEF Procs
<1>1. CASE StartSweep(p)
  BY <1>1 DEF StartSweep, TypeInv, TypeOK, CallOK, tables, writes, sweep, history
<1>2. CASE ListExpired(p)
  <2>1. {r.trade : r \in {q \in pending : q.deadline <= now[p]}} \in SUBSET Trades
    BY DEF TypeInv, TypeOK, Row
  <2> QED
    BY <1>2, <2>1 DEF ListExpired, TypeInv, TypeOK, CallOK, tables, writes, request, history
<1>3. CASE ClaimTrade(p)
  <2> DEFINE t == Min(todo[p])
  <2>1. t \in Trades
    <3>1. todo[p] \in SUBSET Trades /\ todo[p] # {}
      BY <1>3 DEF ClaimTrade, TypeInv, TypeOK
    <3>2. todo[p] \in SUBSET Nat
      BY <3>1, RowsAssumption
    <3> QED
      BY <3>1, <3>2, MinOfNats
  <2> HIDE DEF t
  <2>2. todo' = [todo EXCEPT ![p] = @ \ {t}]
    BY <1>3 DEF ClaimTrade, t
  <2>3. UNCHANGED <<clock, tables, source, now, seen, writes, claimed, history>>
    BY <1>3 DEF ClaimTrade
  <2>4. \/ /\ locks' = [locks EXCEPT ![LockKey[t]] = p]
           /\ trade' = [trade EXCEPT ![p] = t]
           /\ pc' = [pc EXCEPT ![p] = "claimRead"]
        \/ UNCHANGED <<locks, trade, pc>>
    BY <1>3 DEF ClaimTrade, t
  <2>5. TypeOK'
    <3>1. todo' \in [Procs -> SUBSET Trades]
      BY <2>2 DEF TypeInv, TypeOK
    <3>2. locks' \in [Keys -> Procs \union {None}]
      BY <2>4 DEF TypeInv, TypeOK
    <3>3. trade' \in [Procs -> Trades \union {None}]
      BY <2>1, <2>4 DEF TypeInv, TypeOK
    <3>4. pc' \in [Procs -> IngestPcs \union SweepPcs \union {"idle", "rollback"}]
      BY <2>4 DEF TypeInv, TypeOK
    <3> QED
      BY <2>3, <3>1, <3>2, <3>3, <3>4 DEF TypeInv, TypeOK, tables, writes, history
  <2>6. CallOK'
    BY <2>1, <2>3, <2>4 DEF TypeInv, TypeOK, CallOK
  <2> QED
    BY <2>5, <2>6 DEF TypeInv
<1>4. CASE ReadClaimed(p)
  BY <1>4, ViewIsRows DEF ReadClaimed, TypeInv, TypeOK, CallOK, tables, writes, sweep, request, history
<1>5. CASE DeleteClaimed(p)
  BY <1>5, ViewIsRows
     DEF DeleteClaimed, DeleteRows, TypeInv, TypeOK, CallOK, tables, sweep, request, history
<1>6. CASE RecordBreak(p)
  <2>1. BuildBreak(trade[p], seen[p], Expected[p], now[p]) \in AuditEntry
    BY <1>6, BreakIsEntry, ConfigIsOK DEF RecordBreak, TypeInv, TypeOK, CallOK
  <2> QED
    BY <1>6, <2>1 DEF RecordBreak, TypeInv, TypeOK, CallOK, tables, sweep, request, history
<1>7. CASE PanicInBreak(p)
  BY <1>7 DEF PanicInBreak, TypeInv, TypeOK, CallOK, tables, writes, sweep, request, history
<1>8. CASE CommitClaim(p)
  <2>1. claimed' \in [Procs -> SUBSET Trades]
    <3>1. claimed' = claimed \/ claimed' = [claimed EXCEPT ![p] = @ \union {trade[p]}]
      BY <1>8 DEF CommitClaim
    <3>2. claimed[p] \union {trade[p]} \in SUBSET Trades /\ claimed \in [Procs -> SUBSET Trades]
      BY <1>8 DEF CommitClaim, TypeInv, TypeOK, CallOK
    <3> QED
      BY <3>1, <3>2
  <2>2. pending' \subseteq Row /\ audit' \in Seq(AuditEntry)
        /\ locks' \in [Keys -> Procs \union {None}]
    BY <1>8, EndIsTyped DEF CommitClaim
  <2>3. ForgetTransaction(p) /\ UNCHANGED <<clock, source, now, todo, history>>
        /\ pc' = [pc EXCEPT ![p] = "claim"]
    BY <1>8 DEF CommitClaim
  <2> QED
    BY <2>1, <2>2, <2>3 DEF ForgetTransaction, TypeInv, TypeOK, CallOK, history
<1>9. CASE ReturnSweep(p)
  <2>1. reported' \in [Trades -> Nat]
    BY <1>9 DEF ReturnSweep, TypeInv, TypeOK
  <2>2. ForgetCall(p) /\ UNCHANGED <<clock, tables, locks, acked, calls, fails>>
    BY <1>9 DEF ReturnSweep
  <2> QED
    BY <2>1, <2>2, RowsAssumption
       DEF ForgetCall, ForgetTransaction, TypeInv, TypeOK, CallOK, tables, Stamps
<1> QED
  BY <1>1, <1>2, <1>3, <1>4, <1>5, <1>6, <1>7, <1>8, <1>9 DEF SweepStep

\* A failed statement, a rollback and a lost commit keep the types.
LEMMA FailureTypeInv ==
    ASSUME TypeInv, NEW p \in Procs, Fail(p) \/ Rollback(p) \/ LoseCommit(p)
    PROVE  TypeInv'
<1> USE DEF IngestPcs, SweepPcs, LockedPcs, Go
<1>1. CASE Fail(p)
  BY <1>1, StoreAssumption DEF Fail, TypeInv, TypeOK, CallOK, tables, writes, sweep, request
<1>2. CASE Rollback(p)
  <2>1. ForgetCall(p) /\ UNCHANGED <<clock, tables, history>>
        /\ locks' \in [Keys -> Procs \union {None}]
    BY <1>2, EndIsTyped DEF Rollback
  <2> QED
    BY <2>1, RowsAssumption
       DEF ForgetCall, ForgetTransaction, TypeInv, TypeOK, CallOK, tables, history, Stamps
<1>3. CASE LoseCommit(p)
  <2>1. ForgetCall(p) /\ UNCHANGED <<clock, acked, reported, calls>>
        /\ fails < MaxFails /\ fails' = fails + 1
    BY <1>3 DEF LoseCommit
  <2>2. pending' \subseteq Row /\ audit' \in Seq(AuditEntry)
        /\ locks' \in [Keys -> Procs \union {None}]
    BY <1>3, EndIsTyped DEF LoseCommit
  <2>3. fails' \in 0..MaxFails
    BY <2>1, StoreAssumption DEF TypeInv, TypeOK
  <2> QED
    BY <2>1, <2>2, <2>3, RowsAssumption
       DEF ForgetCall, ForgetTransaction, TypeInv, TypeOK, CallOK, Stamps
<1> QED
  BY <1>1, <1>2, <1>3

\* Every step keeps the types.
LEMMA NextTypeInv == TypeInv /\ [Next]_vars => TypeInv'
<1> SUFFICES ASSUME TypeInv, [Next]_vars PROVE TypeInv'
  OBVIOUS
<1>1. CASE Tick
  BY <1>1, RowsAssumption
     DEF Tick, TypeInv, TypeOK, CallOK, tables, writes, sweep, request, history, Stamps
<1>2. ASSUME NEW p \in Ingesters, StartIngest(p) \/ LockTrade(p) \/ IngestStep(p)
      PROVE  TypeInv'
  BY <1>2, IngestTypeInv
<1>3. ASSUME NEW p \in Sweepers, StartSweep(p) \/ SweepStep(p)
      PROVE  TypeInv'
  BY <1>3, SweepTypeInv
<1>4. ASSUME NEW p \in Procs, Fail(p) \/ Rollback(p) \/ LoseCommit(p)
      PROVE  TypeInv'
  BY <1>4, FailureTypeInv
<1>5. CASE UNCHANGED vars
  BY <1>5 DEF vars, TypeInv, TypeOK, CallOK, tables, writes, sweep, request, history
<1> QED
  BY <1>1, <1>2, <1>3, <1>4, <1>5 DEF Next

\* Every variable of PostgresStore always holds a value of its kind; in
\* particular every row and every audit entry the calls write is well formed,
\* with stamps in range and a break or match duration computed from at least
\* one row.
THEOREM TypeCorrect == Spec => []TypeOK
<1>1. TypeInv => TypeOK
  BY DEF TypeInv
<1> QED
  BY InitTypeInv, NextTypeInv, <1>1, PTL DEF Spec

-----------------------------------------------------------------------------
(***************************************************************************)
(* The advisory lock.                                                      *)
(***************************************************************************)

\* Initially no transaction is open and no lock is held.
LEMMA InitLockOK == Init => LockOK
BY DEF Init, LockOK, LockedPcs

\* Releasing p's lock takes no lock from another transaction.
LEMMA ReleaseKeepsOthers ==
    ASSUME TypeInv, LockOK, NEW p \in Procs, ReleaseLock(p),
           NEW q \in Procs, q # p, pc[q] \in LockedPcs
    PROVE  locks'[LockKey[trade[q]]] = q
<1>1. LockKey[trade[q]] \in Keys
  BY StoreAssumption DEF TypeInv, CallOK
<1> QED
  BY <1>1 DEF ReleaseLock, LockOK

\* Every step keeps the locks with the transactions that work under them.
LEMMA NextLockOK == TypeInv /\ LockOK /\ [Next]_vars => LockOK'
<1> SUFFICES ASSUME TypeInv, LockOK, [Next]_vars PROVE LockOK'
  OBVIOUS
<1> USE DEF LockedPcs, Go
<1>1. CASE Tick \/ UNCHANGED vars
  BY <1>1 DEF Tick, vars, LockOK, request
<1>2. ASSUME NEW p \in Ingesters, StartIngest(p) \/ LockTrade(p) \/ IngestStep(p)
      PROVE  LockOK'
  <2> p \in Procs
    BY DEF Procs
  <2>1. CASE StartIngest(p)
    BY <2>1 DEF StartIngest, LockOK, TypeInv, TypeOK
  <2>2. CASE LockTrade(p)
    <3>1. LockKey[trade[p]] \in Keys /\ p # None
      BY <2>2, StoreAssumption DEF LockTrade, TypeInv, CallOK, IngestPcs
    <3>2. \A q \in Procs : pc[q] \in LockedPcs => LockKey[trade[q]] # LockKey[trade[p]]
      BY <2>2, StoreAssumption DEF LockTrade, LockOK
    <3> QED
      BY <2>2, <3>1, <3>2 DEF LockTrade, LockOK, TypeInv, TypeOK, request
  <2>3. CASE \/ CheckFinalized(p) \/ ReadExisting(p) \/ InsertPending(p) \/ ReadEvents(p)
             \/ DeletePending(p) \/ RecordReconciled(p)
    <3>1. pc[p] \in LockedPcs /\ \A q \in Procs : q # p => pc'[q] = pc[q]
      BY <2>3 DEF CheckFinalized, ReadExisting, InsertPending, ReadEvents, DeletePending,
                  RecordReconciled, TypeInv, TypeOK
    <3>2. UNCHANGED <<locks, trade>>
      BY <2>3 DEF CheckFinalized, ReadExisting, InsertPending, ReadEvents, DeletePending,
                  RecordReconciled, request
    <3> QED
      BY <3>1, <3>2 DEF LockOK
  <2>4. CASE CommitIngest(p)
    <3>1. ReleaseLock(p) /\ ForgetCall(p)
      BY <2>4 DEF CommitIngest
    <3> QED
      BY <3>1, ReleaseKeepsOthers DEF ForgetCall, ForgetTransaction, LockOK, TypeInv, TypeOK
  <2> QED
    BY <1>2, <2>1, <2>2, <2>3, <2>4 DEF IngestStep
<1>3. ASSUME NEW p \in Sweepers, StartSweep(p) \/ SweepStep(p)
      PROVE  LockOK'
  <2> p \in Procs
    BY DEF Procs
  <2>1. CASE StartSweep(p) \/ ListExpired(p)
    BY <2>1 DEF StartSweep, ListExpired, LockOK, TypeInv, TypeOK, request
  <2>2. CASE ClaimTrade(p)
    <3> DEFINE t == Min(todo[p])
    <3>1. t \in Trades
      <4>1. todo[p] \in SUBSET Trades /\ todo[p] # {} /\ todo[p] \in SUBSET Nat
        BY <2>2, RowsAssumption DEF ClaimTrade, TypeInv, TypeOK
      <4> QED
        BY <4>1, MinOfNats
    <3> HIDE DEF t
    <3>2. \/ /\ locks[LockKey[t]] = None
             /\ locks' = [locks EXCEPT ![LockKey[t]] = p]
             /\ trade' = [trade EXCEPT ![p] = t]
             /\ pc' = [pc EXCEPT ![p] = "claimRead"]
          \/ UNCHANGED <<locks, trade, pc>>
      BY <2>2 DEF ClaimTrade, t
    <3>3. CASE UNCHANGED <<locks, trade, pc>>
      BY <3>3 DEF LockOK
    <3>4. CASE /\ locks[LockKey[t]] = None
               /\ locks' = [locks EXCEPT ![LockKey[t]] = p]
               /\ trade' = [trade EXCEPT ![p] = t]
               /\ pc' = [pc EXCEPT ![p] = "claimRead"]
      <4>1. LockKey[t] \in Keys
        BY <3>1, StoreAssumption
      <4>2. \A q \in Procs : pc[q] \in LockedPcs => LockKey[trade[q]] # LockKey[t]
        BY <3>4, StoreAssumption DEF LockOK
      <4> QED
        BY <3>1, <3>4, <4>1, <4>2 DEF LockOK, TypeInv, TypeOK
    <3> QED
      BY <3>2, <3>3, <3>4
  <2>3. CASE ReadClaimed(p) \/ DeleteClaimed(p) \/ RecordBreak(p) \/ PanicInBreak(p)
    <3>1. pc[p] \in LockedPcs /\ \A q \in Procs : q # p => pc'[q] = pc[q]
      BY <2>3 DEF ReadClaimed, DeleteClaimed, RecordBreak, PanicInBreak, TypeInv, TypeOK
    <3>2. UNCHANGED <<locks, trade>>
      BY <2>3 DEF ReadClaimed, DeleteClaimed, RecordBreak, PanicInBreak, request
    <3> QED
      BY <3>1, <3>2 DEF LockOK
  <2>4. CASE CommitClaim(p)
    <3>1. ReleaseLock(p) /\ ForgetTransaction(p) /\ pc' = [pc EXCEPT ![p] = "claim"]
      BY <2>4 DEF CommitClaim
    <3> QED
      BY <3>1, ReleaseKeepsOthers DEF ForgetTransaction, LockOK, TypeInv, TypeOK
  <2>5. CASE ReturnSweep(p)
    BY <2>5 DEF ReturnSweep, ForgetCall, ForgetTransaction, LockOK, TypeInv, TypeOK
  <2> QED
    BY <1>3, <2>1, <2>2, <2>3, <2>4, <2>5 DEF SweepStep
<1>4. ASSUME NEW p \in Procs, Fail(p) \/ Rollback(p) \/ LoseCommit(p)
      PROVE  LockOK'
  <2>1. CASE Fail(p)
    BY <2>1 DEF Fail, LockOK, TypeInv, TypeOK, request
  <2>2. CASE Rollback(p) \/ LoseCommit(p)
    <3>1. ReleaseLock(p) /\ ForgetCall(p)
      BY <2>2 DEF Rollback, LoseCommit
    <3> QED
      BY <3>1, ReleaseKeepsOthers DEF ForgetCall, ForgetTransaction, LockOK, TypeInv, TypeOK
  <2> QED
    BY <1>4, <2>1, <2>2
<1> QED
  BY <1>1, <1>2, <1>3, <1>4 DEF Next

\* The advisory lock keeps concurrent calls apart: two transactions never work
\* on the same trade, in either implementation, even if trades share keys.
THEOREM LockIsMutex == Spec => []LockProtectsTrade
<1>1. TypeInv /\ LockOK => LockProtectsTrade
  BY DEF LockOK, LockProtectsTrade
<1> QED
  BY InitTypeInv, InitLockOK, NextTypeInv, NextLockOK, <1>1, PTL DEF Spec

-----------------------------------------------------------------------------
(***************************************************************************)
(* What a transaction knows about its trade.                               *)
(***************************************************************************)

\* What Txn(q) says depends on these variables of q alone, and on the committed
\* rows and entries of q's trade.
Kept(q) ==
    /\ pc'[q] = pc[q] /\ trade'[q] = trade[q] /\ seen'[q] = seen[q]
    /\ ins'[q] = ins[q] /\ del'[q] = del[q] /\ entry'[q] = entry[q]

FinalizedAfter(t) == \E i \in DOMAIN audit' : audit'[i].trade = t

TradeKept(t) ==
    /\ RowsOf(pending', t) = RowsOf(pending, t)
    /\ FinalizedAfter(t) <=> Finalized(t)

\* A step that leaves a transaction and its trade alone leaves true what the
\* transaction knows.
LEMMA TxnKept ==
    ASSUME NEW q \in Procs, Txn(q), Kept(q), TradeKept(trade[q])
    PROVE  Txn(q)'
BY DEF Txn, Kept, TradeKept, Clean, View, RowsOf, Finalized, FinalizedAfter

\* A step of p that changes no table.
LEMMA OthersKept ==
    ASSUME TxnOK, NEW p \in Procs, UNCHANGED tables,
           \A q \in Procs : q # p => Kept(q),
           Txn(p)'
    PROVE  TxnOK'
<1>1. \A t : TradeKept(t)
  BY DEF TradeKept, Finalized, FinalizedAfter, tables
<1> QED
  BY <1>1, TxnKept DEF TxnOK

\* What a commit of p does to the tables: the rows and the outcome of other
\* trades stay as they are.
LEMMA CommitKeepsOthers ==
    ASSUME TypeInv, TxnOK, NEW p \in Procs, pc[p] \in {"commit", "claimCommit"},
           ApplyWrites(p), NEW t \in Trades, t # trade[p]
    PROVE  TradeKept(t)
<1>1. RowsOf(pending', t) = RowsOf(pending, t)
  <2>1. \A r \in ins[p] \union del[p] : r.trade # t
    BY DEF TxnOK, Txn, LockedPcs
  <2> QED
    BY <2>1 DEF ApplyWrites, RowsOf
<1>2. FinalizedAfter(t) <=> Finalized(t)
  <2>1. CASE entry[p] = None
    BY <2>1 DEF ApplyWrites, FinalizedAfter, Finalized
  <2>2. CASE entry[p] # None
    <3>1. audit' = Append(audit, entry[p]) /\ audit \in Seq(AuditEntry) /\ entry[p] \in AuditEntry
      BY <2>2 DEF ApplyWrites, TypeInv, TypeOK
    <3>2. entry[p].trade # t
      BY <2>2 DEF TxnOK, Txn, LockedPcs
    <3> QED
      BY <3>1, <3>2 DEF FinalizedAfter, Finalized
  <2> QED
    BY <2>1, <2>2
<1> QED
  BY <1>1, <1>2 DEF TradeKept

\* A commit of p does not touch what other transactions know: none of them is
\* about p's trade.
LEMMA CommitTxnOK ==
    ASSUME TypeInv, LockOK, TxnOK, NEW p \in Procs, pc[p] \in {"commit", "claimCommit"},
           ApplyWrites(p),
           \A q \in Procs : q # p => Kept(q),
           Txn(p)'
    PROVE  TxnOK'
<1> SUFFICES ASSUME NEW q \in Procs, q # p PROVE Txn(q)'
  BY DEF TxnOK
<1>1. CASE pc[q] \in LockedPcs
  <2>1. trade[q] \in Trades /\ trade[q] # trade[p]
    BY <1>1 DEF LockOK, TypeInv, CallOK, LockedPcs
  <2>2. TradeKept(trade[q])
    BY <2>1, CommitKeepsOthers
  <2> QED
    BY <2>2, TxnKept DEF TxnOK
<1>2. CASE pc[q] \notin LockedPcs
  BY <1>2 DEF TxnOK, Txn, Kept, Clean, LockedPcs
<1> QED
  BY <1>1, <1>2

\* Initially no transaction knows or has written anything.
LEMMA InitTxnOK == Init => TxnOK
BY DEF Init, TxnOK, Txn, Clean, LockedPcs

\* The statements of an ingest call before its commit.
LEMMA IngestTxnOK ==
    ASSUME TypeInv, LockOK, TxnOK, NEW p \in Ingesters,
           StartIngest(p) \/ LockTrade(p) \/ IngestStep(p)
    PROVE  TxnOK'
<1> USE DEF LockedPcs, Go, Clean
<1> p \in Procs
  BY DEF Procs
<1>0. Txn(p)
  BY DEF TxnOK
<1>1. CASE StartIngest(p)
  <2>1. Txn(p)'
    BY <1>0, <1>1 DEF StartIngest, Txn, TypeInv, TypeOK, writes
  <2>2. UNCHANGED tables /\ \A q \in Procs : q # p => Kept(q)
    BY <1>1 DEF StartIngest, Kept, TypeInv, TypeOK, writes
  <2> QED
    BY <2>1, <2>2, OthersKept
<1>2. CASE LockTrade(p)
  <2>1. Txn(p)'
    BY <1>0, <1>2 DEF LockTrade, Txn, TypeInv, TypeOK, writes, request
  <2>2. UNCHANGED tables /\ \A q \in Procs : q # p => Kept(q)
    BY <1>2 DEF LockTrade, Kept, TypeInv, TypeOK, writes, request
  <2> QED
    BY <2>1, <2>2, OthersKept
<1>3. CASE CheckFinalized(p)
  <2>1. Txn(p)'
    BY <1>0, <1>3 DEF CheckFinalized, Txn, TypeInv, TypeOK, writes, request, tables, Finalized
  <2>2. UNCHANGED tables /\ \A q \in Procs : q # p => Kept(q)
    BY <1>3 DEF CheckFinalized, Kept, TypeInv, TypeOK, writes, request
  <2> QED
    BY <2>1, <2>2, OthersKept
<1>4. CASE ReadExisting(p)
  <2>1. Txn(p)'
    BY <1>0, <1>4 DEF ReadExisting, Txn, TypeInv, TypeOK, writes, request, tables, Finalized, View, RowsOf
  <2>2. UNCHANGED tables /\ \A q \in Procs : q # p => Kept(q)
    BY <1>4 DEF ReadExisting, Kept, TypeInv, TypeOK, writes, request
  <2> QED
    BY <2>1, <2>2, OthersKept
<1>5. CASE InsertPending(p)
  <2> DEFINE row == Merge(Impl[p], seen[p], NewRow(trade[p], source[p], now[p], Window[p]))
  <2>1. row.trade = trade[p]
    BY <1>5, InsertedRow DEF InsertPending
  <2> HIDE DEF row
  <2>2. \/ pc' = [pc EXCEPT ![p] = "commit"] /\ ins' = ins
        \/ pc' = [pc EXCEPT ![p] = "events"] /\ ins' = [ins EXCEPT ![p] = {row}]
    BY <1>5 DEF InsertPending, row
  <2>3. pc[p] = "insert" /\ UNCHANGED <<tables, trade, seen, del, entry>>
    BY <1>5 DEF InsertPending, request
  <2>4. Txn(p)'
    BY <1>0, <2>1, <2>2, <2>3 DEF Txn, TypeInv, TypeOK, tables, Finalized
  <2>5. \A q \in Procs : q # p => Kept(q)
    BY <2>2, <2>3 DEF Kept, TypeInv, TypeOK
  <2> QED
    BY <2>3, <2>4, <2>5, OthersKept
<1>6. CASE ReadEvents(p)
  <2>1. Txn(p)'
    BY <1>0, <1>6 DEF ReadEvents, Txn, TypeInv, TypeOK, writes, request, tables, Finalized, View, RowsOf
  <2>2. UNCHANGED tables /\ \A q \in Procs : q # p => Kept(q)
    BY <1>6 DEF ReadEvents, Kept, TypeInv, TypeOK, writes, request
  <2> QED
    BY <2>1, <2>2, OthersKept
<1>7. CASE DeletePending(p)
  <2>1. Txn(p)'
    BY <1>0, <1>7 DEF DeletePending, DeleteRows, Txn, TypeInv, TypeOK, request, tables, Finalized, RowsOf
  <2>2. UNCHANGED tables /\ \A q \in Procs : q # p => Kept(q)
    BY <1>7 DEF DeletePending, DeleteRows, Kept, TypeInv, TypeOK, request
  <2> QED
    BY <2>1, <2>2, OthersKept
<1>8. CASE RecordReconciled(p)
  <2> DEFINE e == BuildReconciled(Impl[p], trade[p], ExpectedEvents(seen[p], Expected[p]), now[p])
  <2>1. e.trade = trade[p]
    BY DEF BuildReconciled
  <2> HIDE DEF e
  <2>2. /\ pc[p] = "record" /\ pc' = [pc EXCEPT ![p] = "commit"]
        /\ entry' = [entry EXCEPT ![p] = e]
        /\ UNCHANGED <<tables, trade, seen, ins, del>>
    BY <1>8 DEF RecordReconciled, request, e
  <2>3. Txn(p)'
    <3>1. pc'[p] = "commit" /\ entry'[p] = e
      BY <2>2 DEF TypeInv, TypeOK
    <3>2. /\ trade' = trade /\ ins' = ins /\ del' = del /\ pending' = pending /\ audit' = audit
          /\ ins[p] = {} /\ del[p] = RowsOf(pending, trade[p])
          /\ \A r \in ins[p] \union del[p] : r.trade = trade[p]
      BY <1>0, <2>2 DEF Txn, tables
    <3>3. ~Finalized(trade[p])'
      BY <1>0, <2>2, <3>2 DEF Txn, Finalized
    <3>4. del'[p] = RowsOf(pending, trade[p])'
      BY <3>2
    <3>5. e # None
      <4>1. ExpectedEvents(seen[p], Expected[p]) \in SUBSET Row
        BY DEF ExpectedEvents, TypeInv, TypeOK
      <4>2. e \in AuditEntry
        BY <2>2, <4>1, ReconciledIsEntry DEF e, TypeInv, TypeOK, CallOK
      <4> QED
        BY <4>2, StoreAssumption
    <3> QED
      BY <2>1, <3>1, <3>2, <3>3, <3>4, <3>5 DEF Txn
  <2>4. \A q \in Procs : q # p => Kept(q)
    BY <2>2 DEF Kept, TypeInv, TypeOK
  <2> QED
    BY <2>2, <2>3, <2>4, OthersKept
<1>9. CASE CommitIngest(p)
  <2>1. pc[p] = "commit" /\ ApplyWrites(p) /\ ForgetCall(p)
    BY <1>9 DEF CommitIngest
  <2>2. Txn(p)'
    BY <2>1 DEF ForgetCall, ForgetTransaction, Txn, TypeInv, TypeOK
  <2>3. \A q \in Procs : q # p => Kept(q)
    BY <2>1 DEF ForgetCall, ForgetTransaction, Kept, TypeInv, TypeOK
  <2> QED
    BY <2>1, <2>2, <2>3, CommitTxnOK
<1> QED
  BY <1>1, <1>2, <1>3, <1>4, <1>5, <1>6, <1>7, <1>8, <1>9 DEF IngestStep

\* The statements of a sweep.
LEMMA SweepTxnOK ==
    ASSUME TypeInv, LockOK, TxnOK, NEW p \in Sweepers, StartSweep(p) \/ SweepStep(p)
    PROVE  TxnOK'
<1> USE DEF LockedPcs, Go, Clean
<1> p \in Procs
  BY DEF Procs
<1>0. Txn(p)
  BY DEF TxnOK
<1>1. CASE StartSweep(p) \/ ListExpired(p)
  <2>1. Txn(p)'
    BY <1>0, <1>1 DEF StartSweep, ListExpired, Txn, TypeInv, TypeOK, writes, request
  <2>2. UNCHANGED tables /\ \A q \in Procs : q # p => Kept(q)
    BY <1>1 DEF StartSweep, ListExpired, Kept, TypeInv, TypeOK, writes, request
  <2> QED
    BY <2>1, <2>2, OthersKept
<1>2. CASE ClaimTrade(p)
  <2> DEFINE t == Min(todo[p])
  <2>1. \/ /\ trade' = [trade EXCEPT ![p] = t]
           /\ pc' = [pc EXCEPT ![p] = "claimRead"]
        \/ UNCHANGED <<trade, pc>>
    BY <1>2 DEF ClaimTrade
  <2> HIDE DEF t
  <2>2. pc[p] = "claim" /\ UNCHANGED <<tables, seen, writes>>
    BY <1>2 DEF ClaimTrade
  <2>3. Txn(p)'
    BY <1>0, <2>1, <2>2 DEF Txn, TypeInv, TypeOK, writes
  <2>4. \A q \in Procs : q # p => Kept(q)
    BY <2>1, <2>2 DEF Kept, TypeInv, TypeOK, writes
  <2> QED
    BY <2>2, <2>3, <2>4, OthersKept
<1>3. CASE ReadClaimed(p)
  <2>1. Txn(p)'
    BY <1>0, <1>3 DEF ReadClaimed, Txn, TypeInv, TypeOK, writes, request, tables, View, RowsOf
  <2>2. UNCHANGED tables /\ \A q \in Procs : q # p => Kept(q)
    BY <1>3 DEF ReadClaimed, Kept, TypeInv, TypeOK, writes, request
  <2> QED
    BY <2>1, <2>2, OthersKept
<1>4. CASE DeleteClaimed(p)
  <2>1. Txn(p)'
    BY <1>0, <1>4
       DEF DeleteClaimed, DeleteRows, Txn, TypeInv, TypeOK, request, tables, View, RowsOf
  <2>2. UNCHANGED tables /\ \A q \in Procs : q # p => Kept(q)
    BY <1>4 DEF DeleteClaimed, DeleteRows, Kept, TypeInv, TypeOK, request
  <2> QED
    BY <2>1, <2>2, OthersKept
<1>5. CASE RecordBreak(p)
  <2> DEFINE e == BuildBreak(trade[p], seen[p], Expected[p], now[p])
  <2>1. e.trade = trade[p]
    BY DEF BuildBreak
  <2> HIDE DEF e
  <2>2. /\ pc[p] = "claimRecord" /\ pc' = [pc EXCEPT ![p] = "claimCommit"]
        /\ entry' = [entry EXCEPT ![p] = e]
        /\ UNCHANGED <<tables, trade, seen, ins, del>>
    BY <1>5 DEF RecordBreak, request, e
  <2>3. seen[p] # {}
    BY <2>2 DEF TypeInv, CallOK
  <2>4. Txn(p)'
    <3>1. pc'[p] = "claimCommit" /\ entry'[p] = e
      BY <2>2 DEF TypeInv, TypeOK
    <3>2. /\ trade' = trade /\ ins' = ins /\ del' = del /\ pending' = pending
          /\ ins[p] = {} /\ del[p] = RowsOf(pending, trade[p]) /\ del[p] # {}
          /\ \A r \in ins[p] \union del[p] : r.trade = trade[p]
      BY <1>0, <2>2, <2>3 DEF Txn, tables
    <3>3. del'[p] = RowsOf(pending, trade[p])'
      BY <3>2
    <3>4. e # None
      <4>1. e \in AuditEntry
        BY <2>2, <2>3, BreakIsEntry, ConfigIsOK DEF e, TypeInv, TypeOK, CallOK
      <4> QED
        BY <4>1, StoreAssumption
    <3> QED
      BY <2>1, <3>1, <3>2, <3>3, <3>4 DEF Txn
  <2>5. \A q \in Procs : q # p => Kept(q)
    BY <2>2 DEF Kept, TypeInv, TypeOK
  <2> QED
    BY <2>2, <2>4, <2>5, OthersKept
<1>6. CASE PanicInBreak(p)
  <2>1. Txn(p)'
    BY <1>0, <1>6 DEF PanicInBreak, Txn, TypeInv, TypeOK, writes, request
  <2>2. UNCHANGED tables /\ \A q \in Procs : q # p => Kept(q)
    BY <1>6 DEF PanicInBreak, Kept, TypeInv, TypeOK, writes, request
  <2> QED
    BY <2>1, <2>2, OthersKept
<1>7. CASE CommitClaim(p)
  <2>1. /\ pc[p] = "claimCommit" /\ ApplyWrites(p) /\ ForgetTransaction(p)
        /\ pc' = [pc EXCEPT ![p] = "claim"]
    BY <1>7 DEF CommitClaim
  <2>2. Txn(p)'
    BY <2>1 DEF ForgetTransaction, Txn, TypeInv, TypeOK
  <2>3. \A q \in Procs : q # p => Kept(q)
    BY <2>1 DEF ForgetTransaction, Kept, TypeInv, TypeOK
  <2> QED
    BY <2>1, <2>2, <2>3, CommitTxnOK
<1>8. CASE ReturnSweep(p)
  <2>1. UNCHANGED tables /\ ForgetCall(p)
    BY <1>8 DEF ReturnSweep
  <2>2. Txn(p)'
    BY <2>1 DEF ForgetCall, ForgetTransaction, Txn, TypeInv, TypeOK
  <2>3. \A q \in Procs : q # p => Kept(q)
    BY <2>1 DEF ForgetCall, ForgetTransaction, Kept, TypeInv, TypeOK
  <2> QED
    BY <2>1, <2>2, <2>3, OthersKept
<1> QED
  BY <1>1, <1>2, <1>3, <1>4, <1>5, <1>6, <1>7, <1>8 DEF SweepStep

\* Failures.
LEMMA FailureTxnOK ==
    ASSUME TypeInv, LockOK, TxnOK, NEW p \in Procs, Fail(p) \/ Rollback(p) \/ LoseCommit(p)
    PROVE  TxnOK'
<1> USE DEF LockedPcs, Go, Clean
<1>1. CASE Fail(p)
  <2>1. Txn(p)'
    BY <1>1 DEF Fail, Txn, TypeInv, TypeOK
  <2>2. UNCHANGED tables /\ \A q \in Procs : q # p => Kept(q)
    BY <1>1 DEF Fail, Kept, TypeInv, TypeOK, writes, request
  <2> QED
    BY <2>1, <2>2, OthersKept
<1>2. CASE Rollback(p) \/ LoseCommit(p)
  <2>1. ForgetCall(p)
    BY <1>2 DEF Rollback, LoseCommit
  <2>2. Txn(p)'
    BY <2>1 DEF ForgetCall, ForgetTransaction, Txn, TypeInv, TypeOK
  <2>3. \A q \in Procs : q # p => Kept(q)
    BY <2>1 DEF ForgetCall, ForgetTransaction, Kept, TypeInv, TypeOK
  <2>4. CASE Rollback(p)
    BY <2>2, <2>3, <2>4, OthersKept DEF Rollback
  <2>5. CASE LoseCommit(p)
    BY <2>2, <2>3, <2>5, CommitTxnOK DEF LoseCommit
  <2> QED
    BY <1>2, <2>4, <2>5
<1> QED
  BY <1>1, <1>2

\* Every step keeps true what every open transaction knows.
LEMMA NextTxnOK == TypeInv /\ LockOK /\ TxnOK /\ [Next]_vars => TxnOK'
<1> SUFFICES ASSUME TypeInv, LockOK, TxnOK, [Next]_vars PROVE TxnOK'
  OBVIOUS
<1>1. CASE Tick \/ UNCHANGED vars
  <2>1. UNCHANGED tables /\ \A q \in Procs : Kept(q)
    BY <1>1 DEF Tick, vars, Kept, writes, request
  <2>2. \A t : TradeKept(t)
    BY <2>1 DEF TradeKept, Finalized, FinalizedAfter, tables
  <2> QED
    BY <2>1, <2>2, TxnKept DEF TxnOK
<1>2. ASSUME NEW p \in Ingesters, StartIngest(p) \/ LockTrade(p) \/ IngestStep(p)
      PROVE  TxnOK'
  BY <1>2, IngestTxnOK
<1>3. ASSUME NEW p \in Sweepers, StartSweep(p) \/ SweepStep(p)
      PROVE  TxnOK'
  BY <1>3, SweepTxnOK
<1>4. ASSUME NEW p \in Procs, Fail(p) \/ Rollback(p) \/ LoseCommit(p)
      PROVE  TxnOK'
  BY <1>4, FailureTxnOK
<1> QED
  BY <1>1, <1>2, <1>3, <1>4 DEF Next

-----------------------------------------------------------------------------
(***************************************************************************)
(* Finalization.                                                           *)
(***************************************************************************)

\* A commit that writes rows or an outcome is about a trade without an outcome.
LEMMA CommitIsFirst ==
    ASSUME Inv, NEW p \in Procs, pc[p] \in {"commit", "claimCommit"}, ~Clean(p)
    PROVE  ~Finalized(trade[p])
<1>1. CASE pc[p] = "commit"
  BY <1>1 DEF Inv, TxnOK, Txn
<1>2. CASE pc[p] = "claimCommit"
  <2>1. entry[p] # None /\ RowsOf(pending, trade[p]) # {}
    BY <1>2 DEF Inv, TxnOK, Txn
  <2>2. trade[p] \in Trades
    BY <1>2 DEF Inv, TypeInv, CallOK, LockedPcs
  <2> QED
    BY <2>1, <2>2 DEF Inv, FinalizedHasNoPending
<1> QED
  BY <1>1, <1>2

\* After a commit each trade still has one outcome at most, and no rows if it
\* has one.
LEMMA CommitFinalizes ==
    ASSUME Inv, NEW p \in Procs, pc[p] \in {"commit", "claimCommit"}, ApplyWrites(p)
    PROVE  FinalizedOnce' /\ FinalizedHasNoPending'
<1>1. trade[p] \in Trades
  BY DEF Inv, TypeInv, CallOK, LockedPcs
<1>2. CASE entry[p] = None
  <2>1. audit' = audit /\ del[p] = {}
    BY <1>2 DEF ApplyWrites, Inv, TxnOK, Txn, Clean
  <2>2. FinalizedOnce'
    BY <2>1 DEF Inv, FinalizedOnce
  <2>3. ASSUME NEW t \in Trades, Finalized(t)' PROVE RowsOf(pending, t)' = {}
    <3>1. Finalized(t)
      BY <2>1, <2>3 DEF Finalized
    <3>2. CASE t # trade[p]
      <4>1. RowsOf(pending', t) = RowsOf(pending, t)
        BY <3>2, CommitKeepsOthers DEF TradeKept, Inv
      <4> QED
        BY <3>1, <4>1 DEF Inv, FinalizedHasNoPending
    <3>3. CASE t = trade[p]
      <4>1. Clean(p)
        BY <3>1, <3>3, CommitIsFirst
      <4>2. pending' = pending
        BY <4>1 DEF Clean, ApplyWrites
      <4> QED
        BY <3>1, <4>2 DEF Inv, FinalizedHasNoPending
    <3> QED
      BY <3>2, <3>3
  <2> QED
    BY <2>2, <2>3 DEF FinalizedHasNoPending
<1>3. CASE entry[p] # None
  <2>1. /\ audit \in Seq(AuditEntry) /\ entry[p] \in AuditEntry
        /\ audit' = Append(audit, entry[p])
    BY <1>3 DEF ApplyWrites, Inv, TypeInv, TypeOK
  <2>2. /\ entry[p].trade = trade[p]
        /\ ins[p] = {} /\ del[p] = RowsOf(pending, trade[p])
    BY <1>3 DEF Inv, TxnOK, Txn, LockedPcs
  <2>3. ~Finalized(trade[p])
    BY <1>3, CommitIsFirst DEF Clean
  <2>4. FinalizedOnce'
    <3>1. \A i \in DOMAIN audit : audit[i].trade # entry[p].trade
      BY <2>2, <2>3 DEF Finalized
    <3>2. \A i, j \in DOMAIN audit : audit[i].trade = audit[j].trade => i = j
      BY DEF Inv, FinalizedOnce
    <3> QED
      BY <2>1, <3>1, <3>2 DEF FinalizedOnce
  <2>5. ASSUME NEW t \in Trades, Finalized(t)' PROVE RowsOf(pending, t)' = {}
    <3>1. CASE t = trade[p]
      BY <2>2, <3>1 DEF ApplyWrites, RowsOf
    <3>2. CASE t # trade[p]
      <4>1. TradeKept(t)
        BY <3>2, CommitKeepsOthers DEF Inv
      <4>2. Finalized(t)
        BY <2>5, <4>1 DEF TradeKept, Finalized, FinalizedAfter
      <4> QED
        BY <4>1, <4>2 DEF TradeKept, Inv, FinalizedHasNoPending
    <3> QED
      BY <3>1, <3>2
  <2> QED
    BY <2>4, <2>5 DEF FinalizedHasNoPending
<1> QED
  BY <1>2, <1>3

\* Every step either leaves the tables alone or is the commit of one caller.
LEMMA TablesChangeAtCommit ==
    ASSUME [Next]_vars
    PROVE  \/ UNCHANGED tables
           \/ \E p \in Procs : pc[p] \in {"commit", "claimCommit"} /\ ApplyWrites(p)
<1>1. CASE Tick \/ UNCHANGED vars
  BY <1>1 DEF Tick, vars
<1>2. ASSUME NEW p \in Ingesters, StartIngest(p) \/ LockTrade(p) \/ IngestStep(p)
      PROVE  UNCHANGED tables \/ (pc[p] \in {"commit", "claimCommit"} /\ ApplyWrites(p))
  BY <1>2 DEF StartIngest, LockTrade, IngestStep, CheckFinalized, ReadExisting, InsertPending,
              ReadEvents, DeletePending, RecordReconciled, CommitIngest
<1>3. ASSUME NEW p \in Sweepers, StartSweep(p) \/ SweepStep(p)
      PROVE  UNCHANGED tables \/ (pc[p] \in {"commit", "claimCommit"} /\ ApplyWrites(p))
  BY <1>3 DEF StartSweep, SweepStep, ListExpired, ClaimTrade, ReadClaimed, DeleteClaimed,
              RecordBreak, PanicInBreak, CommitClaim, ReturnSweep
<1>4. ASSUME NEW p \in Procs, Fail(p) \/ Rollback(p) \/ LoseCommit(p)
      PROVE  UNCHANGED tables \/ (pc[p] \in {"commit", "claimCommit"} /\ ApplyWrites(p))
  BY <1>4 DEF Fail, Rollback, LoseCommit
<1> QED
  BY <1>1, <1>2, <1>3, <1>4 DEF Next, Procs

\* Initially the invariant holds.
LEMMA InitInv == Init => Inv
<1>1. Init => FinalizedOnce /\ FinalizedHasNoPending
  BY DEF Init, FinalizedOnce, FinalizedHasNoPending, RowsOf
<1> QED
  BY <1>1, InitTypeInv, InitLockOK, InitTxnOK DEF Inv

\* Every step keeps the invariant: a commit keeps its two facts about outcomes
\* because of what the committing transaction knows.
LEMMA NextInv == Inv /\ [Next]_vars => Inv'
<1> SUFFICES ASSUME Inv, [Next]_vars PROVE Inv'
  OBVIOUS
<1>1. TypeInv' /\ LockOK' /\ TxnOK'
  BY NextTypeInv, NextLockOK, NextTxnOK DEF Inv
<1>2. FinalizedOnce' /\ FinalizedHasNoPending'
  <2>1. CASE UNCHANGED tables
    BY <2>1 DEF tables, Inv, FinalizedOnce, FinalizedHasNoPending, Finalized, RowsOf
  <2>2. ASSUME NEW p \in Procs, pc[p] \in {"commit", "claimCommit"}, ApplyWrites(p)
        PROVE  FinalizedOnce' /\ FinalizedHasNoPending'
    BY <2>2, CommitFinalizes
  <2> QED
    BY <2>1, <2>2, TablesChangeAtCommit
<1> QED
  BY <1>1, <1>2 DEF Inv

\* The inductive invariant: from the lock follows what each transaction still
\* knows of its trade at every statement, and from that what its commit does.
THEOREM Invariance == Spec => []Inv
BY InitInv, NextInv, PTL DEF Spec

\* No trade ever gets two outcomes, whatever calls run at once, fail or are
\* tried again, in any mix of Go and Python deployments and configurations.
THEOREM OutcomeIsUnique == Spec => []FinalizedOnce
<1>1. Inv => FinalizedOnce
  BY DEF Inv
<1> QED
  BY Invariance, <1>1, PTL

\* A finalized trade keeps no pending row and gets none again.
THEOREM OutcomeIsFinal == Spec => []FinalizedHasNoPending
<1>1. Inv => FinalizedHasNoPending
  BY DEF Inv
<1> QED
  BY Invariance, <1>1, PTL

\* What a transaction read of its trade is still true when it acts on it, at
\* READ COMMITTED and without the row locks of FOR UPDATE.
THEOREM ReadsAreStable == Spec => []ReadsStayValid
<1>1. Inv => ReadsStayValid
  BY DEF Inv, TxnOK, Txn, ReadsStayValid
<1> QED
  BY Invariance, <1>1, PTL

\* Rows leave the table only together with the outcome of their trade, whatever
\* fails between the statements of the transaction.
THEOREM RowsLeaveWithOutcome == Spec => RowsLeaveOnlyByFinalization
<1>1. Inv /\ [Next]_vars =>
        [\A r \in pending \ pending' :
            \E i \in DOMAIN audit' \ DOMAIN audit : audit'[i].trade = r.trade]_vars
  <2> SUFFICES ASSUME Inv, [Next]_vars, NEW r \in pending \ pending'
               PROVE  \E i \in DOMAIN audit' \ DOMAIN audit : audit'[i].trade = r.trade
    OBVIOUS
  <2>1. PICK p \in Procs : pc[p] \in {"commit", "claimCommit"} /\ ApplyWrites(p)
    BY TablesChangeAtCommit DEF tables
  <2>2. r \in del[p]
    BY <2>1 DEF ApplyWrites
  <2>3. entry[p] # None /\ r.trade = trade[p] /\ entry[p].trade = trade[p]
    BY <2>1, <2>2 DEF Inv, TxnOK, Txn, LockedPcs, Clean
  <2>4. /\ audit \in Seq(AuditEntry) /\ entry[p] \in AuditEntry
        /\ audit' = Append(audit, entry[p])
    BY <2>1, <2>3 DEF ApplyWrites, Inv, TypeInv, TypeOK
  <2>5. Len(audit) + 1 \in DOMAIN audit' \ DOMAIN audit
    BY <2>4
  <2>6. audit'[Len(audit) + 1].trade = r.trade
    BY <2>3, <2>4
  <2> QED
    BY <2>5, <2>6
<1> QED
  BY Invariance, <1>1, PTL DEF RowsLeaveOnlyByFinalization, Spec

-----------------------------------------------------------------------------
(***************************************************************************)
(* What calls write.                                                       *)
(***************************************************************************)

TradeRows(p) == RowsOf(pending, trade[p])

\* The row that p's call stores beside the rows its trade has.
OwnRow(p) ==
    Merge(Impl[p], TradeRows(p), NewRow(trade[p], source[p], now[p], Window[p]))

Completed(p) == TradeRows(p) \union {OwnRow(p)}

IsNew(p) == source[p] \in Expected[p] /\ source[p] \notin SourcesOf(TradeRows(p))

Recording(p)   == pc[p] = "commit" /\ ins[p] # {}
Reconciling(p) == pc[p] = "commit" /\ entry[p] # None
Breaking(p)    == pc[p] = "claimCommit" /\ entry[p] # None

Work(p) ==
    /\ pc[p] \in IngestPcs => p \in Ingesters /\ source[p] \in Expected[p]
    /\ pc[p] \in SweepPcs \/ claimed[p] # {} => p \in Sweepers
    /\ pc[p] = "events" \/ Recording(p) => IsNew(p) /\ ins[p] = {OwnRow(p)}
    /\ Recording(p) => ~HasEverySource(Completed(p), Expected[p])
    /\ pc[p] \in {"delete", "record"} \/ Reconciling(p) =>
          IsNew(p) /\ seen[p] = Completed(p) /\ HasEverySource(Completed(p), Expected[p])
    /\ Reconciling(p) =>
          entry[p] = BuildReconciled(Impl[p], trade[p], ExpectedEvents(Completed(p), Expected[p]), now[p])
    /\ pc[p] \in {"claimDelete", "claimRecord"} \/ Breaking(p) =>
          /\ seen[p] = TradeRows(p) /\ TradeRows(p) # {}
          /\ EarliestDeadline(TradeRows(p)) <= now[p]
    /\ Breaking(p) => entry[p] = BuildBreak(trade[p], TradeRows(p), Expected[p], now[p])

WorkOK == \A p \in Procs : Work(p)

\* The primary key of pending_events.
KeyIsPrimary ==
    \A r, s \in pending : r.trade = s.trade /\ r.source = s.source => r = s

\* Only events of expected sources reach the store.
RowsAreExpected ==
    \A r \in pending : \E q \in Ingesters : r.source \in Expected[q]

\* An outcome that a sweep holds or a caller was told of is in the audit log,
\* and nobody else holds it or was told.
Reports ==
    /\ \A t \in Trades : reported[t] <= 1 /\ (reported[t] = 1 => Finalized(t))
    /\ \A p \in Procs : \A t \in claimed[p] : Finalized(t) /\ reported[t] = 0
    /\ \A p, q \in Procs : p # q => claimed[p] \intersect claimed[q] = {}

\* A sweep's configuration names every source that an ingest's names.
SweepsExpectAll ==
    \A p \in Sweepers, q \in Ingesters : Expected[q] \subseteq Expected[p]

\* All ingests run with the same sources, or with the same window.
IngestsExpectAlike == \A p, q \in Ingesters : Expected[p] = Expected[q]
WindowsAreAlike    == \A p, q \in Ingesters : Window[p] = Window[q]

-----------------------------------------------------------------------------
(***************************************************************************)
(* What a transaction computes.                                            *)
(***************************************************************************)

\* The row of an ingest call is a row of its trade and its source.
LEMMA OwnRowIsRow ==
    ASSUME TypeInv, NEW p \in Procs, pc[p] \in IngestPcs
    PROVE  /\ NewRow(trade[p], source[p], now[p], Window[p]) \in Row
           /\ OwnRow(p) \in Row /\ OwnRow(p).trade = trade[p] /\ OwnRow(p).source = source[p]
<1> DEFINE new == NewRow(trade[p], source[p], now[p], Window[p])
<1>1. new \in Row /\ new.trade = trade[p] /\ new.source = source[p]
  BY ConfigIsOK, RowsAssumption DEF NewRow, Row, Stamps, TypeInv, TypeOK, CallOK
<1>2. TradeRows(p) \in SUBSET Row
  BY ViewIsRows DEF TradeRows
<1> HIDE DEF new
<1>3. LET row == Merge(Impl[p], TradeRows(p), new)
      IN  row \in Row /\ row.trade = trade[p] /\ row.source = source[p]
  BY <1>1, <1>2, MergeKeepsKey
<1> QED
  BY <1>1, <1>3 DEF new, OwnRow

\* What a transaction without deletes and with its row sees.
LEMMA ViewIsCompleted ==
    ASSUME TypeInv, NEW p \in Procs, pc[p] \in IngestPcs, del[p] = {}, ins[p] = {OwnRow(p)}
    PROVE  View(p) = Completed(p)
<1>1. OwnRow(p).trade = trade[p]
  BY OwnRowIsRow
<1> HIDE DEF OwnRow
<1> QED
  BY <1>1 DEF View, RowsOf, Completed, TradeRows

Same(q) ==
    /\ Kept(q)
    /\ source'[q] = source[q] /\ now'[q] = now[q] /\ claimed'[q] = claimed[q]

\* A step that leaves a call and the rows of its trade alone leaves its work.
LEMMA WorkKept ==
    ASSUME NEW q \in Procs, Work(q), Same(q),
           RowsOf(pending', trade[q]) = RowsOf(pending, trade[q])
    PROVE  Work(q)'
BY DEF Work, Same, Kept, TradeRows, OwnRow, Completed, IsNew, Recording, Reconciling, Breaking

\* A step of p that leaves the rows alone.
LEMMA OthersWork ==
    ASSUME WorkOK, NEW p \in Procs, UNCHANGED pending,
           \A q \in Procs : q # p => Same(q),
           Work(p)'
    PROVE  WorkOK'
BY WorkKept DEF WorkOK

\* A commit of p: the others are about other trades.
LEMMA CommitWork ==
    ASSUME TypeInv, LockOK, TxnOK, WorkOK, NEW p \in Procs,
           pc[p] \in {"commit", "claimCommit"}, ApplyWrites(p),
           \A q \in Procs : q # p => Same(q),
           Work(p)'
    PROVE  WorkOK'
<1> SUFFICES ASSUME NEW q \in Procs, q # p PROVE Work(q)'
  BY DEF WorkOK
<1>1. CASE pc[q] \in LockedPcs
  <2>1. trade[q] \in Trades /\ trade[q] # trade[p]
    BY <1>1 DEF LockOK, TypeInv, CallOK, LockedPcs
  <2>2. RowsOf(pending', trade[q]) = RowsOf(pending, trade[q])
    BY <2>1, CommitKeepsOthers DEF TradeKept
  <2> QED
    BY <2>2, WorkKept DEF WorkOK
<1>2. CASE pc[q] \notin LockedPcs
  BY <1>2 DEF WorkOK, Work, Same, Kept, Recording, Reconciling, Breaking, LockedPcs
<1> QED
  BY <1>1, <1>2

\* Statements that change neither the tables nor what the call was asked for
\* leave the rows that its work is about.
LEMMA RequestKept ==
    ASSUME NEW p \in Procs, UNCHANGED <<pending, trade, source, now>>
    PROVE  /\ TradeRows(p)' = TradeRows(p) /\ Completed(p)' = Completed(p)
           /\ OwnRow(p)' = OwnRow(p) /\ (IsNew(p)' <=> IsNew(p))
BY DEF TradeRows, OwnRow, Completed, IsNew

\* Initially nobody works.
LEMMA InitWorkOK == Init => WorkOK
BY DEF Init, WorkOK, Work, Recording, Reconciling, Breaking, IngestPcs, SweepPcs

\* The call is over: nothing is left of its work.
LEMMA ForgottenWork ==
    ASSUME TypeInv, NEW p \in Procs, ForgetCall(p)
    PROVE  Work(p)' /\ \A q \in Procs : q # p => Same(q)
BY DEF ForgetCall, ForgetTransaction, Go, Work, Same, Kept, Recording, Reconciling, Breaking,
       IngestPcs, SweepPcs, TypeInv, TypeOK

\* The statements of an ingest call.
LEMMA IngestWorkOK ==
    ASSUME TypeInv, LockOK, TxnOK, WorkOK, NEW p \in Ingesters,
           StartIngest(p) \/ LockTrade(p) \/ IngestStep(p)
    PROVE  WorkOK'
<1> USE DEF Go, Recording, Reconciling, Breaking, IngestPcs, SweepPcs
<1> p \in Procs
  BY DEF Procs
<1>0. Work(p) /\ Txn(p)
  BY DEF WorkOK, TxnOK
<1>1. CASE StartIngest(p)
  <2>1. Work(p)'
    BY <1>0, <1>1 DEF StartIngest, Work, Txn, Clean, TypeInv, TypeOK, writes, sweep
  <2>2. UNCHANGED pending /\ \A q \in Procs : q # p => Same(q)
    BY <1>1 DEF StartIngest, Same, Kept, TypeInv, TypeOK, writes, sweep, tables
  <2> QED
    BY <2>1, <2>2, OthersWork
<1>2. CASE LockTrade(p) \/ CheckFinalized(p) \/ ReadExisting(p)
  <2>1. Work(p)'
    BY <1>0, <1>2 DEF LockTrade, CheckFinalized, ReadExisting, Work, Txn, Clean, TypeInv, TypeOK,
                      writes, sweep, request
  <2>2. UNCHANGED pending /\ \A q \in Procs : q # p => Same(q)
    BY <1>2 DEF LockTrade, CheckFinalized, ReadExisting, Same, Kept, TypeInv, TypeOK,
                writes, sweep, request, tables
  <2> QED
    BY <2>1, <2>2, OthersWork
<1>3. CASE InsertPending(p)
  <2>1. pc[p] = "insert" /\ UNCHANGED <<pending, trade, source, now, seen, del, entry, claimed>>
    BY <1>3 DEF InsertPending, tables, request, sweep
  <2>2. View(p) = TradeRows(p) /\ seen[p] = TradeRows(p) /\ ins[p] = {} /\ entry[p] = None
    BY <1>0, <2>1 DEF Txn, Clean, View, TradeRows
  <2>3. \/ pc' = [pc EXCEPT ![p] = "commit"] /\ ins' = ins
        \/ /\ source[p] \notin SourcesOf(TradeRows(p))
           /\ pc' = [pc EXCEPT ![p] = "events"]
           /\ ins' = [ins EXCEPT ![p] = {OwnRow(p)}]
    BY <1>3, <2>2 DEF InsertPending, OwnRow
  <2>4. Work(p)'
    BY <1>0, <2>1, <2>2, <2>3, RequestKept DEF Work, IsNew, TypeInv, TypeOK
  <2>5. \A q \in Procs : q # p => Same(q)
    BY <2>1, <2>3 DEF Same, Kept, TypeInv, TypeOK
  <2> QED
    BY <2>1, <2>4, <2>5, OthersWork
<1>4. CASE ReadEvents(p)
  <2>1. pc[p] = "events" /\ UNCHANGED <<pending, trade, source, now, ins, del, entry, claimed>>
    BY <1>4 DEF ReadEvents, tables, request, sweep, writes
  <2>2. IsNew(p) /\ ins[p] = {OwnRow(p)} /\ del[p] = {} /\ entry[p] = None
    BY <1>0, <2>1 DEF Work, Txn
  <2>3. View(p) = Completed(p)
    BY <2>1, <2>2, ViewIsCompleted
  <2>4. /\ seen' = [seen EXCEPT ![p] = Completed(p)]
        /\ \/ HasEverySource(Completed(p), Expected[p]) /\ pc' = [pc EXCEPT ![p] = "delete"]
           \/ ~HasEverySource(Completed(p), Expected[p]) /\ pc' = [pc EXCEPT ![p] = "commit"]
    BY <1>4, <2>3 DEF ReadEvents
  <2>5. Work(p)'
    BY <1>0, <2>1, <2>2, <2>4, RequestKept DEF Work, TypeInv, TypeOK
  <2>6. \A q \in Procs : q # p => Same(q)
    BY <2>1, <2>4 DEF Same, Kept, TypeInv, TypeOK
  <2> QED
    BY <2>1, <2>5, <2>6, OthersWork
<1>5. CASE DeletePending(p)
  <2>1. /\ pc[p] = "delete" /\ UNCHANGED <<pending, trade, source, now, seen, entry, claimed>>
        /\ pc' = [pc EXCEPT ![p] = "record"]
    BY <1>5 DEF DeletePending, tables, request, sweep
  <2>2. Work(p)'
    BY <1>0, <2>1, RequestKept DEF Work, TypeInv, TypeOK
  <2>3. \A q \in Procs : q # p => Same(q)
    BY <1>5, <2>1 DEF DeletePending, DeleteRows, Same, Kept, TypeInv, TypeOK
  <2> QED
    BY <2>1, <2>2, <2>3, OthersWork
<1>6. CASE RecordReconciled(p)
  <2> DEFINE e == BuildReconciled(Impl[p], trade[p], ExpectedEvents(Completed(p), Expected[p]), now[p])
  <2>1. /\ pc[p] = "record"
        /\ UNCHANGED <<pending, trade, source, now, seen, ins, del, claimed>>
        /\ pc' = [pc EXCEPT ![p] = "commit"]
    BY <1>6 DEF RecordReconciled, tables, request, sweep
  <2>2. /\ IsNew(p) /\ seen[p] = Completed(p) /\ HasEverySource(Completed(p), Expected[p])
        /\ ins[p] = {}
    BY <1>0, <2>1 DEF Work, Txn
  <2>3. entry' = [entry EXCEPT ![p] = e]
    BY <1>6, <2>2 DEF RecordReconciled
  <2>4. e = BuildReconciled(Impl[p], trade[p], ExpectedEvents(Completed(p), Expected[p]), now[p])'
    BY <2>1, RequestKept
  <2> HIDE DEF e
  <2>5. Work(p)'
    BY <1>0, <2>1, <2>2, <2>3, <2>4, RequestKept DEF Work, TypeInv, TypeOK
  <2>6. \A q \in Procs : q # p => Same(q)
    BY <2>1, <2>3 DEF Same, Kept, TypeInv, TypeOK
  <2> QED
    BY <2>1, <2>5, <2>6, OthersWork
<1>7. CASE CommitIngest(p)
  <2>1. pc[p] = "commit" /\ ApplyWrites(p) /\ ForgetCall(p)
    BY <1>7 DEF CommitIngest
  <2> QED
    BY <2>1, ForgottenWork, CommitWork
<1> QED
  BY <1>1, <1>2, <1>3, <1>4, <1>5, <1>6, <1>7 DEF IngestStep

\* The statements of a sweep.
LEMMA SweepWorkOK ==
    ASSUME TypeInv, LockOK, TxnOK, WorkOK, NEW p \in Sweepers, StartSweep(p) \/ SweepStep(p)
    PROVE  WorkOK'
<1> USE DEF Go, Recording, Reconciling, Breaking, IngestPcs, SweepPcs
<1> p \in Procs
  BY DEF Procs
<1>0. Work(p) /\ Txn(p)
  BY DEF WorkOK, TxnOK
<1>1. CASE StartSweep(p) \/ ListExpired(p) \/ PanicInBreak(p)
  <2>1. Work(p)'
    BY <1>0, <1>1 DEF StartSweep, ListExpired, PanicInBreak, Work, Txn, Clean, TypeInv, TypeOK,
                      writes, sweep, request
  <2>2. UNCHANGED pending /\ \A q \in Procs : q # p => Same(q)
    BY <1>1 DEF StartSweep, ListExpired, PanicInBreak, Same, Kept, TypeInv, TypeOK,
                writes, sweep, request, tables
  <2> QED
    BY <2>1, <2>2, OthersWork
<1>2. CASE ClaimTrade(p)
  <2> DEFINE t == Min(todo[p])
  <2>1. \/ trade' = [trade EXCEPT ![p] = t] /\ pc' = [pc EXCEPT ![p] = "claimRead"]
        \/ UNCHANGED <<trade, pc>>
    BY <1>2 DEF ClaimTrade
  <2> HIDE DEF t
  <2>2. pc[p] = "claim" /\ UNCHANGED <<pending, source, now, seen, ins, del, entry, claimed>>
    BY <1>2 DEF ClaimTrade, tables, writes
  <2>3. Work(p)'
    BY <1>0, <2>1, <2>2 DEF Work, Txn, Clean, TypeInv, TypeOK
  <2>4. \A q \in Procs : q # p => Same(q)
    BY <2>1, <2>2 DEF Same, Kept, TypeInv, TypeOK
  <2> QED
    BY <2>2, <2>3, <2>4, OthersWork
<1>3. CASE ReadClaimed(p)
  <2>1. /\ pc[p] = "claimRead"
        /\ UNCHANGED <<pending, trade, source, now, ins, del, entry, claimed>>
    BY <1>3 DEF ReadClaimed, tables, request, sweep, writes
  <2>2. View(p) = TradeRows(p) /\ ins[p] = {} /\ entry[p] = None
    BY <1>0, <2>1 DEF Txn, Clean, View, TradeRows
  <2>3. TradeRows(p) # {} => EarliestDeadline(TradeRows(p)) \in Nat /\ now[p] \in Nat
    <3>1. TradeRows(p) \in SUBSET Row /\ now[p] \in Stamps
      BY ViewIsRows DEF TradeRows, TypeInv, TypeOK
    <3> QED
      BY <3>1, EarliestDeadlineIsOne, RowsAssumption DEF Stamps
  <2>4. /\ seen' = [seen EXCEPT ![p] = TradeRows(p)]
        /\ \/ /\ TradeRows(p) # {} /\ EarliestDeadline(TradeRows(p)) <= now[p]
              /\ pc' = [pc EXCEPT ![p] = "claimDelete"]
           \/ pc' = [pc EXCEPT ![p] = "claimCommit"]
    <3>1. /\ seen' = [seen EXCEPT ![p] = TradeRows(p)]
          /\ pc' = [pc EXCEPT ![p] =
                       IF TradeRows(p) = {} \/ EarliestDeadline(TradeRows(p)) > now[p]
                       THEN "claimCommit" ELSE "claimDelete"]
      BY <1>3, <2>2 DEF ReadClaimed
    <3>2. CASE TradeRows(p) = {} \/ EarliestDeadline(TradeRows(p)) > now[p]
      BY <3>1, <3>2
    <3>3. CASE TradeRows(p) # {} /\ ~(EarliestDeadline(TradeRows(p)) > now[p])
      <4>1. EarliestDeadline(TradeRows(p)) <= now[p]
        BY <2>3, <3>3
      <4> QED
        BY <3>1, <3>3, <4>1
    <3> QED
      BY <3>2, <3>3
  <2>5. EarliestDeadline(TradeRows(p))' = EarliestDeadline(TradeRows(p))
    BY <2>1, RequestKept
  <2>6. Work(p)'
    BY <1>0, <2>1, <2>2, <2>4, <2>5, RequestKept DEF Work, TypeInv, TypeOK
  <2>7. \A q \in Procs : q # p => Same(q)
    BY <2>1, <2>4 DEF Same, Kept, TypeInv, TypeOK
  <2> QED
    BY <2>1, <2>6, <2>7, OthersWork
<1>4. CASE DeleteClaimed(p)
  <2>1. /\ pc[p] = "claimDelete"
        /\ UNCHANGED <<pending, trade, source, now, seen, entry, claimed>>
        /\ pc' = [pc EXCEPT ![p] = "claimRecord"]
    BY <1>4 DEF DeleteClaimed, tables, request, sweep
  <2>2. EarliestDeadline(TradeRows(p))' = EarliestDeadline(TradeRows(p))
    BY <2>1, RequestKept
  <2>3. Work(p)'
    BY <1>0, <2>1, <2>2, RequestKept DEF Work, TypeInv, TypeOK
  <2>4. \A q \in Procs : q # p => Same(q)
    BY <1>4, <2>1 DEF DeleteClaimed, DeleteRows, Same, Kept, TypeInv, TypeOK
  <2> QED
    BY <2>1, <2>3, <2>4, OthersWork
<1>5. CASE RecordBreak(p)
  <2> DEFINE e == BuildBreak(trade[p], TradeRows(p), Expected[p], now[p])
  <2>1. /\ pc[p] = "claimRecord"
        /\ UNCHANGED <<pending, trade, source, now, seen, ins, del, claimed>>
        /\ pc' = [pc EXCEPT ![p] = "claimCommit"]
    BY <1>5 DEF RecordBreak, tables, request, sweep
  <2>2. /\ seen[p] = TradeRows(p) /\ TradeRows(p) # {} /\ ins[p] = {}
        /\ EarliestDeadline(TradeRows(p)) <= now[p]
    BY <1>0, <2>1 DEF Work, Txn
  <2>3. entry' = [entry EXCEPT ![p] = e]
    BY <1>5, <2>2 DEF RecordBreak
  <2>4. /\ e = BuildBreak(trade[p], TradeRows(p), Expected[p], now[p])'
        /\ EarliestDeadline(TradeRows(p))' = EarliestDeadline(TradeRows(p))
    BY <2>1, RequestKept
  <2> HIDE DEF e
  <2>5. Work(p)'
    BY <1>0, <2>1, <2>2, <2>3, <2>4, RequestKept DEF Work, TypeInv, TypeOK
  <2>6. \A q \in Procs : q # p => Same(q)
    BY <2>1, <2>3 DEF Same, Kept, TypeInv, TypeOK
  <2> QED
    BY <2>1, <2>5, <2>6, OthersWork
<1>6. CASE CommitClaim(p)
  <2>1. /\ pc[p] = "claimCommit" /\ ApplyWrites(p) /\ ForgetTransaction(p)
        /\ pc' = [pc EXCEPT ![p] = "claim"] /\ UNCHANGED <<source, now>>
        /\ claimed' = claimed \/ claimed' = [claimed EXCEPT ![p] = @ \union {trade[p]}]
    BY <1>6 DEF CommitClaim
  <2>2. Work(p)'
    BY <1>0, <2>1 DEF ForgetTransaction, Work, TypeInv, TypeOK
  <2>3. \A q \in Procs : q # p => Same(q)
    BY <2>1 DEF ForgetTransaction, Same, Kept, TypeInv, TypeOK
  <2> QED
    BY <2>1, <2>2, <2>3, CommitWork
<1>7. CASE ReturnSweep(p)
  <2>1. UNCHANGED pending /\ ForgetCall(p)
    BY <1>7 DEF ReturnSweep, tables
  <2> QED
    BY <2>1, ForgottenWork, OthersWork
<1> QED
  BY <1>1, <1>2, <1>3, <1>4, <1>5, <1>6, <1>7 DEF SweepStep

\* Failures.
LEMMA FailureWorkOK ==
    ASSUME TypeInv, LockOK, TxnOK, WorkOK, NEW p \in Procs, Fail(p) \/ Rollback(p) \/ LoseCommit(p)
    PROVE  WorkOK'
<1>1. CASE Fail(p)
  <2>1. Work(p)'
    BY <1>1 DEF Fail, Go, Recording, Reconciling, Breaking, IngestPcs, SweepPcs, WorkOK, Work,
                TypeInv, TypeOK, sweep
  <2>2. UNCHANGED pending /\ \A q \in Procs : q # p => Same(q)
    BY <1>1 DEF Fail, Go, Same, Kept, TypeInv, TypeOK, writes, request, sweep, tables
  <2> QED
    BY <2>1, <2>2, OthersWork
<1>2. CASE Rollback(p)
  <2>1. UNCHANGED pending /\ ForgetCall(p)
    BY <1>2 DEF Rollback, tables
  <2> QED
    BY <2>1, ForgottenWork, OthersWork
<1>3. CASE LoseCommit(p)
  <2>1. pc[p] \in {"commit", "claimCommit"} /\ ApplyWrites(p) /\ ForgetCall(p)
    BY <1>3 DEF LoseCommit
  <2> QED
    BY <2>1, ForgottenWork, CommitWork
<1> QED
  BY <1>1, <1>2, <1>3

\* Every step keeps true what every call has computed.
LEMMA NextWorkOK == TypeInv /\ LockOK /\ TxnOK /\ WorkOK /\ [Next]_vars => WorkOK'
<1> SUFFICES ASSUME TypeInv, LockOK, TxnOK, WorkOK, [Next]_vars PROVE WorkOK'
  OBVIOUS
<1>1. CASE Tick \/ UNCHANGED vars
  <2>1. UNCHANGED pending /\ \A q \in Procs : Same(q)
    BY <1>1 DEF Tick, vars, Same, Kept, writes, request, sweep, tables
  <2> QED
    BY <2>1, WorkKept DEF WorkOK
<1>2. ASSUME NEW p \in Ingesters, StartIngest(p) \/ LockTrade(p) \/ IngestStep(p)
      PROVE  WorkOK'
  BY <1>2, IngestWorkOK
<1>3. ASSUME NEW p \in Sweepers, StartSweep(p) \/ SweepStep(p)
      PROVE  WorkOK'
  BY <1>3, SweepWorkOK
<1>4. ASSUME NEW p \in Procs, Fail(p) \/ Rollback(p) \/ LoseCommit(p)
      PROVE  WorkOK'
  BY <1>4, FailureWorkOK
<1> QED
  BY <1>1, <1>2, <1>3, <1>4 DEF Next

\* What transactions know and compute, for every behaviour.
WorkInv == Inv /\ WorkOK

LEMMA WorkInvariance == Spec => []WorkInv
<1>1. Init => WorkInv
  BY InitInv, InitWorkOK DEF WorkInv
<1>2. WorkInv /\ [Next]_vars => WorkInv'
  BY NextInv, NextWorkOK DEF WorkInv, Inv
<1> QED
  BY <1>1, <1>2, PTL DEF Spec

-----------------------------------------------------------------------------
(***************************************************************************)
(* What a commit does: nothing, or it stores the call's row, or it replaces*)
(* the rows of the call's trade by its outcome.                            *)
(***************************************************************************)
Records(p) ==
    /\ pc[p] = "commit" /\ p \in Ingesters
    /\ trade[p] \in Trades /\ ~Finalized(trade[p])
    /\ IsNew(p) /\ ~HasEverySource(Completed(p), Expected[p])
    /\ OwnRow(p) \in Row /\ OwnRow(p).trade = trade[p] /\ OwnRow(p).source = source[p]
    /\ pending' = pending \union {OwnRow(p)} /\ audit' = audit

Finalizes(p, e) ==
    /\ trade[p] \in Trades /\ ~Finalized(trade[p])
    /\ e \in AuditEntry /\ e.trade = trade[p]
    /\ pending' = pending \ TradeRows(p) /\ audit' = Append(audit, e)

Reconciles(p) ==
    /\ pc[p] = "commit" /\ p \in Ingesters
    /\ IsNew(p) /\ HasEverySource(Completed(p), Expected[p])
    /\ OwnRow(p) \in Row /\ OwnRow(p).trade = trade[p] /\ OwnRow(p).source = source[p]
    /\ Finalizes(p, BuildReconciled(Impl[p], trade[p], ExpectedEvents(Completed(p), Expected[p]), now[p]))

Breaks(p) ==
    /\ pc[p] = "claimCommit" /\ p \in Sweepers
    /\ TradeRows(p) # {} /\ EarliestDeadline(TradeRows(p)) <= now[p]
    /\ Finalizes(p, BuildBreak(trade[p], TradeRows(p), Expected[p], now[p]))

\* The commit of a call is one of these, as what it has written says.
LEMMA CommitKinds ==
    ASSUME WorkInv, NEW p \in Procs, pc[p] \in {"commit", "claimCommit"}, ApplyWrites(p)
    PROVE  \/ ins[p] = {} /\ entry[p] = None /\ UNCHANGED tables
           \/ ins[p] # {} /\ entry[p] = None /\ Records(p)
           \/ entry[p] # None /\ Reconciles(p)
           \/ entry[p] # None /\ Breaks(p)
<1>0. TypeInv /\ Work(p) /\ Txn(p) /\ trade[p] \in Trades
  BY DEF WorkInv, WorkOK, Inv, TxnOK, TypeInv, CallOK, LockedPcs
<1>1. CASE ins[p] = {} /\ entry[p] = None
  <2>1. del[p] = {}
    BY <1>0, <1>1 DEF Txn, Clean
  <2> QED
    BY <1>1, <2>1 DEF ApplyWrites, tables
<1>2. CASE ins[p] # {} /\ entry[p] = None
  <2>1. pc[p] = "commit" /\ del[p] = {}
    BY <1>0, <1>2 DEF Txn, Clean
  <2>2. ~Finalized(trade[p])
    BY <1>2, CommitIsFirst DEF Clean, WorkInv
  <2>3. OwnRow(p) \in Row /\ OwnRow(p).trade = trade[p] /\ OwnRow(p).source = source[p]
    BY <1>0, <2>1, OwnRowIsRow DEF IngestPcs
  <2>4. /\ p \in Ingesters /\ IsNew(p) /\ ~HasEverySource(Completed(p), Expected[p])
        /\ ins[p] = {OwnRow(p)}
    BY <1>0, <1>2, <2>1 DEF Work, Recording, IngestPcs
  <2>5. pending' = pending \union {OwnRow(p)} /\ audit' = audit
    BY <1>2, <2>1, <2>4 DEF ApplyWrites
  <2> QED
    BY <1>0, <1>2, <2>1, <2>2, <2>3, <2>4, <2>5 DEF Records
<1>3. CASE entry[p] # None
  <2>1. ins[p] = {} /\ del[p] = TradeRows(p) /\ entry[p].trade = trade[p]
    BY <1>0, <1>3 DEF Txn, LockedPcs, TradeRows
  <2>2. Finalizes(p, entry[p])
    <3>1. ~Finalized(trade[p])
      BY <1>3, CommitIsFirst DEF Clean, WorkInv
    <3>2. entry[p] \in AuditEntry
      BY <1>0, <1>3 DEF TypeInv, TypeOK
    <3>3. pending' = pending \ TradeRows(p) /\ audit' = Append(audit, entry[p])
      BY <1>3, <2>1 DEF ApplyWrites
    <3> QED
      BY <1>0, <2>1, <3>1, <3>2, <3>3 DEF Finalizes
  <2>3. CASE pc[p] = "commit"
    <3>1. OwnRow(p) \in Row /\ OwnRow(p).trade = trade[p] /\ OwnRow(p).source = source[p]
      BY <1>0, <2>3, OwnRowIsRow DEF IngestPcs
    <3>2. /\ p \in Ingesters /\ IsNew(p) /\ HasEverySource(Completed(p), Expected[p])
          /\ entry[p] = BuildReconciled(Impl[p], trade[p], ExpectedEvents(Completed(p), Expected[p]), now[p])
      BY <1>0, <1>3, <2>3 DEF Work, Reconciling, IngestPcs
    <3> QED
      BY <1>3, <2>2, <2>3, <3>1, <3>2 DEF Reconciles
  <2>4. CASE pc[p] = "claimCommit"
    <3>1. /\ p \in Sweepers /\ TradeRows(p) # {} /\ EarliestDeadline(TradeRows(p)) <= now[p]
          /\ entry[p] = BuildBreak(trade[p], TradeRows(p), Expected[p], now[p])
      BY <1>0, <1>3, <2>4 DEF Work, Breaking, SweepPcs
    <3> QED
      BY <1>3, <2>2, <2>4, <3>1 DEF Breaks
  <2> QED
    BY <2>3, <2>4
<1> QED
  BY <1>1, <1>2, <1>3

\* So every step leaves the tables alone or is one of three changes.
LEMMA TablesChange ==
    ASSUME WorkInv, [Next]_vars
    PROVE  UNCHANGED tables \/ \E p \in Procs : Records(p) \/ Reconciles(p) \/ Breaks(p)
BY TablesChangeAtCommit, CommitKinds

\* The rows and the entries after each change.
LEMMA RowsAfterRecord ==
    ASSUME NEW p \in Procs, Records(p), NEW t
    PROVE  RowsOf(pending', t) = IF t = trade[p] THEN Completed(p) ELSE RowsOf(pending, t)
<1>1. OwnRow(p).trade = trade[p] /\ pending' = pending \union {OwnRow(p)}
  BY DEF Records
<1> QED
  BY <1>1 DEF RowsOf, Completed, TradeRows

LEMMA RowsAfterOutcome ==
    ASSUME NEW p \in Procs, NEW e, Finalizes(p, e), NEW t
    PROVE  RowsOf(pending', t) = IF t = trade[p] THEN {} ELSE RowsOf(pending, t)
BY DEF Finalizes, TradeRows, RowsOf

LEMMA AuditAfterOutcome ==
    ASSUME WorkInv, NEW p \in Procs, NEW e, Finalizes(p, e)
    PROVE  /\ \A i \in DOMAIN audit : i \in DOMAIN audit' /\ audit'[i] = audit[i]
           /\ \A i \in DOMAIN audit' \ DOMAIN audit : audit'[i] = e
           /\ \E i \in DOMAIN audit' : audit'[i] = e
<1>1. audit \in Seq(AuditEntry) /\ e \in AuditEntry /\ audit' = Append(audit, e)
  BY DEF WorkInv, Inv, TypeInv, TypeOK, Finalizes
<1>2. Len(audit) + 1 \in DOMAIN audit' /\ audit'[Len(audit) + 1] = e
  BY <1>1
<1>3. \A i \in DOMAIN audit : i \in DOMAIN audit' /\ audit'[i] = audit[i]
  BY <1>1
<1>4. \A i \in DOMAIN audit' \ DOMAIN audit : audit'[i] = e
  BY <1>1
<1> QED
  BY <1>2, <1>3, <1>4

-----------------------------------------------------------------------------
(***************************************************************************)
(* Rows and outcomes.                                                      *)
(***************************************************************************)
TablesInv ==
    /\ NoCompleteTradeIsPending /\ ReconciledHasEverySource
    /\ KeyIsPrimary /\ RowsAreExpected

LEMMA InitTablesInv == Init => TablesInv
BY DEF Init, TablesInv, NoCompleteTradeIsPending, ReconciledHasEverySource, KeyIsPrimary,
       RowsAreExpected, RowsOf

\* A row that is recorded leaves its trade incomplete for the call's own
\* configuration, and its key is new.
LEMMA RecordKeepsTables ==
    ASSUME TablesInv, NEW p \in Procs, Records(p)
    PROVE  TablesInv'
<1>1. /\ p \in Ingesters /\ IsNew(p) /\ ~HasEverySource(Completed(p), Expected[p])
      /\ OwnRow(p).trade = trade[p] /\ OwnRow(p).source = source[p]
      /\ pending' = pending \union {OwnRow(p)} /\ audit' = audit
  BY DEF Records
<1>2. NoCompleteTradeIsPending'
  BY <1>1, RowsAfterRecord DEF TablesInv, NoCompleteTradeIsPending
<1>3. ReconciledHasEverySource'
  BY <1>1 DEF TablesInv, ReconciledHasEverySource
<1>4. KeyIsPrimary'
  <2>1. \A r \in pending : r.trade = trade[p] => r.source # source[p]
    BY <1>1 DEF IsNew, TradeRows, RowsOf, SourcesOf
  <2> HIDE DEF OwnRow
  <2> QED
    BY <1>1, <2>1 DEF TablesInv, KeyIsPrimary
<1>5. RowsAreExpected'
  <2> HIDE DEF OwnRow
  <2> QED
    BY <1>1 DEF TablesInv, RowsAreExpected, IsNew
<1> QED
  BY <1>2, <1>3, <1>4, <1>5 DEF TablesInv

\* An outcome removes rows; a reconciled one has the call's expected sources.
LEMMA OutcomeKeepsTables ==
    ASSUME WorkInv, TablesInv, NEW p \in Procs, NEW e, Finalizes(p, e),
           e.outcome = "reconciled" => p \in Ingesters /\ e.sources = Expected[p]
    PROVE  TablesInv'
<1>1. NoCompleteTradeIsPending'
  BY RowsAfterOutcome DEF TablesInv, NoCompleteTradeIsPending
<1>2. ReconciledHasEverySource'
  BY AuditAfterOutcome DEF TablesInv, ReconciledHasEverySource
<1>3. KeyIsPrimary' /\ RowsAreExpected'
  BY DEF TablesInv, Finalizes, KeyIsPrimary, RowsAreExpected
<1> QED
  BY <1>1, <1>2, <1>3 DEF TablesInv

LEMMA NextTablesInv == WorkInv /\ TablesInv /\ [Next]_vars => TablesInv'
<1> SUFFICES ASSUME WorkInv, TablesInv, [Next]_vars PROVE TablesInv'
  OBVIOUS
<1>1. CASE UNCHANGED tables
  BY <1>1 DEF tables, TablesInv, NoCompleteTradeIsPending, ReconciledHasEverySource,
              KeyIsPrimary, RowsAreExpected
<1>2. ASSUME NEW p \in Procs, Records(p) PROVE TablesInv'
  BY <1>2, RecordKeepsTables
<1>3. ASSUME NEW p \in Procs, Reconciles(p) PROVE TablesInv'
  <2> DEFINE e == BuildReconciled(Impl[p], trade[p], ExpectedEvents(Completed(p), Expected[p]), now[p])
  <2>1. p \in Ingesters /\ HasEverySource(Completed(p), Expected[p]) /\ Finalizes(p, e)
    BY <1>3 DEF Reconciles
  <2>2. e.sources = Expected[p]
    BY <2>1, CompleteSources DEF BuildReconciled
  <2> HIDE DEF e
  <2> QED
    BY <2>1, <2>2, OutcomeKeepsTables
<1>4. ASSUME NEW p \in Procs, Breaks(p) PROVE TablesInv'
  <2> DEFINE e == BuildBreak(trade[p], TradeRows(p), Expected[p], now[p])
  <2>1. Finalizes(p, e)
    BY <1>4 DEF Breaks
  <2>2. e.outcome = "break"
    BY DEF BuildBreak
  <2> HIDE DEF e
  <2> QED
    BY <2>1, <2>2, OutcomeKeepsTables
<1> QED
  BY <1>1, <1>2, <1>3, <1>4, TablesChange

LEMMA TablesInvariance == Spec => []TablesInv
BY InitTablesInv, NextTablesInv, WorkInvariance, PTL DEF Spec

\* No call leaves a complete trade behind: of any number of calls that bring
\* its last events at once, in any mix of configurations, the one that commits
\* last among them finds it complete.
THEOREM CompleteTradesAreReconciled == Spec => []NoCompleteTradeIsPending
<1>1. TablesInv => NoCompleteTradeIsPending
  BY DEF TablesInv
<1> QED
  BY TablesInvariance, <1>1, PTL

\* A trade is reported reconciled only with exactly the sources of a
\* configuration in use.
THEOREM ReconciledTradesAreComplete == Spec => []ReconciledHasEverySource
<1>1. TablesInv => ReconciledHasEverySource
  BY DEF TablesInv
<1> QED
  BY TablesInvariance, <1>1, PTL

-----------------------------------------------------------------------------
(***************************************************************************)
(* The window.                                                             *)
(***************************************************************************)

\* The rows of every trade have the window of their first event, if all
\* ingests use one length.
LEMMA NextWindow ==
    ASSUME WindowsAreAlike
    PROVE  WorkInv /\ WindowFromFirstEvent /\ [Next]_vars => WindowFromFirstEvent'
<1> SUFFICES ASSUME WorkInv, WindowFromFirstEvent, [Next]_vars, NEW t \in Trades,
                    RowsOf(pending', t) # {}
             PROVE  \E q \in Ingesters : WindowIs(RowsOf(pending', t), Window[q])
  BY DEF WindowFromFirstEvent, WindowIs
<1>1. CASE RowsOf(pending', t) = RowsOf(pending, t)
  BY <1>1 DEF WindowFromFirstEvent, WindowIs
<1>2. ASSUME NEW p \in Procs, Records(p), t = trade[p]
      PROVE  \E q \in Ingesters : WindowIs(RowsOf(pending', t), Window[q])
  <2>1. TypeInv /\ p \in Ingesters /\ pc[p] \in IngestPcs /\ Window[p] \in Nat
    BY <1>2, ConfigIsOK DEF Records, IngestPcs, WorkInv, Inv
  <2>2. TradeRows(p) # {} => WindowIs(TradeRows(p), Window[p])
    <3> SUFFICES ASSUME TradeRows(p) # {} PROVE WindowIs(TradeRows(p), Window[p])
      OBVIOUS
    <3>1. PICK q \in Ingesters : WindowIs(TradeRows(p), Window[q])
      BY <1>2 DEF WindowFromFirstEvent, WindowIs, TradeRows
    <3>2. Window[q] = Window[p]
      BY <2>1 DEF WindowsAreAlike
    <3> QED
      BY <3>1, <3>2
  <2>3. TradeRows(p) \in SUBSET Row /\ NewRow(trade[p], source[p], now[p], Window[p]) \in Row
    BY <2>1, ViewIsRows, OwnRowIsRow DEF TradeRows
  <2>4. WindowIs(Completed(p), Window[p])
    BY <2>1, <2>2, <2>3, MergeKeepsWindow DEF Completed, OwnRow
  <2>5. RowsOf(pending', t) = Completed(p)
    BY <1>2, RowsAfterRecord
  <2> QED
    BY <2>1, <2>4, <2>5
<1>3. ASSUME NEW p \in Procs, Records(p), t # trade[p]
      PROVE  RowsOf(pending', t) = RowsOf(pending, t)
  BY <1>3, RowsAfterRecord
<1>4. ASSUME NEW p \in Procs, NEW e, Finalizes(p, e)
      PROVE  RowsOf(pending', t) = RowsOf(pending, t)
  BY <1>4, RowsAfterOutcome
<1>5. ASSUME NEW p \in Procs, Reconciles(p) \/ Breaks(p)
      PROVE  RowsOf(pending', t) = RowsOf(pending, t)
  BY <1>4, <1>5 DEF Reconciles, Breaks
<1>6. CASE UNCHANGED tables
  BY <1>1, <1>6 DEF tables
<1> QED
  BY <1>1, <1>2, <1>3, <1>5, <1>6, TablesChange

\* The deadline of a trade is one window after its first event, in any order in
\* which the calls get the trade's lock and in any mix of the two rules that
\* the implementations have for later rows.
THEOREM WindowIsFixed ==
    ASSUME WindowsAreAlike
    PROVE  Spec => []WindowFromFirstEvent
<1>1. Init => WindowFromFirstEvent
  BY DEF Init, WindowFromFirstEvent, RowsOf
<1> QED
  BY <1>1, NextWindow, WorkInvariance, PTL DEF Spec

-----------------------------------------------------------------------------
(***************************************************************************)
(* What callers are told.                                                  *)
(***************************************************************************)

\* The steps that change the tables or what calls have told and hold.
LEMMA HistorySteps ==
    ASSUME [Next]_vars
    PROVE  \/ UNCHANGED <<tables, acked, reported, claimed>>
           \/ \E p \in Ingesters : CommitIngest(p)
           \/ \E p \in Sweepers : CommitClaim(p) \/ ReturnSweep(p)
           \/ \E p \in Procs : Rollback(p) \/ LoseCommit(p)
<1>1. CASE Tick \/ UNCHANGED vars
  BY <1>1 DEF Tick, vars, sweep, history
<1>2. ASSUME NEW p \in Ingesters, StartIngest(p) \/ LockTrade(p) \/ IngestStep(p)
      PROVE  UNCHANGED <<tables, acked, reported, claimed>> \/ CommitIngest(p)
  BY <1>2 DEF StartIngest, LockTrade, IngestStep, CheckFinalized, ReadExisting, InsertPending,
              ReadEvents, DeletePending, RecordReconciled, sweep, history
<1>3. ASSUME NEW p \in Sweepers, StartSweep(p) \/ SweepStep(p)
      PROVE  UNCHANGED <<tables, acked, reported, claimed>> \/ CommitClaim(p) \/ ReturnSweep(p)
  BY <1>3 DEF StartSweep, SweepStep, ListExpired, ClaimTrade, ReadClaimed, DeleteClaimed,
              RecordBreak, PanicInBreak, sweep, history
<1>4. ASSUME NEW p \in Procs, Fail(p)
      PROVE  UNCHANGED <<tables, acked, reported, claimed>>
  BY <1>4 DEF Fail, sweep, history
<1> QED
  BY <1>1, <1>2, <1>3, <1>4 DEF Next

\* An outcome stays, and one that is written is there.
LEMMA OutcomesStay ==
    ASSUME WorkInv, [Next]_vars, NEW t, Finalized(t)
    PROVE  FinalizedAfter(t)
<1>1. CASE UNCHANGED tables
  BY <1>1 DEF tables, Finalized, FinalizedAfter
<1>2. ASSUME NEW p \in Procs, Records(p) PROVE FinalizedAfter(t)
  BY <1>2 DEF Records, Finalized, FinalizedAfter
<1>3. ASSUME NEW p \in Procs, NEW e, Finalizes(p, e) PROVE FinalizedAfter(t)
  BY <1>3, AuditAfterOutcome DEF Finalized, FinalizedAfter
<1> QED
  BY <1>1, <1>2, <1>3, TablesChange DEF Reconciles, Breaks

LEMMA OutcomeIsWritten ==
    ASSUME WorkInv, NEW p \in Procs, entry[p] # None,
           pc[p] \in {"commit", "claimCommit"}, ApplyWrites(p)
    PROVE  trade[p] \in Trades /\ ~Finalized(trade[p]) /\ FinalizedAfter(trade[p])
<1>1. PICK e : Finalizes(p, e)
  BY CommitKinds DEF Reconciles, Breaks
<1>2. e.trade = trade[p] /\ \E i \in DOMAIN audit' : audit'[i] = e
  BY <1>1, AuditAfterOutcome DEF Finalizes
<1> QED
  BY <1>1, <1>2 DEF Finalizes, FinalizedAfter

LEMMA NextReports == WorkInv /\ Reports /\ [Next]_vars => Reports'
<1> SUFFICES ASSUME WorkInv, Reports, [Next]_vars PROVE Reports'
  OBVIOUS
<1>1. /\ reported \in [Trades -> Nat] /\ claimed \in [Procs -> SUBSET Trades]
      /\ trade \in [Procs -> Trades \union {None}]
  BY DEF WorkInv, Inv, TypeInv, TypeOK
<1>2. \A t : Finalized(t) => FinalizedAfter(t)
  BY OutcomesStay
<1>3. /\ \A t \in Trades : reported[t] <= 1 /\ (reported[t] = 1 => Finalized(t))
      /\ \A p \in Procs : \A t \in claimed[p] : Finalized(t) /\ reported[t] = 0
      /\ \A p, q \in Procs : p # q => claimed[p] \intersect claimed[q] = {}
  BY DEF Reports
<1> DEFINE Goal ==
        /\ \A t \in Trades : reported'[t] <= 1 /\ (reported'[t] = 1 => FinalizedAfter(t))
        /\ \A p \in Procs : \A t \in claimed'[p] : FinalizedAfter(t) /\ reported'[t] = 0
        /\ \A p, q \in Procs : p # q => claimed'[p] \intersect claimed'[q] = {}
<1>4. SUFFICES Goal
  BY DEF Reports, Finalized, FinalizedAfter
<1>5. CASE UNCHANGED <<tables, acked, reported, claimed>>
  BY <1>2, <1>3, <1>5
<1>6. ASSUME NEW p \in Ingesters, CommitIngest(p) PROVE Goal
  <2>1. /\ p \in Procs /\ pc[p] = "commit" /\ ApplyWrites(p)
        /\ claimed' = [claimed EXCEPT ![p] = {}]
    BY <1>6 DEF CommitIngest, ForgetCall, Procs
  <2>2. CASE entry[p] = None
    <3>1. reported' = reported
      BY <1>6, <2>2 DEF CommitIngest
    <3> QED
      BY <1>1, <1>2, <1>3, <2>1, <3>1
  <2>3. CASE entry[p] # None
    <3>1. reported' = [reported EXCEPT ![trade[p]] = @ + 1]
      BY <1>6, <2>3 DEF CommitIngest
    <3>2. trade[p] \in Trades /\ ~Finalized(trade[p]) /\ FinalizedAfter(trade[p])
      BY <2>1, <2>3, OutcomeIsWritten
    <3>3. reported[trade[p]] = 0 /\ \A q \in Procs : trade[p] \notin claimed[q]
      BY <1>1, <1>3, <3>2
    <3> QED
      BY <1>1, <1>2, <1>3, <2>1, <3>1, <3>2, <3>3
  <2> QED
    BY <2>2, <2>3
<1>7. ASSUME NEW p \in Sweepers, CommitClaim(p) PROVE Goal
  <2>1. p \in Procs /\ pc[p] = "claimCommit" /\ ApplyWrites(p) /\ reported' = reported
    BY <1>7 DEF CommitClaim, Procs, history
  <2>2. CASE entry[p] = None
    <3>1. claimed' = claimed
      BY <1>7, <2>2 DEF CommitClaim
    <3> QED
      BY <1>1, <1>2, <1>3, <2>1, <3>1
  <2>3. CASE entry[p] # None
    <3>1. claimed' = [claimed EXCEPT ![p] = @ \union {trade[p]}]
      BY <1>7, <2>3 DEF CommitClaim
    <3>2. trade[p] \in Trades /\ ~Finalized(trade[p]) /\ FinalizedAfter(trade[p])
      BY <2>1, <2>3, OutcomeIsWritten
    <3>3. reported[trade[p]] = 0 /\ \A q \in Procs : trade[p] \notin claimed[q]
      BY <1>1, <1>3, <3>2
    <3> QED
      BY <1>1, <1>2, <1>3, <2>1, <3>1, <3>2, <3>3
  <2> QED
    BY <2>2, <2>3
<1>8. ASSUME NEW p \in Sweepers, ReturnSweep(p) PROVE Goal
  <2>1. /\ p \in Procs /\ claimed' = [claimed EXCEPT ![p] = {}]
        /\ reported' = [t \in Trades |-> IF t \in claimed[p] THEN reported[t] + 1 ELSE reported[t]]
    BY <1>8 DEF ReturnSweep, ForgetCall, Procs
  <2>2. \A t \in Trades : reported'[t] = IF t \in claimed[p] THEN 1 ELSE reported[t]
    BY <1>1, <1>3, <2>1
  <2>3. \A q \in Procs : claimed'[q] = IF q = p THEN {} ELSE claimed[q]
    BY <1>1, <2>1
  <2>4. \A q \in Procs : \A t \in claimed'[q] : t \in Trades /\ t \notin claimed[p]
    BY <1>1, <1>3, <2>1, <2>3
  <2> QED
    BY <1>1, <1>2, <1>3, <2>1, <2>2, <2>3, <2>4
<1>9. ASSUME NEW p \in Procs, Rollback(p) \/ LoseCommit(p) PROVE Goal
  <2>1. reported' = reported /\ claimed' = [claimed EXCEPT ![p] = {}]
    BY <1>9 DEF Rollback, LoseCommit, ForgetCall, history
  <2> QED
    BY <1>1, <1>2, <1>3, <2>1
<1> QED
  BY <1>5, <1>6, <1>7, <1>8, <1>9, HistorySteps

\* Callers that try again, replies that get lost and sweeps that run at once
\* never make two callers see the same outcome as theirs.
THEOREM OutcomeIsReportedOnce == Spec => []ReportedAtMostOnce
<1>1. Init => Reports
  BY DEF Init, Reports
<1>2. Reports => ReportedAtMostOnce
  BY DEF Reports, ReportedAtMostOnce
<1> QED
  BY <1>1, <1>2, NextReports, WorkInvariance, PTL DEF Spec

-----------------------------------------------------------------------------
(***************************************************************************)
(* No event is lost.                                                       *)
(***************************************************************************)
Found(e) ==
    \/ e[2] \in SourcesOf(RowsOf(pending, e[1]))
    \/ \E i \in DOMAIN audit : audit[i].trade = e[1] /\ e[2] \in audit[i].sources

FoundAfter(e) ==
    \/ e[2] \in SourcesOf(RowsOf(pending', e[1]))
    \/ \E i \in DOMAIN audit' : audit'[i].trade = e[1] /\ e[2] \in audit'[i].sources

\* What was found before an outcome is found after it, if the outcome names the
\* sources of the rows it replaces.
LEMMA FoundAfterOutcome ==
    ASSUME WorkInv, NEW p \in Procs, NEW e, Finalizes(p, e),
           SourcesOf(TradeRows(p)) \subseteq e.sources,
           NEW f, Found(f)
    PROVE  FoundAfter(f)
<1>1. /\ \A i \in DOMAIN audit : i \in DOMAIN audit' /\ audit'[i] = audit[i]
      /\ \E i \in DOMAIN audit' : audit'[i] = e
  BY AuditAfterOutcome
<1>2. e.trade = trade[p]
  BY DEF Finalizes
<1>3. CASE f[2] \in SourcesOf(RowsOf(pending, f[1])) /\ f[1] = trade[p]
  BY <1>1, <1>2, <1>3 DEF FoundAfter, TradeRows
<1>4. CASE f[2] \in SourcesOf(RowsOf(pending, f[1])) /\ f[1] # trade[p]
  BY <1>4, RowsAfterOutcome DEF FoundAfter
<1>5. CASE \E i \in DOMAIN audit : audit[i].trade = f[1] /\ f[2] \in audit[i].sources
  BY <1>1, <1>5 DEF FoundAfter
<1> QED
  BY <1>3, <1>4, <1>5 DEF Found

\* A reconciled outcome names the source of every row it replaces and the
\* call's own, if all ingests expect the same sources.
LEMMA ReconciledNamesAll ==
    ASSUME IngestsExpectAlike, TablesInv, NEW p \in Procs, Reconciles(p)
    PROVE  LET e == BuildReconciled(Impl[p], trade[p], ExpectedEvents(Completed(p), Expected[p]), now[p])
           IN  SourcesOf(TradeRows(p)) \union {source[p]} \subseteq e.sources
<1>1. p \in Ingesters /\ HasEverySource(Completed(p), Expected[p]) /\ source[p] \in Expected[p]
  BY DEF Reconciles, IsNew
<1>2. SourcesOf(TradeRows(p)) \subseteq Expected[p]
  BY <1>1 DEF TablesInv, RowsAreExpected, IngestsExpectAlike, SourcesOf, TradeRows, RowsOf
<1>3. SourcesOf(ExpectedEvents(Completed(p), Expected[p])) = Expected[p]
  BY <1>1, CompleteSources
<1> QED
  BY <1>1, <1>2, <1>3 DEF BuildReconciled

\* What was found stays found in every step.
LEMMA FoundStays ==
    ASSUME IngestsExpectAlike, WorkInv, TablesInv, [Next]_vars, NEW f, Found(f)
    PROVE  FoundAfter(f)
<1>1. CASE UNCHANGED tables
  BY <1>1 DEF tables, Found, FoundAfter
<1>2. ASSUME NEW p \in Procs, Records(p) PROVE FoundAfter(f)
  BY <1>2 DEF Records, Found, FoundAfter, SourcesOf, RowsOf
<1>3. ASSUME NEW p \in Procs, Reconciles(p) PROVE FoundAfter(f)
  <2> DEFINE e == BuildReconciled(Impl[p], trade[p], ExpectedEvents(Completed(p), Expected[p]), now[p])
  <2>1. Finalizes(p, e) /\ SourcesOf(TradeRows(p)) \subseteq e.sources
    BY <1>3, ReconciledNamesAll DEF Reconciles
  <2> HIDE DEF e
  <2> QED
    BY <2>1, FoundAfterOutcome
<1>4. ASSUME NEW p \in Procs, Breaks(p) PROVE FoundAfter(f)
  <2> DEFINE e == BuildBreak(trade[p], TradeRows(p), Expected[p], now[p])
  <2>1. Finalizes(p, e) /\ e.sources = SourcesOf(TradeRows(p))
    BY <1>4 DEF Breaks, BuildBreak
  <2> HIDE DEF e
  <2> QED
    BY <2>1, FoundAfterOutcome
<1> QED
  BY <1>1, <1>2, <1>3, <1>4, TablesChange

\* What an ingest call is about to answer for is found after its commit.
LEMMA OwnEventFound ==
    ASSUME IngestsExpectAlike, WorkInv, TablesInv, NEW p \in Ingesters, CommitIngest(p),
           ins[p] # {} \/ entry[p] # None
    PROVE  FoundAfter(<<trade[p], source[p]>>)
<1>1. p \in Procs /\ pc[p] = "commit" /\ ApplyWrites(p)
  BY DEF CommitIngest, Procs
<1>2. CASE Records(p)
  <2>1. OwnRow(p) \in RowsOf(pending', trade[p]) /\ OwnRow(p).source = source[p]
    BY <1>2 DEF Records, RowsOf
  <2> HIDE DEF OwnRow
  <2> QED
    BY <2>1 DEF FoundAfter, SourcesOf
<1>3. CASE Reconciles(p)
  <2> DEFINE e == BuildReconciled(Impl[p], trade[p], ExpectedEvents(Completed(p), Expected[p]), now[p])
  <2>1. Finalizes(p, e) /\ source[p] \in e.sources
    BY <1>1, <1>3, ReconciledNamesAll DEF Reconciles
  <2> HIDE DEF e
  <2>2. e.trade = trade[p] /\ \E i \in DOMAIN audit' : audit'[i] = e
    BY <1>1, <2>1, AuditAfterOutcome DEF Finalizes
  <2> QED
    BY <2>1, <2>2 DEF FoundAfter
<1> QED
  BY <1>1, <1>2, <1>3, CommitKinds DEF Breaks

LEMMA NextNoEventLost ==
    ASSUME IngestsExpectAlike
    PROVE  WorkInv /\ TablesInv /\ NoEventLost /\ [Next]_vars => NoEventLost'
<1> SUFFICES ASSUME WorkInv, TablesInv, NoEventLost, [Next]_vars, NEW e \in acked'
             PROVE  FoundAfter(e)
  BY DEF NoEventLost, FoundAfter
<1>1. CASE e \in acked
  BY <1>1, FoundStays DEF NoEventLost, Found
<1>2. CASE e \notin acked
  <2>1. PICK p \in Ingesters : CommitIngest(p)
    BY <1>2, HistorySteps DEF CommitClaim, ReturnSweep, Rollback, LoseCommit, history
  <2>2. (ins[p] # {} \/ entry[p] # None) /\ e = <<trade[p], source[p]>>
    BY <1>2, <2>1 DEF CommitIngest
  <2> QED
    BY <2>1, <2>2, OwnEventFound
<1> QED
  BY <1>1, <1>2

\* If all ingests expect the same sources, an event that a caller was told is
\* stored or reconciled is never lost, whatever crashes, fails or runs beside,
\* and whatever sources the sweeps are configured with.
THEOREM EventsAreKept ==
    ASSUME IngestsExpectAlike
    PROVE  Spec => []NoEventLost
<1>1. Init => NoEventLost
  BY DEF Init, NoEventLost
<1> QED
  BY <1>1, NextNoEventLost, WorkInvariance, TablesInvariance, PTL DEF Spec

-----------------------------------------------------------------------------
(***************************************************************************)
(* Breaks.                                                                 *)
(***************************************************************************)

\* If a sweep expects what the ingests expect, the rows it finds lack a source.
LEMMA NextBreakHasMissingSource ==
    ASSUME SweepsExpectAll
    PROVE  WorkInv /\ TablesInv /\ BreakHasMissingSource /\ [Next]_vars => BreakHasMissingSource'
<1> SUFFICES ASSUME WorkInv, TablesInv, BreakHasMissingSource, [Next]_vars
             PROVE  BreakHasMissingSource'
  OBVIOUS
<1>1. CASE UNCHANGED audit
  BY <1>1 DEF BreakHasMissingSource
<1>2. ASSUME NEW p \in Procs, NEW e, Finalizes(p, e),
             e.outcome = "break" => e.detail.missing # {}
      PROVE  BreakHasMissingSource'
  BY <1>2, AuditAfterOutcome DEF BreakHasMissingSource
<1>3. ASSUME NEW p \in Procs, Reconciles(p) PROVE BreakHasMissingSource'
  <2> DEFINE e == BuildReconciled(Impl[p], trade[p], ExpectedEvents(Completed(p), Expected[p]), now[p])
  <2>1. Finalizes(p, e) /\ e.outcome = "reconciled"
    BY <1>3 DEF Reconciles, BuildReconciled
  <2> HIDE DEF e
  <2> QED
    BY <1>2, <2>1
<1>4. ASSUME NEW p \in Procs, Breaks(p) PROVE BreakHasMissingSource'
  <2> DEFINE e == BuildBreak(trade[p], TradeRows(p), Expected[p], now[p])
  <2>1. Finalizes(p, e) /\ e.detail.missing = Expected[p] \ SourcesOf(TradeRows(p))
    BY <1>4 DEF Breaks, BuildBreak
  <2>2. PICK q \in Ingesters : ~HasEverySource(TradeRows(p), Expected[q])
    BY <1>4 DEF Breaks, Finalizes, TablesInv, NoCompleteTradeIsPending, TradeRows
  <2>3. Expected[q] \subseteq Expected[p]
    BY <1>4 DEF Breaks, SweepsExpectAll
  <2> HIDE DEF e
  <2> QED
    BY <1>2, <2>1, <2>2, <2>3 DEF HasEverySource
<1> QED
  BY <1>1, <1>3, <1>4, TablesChange DEF tables, Records

\* A break always tells which sources are missing, as long as the sweeps expect
\* every source that the ingests expect.
THEOREM BreaksMissSources ==
    ASSUME SweepsExpectAll
    PROVE  Spec => []BreakHasMissingSource
<1>1. Init => BreakHasMissingSource
  BY DEF Init, BreakHasMissingSource
<1> QED
  BY <1>1, NextBreakHasMissingSource, WorkInvariance, TablesInvariance, PTL DEF Spec

\* Such a sweep never finds more rows than it expects sources: a row has a key
\* of its own, so the Go engine's slice has room.
LEMMA SliceHasRoom ==
    ASSUME SweepsExpectAll, WorkInv, TablesInv, NEW p \in Sweepers, pc[p] = "claimRecord"
    PROVE  ~BuildBreakPanics(Impl[p], seen[p], Expected[p])
<1>1. p \in Procs /\ seen[p] = TradeRows(p) /\ IsFiniteSet(Expected[p])
  BY StoreAssumption DEF WorkInv, WorkOK, Work, Procs
<1> DEFINE f == [r \in TradeRows(p) |-> r.source]
<1>2. \A r \in TradeRows(p) : r \in pending /\ r.source \in Expected[p]
  BY DEF TablesInv, RowsAreExpected, SweepsExpectAll, TradeRows, RowsOf
<1>3. \A r, s \in TradeRows(p) : r.source = s.source => r = s
  BY <1>2 DEF TablesInv, KeyIsPrimary, TradeRows, RowsOf
<1>4. f \in Injection(TradeRows(p), Expected[p])
  BY <1>2, <1>3 DEF Injection, IsInjective
<1>5. Cardinality(TradeRows(p)) <= Cardinality(Expected[p])
      /\ IsFiniteSet(TradeRows(p))
  BY <1>1, <1>4, FS_Injection
<1>6. Cardinality(TradeRows(p)) \in Nat /\ Cardinality(Expected[p]) \in Nat
  BY <1>1, <1>5, FS_CardinalityType
<1> QED
  BY <1>1, <1>5, <1>6 DEF BuildBreakPanics

\* As long as nothing has failed, no call is being rolled back and every break
\* is held by its sweep or was reported.
BreaksAreHeld ==
    fails = 0 =>
        /\ \A p \in Procs : pc[p] # "rollback"
        /\ EveryBreakReported

\* A call comes to be rolled back only by a failure or a panic.
LEMMA RollbackNeedsFailure ==
    ASSUME TypeInv, [Next]_vars, \A p \in Procs : pc[p] # "rollback", fails = 0,
           NEW q \in Procs, pc'[q] = "rollback"
    PROVE  fails' > 0 \/ \E p \in Sweepers : PanicInBreak(p)
<1> USE DEF Go
<1>1. CASE Tick \/ UNCHANGED vars
  BY <1>1 DEF Tick, vars
<1>2. ASSUME NEW p \in Ingesters, StartIngest(p) \/ LockTrade(p) \/ IngestStep(p)
      PROVE  FALSE
  BY <1>2 DEF StartIngest, LockTrade, IngestStep, CheckFinalized, ReadExisting, InsertPending,
              ReadEvents, DeletePending, RecordReconciled, CommitIngest, ForgetCall,
              TypeInv, TypeOK
<1>3. ASSUME NEW p \in Sweepers, StartSweep(p) \/ SweepStep(p)
      PROVE  PanicInBreak(p)
  BY <1>3 DEF StartSweep, SweepStep, ListExpired, ClaimTrade, ReadClaimed, DeleteClaimed,
              RecordBreak, CommitClaim, ReturnSweep, ForgetCall, TypeInv, TypeOK
<1>4. ASSUME NEW p \in Procs, Fail(p) \/ Rollback(p) \/ LoseCommit(p)
      PROVE  fails' > 0
  BY <1>4 DEF Fail, Rollback, LoseCommit
<1> QED
  BY <1>1, <1>2, <1>3, <1>4 DEF Next

LEMMA FailsOnlyGrow ==
    ASSUME TypeInv, [Next]_vars, fails' = 0
    PROVE  fails = 0
<1>1. UNCHANGED fails \/ fails' = fails + 1
  <2>1. CASE Tick \/ UNCHANGED vars
    BY <2>1 DEF Tick, vars, history
  <2>2. ASSUME NEW p \in Ingesters, StartIngest(p) \/ LockTrade(p) \/ IngestStep(p)
        PROVE  UNCHANGED fails
    BY <2>2 DEF StartIngest, LockTrade, IngestStep, CheckFinalized, ReadExisting, InsertPending,
                ReadEvents, DeletePending, RecordReconciled, CommitIngest, history
  <2>3. ASSUME NEW p \in Sweepers, StartSweep(p) \/ SweepStep(p)
        PROVE  UNCHANGED fails
    BY <2>3 DEF StartSweep, SweepStep, ListExpired, ClaimTrade, ReadClaimed, DeleteClaimed,
                RecordBreak, PanicInBreak, CommitClaim, ReturnSweep, history
  <2>4. ASSUME NEW p \in Procs, Fail(p) \/ Rollback(p) \/ LoseCommit(p)
        PROVE  UNCHANGED fails \/ fails' = fails + 1
    BY <2>4 DEF Fail, Rollback, LoseCommit, history
  <2> QED
    BY <2>1, <2>2, <2>3, <2>4 DEF Next
<1> QED
  BY <1>1 DEF TypeInv, TypeOK

\* A step without a failure keeps every break with its sweep or reports it.
LEMMA HeldStays ==
    ASSUME WorkInv, [Next]_vars, \A p \in Procs : pc[p] # "rollback", fails' = 0,
           NEW t \in Trades, reported[t] > 0 \/ \E p \in Sweepers : t \in claimed[p]
    PROVE  reported'[t] > 0 \/ \E p \in Sweepers : t \in claimed'[p]
<1>1. /\ reported \in [Trades -> Nat] /\ claimed \in [Procs -> SUBSET Trades]
      /\ trade \in [Procs -> Trades \union {None}] /\ fails \in Nat
  BY DEF WorkInv, Inv, TypeInv, TypeOK
<1>2. CASE UNCHANGED <<tables, acked, reported, claimed>>
  BY <1>2
<1>3. ASSUME NEW p \in Ingesters, CommitIngest(p)
      PROVE  reported'[t] > 0 \/ \E q \in Sweepers : t \in claimed'[q]
  <2>1. claimed[p] = {}
    BY StoreAssumption DEF WorkInv, WorkOK, Work, Procs
  <2>2. claimed' = [claimed EXCEPT ![p] = {}]
    BY <1>3 DEF CommitIngest, ForgetCall
  <2>3. reported' = reported \/ reported' = [reported EXCEPT ![trade[p]] = @ + 1]
    BY <1>3 DEF CommitIngest
  <2> QED
    BY <1>1, <2>1, <2>2, <2>3 DEF Procs
<1>4. ASSUME NEW p \in Sweepers, CommitClaim(p)
      PROVE  reported'[t] > 0 \/ \E q \in Sweepers : t \in claimed'[q]
  <2>1. /\ claimed' = claimed \/ claimed' = [claimed EXCEPT ![p] = @ \union {trade[p]}]
        /\ reported' = reported
    BY <1>4 DEF CommitClaim, history
  <2> QED
    BY <1>1, <2>1 DEF Procs
<1>5. ASSUME NEW p \in Sweepers, ReturnSweep(p)
      PROVE  reported'[t] > 0 \/ \E q \in Sweepers : t \in claimed'[q]
  <2>1. /\ claimed' = [claimed EXCEPT ![p] = {}]
        /\ reported' = [u \in Trades |-> IF u \in claimed[p] THEN reported[u] + 1 ELSE reported[u]]
    BY <1>5 DEF ReturnSweep, ForgetCall
  <2>2. reported'[t] = IF t \in claimed[p] THEN reported[t] + 1 ELSE reported[t]
    BY <2>1
  <2>3. \A q \in Sweepers : q # p => claimed'[q] = claimed[q]
    BY <1>1, <2>1 DEF Procs
  <2> QED
    BY <1>1, <2>2, <2>3
<1>6. ASSUME NEW p \in Procs, Rollback(p) \/ LoseCommit(p) PROVE FALSE
  BY <1>1, <1>6 DEF Rollback, LoseCommit
<1> QED
  BY <1>2, <1>3, <1>4, <1>5, <1>6, HistorySteps

LEMMA NextBreaksAreHeld ==
    ASSUME SweepsExpectAll
    PROVE  WorkInv /\ TablesInv /\ BreaksAreHeld /\ [Next]_vars => BreaksAreHeld'
<1> SUFFICES ASSUME WorkInv, TablesInv, BreaksAreHeld, [Next]_vars, fails' = 0
             PROVE  (\A p \in Procs : pc'[p] # "rollback") /\ EveryBreakReported'
  BY DEF BreaksAreHeld
<1>1. TypeInv /\ audit \in Seq(AuditEntry) /\ fails \in Nat
  BY DEF WorkInv, Inv, TypeInv, TypeOK
<1>2. fails = 0 /\ EveryBreakReported /\ \A p \in Procs : pc[p] # "rollback"
  BY <1>1, FailsOnlyGrow DEF BreaksAreHeld
<1>3. \A p \in Procs : pc'[p] # "rollback"
  <2> SUFFICES ASSUME NEW q \in Procs, pc'[q] = "rollback" PROVE FALSE
    OBVIOUS
  <2>1. PICK p \in Sweepers : PanicInBreak(p)
    BY <1>1, <1>2, RollbackNeedsFailure
  <2> QED
    BY <2>1, SliceHasRoom DEF PanicInBreak
<1>4. EveryBreakReported'
  <2> DEFINE Held(t) == reported'[t] > 0 \/ \E p \in Sweepers : t \in claimed'[p]
  <2> SUFFICES ASSUME NEW i \in DOMAIN audit', audit'[i].outcome = "break"
               PROVE  Held(audit'[i].trade)
    BY DEF EveryBreakReported
  <2>1. CASE i \in DOMAIN audit /\ audit'[i] = audit[i]
    <3>1. audit[i].trade \in Trades
      <4>1. audit[i] \in AuditEntry
        BY <1>1, <2>1
      <4> QED
        BY <4>1 DEF AuditEntry
    <3>2. reported[audit[i].trade] > 0 \/ \E p \in Sweepers : audit[i].trade \in claimed[p]
      BY <1>2, <2>1 DEF EveryBreakReported
    <3> QED
      BY <1>2, <2>1, <3>1, <3>2, HeldStays
  <2>2. CASE UNCHANGED tables
    BY <2>1, <2>2 DEF tables
  <2>3. ASSUME NEW p \in Ingesters, CommitIngest(p) PROVE Held(audit'[i].trade)
    <3>1. p \in Procs /\ pc[p] = "commit" /\ ApplyWrites(p)
      BY <2>3 DEF CommitIngest, Procs
    <3>2. CASE Records(p)
      BY <2>1, <3>2 DEF Records
    <3>3. CASE Reconciles(p)
      <4> DEFINE e == BuildReconciled(Impl[p], trade[p], ExpectedEvents(Completed(p), Expected[p]), now[p])
      <4>1. Finalizes(p, e) /\ e.outcome # "break"
        BY <3>3 DEF Reconciles, BuildReconciled
      <4> HIDE DEF e
      <4> QED
        BY <2>1, <3>1, <4>1, AuditAfterOutcome
    <3> QED
      BY <2>2, <3>1, <3>2, <3>3, CommitKinds DEF Breaks
  <2>4. ASSUME NEW p \in Sweepers, CommitClaim(p) PROVE Held(audit'[i].trade)
    <3>1. p \in Procs /\ pc[p] = "claimCommit" /\ ApplyWrites(p)
      BY <2>4 DEF CommitClaim, Procs
    <3>2. CASE Breaks(p) /\ entry[p] # None
      <4> DEFINE e == BuildBreak(trade[p], TradeRows(p), Expected[p], now[p])
      <4>1. Finalizes(p, e) /\ e.trade = trade[p]
        BY <3>2 DEF Breaks, BuildBreak
      <4> HIDE DEF e
      <4>2. claimed' = [claimed EXCEPT ![p] = @ \union {trade[p]}]
        BY <2>4, <3>2 DEF CommitClaim
      <4>3. trade[p] \in claimed'[p]
        BY <1>1, <3>1, <4>2 DEF TypeInv, TypeOK
      <4> QED
        BY <2>1, <3>1, <4>1, <4>3, AuditAfterOutcome
    <3> QED
      BY <2>2, <3>1, <3>2, CommitKinds DEF Records, Reconciles
  <2>5. ASSUME NEW p \in Procs, Rollback(p) \/ LoseCommit(p) PROVE FALSE
    BY <1>1, <1>2, <2>5 DEF Rollback, LoseCommit
  <2> QED
    BY <2>2, <2>3, <2>4, <2>5, HistorySteps DEF ReturnSweep, tables
<1> QED
  BY <1>3, <1>4

\* As long as no statement, reply or process fails, every break is returned by
\* the sweep that found it or still held by it: sweeps that run at once, trades
\* passed over because they are locked and trades gone since they were listed
\* lose none, and the Go engine does not panic.
THEOREM BreaksAreLostByFailureOnly ==
    ASSUME SweepsExpectAll
    PROVE  Spec => []BreaksLostOnlyByFailure
<1>1. Init => BreaksAreHeld
  BY DEF Init, BreaksAreHeld, EveryBreakReported
<1>2. BreaksAreHeld => BreaksLostOnlyByFailure
  BY DEF BreaksAreHeld, BreaksLostOnlyByFailure
<1> QED
  BY <1>1, <1>2, NextBreaksAreHeld, WorkInvariance, TablesInvariance, PTL DEF Spec

-----------------------------------------------------------------------------
(***************************************************************************)
(* The statements implement the promise of Correlation.                    *)
(***************************************************************************)

\* The promise speaks of the same rows and entries.
LEMMA PromiseTerms ==
    /\ \A rows, t : Promise!RowsOf(rows, t) = RowsOf(rows, t)
    /\ \A rows, x : Promise!HasEverySource(rows, x) <=> HasEverySource(rows, x)
    /\ \A rows, x : Promise!ExpectedEvents(rows, x) = ExpectedEvents(rows, x)
    /\ \A rows : Promise!EarliestDeadline(rows) = EarliestDeadline(rows)
    /\ \A t : Promise!Finalized(t) <=> Finalized(t)
    /\ Promise!Row = Row /\ Promise!Stamps = Stamps
<1>1. \A S : Promise!Min(S) = Min(S)
  BY DEF Promise!Min, Min
<1> QED
  BY <1>1 DEF Promise!RowsOf, RowsOf, Promise!HasEverySource, HasEverySource, Promise!SourcesOf, SourcesOf,
         Promise!ExpectedEvents, ExpectedEvents, Promise!EarliestDeadline, EarliestDeadline,
         Promise!Finalized, Finalized, Promise!Row, Row, Promise!Stamps, Stamps

LEMMA PromiseEntries ==
    /\ \A impl, t, rows, at :
          Promise!BuildReconciled(impl, t, rows, at) = BuildReconciled(impl, t, rows, at)
    /\ \A t, rows, x, at : Promise!BuildBreak(t, rows, x, at) = BuildBreak(t, rows, x, at)
<1>1. \A S : Promise!Min(S) = Min(S) /\ Promise!Max(S) = Max(S)
  BY DEF Promise!Min, Min, Promise!Max, Max
<1>2. \A impl, d : Promise!MatchDuration(impl, d) = MatchDuration(impl, d)
  BY DEF Promise!MatchDuration, MatchDuration, Promise!Milliseconds, Milliseconds,
     Promise!MillisecondsOfFloat, MillisecondsOfFloat
<1> QED
  BY <1>1, <1>2 DEF Promise!BuildReconciled, BuildReconciled, Promise!BuildBreak, BuildBreak,
     Promise!SourcesOf, SourcesOf

\* A row that a call inserts may be stored, as the promise says it.
LEMMA OwnRowIsStorable ==
    ASSUME WorkInv, NEW p \in Procs, pc[p] \in IngestPcs, ~Finalized(trade[p]), IsNew(p)
    PROVE  Promise!Storable(OwnRow(p))
<1> DEFINE new == NewRow(trade[p], source[p], now[p], Window[p])
<1>1. /\ TypeInv /\ new \in Row /\ TradeRows(p) \in SUBSET Row
      /\ OwnRow(p).trade = trade[p] /\ OwnRow(p).source = source[p]
      /\ OwnRow(p) = Merge(Impl[p], TradeRows(p), new)
  BY OwnRowIsRow, ViewIsRows DEF WorkInv, Inv, TradeRows, OwnRow
<1> HIDE DEF new
<1>2. \A r \in TradeRows(p) : OwnRow(p).deadline <= r.deadline
  BY <1>1, MergeNarrows
<1>3. \A r \in TradeRows(p) : r.source # OwnRow(p).source
  BY <1>1 DEF IsNew, SourcesOf
<1> HIDE DEF OwnRow
<1> QED
  BY <1>1, <1>2, <1>3, PromiseTerms DEF Promise!Storable, TradeRows

LEMMA RecordRefines ==
    ASSUME WorkInv, NEW p \in Procs, Records(p)
    PROVE  Promise!Record(OwnRow(p)) /\ OwnRow(p) \in Row
<1>1. /\ OwnRow(p) \in Row /\ OwnRow(p).trade = trade[p] /\ OwnRow(p).source = source[p]
      /\ pending' = pending \union {OwnRow(p)} /\ audit' = audit
      /\ source[p] \in Expected[p]
      /\ ~HasEverySource(TradeRows(p) \union {OwnRow(p)}, Expected[p])
  BY DEF Records, IsNew, Completed
<1>2. Promise!Storable(OwnRow(p))
  BY OwnRowIsStorable DEF Records, IngestPcs
<1> HIDE DEF OwnRow
<1> QED
  BY <1>1, <1>2, PromiseTerms DEF Promise!Record, TradeRows

LEMMA ReconcileRefines ==
    ASSUME WorkInv, NEW p \in Procs, Reconciles(p)
    PROVE  Promise!Reconcile(OwnRow(p)) /\ OwnRow(p) \in Row
<1> DEFINE rows == TradeRows(p) \union {OwnRow(p)}
<1>1. /\ OwnRow(p) \in Row /\ OwnRow(p).trade = trade[p] /\ OwnRow(p).source = source[p]
      /\ pending' = pending \ TradeRows(p)
      /\ audit' = Append(audit, BuildReconciled(Impl[p], trade[p], ExpectedEvents(rows, Expected[p]), now[p]))
      /\ source[p] \in Expected[p] /\ HasEverySource(rows, Expected[p])
  BY DEF Reconciles, Finalizes, IsNew, Completed
<1>2. Promise!Storable(OwnRow(p))
  BY OwnRowIsStorable DEF Reconciles, Finalizes, IngestPcs
<1>3. now[p] \in Stamps /\ Impl[p] \in {"go", "python"}
  BY StoreAssumption DEF WorkInv, Inv, TypeInv, TypeOK
<1> HIDE DEF OwnRow
<1> QED
  BY <1>1, <1>2, <1>3, PromiseTerms, PromiseEntries DEF Promise!Reconcile, TradeRows

\* A sweep's commit claims one trade.
LEMMA BreakRefines ==
    ASSUME WorkInv, NEW p \in Procs, Breaks(p)
    PROVE  Promise!Break({trade[p]}, now[p]) /\ trade[p] \in Trades /\ now[p] \in Stamps
<1> DEFINE t == trade[p]
           e == BuildBreak(t, TradeRows(p), Expected[p], now[p])
           o == [i \in 1..1 |-> t]
           x == [u \in {t} |-> Expected[p]]
           written == [i \in DOMAIN o |->
                          Promise!BuildBreak(o[i], Promise!RowsOf(pending, o[i]), x[o[i]], now[p])]
<1>1. /\ t \in Trades /\ TradeRows(p) # {} /\ EarliestDeadline(TradeRows(p)) <= now[p]
      /\ pending' = pending \ TradeRows(p) /\ audit' = Append(audit, e)
  BY DEF Breaks, Finalizes
<1>2. now[p] \in Stamps /\ audit \in Seq(AuditEntry)
  BY DEF WorkInv, Inv, TypeInv, TypeOK
<1>3. o \in Promise!Orders({t})
  <2>1. Promise!Cardinality({t}) = 1
    BY FS_Singleton DEF Promise!Cardinality, Cardinality
  <2> QED
    BY <2>1 DEF Promise!Orders
<1>4. x \in [{t} -> {Expected[q] : q \in Procs}]
  OBVIOUS
<1>5. written = <<e>>
  BY PromiseTerms, PromiseEntries DEF TradeRows
<1>6. audit' = audit \o written
  <2> HIDE DEF written, e
  <2> QED
    BY <1>1, <1>2, <1>5
<1>7. pending' = {r \in pending : r.trade \notin {t}}
  BY <1>1 DEF TradeRows, RowsOf
<1>8. \A u \in {t} : /\ Promise!RowsOf(pending, u) # {}
                     /\ Promise!EarliestDeadline(Promise!RowsOf(pending, u)) <= now[p]
  BY <1>1, PromiseTerms DEF TradeRows
<1> HIDE DEF o, x
<1> QED
  BY <1>1, <1>2, <1>3, <1>4, <1>6, <1>7, <1>8 DEF Promise!Break, written

LEMMA NextRefines == WorkInv /\ [Next]_vars => [Promise!Next]_(Promise!vars)
<1> SUFFICES ASSUME WorkInv, [Next]_vars
             PROVE  Promise!Next \/ UNCHANGED tables
  BY DEF Promise!vars, tables
<1>1. ASSUME NEW p \in Procs, Records(p) PROVE Promise!Next
  BY <1>1, RecordRefines, PromiseTerms DEF Promise!Next
<1>2. ASSUME NEW p \in Procs, Reconciles(p) PROVE Promise!Next
  BY <1>2, ReconcileRefines, PromiseTerms DEF Promise!Next
<1>3. ASSUME NEW p \in Procs, Breaks(p) PROVE Promise!Next
  <2>1. {trade[p]} \in (SUBSET Trades) \ {{}}
    BY <1>3, BreakRefines
  <2> QED
    BY <1>3, <2>1, BreakRefines, PromiseTerms DEF Promise!Next
<1> QED
  BY <1>1, <1>2, <1>3, TablesChange

\* The statements of any number of concurrent calls, with their failures and
\* lost replies, do to the tables only what the store's interface promises:
\* each change is one Record, one Reconcile or one Break, of exactly the rows
\* that are committed when it happens.
THEOREM StatementsKeepPromise == Spec => ImplementsCorrelation
<1>1. Init => Promise!Init
  BY DEF Init, Promise!Init
<1> QED
  BY <1>1, NextRefines, WorkInvariance, PTL DEF Spec, ImplementsCorrelation, Promise!Spec
=============================================================================
