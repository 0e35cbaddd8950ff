------------------------ MODULE IsolationLevelsProofs ------------------------
(***************************************************************************)
(* Theorems about PostgresStore at the isolation levels of                 *)
(* IsolationLevels, for every set of callers, trades and sources.          *)
(*                                                                         *)
(* At read committed every step is one of PostgresStore, so its invariants *)
(* carry over.  At repeatable read they do not, and what is left follows   *)
(* from SnapshotInv: the lock still keeps two transactions off one trade,  *)
(* a row of a snapshot is committed or known to be lost, and a transaction *)
(* that has read for update goes on only with rows that are not lost.      *)
(***************************************************************************)
EXTENDS IsolationLevels, PostgresStoreProofs

\* Nobody has a snapshot that outlives a statement.
Untouched == \A p \in Procs : snap[p] = None /\ lost[p] = {}

\* Ingests run ingest calls and sweeps run sweeps.
RolesOK ==
    \A p \in Procs :
        /\ pc[p] \in IngestPcs => p \in Ingesters
        /\ pc[p] \in SweepPcs => p \in Sweepers

\* The statements that read through the snapshot.
SnapshotStep(p) ==
    CheckSnapshot(p) \/ ReadVisible(p) \/ InsertVisible(p) \/ DeleteVisible(p)

-----------------------------------------------------------------------------
(***************************************************************************)
(* Steps.                                                                  *)
(***************************************************************************)

\* Every other step is a step of PostgresStore.
LEMMA IsoSteps ==
    ASSUME RolesOK, [IsoNext]_isoVars
    PROVE  [Next]_vars \/ \E p \in Procs : SnapshotStep(p)
<1>1. CASE UNCHANGED isoVars \/ Tick
  BY <1>1 DEF isoVars, Next
<1>2. ASSUME NEW p \in Procs, TakeSnapshot(p) \/ SnapshotStep(p)
      PROVE  UNCHANGED vars \/ SnapshotStep(p)
  BY <1>2 DEF TakeSnapshot
<1>3. ASSUME NEW p \in Procs, Lock(p) PROVE Next
  BY <1>3 DEF Lock, LockTrade, ClaimTrade, RolesOK, IngestPcs, SweepPcs, Next, SweepStep
<1>4. ASSUME NEW p \in Procs, Commit(p) \/ Abort(p) PROVE Next
  BY <1>4 DEF Commit, Abort, CommitIngest, CommitClaim, RolesOK, IngestPcs, SweepPcs, Next,
              IngestStep, SweepStep
<1>5. ASSUME NEW p \in Procs, OwnStep(p) PROVE Next
  BY <1>5 DEF OwnStep, Next, IngestStep, SweepStep
<1> QED
  BY <1>1, <1>2, <1>3, <1>4, <1>5 DEF IsoNext, SnapshotStep

\* The level of the server is the level of every transaction.
LEMMA LevelIsFixed == [IsoNext]_isoVars => level' = level
BY DEF IsoNext, isoVars, isolation, TakeSnapshot, Lock, CheckSnapshot, ReadVisible, ReadRows, InsertVisible,
       DeleteVisible, Commit, Abort, OwnStep, EndTransaction

-----------------------------------------------------------------------------
(***************************************************************************)
(* Read committed.                                                         *)
(***************************************************************************)

\* At read committed nobody keeps a snapshot.
LEMMA NobodyKeepsSnapshots ==
    ASSUME level = ReadCommitted, Untouched, [IsoNext]_isoVars
    PROVE  Untouched'
<1>1. ASSUME NEW p \in Procs, NEW D, EndTransaction(p, D) PROVE Untouched'
  BY <1>1 DEF EndTransaction, Untouched
<1>2. CASE UNCHANGED isolation
  BY <1>2 DEF isolation, Untouched
<1>3. ASSUME NEW p \in Procs, TakeSnapshot(p) PROVE FALSE
  BY <1>3 DEF TakeSnapshot, SeesLatest
<1> QED
  BY <1>1, <1>2, <1>3 DEF IsoNext, isoVars, Lock, CheckSnapshot, ReadVisible, ReadRows, InsertVisible,
     DeleteVisible, Commit, Abort, OwnStep

\* A statement that reads the latest committed rows is PostgresStore's.
LEMMA LatestStep ==
    ASSUME WorkInv, RolesOK, level = ReadCommitted, Untouched, NEW p \in Procs, SnapshotStep(p)
    PROVE  Next
<1>1. Base(p) = Committed /\ VisibleRows(p) = View(p)
  BY DEF Base, SeesLatest, VisibleRows, View, Committed
<1>2. Txn(p) /\ lost[p] = {} /\ (pc[p] \in LockedPcs => trade[p] \in Trades)
  BY DEF WorkInv, Inv, TxnOK, TypeInv, CallOK, Untouched
<1>3. CASE CheckSnapshot(p)
  <2>1. trade[p] \in Base(p).done <=> Finalized(trade[p])
    BY <1>1, <1>2, <1>3 DEF CheckSnapshot, LockedPcs, Committed
  <2> QED
    BY <1>3, <2>1 DEF CheckSnapshot, CheckFinalized, Next, IngestStep, RolesOK, IngestPcs
<1>4. CASE ReadVisible(p)
  <2>1. RowsOf(lost[p], trade[p]) = {}
    BY <1>2 DEF RowsOf
  <2> QED
    BY <1>1, <1>4, <2>1 DEF ReadVisible, ReadRows, ReadExisting, ReadEvents, ReadClaimed, Next,
                            IngestStep, SweepStep, RolesOK, IngestPcs, SweepPcs
<1>5. CASE InsertVisible(p)
  <2>1. pc[p] = "insert" /\ View(p) = RowsOf(pending, trade[p])
    BY <1>2, <1>5 DEF InsertVisible, Txn, Clean, View
  <2>2. {r \in RowsOf(pending, trade[p]) : r.source = source[p]} = {}
           <=> source[p] \notin SourcesOf(View(p))
    BY <2>1 DEF SourcesOf
  <2>3. {r \in RowsOf(pending, trade[p]) : r.source = source[p]} \subseteq Base(p).rows \ lost[p]
    BY <1>1, <1>2 DEF Committed, RowsOf
  <2>4. InsertPending(p)
    BY <1>5, <2>2, <2>3 DEF InsertVisible, InsertPending
  <2> QED
    BY <2>1, <2>4 DEF Next, IngestStep, RolesOK, IngestPcs
<1>6. CASE DeleteVisible(p)
  <2>1. RowsOf(lost[p], trade[p]) = {} /\ RowsOf(Base(p).rows, trade[p]) = RowsOf(pending, trade[p])
    BY <1>1, <1>2 DEF RowsOf, Committed
  <2> QED
    BY <1>6, <2>1 DEF DeleteVisible, DeletePending, DeleteClaimed, DeleteRows, Next, IngestStep,
                      SweepStep, RolesOK, IngestPcs, SweepPcs
<1> QED
  BY <1>3, <1>4, <1>5, <1>6 DEF SnapshotStep

\* The invariants of PostgresStore, where they hold.
LatestInv ==
    level = ReadCommitted => Untouched /\ WorkInv /\ TablesInv /\ Reports

LEMMA NextLatestInv == LatestInv /\ [IsoNext]_isoVars => LatestInv'
<1> SUFFICES ASSUME LatestInv, [IsoNext]_isoVars, level' = ReadCommitted
             PROVE  Untouched' /\ WorkInv' /\ TablesInv' /\ Reports'
  BY DEF LatestInv
<1>1. level = ReadCommitted /\ Untouched /\ WorkInv /\ TablesInv /\ Reports
  BY LevelIsFixed DEF LatestInv
<1>2. RolesOK
  BY <1>1 DEF RolesOK, WorkInv, WorkOK, Work
<1>3. [Next]_vars
  BY <1>1, <1>2, IsoSteps, LatestStep
<1>4. WorkInv'
  BY <1>1, <1>3, NextInv, NextWorkOK DEF WorkInv, Inv
<1> QED
  BY <1>1, <1>3, <1>4, NobodyKeepsSnapshots, NextTablesInv, NextReports

LEMMA InitLatestInv == IsoInit => LatestInv
<1> SUFFICES ASSUME IsoInit PROVE Untouched /\ WorkInv /\ TablesInv /\ Reports
  BY DEF LatestInv
<1>1. Init /\ Untouched
  BY DEF IsoInit, Untouched
<1>2. Reports
  BY <1>1 DEF Init, Reports
<1> QED
  BY <1>1, <1>2, InitInv, InitWorkOK, InitTablesInv DEF WorkInv

\* On a server at read committed the advisory lock is all that the calls need:
\* each trade gets one outcome, which one caller is told, keeps no row after
\* it, and is never left complete.
THEOREM LockSufficesAtReadCommitted == IsoSpec => []ReadCommittedSuffices
<1>1. LatestInv => ReadCommittedSuffices
  BY DEF LatestInv, ReadCommittedSuffices, WorkInv, Inv, TablesInv, Reports, ReportedAtMostOnce
<1> QED
  BY <1>1, InitLatestInv, NextLatestInv, PTL DEF IsoSpec

-----------------------------------------------------------------------------
(***************************************************************************)
(* Repeatable read.                                                        *)
(***************************************************************************)

\* A transaction has a snapshot, and a row of it is committed or lost.
SnapshotsOK ==
    /\ snap \in [Procs -> {None} \union [rows: SUBSET Row, done: SUBSET Trades]]
    /\ \A p \in Procs :
          /\ pc[p] \in LockedPcs => snap[p] # None
          /\ snap[p] # None => snap[p].rows \ lost[p] \subseteq pending

\* What a transaction writes: the rows it deletes are still committed, and the
\* entry it records in their place names their sources.
Writes(p) ==
    /\ pc[p] \in IngestPcs => p \in Ingesters /\ source[p] \in Expected[p]
    /\ pc[p] \in SweepPcs => p \in Sweepers
    /\ pc[p] \notin {"events", "delete", "record", "commit",
                    "claimRecord", "claimCommit", "rollback"} => Clean(p)
    /\ pc[p] \in {"events", "delete"} => del[p] = {} /\ entry[p] = None
    /\ pc[p] \in {"record", "claimRecord"} => ins[p] = {} /\ entry[p] = None
    /\ pc[p] = "claimCommit" => ins[p] = {}
    /\ pc[p] \in {"events", "commit"} =>
          \A r \in ins[p] : r.trade = trade[p] /\ r.source = source[p]
    /\ pc[p] # "rollback" => del[p] \subseteq RowsOf(pending, trade[p])
    /\ pc[p] \in ActingOnRows => seen[p] \ ins[p] \subseteq RowsOf(pending, trade[p])
    /\ pc[p] \in {"commit", "claimCommit"} /\ entry[p] = None => del[p] = {}
    /\ pc[p] \in {"delete", "record"} => HasEverySource(seen[p], Expected[p])
    /\ pc[p] = "claimDelete" => seen[p] = RowsOf(snap[p].rows, trade[p])
    /\ pc[p] = "claimRecord" => SourcesOf(del[p]) \subseteq SourcesOf(seen[p])
    /\ pc[p] \in {"commit", "claimCommit"} /\ entry[p] # None => entry[p].trade = trade[p]
    /\ pc[p] = "commit" /\ entry[p] # None => entry[p].sources = Expected[p]
    /\ pc[p] = "claimCommit" /\ entry[p] # None => SourcesOf(del[p]) \subseteq entry[p].sources

WritesOK == \A p \in Procs : Writes(p)

SnapshotInv == TypeInv /\ LockOK /\ SnapshotsOK /\ WritesOK

\* A transaction past its first statement reads its snapshot.
LEMMA SnapshotIsBase ==
    ASSUME SnapshotInv, level = RepeatableRead, NEW p \in Procs, pc[p] \in LockedPcs
    PROVE  /\ Base(p) = snap[p] /\ snap[p].rows \in SUBSET Row
           /\ VisibleRows(p) \in SUBSET Row
<1>1. snap[p] # None /\ snap[p] \in [rows: SUBSET Row, done: SUBSET Trades]
  BY DEF SnapshotInv, SnapshotsOK
<1>2. Base(p) = snap[p]
  BY <1>1 DEF Base, SeesLatest, ReadCommitted, RepeatableRead
<1>3. snap[p].rows \in SUBSET Row /\ ins[p] \in SUBSET Row
  BY <1>1 DEF SnapshotInv, TypeInv, TypeOK
<1> QED
  BY <1>2, <1>3 DEF VisibleRows, RowsOf

\* The row that is inserted.
LEMMA InsertedKey ==
    ASSUME TypeInv, NEW p \in Procs, pc[p] = "insert"
    PROVE  LET row == Merge(Impl[p], seen[p], NewRow(trade[p], source[p], now[p], Window[p]))
           IN  row \in Row /\ row.trade = trade[p] /\ row.source = source[p]
<1> DEFINE new == NewRow(trade[p], source[p], now[p], Window[p])
<1>1. new \in Row /\ new.trade = trade[p] /\ new.source = source[p]
  BY OwnRowIsRow DEF IngestPcs, NewRow
<1>2. seen[p] \in SUBSET Row
  BY DEF TypeInv, TypeOK
<1> HIDE DEF new
<1>3. LET row == Merge(Impl[p], seen[p], new)
      IN  row \in Row /\ row.trade = trade[p] /\ row.source = source[p]
  BY <1>1, <1>2, MergeKeepsKey
<1> QED
  BY <1>3 DEF new

\* Reading through a snapshot keeps types and locks.
LEMMA SnapshotStepTyped ==
    ASSUME SnapshotInv, level = RepeatableRead, NEW p \in Procs, SnapshotStep(p)
    PROVE  TypeInv' /\ LockOK'
<1> USE DEF IngestPcs, SweepPcs, LockedPcs, Go
<1>1. TypeInv /\ LockOK
  BY DEF SnapshotInv
<1>2. CASE CheckSnapshot(p)
  BY <1>1, <1>2 DEF CheckSnapshot, TypeInv, TypeOK, CallOK, tables, writes, sweep, request, history,
                    LockOK
<1>3. CASE ReadVisible(p)
  <2>1. VisibleRows(p) \in SUBSET Row
    BY <1>3, SnapshotIsBase DEF ReadVisible, ReadRows
  <2>2. HasEverySource(VisibleRows(p), Expected[p])
           => ExpectedEvents(VisibleRows(p), Expected[p]) # {}
    BY ConfigIsOK DEF HasEverySource, ExpectedEvents, SourcesOf
  <2>3. UNCHANGED <<clock, tables, locks, request, writes, sweep, history>>
    BY <1>3 DEF ReadVisible
  <2>4. \/ /\ seen' = [seen EXCEPT ![p] = VisibleRows(p)]
           /\ \/ pc[p] = "existing" /\ pc' = [pc EXCEPT ![p] = "insert"]
              \/ /\ pc[p] = "events" /\ HasEverySource(VisibleRows(p), Expected[p])
                 /\ pc' = [pc EXCEPT ![p] = "delete"]
              \/ pc[p] = "events" /\ pc' = [pc EXCEPT ![p] = "commit"]
              \/ pc[p] = "claimRead" /\ VisibleRows(p) # {} /\ pc' = [pc EXCEPT ![p] = "claimDelete"]
              \/ pc[p] = "claimRead" /\ pc' = [pc EXCEPT ![p] = "claimCommit"]
        \/ /\ seen' = seen /\ pc[p] \in {"existing", "events", "claimRead"}
           /\ pc' = [pc EXCEPT ![p] = "rollback"]
    BY <1>3 DEF ReadVisible, ReadRows
  <2> HIDE DEF LockedPcs
  <2>5. TypeOK'
    <3>1. seen' \in [Procs -> SUBSET Row]
      BY <1>1, <2>1, <2>4 DEF TypeInv, TypeOK
    <3>2. pc' \in [Procs -> IngestPcs \union SweepPcs \union {"idle", "rollback"}]
      BY <1>1, <2>4 DEF TypeInv, TypeOK
    <3> QED
      BY <1>1, <2>3, <3>1, <3>2 DEF TypeInv, TypeOK, tables, writes, sweep, request, history
  <2>6. CallOK'
    <3>1. CASE seen' = seen /\ pc' = [pc EXCEPT ![p] = "rollback"]
      BY <1>1, <2>3, <3>1 DEF TypeInv, TypeOK, CallOK, request, LockedPcs
    <3>2. CASE seen' = [seen EXCEPT ![p] = VisibleRows(p)] /\ pc'[p] # "rollback"
      BY <1>1, <2>2, <2>3, <2>4, <3>2 DEF TypeInv, TypeOK, CallOK, request, LockedPcs
    <3> QED
      BY <1>1, <2>4, <3>1, <3>2 DEF TypeInv, TypeOK
  <2>7. LockOK'
    BY <1>1, <2>3, <2>4 DEF TypeInv, TypeOK, LockOK, request, LockedPcs
  <2> QED
    BY <2>5, <2>6, <2>7 DEF TypeInv
<1>4. CASE InsertVisible(p)
  <2> DEFINE row == Merge(Impl[p], seen[p], NewRow(trade[p], source[p], now[p], Window[p]))
  <2>1. pc[p] = "insert" /\ row \in Row
    BY <1>1, <1>4, InsertedKey DEF InsertVisible
  <2> HIDE DEF row
  <2>2. /\ \/ ins' = [ins EXCEPT ![p] = {row}] /\ pc' = [pc EXCEPT ![p] = "events"]
           \/ ins' = ins /\ pc' = [pc EXCEPT ![p] = "commit"]
           \/ ins' = ins /\ pc' = [pc EXCEPT ![p] = "rollback"]
        /\ UNCHANGED <<clock, tables, locks, request, seen, del, entry, sweep, history>>
    BY <1>4 DEF InsertVisible, row
  <2>3. ins' \in [Procs -> SUBSET Row]
    <3>1. {row} \in SUBSET Row /\ ins \in [Procs -> SUBSET Row]
      BY <1>1, <2>1 DEF TypeInv, TypeOK
    <3> QED
      BY <2>2, <3>1
  <2>4. TypeOK'
    BY <1>1, <2>2, <2>3 DEF TypeInv, TypeOK, tables, sweep, request, history
  <2>5. CallOK' /\ LockOK'
    BY <1>1, <2>1, <2>2 DEF TypeInv, TypeOK, CallOK, LockOK, request
  <2> QED
    BY <2>4, <2>5 DEF TypeInv
<1>5. CASE DeleteVisible(p)
  <2>1. snap[p].rows \in SUBSET Row /\ Base(p) = snap[p]
    BY <1>5, SnapshotIsBase DEF DeleteVisible
  <2> DEFINE gone == RowsOf(snap[p].rows, trade[p])
  <2>2. /\ \/ /\ del' = [del EXCEPT ![p] = gone]
              /\ ins' = [ins EXCEPT ![p] = {}]
              /\ \/ pc[p] = "delete" /\ pc' = [pc EXCEPT ![p] = "record"]
                 \/ pc[p] = "claimDelete" /\ pc' = [pc EXCEPT ![p] = "claimRecord"]
           \/ /\ pc[p] \in {"delete", "claimDelete"}
              /\ pc' = [pc EXCEPT ![p] = "rollback"] /\ UNCHANGED <<ins, del>>
        /\ UNCHANGED <<clock, tables, locks, request, seen, entry, sweep, history>>
    BY <1>5, <2>1 DEF DeleteVisible
  <2>3. gone \in SUBSET Row
    BY <2>1 DEF RowsOf
  <2> HIDE DEF gone
  <2>4. TypeOK'
    <3>1. ins' \in [Procs -> SUBSET Row] /\ del' \in [Procs -> SUBSET Row]
      BY <1>1, <2>2, <2>3 DEF TypeInv, TypeOK
    <3>2. pc' \in [Procs -> IngestPcs \union SweepPcs \union {"idle", "rollback"}]
      BY <1>1, <2>2 DEF TypeInv, TypeOK
    <3> QED
      BY <1>1, <2>2, <3>1, <3>2 DEF TypeInv, TypeOK, tables, sweep, request, history
  <2>5. CallOK' /\ LockOK'
    BY <1>1, <2>2 DEF TypeInv, TypeOK, CallOK, LockOK, request
  <2> QED
    BY <2>4, <2>5 DEF TypeInv
<1> QED
  BY <1>2, <1>3, <1>4, <1>5 DEF SnapshotStep

\* The end of a transaction: the rows it deleted are lost to other snapshots.
LEMMA EndKeepsSnapshots ==
    ASSUME SnapshotInv, NEW p \in Procs, NEW D, EndTransaction(p, D),
           pending \ D \subseteq pending', pc'[p] \notin LockedPcs,
           \A q \in Procs : q # p => pc'[q] = pc[q]
    PROVE  SnapshotsOK'
BY DEF SnapshotInv, SnapshotsOK, EndTransaction

\* Every step keeps the snapshots.
LEMMA NextSnapshotsOK ==
    ASSUME SnapshotInv, level = RepeatableRead, [IsoNext]_isoVars
    PROVE  SnapshotsOK'
<1> USE DEF Go
<1>0. TypeInv /\ SnapshotsOK /\ pc \in [Procs -> IngestPcs \union SweepPcs \union {"idle", "rollback"}]
  BY DEF SnapshotInv, TypeInv, TypeOK
<1>1. ASSUME UNCHANGED <<isolation, pending>>,
             \A q \in Procs : pc'[q] \in LockedPcs => pc[q] \in LockedPcs \/ snap[q] # None
      PROVE  SnapshotsOK'
  BY <1>0, <1>1 DEF isolation, SnapshotsOK
<1>2. CASE UNCHANGED isoVars \/ (Tick /\ UNCHANGED isolation)
  BY <1>1, <1>2 DEF isoVars, vars, tables, Tick
<1>3. ASSUME NEW p \in Procs, TakeSnapshot(p) PROVE SnapshotsOK'
  <2>1. /\ snap' = [snap EXCEPT ![p] = Committed] /\ UNCHANGED <<pc, pending, lost>>
        /\ pc[p] \notin LockedPcs
    BY <1>3 DEF TakeSnapshot, vars, tables, LockedPcs
  <2>2. Committed \in [rows: SUBSET Row, done: SUBSET Trades] /\ Committed.rows = pending
    BY <1>0 DEF Committed, TypeInv, TypeOK
  <2> HIDE DEF Committed
  <2> QED
    BY <1>0, <2>1, <2>2 DEF SnapshotsOK
<1>4. ASSUME NEW p \in Procs, Lock(p) PROVE SnapshotsOK'
  <2>1. snap[p] # None
    BY <1>4 DEF Lock, SeesLatest, ReadCommitted, RepeatableRead
  <2>2. CASE LockTrade(p) /\ UNCHANGED isolation
    BY <1>0, <1>1, <2>1, <2>2 DEF LockTrade, tables
  <2>3. CASE ClaimTrade(p) /\ UNCHANGED isolation
    <3>1. UNCHANGED pending /\ \A q \in Procs : q # p => pc'[q] = pc[q]
      BY <1>0, <2>3 DEF ClaimTrade, tables
    <3> QED
      BY <1>1, <2>1, <2>3, <3>1
  <2>4. CASE ClaimTrade(p) /\ pc'[p] = "claim" /\ EndTransaction(p, {})
    <3>1. UNCHANGED pending /\ \A q \in Procs : q # p => pc'[q] = pc[q]
      BY <1>0, <2>4 DEF ClaimTrade, tables
    <3> QED
      BY <2>4, <3>1, EndKeepsSnapshots DEF LockedPcs
  <2> QED
    BY <1>4, <2>2, <2>3, <2>4 DEF Lock
<1>5. ASSUME NEW p \in Procs, SnapshotStep(p) PROVE SnapshotsOK'
  <2>1. UNCHANGED <<isolation, pending>> /\ pc[p] \in LockedPcs
    BY <1>5 DEF SnapshotStep, CheckSnapshot, ReadVisible, ReadRows, InsertVisible, DeleteVisible, tables,
                LockedPcs
  <2>2. \A q \in Procs : q # p => pc'[q] = pc[q]
    BY <1>0, <1>5 DEF SnapshotStep, CheckSnapshot, ReadVisible, ReadRows, InsertVisible, DeleteVisible
  <2> QED
    BY <1>1, <2>1, <2>2
<1>6. ASSUME NEW p \in Procs, Commit(p) PROVE SnapshotsOK'
  <2>1. pending \ del[p] \subseteq pending' /\ EndTransaction(p, del[p])
    BY <1>6 DEF Commit, CommitIngest, CommitClaim, LoseCommit, ApplyWrites
  <2>2. pc'[p] \notin LockedPcs /\ \A q \in Procs : q # p => pc'[q] = pc[q]
    BY <1>0, <1>6 DEF Commit, CommitIngest, CommitClaim, LoseCommit, ForgetCall, LockedPcs
  <2> QED
    BY <2>1, <2>2, EndKeepsSnapshots
<1>7. ASSUME NEW p \in Procs, Abort(p) PROVE SnapshotsOK'
  <2>1. UNCHANGED pending /\ EndTransaction(p, {})
    BY <1>7 DEF Abort, Rollback, tables
  <2>2. pc'[p] \notin LockedPcs /\ \A q \in Procs : q # p => pc'[q] = pc[q]
    BY <1>0, <1>7 DEF Abort, Rollback, ForgetCall, LockedPcs
  <2> QED
    BY <2>1, <2>2, EndKeepsSnapshots
<1>8. ASSUME NEW p \in Procs, OwnStep(p) PROVE SnapshotsOK'
  <2>1. UNCHANGED <<isolation, pending>>
    BY <1>8 DEF OwnStep, StartIngest, RecordReconciled, StartSweep, ListExpired, RecordBreak,
                PanicInBreak, ReturnSweep, Fail, tables
  <2>2. /\ \A q \in Procs : q # p => pc'[q] = pc[q]
        /\ pc'[p] \in LockedPcs => pc[p] \in LockedPcs
    BY <1>0, <1>8 DEF OwnStep, StartIngest, RecordReconciled, StartSweep, ListExpired, RecordBreak,
                PanicInBreak, ReturnSweep, Fail, ForgetCall, LockedPcs
  <2> QED
    BY <1>1, <2>1, <2>2
<1> QED
  BY <1>2, <1>3, <1>4, <1>5, <1>6, <1>7, <1>8 DEF IsoNext, SnapshotStep

\* What Writes(q) says depends on these variables of q alone, and on the
\* committed rows of its trade.
SameWrites(q) == Kept(q) /\ source'[q] = source[q] /\ snap'[q] = snap[q]

\* A step of p that leaves the rows alone.
LEMMA OthersWrites ==
    ASSUME WritesOK, NEW p \in Procs, UNCHANGED pending,
           \A q \in Procs : q # p => SameWrites(q),
           Writes(p)'
    PROVE  WritesOK'
BY DEF WritesOK, Writes, SameWrites, Kept, Clean, RowsOf

\* A commit of p: it deletes rows of its own trade.
LEMMA CommitWrites ==
    ASSUME SnapshotInv, NEW p \in Procs,
           pc[p] \in {"commit", "claimCommit"}, ApplyWrites(p),
           \A q \in Procs : q # p => SameWrites(q),
           Writes(p)'
    PROVE  WritesOK'
<1> SUFFICES ASSUME NEW q \in Procs, q # p PROVE Writes(q)'
  BY DEF WritesOK
<1>1. Writes(q) /\ SameWrites(q)
  BY DEF SnapshotInv, WritesOK
<1>2. pc[q] # "rollback" => del[q] \subseteq RowsOf(pending', trade[q])
  <2>1. CASE pc[q] \in LockedPcs
    <3>1. trade[q] # trade[p]
      BY <2>1 DEF SnapshotInv, LockOK, LockedPcs
    <3>2. del[p] \subseteq RowsOf(pending, trade[p]) /\ del[q] \subseteq RowsOf(pending, trade[q])
      BY <1>1, <2>1 DEF SnapshotInv, WritesOK, Writes, LockedPcs
    <3> QED
      BY <3>1, <3>2 DEF ApplyWrites, RowsOf
  <2>2. CASE pc[q] \notin LockedPcs
    BY <1>1, <2>2 DEF Writes, Clean, LockedPcs
  <2> QED
    BY <2>1, <2>2
<1>3. pc[q] \in ActingOnRows => seen[q] \ ins[q] \subseteq RowsOf(pending', trade[q])
  <2> SUFFICES ASSUME pc[q] \in ActingOnRows
               PROVE  seen[q] \ ins[q] \subseteq RowsOf(pending', trade[q])
    OBVIOUS
  <2>1. trade[q] # trade[p]
    BY DEF SnapshotInv, LockOK, LockedPcs, ActingOnRows
  <2>2. /\ del[p] \subseteq RowsOf(pending, trade[p])
        /\ seen[q] \ ins[q] \subseteq RowsOf(pending, trade[q])
    BY <1>1 DEF SnapshotInv, WritesOK, Writes
  <2> QED
    BY <2>1, <2>2 DEF ApplyWrites, RowsOf
<1> QED
  BY <1>1, <1>2, <1>3 DEF Writes, SameWrites, Kept, Clean

\* Nothing is left of a call that is over.
LEMMA ForgottenWrites ==
    ASSUME TypeInv, NEW p \in Procs, ForgetCall(p)
    PROVE  Writes(p)'
BY DEF ForgetCall, ForgetTransaction, Go, Writes, Clean, IngestPcs, SweepPcs, TypeInv, TypeOK

\* The other calls are left alone.
LEMMA OthersAlone ==
    ASSUME SnapshotInv, NEW p \in Procs,
           \/ TakeSnapshot(p) \/ Lock(p) \/ SnapshotStep(p) \/ Commit(p) \/ Abort(p) \/ OwnStep(p),
           NEW q \in Procs, q # p
    PROVE  SameWrites(q)
<1> USE DEF Go, SameWrites, Kept, writes, request
<1>0. /\ TypeInv /\ TypeOK
      /\ snap \in [Procs -> {None} \union [rows: SUBSET Row, done: SUBSET Trades]]
  BY DEF SnapshotInv, SnapshotsOK, TypeInv
<1>1. CASE TakeSnapshot(p)
  BY <1>0, <1>1 DEF TakeSnapshot, vars
<1>2. ASSUME NEW D, EndTransaction(p, D) PROVE snap'[q] = snap[q]
  BY <1>0, <1>2 DEF EndTransaction
<1>3. CASE Lock(p)
  <2>1. snap'[q] = snap[q]
    BY <1>2, <1>3 DEF Lock, isolation
  <2>2. Kept(q) /\ source'[q] = source[q]
    BY <1>0, <1>3 DEF Lock, LockTrade, ClaimTrade, TypeOK
  <2> QED
    BY <2>1, <2>2
<1>4. CASE SnapshotStep(p)
  BY <1>0, <1>4 DEF SnapshotStep, CheckSnapshot, ReadVisible, ReadRows, InsertVisible, DeleteVisible, TypeOK,
                    isolation
<1>5. CASE Commit(p) \/ Abort(p)
  <2>1. snap'[q] = snap[q]
    BY <1>2, <1>5 DEF Commit, Abort
  <2>2. Kept(q) /\ source'[q] = source[q]
    BY <1>0, <1>5 DEF Commit, Abort, CommitIngest, CommitClaim, LoseCommit, Rollback, ForgetCall,
                      ForgetTransaction, TypeOK
  <2> QED
    BY <2>1, <2>2
<1>6. CASE OwnStep(p)
  BY <1>0, <1>6 DEF OwnStep, StartIngest, RecordReconciled, StartSweep, ListExpired, RecordBreak,
                    PanicInBreak, ReturnSweep, Fail, ForgetCall, ForgetTransaction, TypeOK, isolation
<1> QED
  BY <1>1, <1>3, <1>4, <1>5, <1>6

\* The steps that read nothing through a snapshot and end no transaction.
LEMMA OwnStepWrites ==
    ASSUME SnapshotInv, NEW p \in Procs, TakeSnapshot(p) \/ Lock(p) \/ OwnStep(p)
    PROVE  Writes(p)' /\ UNCHANGED pending
<1> USE DEF Go, IngestPcs, SweepPcs, LockedPcs, ActingOnRows, writes, request, sweep, tables
<1>0. Writes(p) /\ TypeInv /\ TypeOK /\ (pc[p] \in LockedPcs => trade[p] \in Trades)
  BY DEF SnapshotInv, WritesOK, TypeInv, CallOK
<1>1. CASE TakeSnapshot(p)
  BY <1>0, <1>1 DEF TakeSnapshot, vars, Writes, Clean
<1>2. CASE Lock(p)
  <2>1. UNCHANGED <<pending, source, ins, del, entry>>
    BY <1>2 DEF Lock, LockTrade, ClaimTrade
  <2>2. \/ pc[p] = "lock" /\ pc' = [pc EXCEPT ![p] = "check"]
        \/ pc[p] = "claim" /\ (pc' = [pc EXCEPT ![p] = "claimRead"] \/ pc' = pc)
    BY <1>2 DEF Lock, LockTrade, ClaimTrade
  <2> QED
    BY <1>0, <2>1, <2>2 DEF Writes, Clean, TypeOK
<1>3. CASE RecordReconciled(p) /\ UNCHANGED isolation
  <2> DEFINE events == ExpectedEvents(seen[p], Expected[p])
             e      == BuildReconciled(Impl[p], trade[p], events, now[p])
  <2>1. /\ pc[p] = "record" /\ pc' = [pc EXCEPT ![p] = "commit"]
        /\ entry' = [entry EXCEPT ![p] = e]
        /\ UNCHANGED <<pending, trade, source, now, seen, ins, del, claimed>>
    BY <1>3 DEF RecordReconciled
  <2>2. e.trade = trade[p] /\ e.sources = Expected[p]
    <3>1. SourcesOf(events) = Expected[p]
      BY <1>0, <2>1, CompleteSources DEF Writes
    <3> QED
      BY <3>1 DEF BuildReconciled
  <2>3. e # None
    <3>1. events \in SUBSET Row /\ events # {}
      BY <1>0, <2>1 DEF ExpectedEvents, TypeInv, TypeOK, CallOK
    <3>2. e \in AuditEntry
      BY <1>0, <2>1, <3>1, ReconciledIsEntry DEF TypeOK
    <3> QED
      BY <3>2, StoreAssumption
  <2> HIDE DEF e, events
  <2> QED
    BY <1>0, <2>1, <2>2, <2>3 DEF Writes, TypeOK
<1>4. CASE RecordBreak(p) /\ UNCHANGED isolation
  <2> DEFINE e == BuildBreak(trade[p], seen[p], Expected[p], now[p])
  <2>1. /\ pc[p] = "claimRecord" /\ pc' = [pc EXCEPT ![p] = "claimCommit"]
        /\ entry' = [entry EXCEPT ![p] = e]
        /\ UNCHANGED <<pending, trade, source, now, seen, ins, del, claimed>>
    BY <1>4 DEF RecordBreak
  <2>2. e.trade = trade[p] /\ e.sources = SourcesOf(seen[p])
    BY DEF BuildBreak
  <2>3. e # None
    <3>1. e \in AuditEntry
      BY <1>0, <2>1, BreakIsEntry, ConfigIsOK DEF TypeInv, TypeOK, CallOK
    <3> QED
      BY <3>1, StoreAssumption
  <2> HIDE DEF e
  <2> QED
    BY <1>0, <2>1, <2>2, <2>3 DEF Writes, TypeOK
<1>5. CASE ReturnSweep(p)
  BY <1>0, <1>5, ForgottenWrites DEF ReturnSweep
<1>6. CASE /\ UNCHANGED isolation
           /\ p \in Ingesters /\ StartIngest(p)
  BY <1>0, <1>6 DEF StartIngest, Writes, Clean, TypeOK
<1>7. CASE /\ UNCHANGED isolation
           /\ \/ p \in Sweepers /\ (StartSweep(p) \/ ListExpired(p) \/ PanicInBreak(p))
              \/ Fail(p)
  BY <1>0, <1>7 DEF StartSweep, ListExpired, PanicInBreak, Fail, Writes, Clean, TypeOK, isolation
<1> QED
  BY <1>1, <1>2, <1>3, <1>4, <1>5, <1>6, <1>7 DEF OwnStep

\* The steps that read through a snapshot.
LEMMA SnapshotStepWrites ==
    ASSUME SnapshotInv, level = RepeatableRead, NEW p \in Procs, SnapshotStep(p)
    PROVE  Writes(p)' /\ UNCHANGED pending
<1> USE DEF Go, IngestPcs, SweepPcs, LockedPcs, ActingOnRows, writes, request, sweep, tables
<1>0. Writes(p) /\ TypeInv /\ TypeOK
  BY DEF SnapshotInv, WritesOK, TypeInv
<1>1. pc[p] \in LockedPcs => Base(p) = snap[p]
  BY SnapshotIsBase
<1>2. CASE CheckSnapshot(p)
  BY <1>0, <1>2 DEF CheckSnapshot, Writes, Clean, TypeOK, isolation
<1>3. CASE ReadVisible(p)
  <2>1. UNCHANGED <<pending, trade, source, ins, del, entry, snap>>
    BY <1>3 DEF ReadVisible, isolation
  <2>2. CASE RowsOf(lost[p], trade[p]) = {} /\ ReadRows(p)
    <3>1. /\ seen' = [seen EXCEPT ![p] = VisibleRows(p)]
          /\ \/ pc[p] = "existing" /\ pc' = [pc EXCEPT ![p] = "insert"]
             \/ /\ pc[p] = "events" /\ HasEverySource(VisibleRows(p), Expected[p])
                /\ pc' = [pc EXCEPT ![p] = "delete"]
             \/ pc[p] = "events" /\ pc' = [pc EXCEPT ![p] = "commit"]
             \/ /\ pc[p] = "claimRead"
                /\ pc' = [pc EXCEPT ![p] = "claimDelete"] \/ pc' = [pc EXCEPT ![p] = "claimCommit"]
      BY <2>2 DEF ReadRows
    <3>2. pc[p] = "claimRead" => VisibleRows(p) = RowsOf(snap[p].rows, trade[p])
      BY <1>0, <1>1 DEF VisibleRows, Writes, Clean
    <3>3. VisibleRows(p) \ ins[p] \subseteq RowsOf(pending, trade[p])
      <4>1. Base(p) = snap[p] /\ snap[p].rows \ lost[p] \subseteq pending
        BY <1>1, <3>1 DEF SnapshotInv, SnapshotsOK
      <4> QED
        BY <2>2, <4>1 DEF VisibleRows, RowsOf
    <3> QED
      BY <1>0, <2>1, <3>1, <3>2, <3>3 DEF Writes, Clean, TypeOK, ActingOnRows
  <2>3. CASE pc[p] \in {"existing", "events", "claimRead"} /\ Go(p, "rollback") /\ seen' = seen
    BY <1>0, <2>1, <2>3 DEF Writes, Clean, TypeOK, ActingOnRows
  <2> QED
    BY <1>3, <2>2, <2>3 DEF ReadVisible
<1>4. CASE InsertVisible(p)
  <2> DEFINE row == Merge(Impl[p], seen[p], NewRow(trade[p], source[p], now[p], Window[p]))
  <2>1. pc[p] = "insert" /\ row.trade = trade[p] /\ row.source = source[p]
    BY <1>0, <1>4, InsertedKey DEF InsertVisible
  <2> HIDE DEF row
  <2>2. /\ \/ ins' = [ins EXCEPT ![p] = {row}] /\ pc' = [pc EXCEPT ![p] = "events"]
           \/ ins' = ins /\ pc' = [pc EXCEPT ![p] = "commit"]
           \/ ins' = ins /\ pc' = [pc EXCEPT ![p] = "rollback"]
        /\ UNCHANGED <<pending, trade, source, seen, del, entry>>
    BY <1>4 DEF InsertVisible, row
  <2> QED
    BY <1>0, <2>1, <2>2 DEF Writes, Clean, TypeOK
<1>5. CASE DeleteVisible(p)
  <2> DEFINE gone == RowsOf(snap[p].rows, trade[p])
  <2>1. /\ \/ /\ del' = [del EXCEPT ![p] = gone] /\ RowsOf(lost[p], trade[p]) = {}
              /\ ins' = [ins EXCEPT ![p] = {}]
              /\ \/ pc[p] = "delete" /\ pc' = [pc EXCEPT ![p] = "record"]
                 \/ pc[p] = "claimDelete" /\ pc' = [pc EXCEPT ![p] = "claimRecord"]
           \/ pc' = [pc EXCEPT ![p] = "rollback"] /\ UNCHANGED <<ins, del>>
        /\ pc[p] \in {"delete", "claimDelete"}
        /\ UNCHANGED <<pending, trade, source, seen, entry>>
    BY <1>1, <1>5 DEF DeleteVisible
  <2>2. RowsOf(lost[p], trade[p]) = {} => gone \subseteq RowsOf(pending, trade[p])
    <3>1. snap[p].rows \ lost[p] \subseteq pending
      BY <2>1 DEF SnapshotInv, SnapshotsOK
    <3> QED
      BY <3>1 DEF RowsOf
  <2>3. pc[p] = "claimDelete" =>
            seen[p] = gone /\ seen[p] \subseteq RowsOf(pending, trade[p])
    BY <1>0 DEF Writes, Clean, ActingOnRows
  <2>4. entry[p] = None
    BY <1>0, <2>1 DEF Writes, Clean
  <2> HIDE DEF gone
  <2> QED
    BY <1>0, <2>1, <2>2, <2>3, <2>4 DEF Writes, Clean, TypeOK, ActingOnRows
<1> QED
  BY <1>2, <1>3, <1>4, <1>5 DEF SnapshotStep

\* Every step keeps the invariant.
LEMMA NextSnapshotInv ==
    ASSUME SnapshotInv, level = RepeatableRead, [IsoNext]_isoVars
    PROVE  SnapshotInv'
<1>0. TypeInv /\ LockOK /\ WritesOK
  BY DEF SnapshotInv
<1>1. TypeInv' /\ LockOK'
  <2>1. RolesOK
    BY <1>0 DEF RolesOK, WritesOK, Writes
  <2> QED
    BY <1>0, <2>1, IsoSteps, NextTypeInv, NextLockOK, SnapshotStepTyped
<1>2. SnapshotsOK'
  BY NextSnapshotsOK
<1>3. WritesOK'
  <2>1. CASE UNCHANGED isoVars \/ (Tick /\ UNCHANGED isolation)
    BY <1>0, <2>1 DEF isoVars, vars, Tick, WritesOK, Writes, Clean, isolation, tables, request, writes
  <2>2. ASSUME NEW p \in Procs, TakeSnapshot(p) \/ Lock(p) \/ OwnStep(p) PROVE WritesOK'
    BY <1>0, <2>2, OwnStepWrites, OthersAlone, OthersWrites
  <2>3. ASSUME NEW p \in Procs, SnapshotStep(p) PROVE WritesOK'
    BY <1>0, <2>3, SnapshotStepWrites, OthersAlone, OthersWrites
  <2>4. ASSUME NEW p \in Procs, Commit(p) PROVE WritesOK'
    <3>1. /\ pc[p] \in {"commit", "claimCommit"} /\ ApplyWrites(p)
          /\ ForgetCall(p) \/ CommitClaim(p)
      BY <2>4 DEF Commit, CommitIngest, CommitClaim, LoseCommit
    <3>2. CommitClaim(p) => Writes(p)'
      BY <1>0 DEF CommitClaim, ForgetTransaction, Go, Writes, WritesOK, Clean, IngestPcs, SweepPcs,
                  TypeInv, TypeOK
    <3> QED
      BY <1>0, <2>4, <3>1, <3>2, ForgottenWrites, OthersAlone, CommitWrites
  <2>5. ASSUME NEW p \in Procs, Abort(p) PROVE WritesOK'
    <3>1. UNCHANGED pending /\ ForgetCall(p)
      BY <2>5 DEF Abort, Rollback, tables
    <3> QED
      BY <1>0, <2>5, <3>1, ForgottenWrites, OthersAlone, OthersWrites
  <2> QED
    BY <2>1, <2>2, <2>3, <2>4, <2>5 DEF IsoNext, SnapshotStep
<1> QED
  BY <1>1, <1>2, <1>3 DEF SnapshotInv

\* The tables change only when a transaction commits.
LEMMA TablesChangeByCommit ==
    ASSUME [IsoNext]_isoVars
    PROVE  \/ UNCHANGED <<tables, acked>>
           \/ \E p \in Procs : /\ pc[p] \in {"commit", "claimCommit"} /\ ApplyWrites(p)
                               /\ acked' = acked \/ CommitIngest(p)
<1>1. CASE UNCHANGED isoVars \/ Tick
  BY <1>1 DEF isoVars, vars, Tick, history
<1>2. ASSUME NEW p \in Procs, TakeSnapshot(p) \/ Lock(p) \/ SnapshotStep(p) \/ Abort(p) \/ OwnStep(p)
      PROVE  UNCHANGED <<tables, acked>>
  BY <1>2 DEF TakeSnapshot, vars, history, Lock, LockTrade, ClaimTrade, SnapshotStep, CheckSnapshot,
              ReadVisible, ReadRows, InsertVisible, DeleteVisible, Abort, Rollback, OwnStep, StartIngest,
              RecordReconciled, StartSweep, ListExpired, RecordBreak, PanicInBreak, ReturnSweep, Fail
<1>3. ASSUME NEW p \in Procs, Commit(p)
      PROVE  /\ pc[p] \in {"commit", "claimCommit"} /\ ApplyWrites(p)
             /\ acked' = acked \/ CommitIngest(p)
  BY <1>3 DEF Commit, CommitIngest, CommitClaim, LoseCommit, history
<1> QED
  BY <1>1, <1>2, <1>3 DEF IsoNext, SnapshotStep

\* A row that a commit deletes has its source in the entry that it writes.
LEMMA DeletedIsNamed ==
    ASSUME IngestsExpectAlike, SnapshotInv, RowsAreExpected, NEW p \in Procs,
           pc[p] \in {"commit", "claimCommit"}, NEW r \in del[p]
    PROVE  /\ entry[p] # None
           /\ entry[p].trade = r.trade /\ r.source \in entry[p].sources
<1>1. Writes(p)
  BY DEF SnapshotInv, WritesOK
<1>2. entry[p] # None /\ r \in pending /\ r.trade = trade[p] /\ entry[p].trade = trade[p]
  BY <1>1 DEF Writes, RowsOf
<1>3. CASE pc[p] = "commit"
  <2>1. p \in Ingesters /\ entry[p].sources = Expected[p]
    BY <1>1, <1>2, <1>3 DEF Writes, IngestPcs
  <2>2. PICK q \in Ingesters : r.source \in Expected[q]
    BY <1>2 DEF RowsAreExpected
  <2> QED
    BY <1>2, <2>1, <2>2 DEF IngestsExpectAlike
<1>4. CASE pc[p] = "claimCommit"
  BY <1>1, <1>2, <1>4 DEF Writes, SourcesOf
<1> QED
  BY <1>2, <1>3, <1>4

\* The entry a commit writes is in the log after it.
LEMMA EntryIsWritten ==
    ASSUME SnapshotInv, NEW p \in Procs, ApplyWrites(p)
    PROVE  /\ \A i \in DOMAIN audit : i \in DOMAIN audit' /\ audit'[i] = audit[i]
           /\ entry[p] # None => \E i \in DOMAIN audit' : audit'[i] = entry[p]
<1>1. CASE entry[p] = None
  BY <1>1 DEF ApplyWrites
<1>2. CASE entry[p] # None
  <2> DEFINE e == entry[p]
  <2>1. audit \in Seq(AuditEntry) /\ e \in AuditEntry /\ audit' = Append(audit, e)
    BY <1>2 DEF SnapshotInv, TypeInv, TypeOK, ApplyWrites
  <2> HIDE DEF e
  <2>2. Len(audit) + 1 \in DOMAIN audit' /\ audit'[Len(audit) + 1] = e
    BY <2>1
  <2>3. \A i \in DOMAIN audit : i \in DOMAIN audit' /\ audit'[i] = audit[i]
    BY <2>1
  <2> QED
    BY <2>2, <2>3 DEF e
<1> QED
  BY <1>1, <1>2

\* What was found stays found when a transaction commits.
LEMMA FoundAfterCommit ==
    ASSUME IngestsExpectAlike, SnapshotInv, RowsAreExpected, NEW p \in Procs,
           pc[p] \in {"commit", "claimCommit"}, ApplyWrites(p), NEW f, Found(f)
    PROVE  FoundAfter(f)
<1>1. CASE \E i \in DOMAIN audit : audit[i].trade = f[1] /\ f[2] \in audit[i].sources
  BY <1>1, EntryIsWritten DEF FoundAfter
<1>2. CASE f[2] \in SourcesOf(RowsOf(pending, f[1]))
  <2>1. PICK r \in pending : r.trade = f[1] /\ r.source = f[2]
    BY <1>2 DEF SourcesOf, RowsOf
  <2>2. CASE r \in del[p]
    BY <2>1, <2>2, DeletedIsNamed, EntryIsWritten DEF FoundAfter
  <2>3. CASE r \notin del[p]
    BY <2>1, <2>3 DEF ApplyWrites, FoundAfter, SourcesOf, RowsOf
  <2> QED
    BY <2>2, <2>3
<1> QED
  BY <1>1, <1>2 DEF Found

\* What an ingest call is about to answer for is found after its commit.
LEMMA OwnEventFoundAfter ==
    ASSUME SnapshotInv, NEW p \in Procs, CommitIngest(p), ins[p] # {} \/ entry[p] # None
    PROVE  FoundAfter(<<trade[p], source[p]>>)
<1>1. Writes(p) /\ pc[p] = "commit" /\ ApplyWrites(p)
  BY DEF SnapshotInv, WritesOK, CommitIngest
<1>2. CASE ins[p] # {}
  <2>1. PICK r \in ins[p] : r.trade = trade[p] /\ r.source = source[p]
    BY <1>1, <1>2 DEF Writes
  <2> QED
    BY <1>1, <2>1 DEF ApplyWrites, FoundAfter, SourcesOf, RowsOf
<1>3. CASE entry[p] # None
  <2>1. entry[p].trade = trade[p] /\ source[p] \in entry[p].sources
    BY <1>1, <1>3 DEF Writes, IngestPcs
  <2> QED
    BY <1>1, <1>3, <2>1, EntryIsWritten DEF FoundAfter
<1> QED
  BY <1>2, <1>3

LEMMA NextSnapshotEvents ==
    ASSUME IngestsExpectAlike, SnapshotInv, RowsAreExpected, NoEventLost, [IsoNext]_isoVars
    PROVE  RowsAreExpected' /\ NoEventLost'
<1>1. CASE UNCHANGED <<tables, acked>>
  BY <1>1 DEF tables, RowsAreExpected, NoEventLost
<1>2. ASSUME NEW p \in Procs, pc[p] \in {"commit", "claimCommit"}, ApplyWrites(p),
             acked' = acked \/ CommitIngest(p)
      PROVE  RowsAreExpected' /\ NoEventLost'
  <2>1. RowsAreExpected'
    <3>1. \A r \in ins[p] : \E q \in Ingesters : r.source \in Expected[q]
      BY <1>2 DEF SnapshotInv, WritesOK, Writes, IngestPcs
    <3> QED
      BY <1>2, <3>1 DEF ApplyWrites, RowsAreExpected
  <2>2. ASSUME NEW e \in acked' PROVE FoundAfter(e)
    <3>1. CASE e \in acked
      BY <1>2, <3>1, FoundAfterCommit DEF NoEventLost, Found
    <3>2. CASE e \notin acked
      BY <1>2, <2>2, <3>2, OwnEventFoundAfter DEF CommitIngest
    <3> QED
      BY <3>1, <3>2
  <2> QED
    BY <2>1, <2>2 DEF NoEventLost, FoundAfter
<1> QED
  BY <1>1, <1>2, TablesChangeByCommit

-----------------------------------------------------------------------------
(***************************************************************************)
(* Both levels.                                                            *)
(***************************************************************************)
EventsInv ==
    /\ level \in {ReadCommitted, RepeatableRead}
    /\ NoEventLost
    /\ level = RepeatableRead => SnapshotInv /\ RowsAreExpected

LEMMA InitEventsInv == IsoInit => EventsInv
<1> SUFFICES ASSUME IsoInit PROVE EventsInv
  OBVIOUS
<1>1. Init /\ level \in Levels
  BY DEF IsoInit
<1>2. SnapshotsOK
  BY <1>1 DEF IsoInit, Init, SnapshotsOK, LockedPcs
<1>3. WritesOK
  BY <1>1 DEF Init, WritesOK, Writes, Clean, IngestPcs, SweepPcs
<1>4. NoEventLost /\ RowsAreExpected
  BY <1>1 DEF Init, NoEventLost, RowsAreExpected
<1> QED
  BY <1>1, <1>2, <1>3, <1>4, LevelsAssumption, InitTypeInv, InitLockOK DEF EventsInv, SnapshotInv

\* At read committed NoEventLost is inductive as it is in PostgresStore, at
\* repeatable read by what the snapshots show.
LEMMA NextEventsInv ==
    ASSUME IngestsExpectAlike
    PROVE  LatestInv /\ EventsInv /\ [IsoNext]_isoVars => EventsInv'
<1> SUFFICES ASSUME LatestInv, EventsInv, [IsoNext]_isoVars PROVE EventsInv'
  OBVIOUS
<1>1. level' = level
  BY LevelIsFixed
<1>2. CASE level = ReadCommitted
  <2>1. WorkInv /\ TablesInv /\ Untouched
    BY <1>2 DEF LatestInv
  <2>2. RolesOK
    BY <2>1 DEF RolesOK, WorkInv, WorkOK, Work
  <2>3. [Next]_vars
    BY <1>2, <2>1, <2>2, IsoSteps, LatestStep
  <2> QED
    BY <1>1, <1>2, <2>1, <2>3, NextNoEventLost DEF EventsInv, ReadCommitted, RepeatableRead
<1>3. CASE level = RepeatableRead
  BY <1>1, <1>3, NextSnapshotInv, NextSnapshotEvents DEF EventsInv
<1> QED
  BY <1>2, <1>3 DEF EventsInv

\* What a transaction acts on is still committed.
LEMMA RowsAreCommitted ==
    ASSUME LatestInv, EventsInv, NEW p \in Procs
    PROVE  /\ pc[p] # "rollback" => del[p] \subseteq pending
           /\ pc[p] \in ActingOnRows => seen[p] \ ins[p] \subseteq pending
<1>1. CASE level = ReadCommitted
  <2>1. Txn(p) /\ TypeInv
    BY <1>1 DEF LatestInv, WorkInv, Inv, TxnOK
  <2>2. View(p) \ ins[p] \subseteq pending
    BY DEF View, RowsOf
  <2>3. pc[p] \in ActingOnRows => seen[p] \ ins[p] \subseteq pending
    BY <2>1, <2>2 DEF Txn, ActingOnRows, RowsOf
  <2> QED
    BY <2>1, <2>3 DEF Txn, Clean, RowsOf
<1>2. CASE level = RepeatableRead
  BY <1>2 DEF EventsInv, SnapshotInv, WritesOK, Writes, RowsOf
<1> QED
  BY <1>1, <1>2 DEF EventsInv

\* Whatever level the server is set to, no event is lost and no row goes into
\* two outcomes, if all ingests expect the same sources: a transaction that
\* reads a row for update that is gone fails, and one that goes on acts on
\* committed rows.
THEOREM EventsAreKeptAtBothLevels ==
    ASSUME IngestsExpectAlike
    PROVE  IsoSpec => []NoEventLostOrDoubled
<1>1. LatestInv /\ EventsInv => NoEventLostOrDoubled
  BY RowsAreCommitted DEF NoEventLostOrDoubled, EventsInv
<1> QED
  BY <1>1, InitLatestInv, NextLatestInv, InitEventsInv, NextEventsInv, PTL DEF IsoSpec
=============================================================================
