---------------------------- MODULE IsolationLevels ----------------------------
(***************************************************************************)
(* PostgresStore on a server whose default_transaction_isolation is not    *)
(* read committed.  The code names no level when it begins a transaction,  *)
(* so the level is the server's, the database's or the role's.             *)
(*                                                                         *)
(* At REPEATABLE READ every statement of a transaction sees the snapshot   *)
(* its first statement took.  That statement is the one that waits for the *)
(* advisory lock, and its snapshot is taken before it waits.  A SELECT ... *)
(* FOR UPDATE or a DELETE of a row, or an INSERT over a key, that a        *)
(* transaction outside the snapshot has changed fails with a serialization *)
(* error.                                                                  *)
(***************************************************************************)
EXTENDS PostgresStore

CONSTANT Levels     \* the levels the server may be set to

ReadCommitted  == "read committed"
RepeatableRead == "repeatable read"

ASSUME LevelsAssumption == Levels \subseteq {ReadCommitted, RepeatableRead}

VARIABLES
    level,      \* the isolation level of every transaction
    snap,       \* the snapshot of each caller's transaction, None without one
    lost        \* rows of that snapshot deleted by commits since it was taken

isolation == <<level, snap, lost>>
isoVars   == <<vars, isolation>>

Committed == [rows |-> pending, done |-> {t \in Trades : Finalized(t)}]

\* FAULTY VARIANT of SeesLatest: a snapshot from before the lock at any level.
NeverSeesLatest == FALSE

\* Whether each statement sees what is committed when it runs.
SeesLatest == level = ReadCommitted

\* What a statement of p's transaction sees of other transactions.
Base(p) == IF SeesLatest \/ snap[p] = None THEN Committed ELSE snap[p]

VisibleRows(p) == RowsOf((Base(p).rows \ del[p]) \union ins[p], trade[p])

-----------------------------------------------------------------------------
IsoInit ==
    /\ Init
    /\ level \in Levels
    /\ snap = [p \in Procs |-> None]
    /\ lost = [p \in Procs |-> {}]

\* The statement of the advisory lock begins: it has a snapshot and no lock yet.
TakeSnapshot(p) ==
    /\ ~SeesLatest
    /\ pc[p] = "lock" \/ (pc[p] = "claim" /\ todo[p] # {})
    /\ snap[p] = None
    /\ snap' = [snap EXCEPT ![p] = Committed]
    /\ UNCHANGED <<vars, level, lost>>

(***************************************************************************)
(* p's transaction ends.  The rows it deleted, if it committed, are lost   *)
(* to the snapshots that still show them.                                  *)
(***************************************************************************)
EndTransaction(p, deleted) ==
    /\ snap' = [snap EXCEPT ![p] = None]
    /\ lost' = [q \in Procs |->
                   IF q = p \/ snap[q] = None THEN {}
                   ELSE lost[q] \union (snap[q].rows \intersect deleted)]
    /\ UNCHANGED level

CheckSnapshot(p) ==
    /\ pc[p] = "check"
    /\ Go(p, IF trade[p] \in Base(p).done THEN "commit" ELSE "existing")
    /\ UNCHANGED <<clock, tables, locks, request, seen, writes, sweep, history, isolation>>

ReadRows(p) ==
    /\ \/ pc[p] = "existing" /\ Go(p, "insert")
       \/ pc[p] = "events"
          /\ Go(p, IF HasEverySource(VisibleRows(p), Expected[p]) THEN "delete" ELSE "commit")
       \/ pc[p] = "claimRead"
          /\ Go(p, IF VisibleRows(p) = {} \/ EarliestDeadline(VisibleRows(p)) > now[p]
                   THEN "claimCommit" ELSE "claimDelete")
    /\ seen' = [seen EXCEPT ![p] = VisibleRows(p)]

\* FAULTY VARIANT of ReadVisible: the query without FOR UPDATE.
ReadUnlocked(p) ==
    /\ ReadRows(p)
    /\ UNCHANGED <<clock, tables, locks, request, writes, sweep, history, isolation>>

(***************************************************************************)
(* getEvents reads FOR UPDATE, and so fails on a row of the trade that its *)
(* snapshot shows and another transaction has deleted.                     *)
(***************************************************************************)
ReadVisible(p) ==
    /\ \/ RowsOf(lost[p], trade[p]) = {} /\ ReadRows(p)
       \/ /\ RowsOf(lost[p], trade[p]) # {}
          /\ pc[p] \in {"existing", "events", "claimRead"}
          /\ Go(p, "rollback")
          /\ UNCHANGED seen
    /\ UNCHANGED <<clock, tables, locks, request, writes, sweep, history, isolation>>

(***************************************************************************)
(* ON CONFLICT DO NOTHING skips a committed row it sees; one it does not   *)
(* see fails the statement.  A row its snapshot shows and another          *)
(* transaction has deleted is no conflict.                                 *)
(***************************************************************************)
InsertVisible(p) ==
    /\ pc[p] = "insert"
    /\ LET taken == {r \in RowsOf(pending, trade[p]) : r.source = source[p]} IN
          IF taken = {}
          THEN /\ ins' = [ins EXCEPT ![p] =
                             {Merge(Impl[p], seen[p],
                                    NewRow(trade[p], source[p], now[p], Window[p]))}]
               /\ Go(p, "events")
          ELSE /\ Go(p, IF taken \subseteq Base(p).rows \ lost[p]
                        THEN "commit" ELSE "rollback")
               /\ UNCHANGED ins
    /\ UNCHANGED <<clock, tables, locks, request, seen, del, entry, sweep, history, isolation>>

(***************************************************************************)
(* The DELETE has the server's check too.  The rows were read for update   *)
(* in this transaction, so it finds none of them gone.                     *)
(***************************************************************************)
DeleteVisible(p) ==
    /\ pc[p] \in {"delete", "claimDelete"}
    /\ IF RowsOf(lost[p], trade[p]) = {}
       THEN /\ del' = [del EXCEPT ![p] = RowsOf(Base(p).rows, trade[p])]
            /\ ins' = [ins EXCEPT ![p] = {}]
            /\ Go(p, IF pc[p] = "delete" THEN "record" ELSE "claimRecord")
       ELSE Go(p, "rollback") /\ UNCHANGED <<ins, del>>
    /\ UNCHANGED <<clock, tables, locks, request, seen, entry, sweep, history, isolation>>

\* The statement of the lock goes on: it waits for an ingest, and for a sweep
\* either locks the trade or ends the transaction.
Lock(p) ==
    /\ SeesLatest \/ snap[p] # None
    /\ \/ LockTrade(p) /\ UNCHANGED isolation
       \/ /\ ClaimTrade(p)
          /\ IF pc'[p] = "claim" THEN EndTransaction(p, {}) ELSE UNCHANGED isolation

Commit(p) ==
    /\ CommitIngest(p) \/ CommitClaim(p) \/ LoseCommit(p)
    /\ EndTransaction(p, del[p])

Abort(p) == Rollback(p) /\ EndTransaction(p, {})

\* Steps that look at nothing another transaction has written.
OwnStep(p) ==
    /\ \/ p \in Ingesters /\ (StartIngest(p) \/ RecordReconciled(p))
       \/ p \in Sweepers /\ (StartSweep(p) \/ ListExpired(p) \/ RecordBreak(p)
                                \/ PanicInBreak(p) \/ ReturnSweep(p))
       \/ Fail(p)
    /\ UNCHANGED isolation

IsoNext ==
    \/ Tick /\ UNCHANGED isolation
    \/ \E p \in Procs :
          \/ TakeSnapshot(p) \/ Lock(p) \/ CheckSnapshot(p) \/ ReadVisible(p)
          \/ InsertVisible(p) \/ DeleteVisible(p) \/ Commit(p) \/ Abort(p) \/ OwnStep(p)

IsoSpec == IsoInit /\ [][IsoNext]_isoVars
-----------------------------------------------------------------------------
(***************************************************************************)
(* PROPERTIES                                                              *)
(***************************************************************************)

\* At read committed the lock is enough (README.md:96): a trade has one outcome,
\* which is handed out once, keeps no row after it, and is not left complete.  At
\* repeatable read none of this holds: the snapshot of a call that waited is
\* older than the lock.
ReadCommittedSuffices ==
    level = ReadCommitted =>
        /\ FinalizedOnce /\ ReportedAtMostOnce
        /\ FinalizedHasNoPending /\ NoCompleteTradeIsPending

\* Rows read but not yet deleted, on which a transaction is about to act.
ActingOnRows == {"insert", "delete", "claimDelete", "claimRecord"}

\* At either level no event is lost, and no row goes into two outcomes or sets
\* the deadline of a later one: a transaction that acts on rows of other calls
\* finds them committed, and what it deletes stays so until it commits.  The
\* lock sees to it at read committed, FOR UPDATE (postgres.go:255) at
\* repeatable read.
NoEventLostOrDoubled ==
    /\ NoEventLost
    /\ \A p \in Procs :
          /\ pc[p] # "rollback" => del[p] \subseteq pending
          /\ pc[p] \in ActingOnRows => seen[p] \ ins[p] \subseteq pending
=============================================================================
