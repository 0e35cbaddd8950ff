---------------------------- MODULE PostgresStore ----------------------------
(***************************************************************************)
(* Concurrent calls of the event correlator over one PostgreSQL database:  *)
(* ingest_trade_event and sweep_expired_trades, in Go or Python, each call *)
(* on connections of its own.  One action is one SQL statement, one begin  *)
(* or end of a transaction, or one reply, so that the statements of        *)
(* different calls interleave in every order the database allows.          *)
(*                                                                         *)
(* Transactions run at READ COMMITTED: every statement sees the committed  *)
(* rows at the time it runs together with its own uncommitted writes.  The *)
(* advisory lock of a trade is taken in the first statement of a           *)
(* transaction and released when the transaction ends.  Row locks and the  *)
(* wait for another transaction's uncommitted key are not modelled: no two *)
(* transactions ever touch rows of the same trade (LockProtectsTrade).     *)
(***************************************************************************)
EXTENDS EventRows, Sequences

CONSTANTS
    Ingesters,  \* callers of ingest_trade_event, one call at a time each
    Sweepers,   \* callers of sweep_expired_trades, one call at a time each
    Impl,       \* the implementation each caller's deployment runs
    Expected,   \* expected_sources of each caller's configuration
    Window,     \* correlation_window_seconds of each caller's configuration
    Keys,       \* the 64-bit advisory lock keys
    LockKey,    \* hashtextextended(trade_id, 0): need not be injective
    None,       \* no value
    MaxCalls,   \* bound: ingest calls in a behaviour
    MaxFails,   \* bound: failed statements, cancelled contexts and crashes
    CommitsGetLost  \* whether an applied COMMIT may be reported as failed

Procs == Ingesters \union Sweepers

ASSUME StoreAssumption ==
    /\ Ingesters \intersect Sweepers = {}
    /\ Impl \in [Procs -> {"go", "python"}]
    /\ Expected \in [Procs -> (SUBSET Sources) \ {{}}]
    /\ \A p \in Procs : IsFiniteSet(Expected[p])
    /\ Window \in [Procs -> Nat \ {0}]
    /\ LockKey \in [Trades -> Keys]
    /\ None \notin Procs /\ None \notin Trades /\ None \notin Sources /\ None \notin AuditEntry
    /\ MaxCalls \in Nat /\ MaxFails \in Nat
    /\ CommitsGetLost \in BOOLEAN

VARIABLES
    clock,      \* the time of day all callers read
    pending,    \* committed rows of pending_events
    audit,      \* committed rows of audit_log, in commit order
    locks,      \* advisory locks: the caller whose transaction holds each key
    pc,         \* the next statement of each caller
    trade,      \* the trade a caller's transaction is about
    source,     \* the source of the event being ingested
    now,        \* the time stamp a call took before it touched the database
    seen,       \* rows the last getEvents of the transaction returned
    ins, del,   \* rows inserted and deleted by the open transaction
    entry,      \* the audit entry inserted by the open transaction
    todo,       \* trades of a sweep's list it has not tried yet
    claimed,    \* trades whose break a sweep has committed
    acked,      \* history: events whose ingest call replied that it stored them
    reported,   \* history: how often each trade's outcome reached a caller
    calls, fails    \* history: what the bounds count

tables    == <<pending, audit>>
request   == <<trade, source, now>>
writes    == <<ins, del, entry>>
sweep     == <<todo, claimed>>
history   == <<acked, reported, calls, fails>>
vars      == <<clock, tables, locks, pc, request, seen, writes, sweep, history>>

IngestPcs == {"lock", "check", "existing", "insert", "events", "delete", "record", "commit"}
SweepPcs  == {"list", "claim", "claimRead", "claimDelete", "claimRecord", "claimCommit"}

\* Where a caller's transaction holds the lock of its trade.
LockedPcs == {"check", "existing", "insert", "events", "delete", "record", "commit",
              "claimRead", "claimDelete", "claimRecord", "claimCommit"}

-----------------------------------------------------------------------------
(***************************************************************************)
(* What a statement of p's transaction sees of its trade.                  *)
(***************************************************************************)
View(p) == RowsOf((pending \ del[p]) \union ins[p], trade[p])

Finalized(t) == \E i \in DOMAIN audit : audit[i].trade = t

Go(p, label) == pc' = [pc EXCEPT ![p] = label]

(***************************************************************************)
(* COMMIT makes the transaction's writes visible; either end of a          *)
(* transaction releases its advisory lock.                                 *)
(***************************************************************************)
ApplyWrites(p) ==
    /\ pending' = (pending \ del[p]) \union ins[p]
    /\ audit' = IF entry[p] = None THEN audit ELSE Append(audit, entry[p])

ReleaseLock(p) == locks' = [k \in Keys |-> IF locks[k] = p THEN None ELSE locks[k]]

ForgetTransaction(p) ==
    /\ trade' = [trade EXCEPT ![p] = None]
    /\ seen'  = [seen EXCEPT ![p] = {}]
    /\ ins'   = [ins EXCEPT ![p] = {}]
    /\ del'   = [del EXCEPT ![p] = {}]
    /\ entry' = [entry EXCEPT ![p] = None]

(***************************************************************************)
(* The call is over and its connections are closed.                        *)
(***************************************************************************)
ForgetCall(p) ==
    /\ ForgetTransaction(p)
    /\ Go(p, "idle")
    /\ source'  = [source EXCEPT ![p] = None]
    /\ now'     = [now EXCEPT ![p] = 0]
    /\ todo'    = [todo EXCEPT ![p] = {}]
    /\ claimed' = [claimed EXCEPT ![p] = {}]

-----------------------------------------------------------------------------
(***************************************************************************)
(* FAULTY VARIANTS of actions below, with a bug the code could have.  Each *)
(* violates a property that the action satisfies.                          *)
(***************************************************************************)

\* LockTrade with a shared lock: it does not wait.
LockTradeShared(p) ==
    /\ pc[p] = "lock"
    /\ locks' = [locks EXCEPT ![LockKey[trade[p]]] = p]
    /\ Go(p, "check")
    /\ UNCHANGED <<clock, tables, request, seen, writes, sweep, history>>

\* CheckFinalized left out.
NeverFinalized(p) ==
    /\ pc[p] = "check"
    /\ Go(p, "existing")
    /\ UNCHANGED <<clock, tables, locks, request, seen, writes, sweep, history>>

\* ReadEvents testing the rows read before the insert.
TestStaleEvents(p) ==
    /\ pc[p] = "events"
    /\ seen' = [seen EXCEPT ![p] = View(p)]
    /\ Go(p, IF HasEverySource(seen[p], Expected[p]) THEN "delete" ELSE "commit")
    /\ UNCHANGED <<clock, tables, locks, request, writes, sweep, history>>

\* DeleteRows with the sources of the caller's configuration only.
DeleteExpectedRows(p) ==
    /\ del' = [del EXCEPT ![p] = ExpectedEvents(RowsOf(pending, trade[p]), Expected[p])]
    /\ ins' = [ins EXCEPT ![p] = {}]

\* DeleteRows by primary key.
DeleteOwnRow(p) ==
    /\ del' = [del EXCEPT ![p] = {r \in RowsOf(pending, trade[p]) : r.source = source[p]}]
    /\ ins' = [ins EXCEPT ![p] = {}]

\* ClaimTrade ignoring the answer of the try-lock.
ClaimUnlocked(p) ==
    /\ pc[p] = "claim"
    /\ todo[p] # {}
    /\ LET t == Min(todo[p]) IN
          /\ todo' = [todo EXCEPT ![p] = @ \ {t}]
          /\ locks' = [locks EXCEPT ![LockKey[t]] = IF @ = None THEN p ELSE @]
          /\ trade' = [trade EXCEPT ![p] = t]
          /\ Go(p, "claimRead")
    /\ UNCHANGED <<clock, tables, source, now, seen, writes, claimed, history>>

\* ListExpired with deadline < now.
ListLongExpired(p) ==
    /\ pc[p] = "list"
    /\ todo' = [todo EXCEPT ![p] = {r.trade : r \in {q \in pending : q.deadline < now[p]}}]
    /\ Go(p, "claim")
    /\ UNCHANGED <<clock, tables, locks, request, seen, writes, claimed, history>>

\* DeleteClaimed outside the transaction.
DeleteClaimedAutocommit(p) ==
    /\ pc[p] = "claimDelete"
    /\ pending' = pending \ RowsOf(pending, trade[p])
    /\ Go(p, "claimRecord")
    /\ UNCHANGED <<clock, audit, locks, request, seen, writes, sweep, history>>

\* PanicInBreak recovered inside the transaction, which then commits.
PanicCommits(p) ==
    /\ pc[p] = "claimRecord"
    /\ BuildBreakPanics(Impl[p], seen[p], Expected[p])
    /\ Go(p, "claimCommit")
    /\ UNCHANGED <<clock, tables, locks, request, seen, writes, sweep, history>>

\* CommitClaim counting a skipped trade as claimed.
CommitClaimsSkipped(p) ==
    /\ pc[p] = "claimCommit"
    /\ ApplyWrites(p)
    /\ ReleaseLock(p)
    /\ claimed' = [claimed EXCEPT ![p] = @ \union {trade[p]}]
    /\ ForgetTransaction(p)
    /\ Go(p, "claim")
    /\ UNCHANGED <<clock, source, now, todo, history>>

\* CommitClaim keeping only the last trade claimed.
CommitClaimsLast(p) ==
    /\ pc[p] = "claimCommit"
    /\ ApplyWrites(p)
    /\ ReleaseLock(p)
    /\ claimed' = IF entry[p] # None THEN [claimed EXCEPT ![p] = {trade[p]}] ELSE claimed
    /\ ForgetTransaction(p)
    /\ Go(p, "claim")
    /\ UNCHANGED <<clock, source, now, todo, history>>

\* Rollback on a connection that goes back to a pool with its lock held.
RollbackKeepsLock(p) ==
    /\ pc[p] = "rollback"
    /\ ForgetCall(p)
    /\ UNCHANGED <<clock, tables, locks, history>>

-----------------------------------------------------------------------------
Init ==
    /\ clock = 0
    /\ pending = {} /\ audit = <<>>
    /\ locks = [k \in Keys |-> None]
    /\ pc = [p \in Procs |-> "idle"]
    /\ trade = [p \in Procs |-> None] /\ source = [p \in Procs |-> None]
    /\ now = [p \in Procs |-> 0]
    /\ seen = [p \in Procs |-> {}]
    /\ ins = [p \in Procs |-> {}] /\ del = [p \in Procs |-> {}]
    /\ entry = [p \in Procs |-> None]
    /\ todo = [p \in Procs |-> {}] /\ claimed = [p \in Procs |-> {}]
    /\ acked = {} /\ reported = [t \in Trades |-> 0]
    /\ calls = 0 /\ fails = 0

Tick ==
    /\ clock < Horizon
    /\ clock' = clock + 1
    /\ UNCHANGED <<tables, locks, pc, request, seen, writes, sweep, history>>

-----------------------------------------------------------------------------
(***************************************************************************)
(* ingest_trade_event.  The time stamp is taken here, before the call      *)
(* waits for the trade's lock.  An event of a source the configuration     *)
(* does not expect is answered without touching the store.                 *)
(***************************************************************************)
StartIngest(p) ==
    /\ pc[p] = "idle"
    /\ calls < MaxCalls
    /\ clock + Window[p] <= Horizon
    /\ \E t \in Trades, s \in Expected[p] :
          /\ trade' = [trade EXCEPT ![p] = t]
          /\ source' = [source EXCEPT ![p] = s]
    /\ now' = [now EXCEPT ![p] = clock]
    /\ calls' = calls + 1
    /\ Go(p, "lock")
    /\ UNCHANGED <<clock, tables, locks, seen, writes, sweep, acked, reported, fails>>

LockTrade(p) ==
    /\ pc[p] = "lock"
    /\ locks[LockKey[trade[p]]] = None
    /\ locks' = [locks EXCEPT ![LockKey[trade[p]]] = p]
    /\ Go(p, "check")
    /\ UNCHANGED <<clock, tables, request, seen, writes, sweep, history>>

CheckFinalized(p) ==
    /\ pc[p] = "check"
    /\ Go(p, IF Finalized(trade[p]) THEN "commit" ELSE "existing")
    /\ UNCHANGED <<clock, tables, locks, request, seen, writes, sweep, history>>

ReadExisting(p) ==
    /\ pc[p] = "existing"
    /\ seen' = [seen EXCEPT ![p] = View(p)]
    /\ Go(p, "insert")
    /\ UNCHANGED <<clock, tables, locks, request, writes, sweep, history>>

(***************************************************************************)
(* INSERT ... ON CONFLICT (trade_id, source) DO NOTHING of the row as      *)
(* merged with the rows read before.  A conflict ends the call.            *)
(***************************************************************************)
InsertPending(p) ==
    /\ pc[p] = "insert"
    /\ IF source[p] \in SourcesOf(View(p))
       THEN Go(p, "commit") /\ UNCHANGED ins
       ELSE /\ ins' = [ins EXCEPT ![p] =
                          {Merge(Impl[p], seen[p],
                                 NewRow(trade[p], source[p], now[p], Window[p]))}]
            /\ Go(p, "events")
    /\ UNCHANGED <<clock, tables, locks, request, seen, del, entry, sweep, history>>

ReadEvents(p) ==
    /\ pc[p] = "events"
    /\ seen' = [seen EXCEPT ![p] = View(p)]
    /\ Go(p, IF HasEverySource(View(p), Expected[p]) THEN "delete" ELSE "commit")
    /\ UNCHANGED <<clock, tables, locks, request, writes, sweep, history>>

(***************************************************************************)
(* DELETE FROM pending_events WHERE trade_id = $1: every row of the trade  *)
(* the statement sees, the one just inserted included.                     *)
(***************************************************************************)
DeleteRows(p) ==
    /\ del' = [del EXCEPT ![p] = RowsOf(pending, trade[p])]
    /\ ins' = [ins EXCEPT ![p] = {}]

DeletePending(p) ==
    /\ pc[p] = "delete"
    /\ DeleteRows(p)
    /\ Go(p, "record")
    /\ UNCHANGED <<clock, tables, locks, request, seen, entry, sweep, history>>

RecordReconciled(p) ==
    /\ pc[p] = "record"
    /\ entry' = [entry EXCEPT ![p] =
                    BuildReconciled(Impl[p], trade[p], ExpectedEvents(seen[p], Expected[p]), now[p])]
    /\ Go(p, "commit")
    /\ UNCHANGED <<clock, tables, locks, request, seen, ins, del, sweep, history>>

(***************************************************************************)
(* The commit of an ingest call and its reply: "duplicate" when it wrote   *)
(* nothing, "pending" when it inserted a row, "reconciled" with an entry.  *)
(***************************************************************************)
CommitIngest(p) ==
    /\ pc[p] = "commit"
    /\ ApplyWrites(p)
    /\ ReleaseLock(p)
    /\ acked' = IF ins[p] # {} \/ entry[p] # None
                THEN acked \union {<<trade[p], source[p]>>} ELSE acked
    /\ reported' = IF entry[p] # None
                   THEN [reported EXCEPT ![trade[p]] = @ + 1] ELSE reported
    /\ ForgetCall(p)
    /\ UNCHANGED <<clock, calls, fails>>

-----------------------------------------------------------------------------
(***************************************************************************)
(* sweep_expired_trades.  The list of due trades is read outside any       *)
(* transaction and may be stale when its trades are claimed, one           *)
(* transaction each, in the order of the list.                             *)
(***************************************************************************)
StartSweep(p) ==
    /\ pc[p] = "idle"
    /\ now' = [now EXCEPT ![p] = clock]
    /\ Go(p, "list")
    /\ UNCHANGED <<clock, tables, locks, trade, source, seen, writes, sweep, history>>

ListExpired(p) ==
    /\ pc[p] = "list"
    /\ todo' = [todo EXCEPT ![p] = {r.trade : r \in {q \in pending : q.deadline <= now[p]}}]
    /\ Go(p, "claim")
    /\ UNCHANGED <<clock, tables, locks, request, seen, writes, claimed, history>>

(***************************************************************************)
(* pg_try_advisory_xact_lock: a trade whose lock is held is passed over.   *)
(***************************************************************************)
ClaimTrade(p) ==
    /\ pc[p] = "claim"
    /\ todo[p] # {}
    /\ LET t == Min(todo[p]) IN
          /\ todo' = [todo EXCEPT ![p] = @ \ {t}]
          /\ IF locks[LockKey[t]] = None
             THEN /\ locks' = [locks EXCEPT ![LockKey[t]] = p]
                  /\ trade' = [trade EXCEPT ![p] = t]
                  /\ Go(p, "claimRead")
             ELSE UNCHANGED <<locks, trade, pc>>
    /\ UNCHANGED <<clock, tables, source, now, seen, writes, claimed, history>>

ReadClaimed(p) ==
    /\ pc[p] = "claimRead"
    /\ seen' = [seen EXCEPT ![p] = View(p)]
    /\ Go(p, IF View(p) = {} \/ EarliestDeadline(View(p)) > now[p]
             THEN "claimCommit" ELSE "claimDelete")
    /\ UNCHANGED <<clock, tables, locks, request, writes, sweep, history>>

DeleteClaimed(p) ==
    /\ pc[p] = "claimDelete"
    /\ DeleteRows(p)
    /\ Go(p, "claimRecord")
    /\ UNCHANGED <<clock, tables, locks, request, seen, entry, sweep, history>>

RecordBreak(p) ==
    /\ pc[p] = "claimRecord"
    /\ ~BuildBreakPanics(Impl[p], seen[p], Expected[p])
    /\ entry' = [entry EXCEPT ![p] = BuildBreak(trade[p], seen[p], Expected[p], now[p])]
    /\ Go(p, "claimCommit")
    /\ UNCHANGED <<clock, tables, locks, request, seen, ins, del, sweep, history>>

(***************************************************************************)
(* The engine's callback panics; the deferred rollback and the runtime's   *)
(* recovery end the call.                                                  *)
(***************************************************************************)
PanicInBreak(p) ==
    /\ pc[p] = "claimRecord"
    /\ BuildBreakPanics(Impl[p], seen[p], Expected[p])
    /\ Go(p, "rollback")
    /\ UNCHANGED <<clock, tables, locks, request, seen, writes, sweep, history>>

CommitClaim(p) ==
    /\ pc[p] = "claimCommit"
    /\ ApplyWrites(p)
    /\ ReleaseLock(p)
    /\ claimed' = IF entry[p] # None
                  THEN [claimed EXCEPT ![p] = @ \union {trade[p]}] ELSE claimed
    /\ ForgetTransaction(p)
    /\ Go(p, "claim")
    /\ UNCHANGED <<clock, source, now, todo, history>>

(***************************************************************************)
(* The whole list is done: the breaks claimed are returned to the caller.  *)
(***************************************************************************)
ReturnSweep(p) ==
    /\ pc[p] = "claim"
    /\ todo[p] = {}
    /\ reported' = [t \in Trades |-> IF t \in claimed[p] THEN reported[t] + 1 ELSE reported[t]]
    /\ ForgetCall(p)
    /\ UNCHANGED <<clock, tables, locks, acked, calls, fails>>

-----------------------------------------------------------------------------
(***************************************************************************)
(* A statement fails, the call's context is cancelled, or the process      *)
(* dies.  The transaction is aborted some time later (at once, or when the *)
(* server notices that its client is gone) and keeps its lock until then.  *)
(* The caller is told of an error, or of nothing: a sweep that had claimed *)
(* trades before drops them.  A process that dies after its last commit    *)
(* and before its reply is LoseCommit.                                     *)
(***************************************************************************)
Fail(p) ==
    /\ pc[p] \in IngestPcs \union SweepPcs
    /\ pc[p] = "claim" => todo[p] # {}
    /\ fails < MaxFails
    /\ fails' = fails + 1
    /\ Go(p, "rollback")
    /\ UNCHANGED <<clock, tables, locks, request, seen, writes, sweep, acked, reported, calls>>

Rollback(p) ==
    /\ pc[p] = "rollback"
    /\ ReleaseLock(p)
    /\ ForgetCall(p)
    /\ UNCHANGED <<clock, tables, history>>

(***************************************************************************)
(* The connection breaks after the server applied a COMMIT and before its  *)
(* answer arrives: the writes are in, the caller is told of an error.      *)
(***************************************************************************)
LoseCommit(p) ==
    /\ CommitsGetLost
    /\ pc[p] \in {"commit", "claimCommit"}
    /\ fails < MaxFails
    /\ fails' = fails + 1
    /\ ApplyWrites(p)
    /\ ReleaseLock(p)
    /\ ForgetCall(p)
    /\ UNCHANGED <<clock, acked, reported, calls>>

-----------------------------------------------------------------------------
IngestStep(p) ==
    \/ CheckFinalized(p) \/ ReadExisting(p) \/ InsertPending(p) \/ ReadEvents(p)
    \/ DeletePending(p) \/ RecordReconciled(p) \/ CommitIngest(p)

SweepStep(p) ==
    \/ ListExpired(p) \/ ClaimTrade(p) \/ ReadClaimed(p) \/ DeleteClaimed(p)
    \/ RecordBreak(p) \/ PanicInBreak(p) \/ CommitClaim(p) \/ ReturnSweep(p)

Next ==
    \/ Tick
    \/ \E p \in Ingesters : StartIngest(p) \/ LockTrade(p) \/ IngestStep(p)
    \/ \E p \in Sweepers : StartSweep(p) \/ SweepStep(p)
    \/ \E p \in Procs : Fail(p) \/ Rollback(p) \/ LoseCommit(p)

Spec == Init /\ [][Next]_vars

(***************************************************************************)
(* Time passes, a call that started runs on, an aborted transaction is     *)
(* rolled back, lock waiters are served in turn (the lock manager queues   *)
(* them), and sweeps are scheduled again and again.  Nobody has to ingest  *)
(* and nothing has to fail.                                                *)
(***************************************************************************)
Fairness ==
    /\ WF_vars(Tick)
    /\ \A p \in Ingesters : WF_vars(IngestStep(p)) /\ SF_vars(LockTrade(p))
    /\ \A p \in Sweepers : WF_vars(SweepStep(p)) /\ WF_vars(StartSweep(p))
    /\ \A p \in Procs : WF_vars(Rollback(p))

FairSpec == Spec /\ Fairness
-----------------------------------------------------------------------------
(***************************************************************************)
(* PROPERTIES                                                              *)
(***************************************************************************)

\* Every variable holds a value of its kind; the bounds hold.
TypeOK ==
    /\ clock \in Stamps
    /\ pending \subseteq Row
    /\ audit \in Seq(AuditEntry)
    /\ locks \in [Keys -> Procs \union {None}]
    /\ pc \in [Procs -> IngestPcs \union SweepPcs \union {"idle", "rollback"}]
    /\ trade \in [Procs -> Trades \union {None}]
    /\ source \in [Procs -> Sources \union {None}]
    /\ now \in [Procs -> Stamps]
    /\ seen \in [Procs -> SUBSET Row]
    /\ ins \in [Procs -> SUBSET Row]
    /\ del \in [Procs -> SUBSET Row]
    /\ entry \in [Procs -> AuditEntry \union {None}]
    /\ todo \in [Procs -> SUBSET Trades]
    /\ claimed \in [Procs -> SUBSET Trades]
    /\ acked \subseteq Trades \X Sources
    /\ reported \in [Trades -> Nat]
    /\ calls \in 0..MaxCalls
    /\ fails \in 0..MaxFails

\* Two transactions never work on the same trade at once, whatever the
\* callers' implementations: the advisory lock of ingest and of claimExpired
\* is one lock.  This is what lets the code read rows and act on them later.
LockProtectsTrade ==
    \A p, q \in Procs :
        p # q /\ pc[p] \in LockedPcs /\ pc[q] \in LockedPcs => trade[p] # trade[q]

\* Rows read in one statement are still exactly the trade's rows when a later
\* statement of the same transaction acts on them: the deadline clamp before
\* the insert, the completeness test before the delete, the expiry test and
\* the break built after it.
ReadsStayValid ==
    \A p \in Procs :
        /\ pc[p] \in {"insert", "delete", "claimDelete"} => seen[p] = View(p)
        /\ pc[p] = "claimRecord" => seen[p] = RowsOf(pending, trade[p])

\* A trade is finalized at most once: the audit log never holds two outcomes
\* of one trade, from concurrent ingests, concurrent sweeps or an ingest that
\* races a sweep (README.md:96).
FinalizedOnce ==
    \A i, j \in DOMAIN audit : audit[i].trade = audit[j].trade => i = j

\* A finalized trade has no pending row, and an event that arrives late does
\* not open it again: "until the correlation is finalized" (README.md:93).
FinalizedHasNoPending == \A t \in Trades : Finalized(t) => RowsOf(pending, t) = {}

\* No row is kept of a trade that every caller's configuration finds complete:
\* of two calls that bring the last two sources at once, one sees the other's
\* row and reconciles.
NoCompleteTradeIsPending ==
    \A t \in Trades : RowsOf(pending, t) # {} =>
        \E p \in Ingesters : ~HasEverySource(RowsOf(pending, t), Expected[p])

\* A reconciled entry names exactly the sources some deployment expects.
ReconciledHasEverySource ==
    \A i \in DOMAIN audit : audit[i].outcome = "reconciled" =>
        \E p \in Ingesters : audit[i].sources = Expected[p]

\* An event whose call replied "pending" or "reconciled" is not lost: it is a
\* pending row or one of the sources of its trade's outcome.
NoEventLost ==
    \A e \in acked :
        \/ e[2] \in SourcesOf(RowsOf(pending, e[1]))
        \/ \E i \in DOMAIN audit : audit[i].trade = e[1] /\ e[2] \in audit[i].sources

\* The window of a trade is counted once, from its first event: later events
\* do not extend it, in either implementation and in any mix of them, even
\* when calls get the lock in another order than they took their time stamps.
WindowFromFirstEvent ==
    \A t \in Trades : LET rows == RowsOf(pending, t) IN
        rows # {} =>
            \E p \in Ingesters :
                EarliestDeadline(rows) = Min({r.firstSeen : r \in rows}) + Window[p]

\* The outcome of a trade is handed to at most one caller, even when replies
\* are lost and callers try again.
ReportedAtMostOnce == \A t \in Trades : reported[t] <= 1

\* Every break in the audit log was returned by the sweep that found it, or is
\* still held by a sweep that is running (store.go:40-42).
EveryBreakReported ==
    \A i \in DOMAIN audit : audit[i].outcome = "break" =>
        \/ reported[audit[i].trade] > 0
        \/ \E p \in Sweepers : audit[i].trade \in claimed[p]

\* With one configuration everywhere a break is lost to its caller only by a
\* failure: concurrent sweeps, trades passed over because they are locked and
\* trades gone since they were listed cost no break its report.
BreaksLostOnlyByFailure == fails = 0 => EveryBreakReported

\* "BreakEvent is returned when the correlation window expires without all
\* sources" (event.go:29): with one configuration everywhere a break misses a
\* source, for a complete trade is reconciled by the call that completes it.
BreakHasMissingSource ==
    \A i \in DOMAIN audit : audit[i].outcome = "break" => audit[i].detail.missing # {}

\* "BreakEvent is returned when the correlation window expires" (event.go:29):
\* the window expiry a break reports is not after the time it was detected.
BreakReportsElapsedWindow ==
    \A i \in DOMAIN audit : audit[i].outcome = "break" =>
        audit[i].detail.windowExpiry <= audit[i].at

\* A committed row disappears only in the step that writes the outcome of its
\* trade: no crash or failed statement separates the delete from the audit
\* insert.
RowsLeaveOnlyByFinalization ==
    [][\A r \in pending \ pending' :
          \E i \in DOMAIN audit' \ DOMAIN audit : audit'[i].trade = r.trade]_vars

\* Every step of the statements is a step of the store's promise or invisible
\* to it: what happens at a commit is one Record, Reconcile or Break, on
\* exactly the rows committed at that moment.
Promise == INSTANCE Correlation WITH
    log <- audit, ExpectedSets <- {Expected[p] : p \in Procs}
ImplementsCorrelation == Promise!Spec

\* A call that started ends: no transaction leaves its lock behind, and no
\* two calls wait for each other.
CallsReturn == \A p \in Procs : pc[p] # "idle" ~> pc[p] = "idle"

\* A trade with an elapsed window is finalized, by a sweep or by the event
\* that completes it, as long as sweeps are scheduled (README.md:21-24).
ExpiredTradesAreFinalized ==
    \A t \in Trades :
        (\E r \in pending : r.trade = t /\ r.deadline <= clock) ~> Finalized(t)
=============================================================================
