----------------------------- MODULE MigrationLocks -----------------------------
(***************************************************************************)
(* Every call of a tool runs the schema migration before it does its work. *)
(* On a database that has the schema the migration changes nothing, but    *)
(* each CREATE INDEX IF NOT EXISTS locks its table in SHARE mode until the *)
(* implicit transaction of the script ends, which conflicts with the ROW   *)
(* EXCLUSIVE mode of INSERT and DELETE.  This module asks whether the      *)
(* table locks, the advisory locks and the order in which the statements   *)
(* of the migration, of ingest and of sweep take them can ever lock calls  *)
(* against each other, and whether a call can run before the tables exist. *)
(*                                                                         *)
(* Table modes that conflict with neither of the two (ACCESS SHARE of      *)
(* SELECT, ROW SHARE of SELECT FOR UPDATE) are left out.  What rows the    *)
(* statements find is left open: any transaction may end early or go on.   *)
(***************************************************************************)
EXTENDS Integers, FiniteSets

CONSTANTS
    Ingesters,  \* callers of ingest_trade_event
    Sweepers,   \* callers of sweep_expired_trades
    Keys,       \* advisory lock keys of trades
    None,       \* no value
    MaxFails    \* bound: failed calls

Callers == Ingesters \union Sweepers
Objects == {"pending_events", "audit_log"} \union Keys

ASSUME MigrationAssumption ==
    /\ Ingesters \intersect Sweepers = {}
    /\ Keys \intersect {"pending_events", "audit_log"} = {}
    /\ IsFiniteSet(Callers)
    /\ None \notin Callers /\ None \notin Keys
    /\ MaxFails \in Nat

VARIABLES
    tables,     \* whether the tables exist
    creator,    \* the caller whose open transaction is creating them
    pc,         \* the next statement of each caller
    todo,       \* the trades of a sweep's list it has not tried, by their keys
    key,        \* the advisory lock key of a caller's transaction
    held,       \* granted locks of each object: pairs of a caller and a mode
    waiting,    \* the callers whose statement waits for its lock
    ahead,      \* of a waiting caller: those that waited for the lock before it
    fails       \* history: what the bound counts

locks == <<held, waiting, ahead>>
vars  == <<tables, creator, pc, todo, key, locks, fails>>

-----------------------------------------------------------------------------
(***************************************************************************)
(* The lock each statement needs before it runs.                           *)
(***************************************************************************)
Lock(object, mode) == [object |-> object, mode |-> mode]

\* FAULTY VARIANT of Needs: a claim records its entry before it deletes rows.
NeedsRecordFirst(p) ==
    CASE pc[p] = "index pending" -> Lock("pending_events", "share")
      [] pc[p] = "index audit"   -> Lock("audit_log", "share")
      [] pc[p] = "advisory"      -> Lock(key[p], "exclusive")
      [] pc[p] = "insert"        -> Lock("pending_events", "row exclusive")
      [] pc[p] = "record"        -> Lock("audit_log", "row exclusive")
      [] pc[p] = "claim delete"  -> Lock("audit_log", "row exclusive")
      [] pc[p] = "claim record"  -> Lock("pending_events", "row exclusive")

\* FAULTY VARIANT of Needs: pg_advisory_xact_lock_shared.
NeedsSharedAdvisory(p) ==
    CASE pc[p] = "index pending" -> Lock("pending_events", "share")
      [] pc[p] = "index audit"   -> Lock("audit_log", "share")
      [] pc[p] = "advisory"      -> Lock(key[p], "share")
      [] pc[p] \in {"insert", "claim delete"} -> Lock("pending_events", "row exclusive")
      [] pc[p] \in {"record", "claim record"} -> Lock("audit_log", "row exclusive")

Needs(p) ==
    CASE pc[p] = "index pending" -> Lock("pending_events", "share")
      [] pc[p] = "index audit"   -> Lock("audit_log", "share")
      [] pc[p] = "advisory"      -> Lock(key[p], "exclusive")
      [] pc[p] \in {"insert", "claim delete"} -> Lock("pending_events", "row exclusive")
      [] pc[p] \in {"record", "claim record"} -> Lock("audit_log", "row exclusive")

LockingPcs == {"index pending", "index audit", "advisory", "insert", "record",
               "claim delete", "claim record"}

-----------------------------------------------------------------------------
(***************************************************************************)
(* The lock manager: a request is granted when it conflicts with no lock   *)
(* that another caller holds and with no request that waits before it.     *)
(***************************************************************************)
Conflict(m, n) == {m, n} \in {{"share", "row exclusive"}, {"exclusive"}}

Request(p, mode) == [caller |-> p, mode |-> mode]

Blocks(l, p, mode) == l.caller # p /\ Conflict(l.mode, mode)

Waiting(p) == p \in waiting

\* The callers that wait for o before p does, or would if p asked for it now.
Before(p, o) == {q \in waiting : Needs(q).object = o /\ (Waiting(p) => q \in ahead[p])}

\* The locks and requests before p's that keep p's request for o from its grant.
Blockers(p, o, mode) ==
    {l \in held[o] \union {Request(q, Needs(q).mode) : q \in Before(p, o)} : Blocks(l, p, mode)}

Enqueue(p, o, mode) ==
    /\ ~Waiting(p)
    /\ Blockers(p, o, mode) # {}
    /\ waiting' = waiting \union {p}
    /\ ahead' = [ahead EXCEPT ![p] = Before(p, o)]
    /\ UNCHANGED <<tables, creator, pc, todo, key, held, fails>>

StopWaiting(p) ==
    /\ waiting' = waiting \ {p}
    /\ ahead' = [q \in Callers |-> IF q = p THEN {} ELSE ahead[q] \ {p}]

Grant(p, o, mode) ==
    /\ Blockers(p, o, mode) = {}
    /\ held' = [held EXCEPT ![o] = @ \union {Request(p, mode)}]
    /\ StopWaiting(p)

ReleaseAll(p) ==
    /\ held' = [o \in Objects |-> {l \in held[o] : l.caller # p}]
    /\ StopWaiting(p)
    /\ key' = [key EXCEPT ![p] = None]

-----------------------------------------------------------------------------
\* The statements that read or write the tables.
TablePcs == {"insert", "record", "commit", "list", "claim", "claim delete",
             "claim record", "claim commit"}

Go(p, label) == pc' = [pc EXCEPT ![p] = label]

\* p's statement gets its lock, runs, and the caller goes on to one of labels.
RunLocked(p, label, labels) ==
    /\ pc[p] = label
    /\ Grant(p, Needs(p).object, Needs(p).mode)
    /\ \E next \in labels : Go(p, next)
    /\ UNCHANGED <<tables, creator, todo, key, fails>>

EndTransaction(p, label, next) ==
    /\ pc[p] = label
    /\ ReleaseAll(p)
    /\ Go(p, next)
    /\ UNCHANGED <<tables, creator, todo, fails>>

AfterMigration(p) == IF p \in Sweepers THEN "list" ELSE "begin"

Init ==
    /\ tables = "absent" /\ creator = None
    /\ pc = [p \in Callers |-> "idle"]
    /\ todo = [p \in Callers |-> {}]
    /\ key = [p \in Callers |-> None]
    /\ held = [o \in Objects |-> {}]
    /\ waiting = {} /\ ahead = [p \in Callers |-> {}]
    /\ fails = 0

-----------------------------------------------------------------------------
(***************************************************************************)
(* Migrate.  The script runs as one implicit transaction.  Two callers     *)
(* that both find no tables collide in the catalog: the second waits for   *)
(* the first, fails when it commits and creates the tables when it does    *)
(* not.                                                                    *)
(***************************************************************************)
StartCall(p) ==
    /\ pc[p] = "idle"
    /\ Go(p, IF tables = "present" THEN "index pending" ELSE "create")
    /\ UNCHANGED <<tables, creator, todo, key, locks, fails>>

CreateTables(p) ==
    /\ pc[p] = "create"
    /\ tables = "absent" /\ creator = None
    /\ creator' = p
    /\ Go(p, "created")
    /\ UNCHANGED <<tables, todo, key, locks, fails>>

CommitTables(p) ==
    /\ pc[p] = "created"
    /\ tables' = "present" /\ creator' = None
    /\ Go(p, AfterMigration(p))
    /\ UNCHANGED <<todo, key, locks, fails>>

\* FAULTY VARIANT of LoseRace: the error of the migration is ignored, and the
\* caller does not wait to hear of it.
IgnoreLostRace(p) ==
    /\ pc[p] = "create"
    /\ creator # None \/ tables = "present"
    /\ Go(p, AfterMigration(p))
    /\ UNCHANGED <<tables, creator, todo, key, locks, fails>>

LoseRace(p) ==
    /\ pc[p] = "create"
    /\ tables = "present"
    /\ Go(p, "idle")
    /\ UNCHANGED <<tables, creator, todo, key, locks, fails>>

IndexPending(p) == RunLocked(p, "index pending", {"index audit"})

IndexAudit(p) == RunLocked(p, "index audit", {"migrated"})

CommitMigration(p) == EndTransaction(p, "migrated", AfterMigration(p))

(***************************************************************************)
(* A history query, an event of an unexpected source and a sweep at the    *)
(* end of its list end here.                                               *)
(***************************************************************************)
EndCall(p) ==
    /\ \/ pc[p] = "begin"
       \/ pc[p] = "claim" /\ todo[p] = {}
    /\ Go(p, "idle")
    /\ UNCHANGED <<tables, creator, todo, key, locks, fails>>

-----------------------------------------------------------------------------
(***************************************************************************)
(* The transaction of an ingest call.  It commits without an insert when   *)
(* the trade is finalized or the event stored, and without an entry when   *)
(* the trade is incomplete.                                                *)
(***************************************************************************)
BeginIngest(p) ==
    /\ pc[p] = "begin"
    /\ \E k \in Keys : key' = [key EXCEPT ![p] = k]
    /\ Go(p, "advisory")
    /\ UNCHANGED <<tables, creator, todo, locks, fails>>

LockTrade(p) == RunLocked(p, "advisory", {"insert", "commit"})

InsertPending(p) == RunLocked(p, "insert", {"record", "commit"})

RecordReconciled(p) == RunLocked(p, "record", {"commit"})

CommitIngest(p) == EndTransaction(p, "commit", "idle")

(***************************************************************************)
(* A sweep claims each trade of its list in a transaction of its own.      *)
(***************************************************************************)
ListExpired(p) ==
    /\ pc[p] = "list"
    /\ \E due \in SUBSET Keys : todo' = [todo EXCEPT ![p] = due]
    /\ Go(p, "claim")
    /\ UNCHANGED <<tables, creator, key, locks, fails>>

\* The advisory lock is tried without waiting; a trade whose lock is taken, and one
\* that is no longer due, is skipped.
ClaimTrade(p) ==
    /\ pc[p] = "claim"
    /\ \E k \in todo[p] :
          /\ todo' = [todo EXCEPT ![p] = @ \ {k}]
          /\ IF Blockers(p, k, "exclusive") # {}
             THEN UNCHANGED <<pc, key, locks>>
             ELSE /\ key' = [key EXCEPT ![p] = k]
                  /\ Grant(p, k, "exclusive")
                  /\ Go(p, "claim delete") \/ Go(p, "claim commit")
    /\ UNCHANGED <<tables, creator, fails>>

DeleteClaimed(p) == RunLocked(p, "claim delete", {"claim record"})

RecordBreak(p) == RunLocked(p, "claim record", {"claim commit"})

CommitClaim(p) == EndTransaction(p, "claim commit", "claim")

(***************************************************************************)
(* A statement has to wait; a call fails or dies and the database rolls    *)
(* its transaction back.                                                   *)
(***************************************************************************)
Wait(p) ==
    /\ pc[p] \in LockingPcs
    /\ Enqueue(p, Needs(p).object, Needs(p).mode)

\* FAULTY VARIANT of Fail: the transaction stays open.
FailWithoutRollback(p) ==
    /\ pc[p] # "idle"
    /\ fails < MaxFails
    /\ fails' = fails + 1
    /\ creator' = IF creator = p THEN None ELSE creator
    /\ todo' = [todo EXCEPT ![p] = {}]
    /\ key' = [key EXCEPT ![p] = None]
    /\ StopWaiting(p)
    /\ Go(p, "idle")
    /\ UNCHANGED <<tables, held>>

Fail(p) ==
    /\ pc[p] # "idle"
    /\ fails < MaxFails
    /\ fails' = fails + 1
    /\ creator' = IF creator = p THEN None ELSE creator
    /\ todo' = [todo EXCEPT ![p] = {}]
    /\ ReleaseAll(p)
    /\ Go(p, "idle")
    /\ UNCHANGED tables

Migrating(p) ==
    \/ CreateTables(p) \/ CommitTables(p) \/ LoseRace(p)
    \/ IndexPending(p) \/ IndexAudit(p) \/ CommitMigration(p)

Working(p) ==
    \/ BeginIngest(p) \/ LockTrade(p) \/ InsertPending(p) \/ RecordReconciled(p)
    \/ CommitIngest(p)
    \/ ListExpired(p) \/ ClaimTrade(p) \/ DeleteClaimed(p) \/ RecordBreak(p)
    \/ CommitClaim(p)

\* The steps that a running call and the database take by themselves.
Proceed(p) == Wait(p) \/ Migrating(p) \/ Working(p) \/ EndCall(p)

Next == \E p \in Callers : StartCall(p) \/ Proceed(p) \/ Fail(p)

(***************************************************************************)
(* A caller and the database go on while they can.  Nothing makes a call   *)
(* start or fail.                                                          *)
(***************************************************************************)
Fairness == \A p \in Callers : WF_vars(Proceed(p))

Spec == Init /\ [][Next]_vars
FairSpec == Spec /\ Fairness

-----------------------------------------------------------------------------
(***************************************************************************)
(* PROPERTIES                                                              *)
(***************************************************************************)

\* Every variable holds a value of its kind.
TypeOK ==
    /\ tables \in {"absent", "present"}
    /\ creator \in Callers \union {None}
    /\ pc \in [Callers -> TablePcs \union LockingPcs
                          \union {"idle", "create", "created", "migrated", "begin"}]
    /\ todo \in [Callers -> SUBSET Keys]
    /\ key \in [Callers -> Keys \union {None}]
    /\ \A o \in Objects :
          held[o] \subseteq [caller: Callers, mode: IF o \in Keys THEN {"exclusive"}
                                                   ELSE {"share", "row exclusive"}]
    /\ waiting \subseteq Callers
    /\ ahead \in [Callers -> SUBSET Callers]
    /\ fails \in 0..MaxFails

\* p waits for a lock that q holds or has asked for before.
WaitsFor(p, q) ==
    /\ Waiting(p)
    /\ \E l \in Blockers(p, Needs(p).object, Needs(p).mode) : l.caller = q

\* No calls wait for each other in a circle: migrations, ingests and claims take
\* the table locks in one order, and the advisory lock before any of them.
NoDeadlock ==
    \A ring \in (SUBSET Callers) \ {{}} :
        ~ \A p \in ring : \E q \in ring : WaitsFor(p, q)

\* No statement runs on a table before the migration that creates it has committed.
TablesExistWhenUsed ==
    \A p \in Callers : pc[p] \in TablePcs => tables = "present"

\* Every call ends, however many calls keep migrating and writing beside it.
CallsEnd ==
    \A p \in Callers : pc[p] # "idle" ~> pc[p] = "idle"
=============================================================================
