-------------------------- MODULE MigrationLocksProofs --------------------------
(***************************************************************************)
(* Theorems about MigrationLocks, for every number of callers and keys.    *)
(*                                                                         *)
(* The calls cannot deadlock because they take their locks in one order:   *)
(* an advisory lock, then pending_events, then audit_log.  A caller that   *)
(* holds a lock waits only for a later one (LockOrder), and the callers    *)
(* that wait for one lock wait in the order they came (Queues).  In a      *)
(* circle of waiting callers take those that wait for the last lock of the *)
(* order: none of them waits for a holder, so each waits for one that came *)
(* before it, and the one that came first waits for none.                  *)
(***************************************************************************)
EXTENDS MigrationLocks, FiniteSetTheorems, TLAPS

Modes == {"share", "row exclusive", "exclusive"}

\* Where the holder of a lock may be.
HolderPcs(o) ==
    CASE o = "audit_log"      -> {"migrated", "commit", "claim commit"}
      [] o = "pending_events" -> {"index audit", "migrated", "record", "commit",
                                  "claim record", "claim commit"}
      [] OTHER                -> {"insert", "record", "commit",
                                  "claim delete", "claim record", "claim commit"}

\* The statements behind the migration of their call.
MigratedPcs == TablePcs \union {"index pending", "index audit", "migrated", "begin", "advisory"}

LocksTyped == held \in [Objects -> SUBSET [caller : Callers, mode : Modes]]

\* The tables exist for every caller that is behind the migration.
Migrated == \A p \in Callers : pc[p] \in MigratedPcs => tables = "present"

\* An ingest asks for the lock of a trade.
KeyChosen == \A p \in Callers : pc[p] = "advisory" => key[p] \in Keys

\* A caller holds a lock only from the statement that took it to the end of its
\* transaction, and waits at statements that take later ones.
LockOrder == \A o \in Objects : \A l \in held[o] : pc[l.caller] \in HolderPcs(o)

\* The callers that wait for a lock are a queue.
Queues ==
    \A p \in waiting :
        /\ pc[p] \in LockingPcs
        /\ ahead[p] \subseteq waiting /\ p \notin ahead[p]
        /\ \A q \in ahead[p] : ahead[q] \subseteq ahead[p] /\ Needs(q).object = Needs(p).object

TypeInv == TypeOK /\ LocksTyped /\ KeyChosen

Inv == TypeInv /\ Migrated /\ LockOrder /\ Queues

-----------------------------------------------------------------------------
(***************************************************************************)
(* What a statement needs.                                                 *)
(***************************************************************************)

\* Every statement that needs a lock needs one of the three kinds.
LEMMA NeedsIsLock ==
    ASSUME TypeInv, NEW p \in Callers, pc[p] \in LockingPcs
    PROVE  /\ Needs(p).object \in Objects
           /\ Needs(p).mode \in IF Needs(p).object \in Keys THEN {"exclusive"}
                                ELSE {"share", "row exclusive"}
           /\ Needs(p).object \in Keys <=> pc[p] = "advisory"
BY MigrationAssumption DEF TypeInv, KeyChosen, LockingPcs, Needs, Lock, Objects

\* What others need changes only with their own steps.
LEMMA NeedsStays ==
    ASSUME NEW q, pc'[q] = pc[q], key'[q] = key[q]
    PROVE  Needs(q)' = Needs(q)
BY DEF Needs, Lock
-----------------------------------------------------------------------------
(***************************************************************************)
(* Types.                                                                  *)
(***************************************************************************)
ModesOf(o) == IF o \in Keys THEN {"exclusive"} ELSE {"share", "row exclusive"}

LockTypes ==
    /\ LocksTyped
    /\ \A o \in Objects : held[o] \subseteq [caller : Callers, mode : ModesOf(o)]
    /\ waiting \subseteq Callers
    /\ ahead \in [Callers -> SUBSET Callers]

CallTypes ==
    /\ tables \in {"absent", "present"}
    /\ creator \in Callers \union {None}
    /\ pc \in [Callers -> TablePcs \union LockingPcs
                          \union {"idle", "create", "created", "migrated", "begin"}]
    /\ todo \in [Callers -> SUBSET Keys]
    /\ key \in [Callers -> Keys \union {None}]
    /\ fails \in 0..MaxFails

LEMMA TypeParts == TypeInv <=> CallTypes /\ LockTypes /\ KeyChosen
BY DEF TypeInv, TypeOK, CallTypes, LockTypes, ModesOf

LEMMA GrantType ==
    ASSUME LockTypes, NEW p \in Callers, NEW o \in Objects, NEW mode \in ModesOf(o),
           Grant(p, o, mode)
    PROVE  LockTypes'
<1>1. mode \in Modes
  BY DEF ModesOf, Modes
<1>2. Request(p, mode) \in [caller : Callers, mode : Modes]
      /\ Request(p, mode) \in [caller : Callers, mode : ModesOf(o)]
  BY <1>1 DEF Request
<1>3. held' = [held EXCEPT ![o] = held[o] \union {Request(p, mode)}]
  BY DEF Grant
<1>4. LocksTyped'
  BY <1>2, <1>3 DEF LockTypes, LocksTyped
<1>5. \A x \in Objects : held'[x] \subseteq [caller : Callers, mode : ModesOf(x)]
  BY <1>2, <1>3 DEF LockTypes, LocksTyped
<1>6. waiting' \subseteq Callers /\ ahead' \in [Callers -> SUBSET Callers]
  BY DEF Grant, StopWaiting, LockTypes
<1> QED
  BY <1>4, <1>5, <1>6 DEF LockTypes, ModesOf

LEMMA ReleaseType ==
    ASSUME LockTypes, NEW p \in Callers, ReleaseAll(p)
    PROVE  LockTypes'
<1>1. held' = [o \in Objects |-> {l \in held[o] : l.caller # p}]
  BY DEF ReleaseAll
<1>2. LocksTyped' /\ \A x \in Objects : held'[x] \subseteq [caller : Callers, mode : ModesOf(x)]
  BY <1>1 DEF LockTypes, LocksTyped
<1>3. waiting' \subseteq Callers /\ ahead' \in [Callers -> SUBSET Callers]
  BY DEF ReleaseAll, StopWaiting, LockTypes
<1> QED
  BY <1>2, <1>3 DEF LockTypes, ModesOf

LEMMA EnqueueType ==
    ASSUME LockTypes, NEW p \in Callers, NEW o, NEW mode, Enqueue(p, o, mode)
    PROVE  LockTypes'
<1>1. Before(p, o) \subseteq Callers
  BY DEF Before, LockTypes
<1> QED
  BY <1>1 DEF Enqueue, LockTypes, LocksTyped, ModesOf

\* The statements that wait for locks, by what follows them.
LEMMA RunType ==
    ASSUME TypeInv, NEW p \in Callers, NEW label \in LockingPcs,
           NEW labels \in SUBSET (TablePcs \union LockingPcs \union {"migrated"}),
           "advisory" \notin labels,
           RunLocked(p, label, labels)
    PROVE  TypeInv'
<1>1. pc[p] = label /\ Grant(p, Needs(p).object, Needs(p).mode)
      /\ UNCHANGED <<tables, creator, todo, key, fails>>
  BY DEF RunLocked
<1>2. PICK next \in labels : pc' = [pc EXCEPT ![p] = next]
  BY DEF RunLocked, Go
<1>3. LockTypes'
  BY <1>1, NeedsIsLock, GrantType, TypeParts DEF ModesOf
<1>4. CallTypes' /\ KeyChosen'
  BY <1>1, <1>2, TypeParts DEF CallTypes, KeyChosen
<1> QED
  BY <1>3, <1>4, TypeParts, PTL

LEMMA EndType ==
    ASSUME TypeInv, NEW p \in Callers, NEW label,
           NEW next \in TablePcs \union {"idle", "begin"},
           EndTransaction(p, label, next)
    PROVE  TypeInv'
<1>1. ReleaseAll(p) /\ pc' = [pc EXCEPT ![p] = next] /\ key' = [key EXCEPT ![p] = None]
      /\ UNCHANGED <<tables, creator, todo, fails>>
  BY DEF EndTransaction, ReleaseAll, Go
<1>2. next # "advisory"
  BY DEF TablePcs
<1>3. LockTypes'
  BY <1>1, ReleaseType, TypeParts
<1>4. CallTypes' /\ KeyChosen'
  BY <1>1, <1>2, TypeParts DEF CallTypes, KeyChosen
<1> QED
  BY <1>3, <1>4, TypeParts, PTL

LEMMA NextTypeInv == TypeInv /\ [Next]_vars => TypeInv'
<1> SUFFICES ASSUME TypeInv, [Next]_vars PROVE TypeInv'
  OBVIOUS
<1>0. CallTypes /\ LockTypes /\ KeyChosen
  BY TypeParts
<1>1. ASSUME UNCHANGED vars PROVE TypeInv'
  <2>1. CallTypes' /\ LockTypes' /\ KeyChosen'
    BY <1>0, <1>1 DEF vars, locks, CallTypes, LockTypes, LocksTyped, KeyChosen
  <2> QED
    BY <2>1, TypeParts, PTL
<1>2. ASSUME NEW p \in Callers,
             StartCall(p) \/ CreateTables(p) \/ CommitTables(p) \/ LoseRace(p) \/ EndCall(p)
                \/ BeginIngest(p) \/ ListExpired(p)
      PROVE  TypeInv'
  <2>1. LockTypes'
    BY <1>0, <1>2 DEF StartCall, CreateTables, CommitTables, LoseRace, EndCall, BeginIngest,
                      ListExpired, locks, LockTypes, LocksTyped
  <2>2. AfterMigration(p) \in {"list", "begin"}
    BY DEF AfterMigration
  <2>3. CallTypes' /\ KeyChosen'
    <3>1. CASE StartCall(p) \/ CreateTables(p) \/ CommitTables(p) \/ LoseRace(p) \/ EndCall(p)
      BY <1>0, <3>1, <2>2 DEF StartCall, CreateTables, CommitTables, LoseRace, EndCall, Go,
                             CallTypes, KeyChosen, TablePcs, LockingPcs
    <3>2. CASE BeginIngest(p) \/ ListExpired(p)
      BY <1>0, <3>2 DEF BeginIngest, ListExpired, Go, CallTypes, KeyChosen, TablePcs, LockingPcs
    <3> QED
      BY <1>2, <3>1, <3>2
  <2> QED
    BY <2>1, <2>3, TypeParts, PTL
<1>3. ASSUME NEW p \in Callers,
             IndexPending(p) \/ IndexAudit(p) \/ LockTrade(p) \/ InsertPending(p)
                \/ RecordReconciled(p) \/ DeleteClaimed(p) \/ RecordBreak(p)
      PROVE  TypeInv'
  BY <1>3, RunType DEF IndexPending, IndexAudit, LockTrade, InsertPending, RecordReconciled,
                       DeleteClaimed, RecordBreak, LockingPcs, TablePcs
<1>4. ASSUME NEW p \in Callers, CommitMigration(p) \/ CommitIngest(p) \/ CommitClaim(p)
      PROVE  TypeInv'
  BY <1>4, EndType DEF CommitMigration, CommitIngest, CommitClaim, AfterMigration, TablePcs
<1>5. ASSUME NEW p \in Callers, ClaimTrade(p) PROVE TypeInv'
  <2>1. PICK k \in todo[p] :
          /\ todo' = [todo EXCEPT ![p] = @ \ {k}]
          /\ IF Blockers(p, k, "exclusive") # {}
             THEN UNCHANGED <<pc, key, locks>>
             ELSE /\ key' = [key EXCEPT ![p] = k]
                  /\ Grant(p, k, "exclusive")
                  /\ Go(p, "claim delete") \/ Go(p, "claim commit")
    BY <1>5 DEF ClaimTrade
  <2>2. k \in Keys /\ k \in Objects /\ "exclusive" \in ModesOf(k)
    BY <1>0, <2>1 DEF CallTypes, Objects, ModesOf
  <2>3. LockTypes'
    <3>1. CASE UNCHANGED locks
      BY <1>0, <3>1 DEF locks, LockTypes, LocksTyped
    <3>2. CASE Grant(p, k, "exclusive")
      BY <1>0, <3>2, <2>2, GrantType
    <3> QED
      BY <2>1, <3>1, <3>2
  <2>4. UNCHANGED <<tables, creator, fails>>
    BY <1>5 DEF ClaimTrade
  <2>5. CallTypes' /\ KeyChosen'
    BY <1>0, <2>1, <2>2, <2>4 DEF CallTypes, KeyChosen, Go, TablePcs, LockingPcs
  <2> QED
    BY <2>3, <2>5, TypeParts, PTL
<1>6. ASSUME NEW p \in Callers, Wait(p) PROVE TypeInv'
  <2>1. LockTypes'
    BY <1>0, <1>6, EnqueueType DEF Wait
  <2>2. CallTypes' /\ KeyChosen'
    BY <1>0, <1>6 DEF Wait, Enqueue, CallTypes, KeyChosen
  <2> QED
    BY <2>1, <2>2, TypeParts, PTL
<1>7. ASSUME NEW p \in Callers, Fail(p) PROVE TypeInv'
  <2>1. LockTypes'
    BY <1>0, <1>7, ReleaseType DEF Fail
  <2>2. CallTypes' /\ KeyChosen'
    BY <1>0, <1>7, MigrationAssumption DEF Fail, ReleaseAll, Go, CallTypes, KeyChosen
  <2> QED
    BY <2>1, <2>2, TypeParts, PTL
<1> QED
  BY <1>1, <1>2, <1>3, <1>4, <1>5, <1>6, <1>7 DEF Next, Proceed, Migrating, Working

-----------------------------------------------------------------------------
(***************************************************************************)
(* The tables exist.                                                       *)
(***************************************************************************)

LEMMA NextMigrated == TypeInv /\ Migrated /\ [Next]_vars => Migrated'
<1> SUFFICES ASSUME TypeInv, Migrated, [Next]_vars PROVE Migrated'
  OBVIOUS
<1>0. pc \in [Callers -> TablePcs \union LockingPcs
                          \union {"idle", "create", "created", "migrated", "begin"}]
  BY DEF TypeInv, TypeOK
<1>1. CASE UNCHANGED vars
  BY <1>1 DEF vars, Migrated
<1>2. ASSUME NEW p \in Callers, CommitTables(p) PROVE Migrated'
  BY <1>2 DEF CommitTables, Migrated
<1>3. ASSUME NEW p \in Callers, tables' = tables,
             pc' = pc \/ \E next : Go(p, next) /\ (next \in MigratedPcs
                                      => tables = "present" \/ pc[p] \in MigratedPcs)
      PROVE  Migrated'
  BY <1>0, <1>3 DEF Migrated, Go
<1>4. ASSUME NEW p \in Callers,
             StartCall(p) \/ CreateTables(p) \/ LoseRace(p) \/ EndCall(p) \/ Wait(p) \/ Fail(p)
      PROVE  Migrated'
  <2>1. tables' = tables
    BY <1>4 DEF StartCall, CreateTables, LoseRace, EndCall, Wait, Enqueue, Fail
  <2>2. CASE StartCall(p)
    <3>1. Go(p, IF tables = "present" THEN "index pending" ELSE "create")
      BY <2>2 DEF StartCall
    <3>2. "create" \notin MigratedPcs
      BY DEF MigratedPcs, TablePcs
    <3> QED
      BY <1>3, <2>1, <3>1, <3>2
  <2>3. CASE CreateTables(p) \/ LoseRace(p) \/ EndCall(p) \/ Fail(p)
    <3>1. Go(p, "created") \/ Go(p, "idle")
      BY <2>3 DEF CreateTables, LoseRace, EndCall, Fail
    <3>2. "created" \notin MigratedPcs /\ "idle" \notin MigratedPcs
      BY DEF MigratedPcs, TablePcs
    <3> QED
      BY <1>3, <2>1, <3>1, <3>2
  <2>4. CASE Wait(p)
    BY <1>3, <2>1, <2>4 DEF Wait, Enqueue
  <2> QED
    BY <1>4, <2>2, <2>3, <2>4
<1>5. ASSUME NEW p \in Callers, BeginIngest(p) \/ ListExpired(p) PROVE Migrated'
  <2>1. tables' = tables /\ pc[p] \in MigratedPcs /\ \E next : Go(p, next)
    BY <1>5 DEF BeginIngest, ListExpired, MigratedPcs, TablePcs
  <2> QED
    BY <1>3, <2>1
<1>6. ASSUME NEW p \in Callers, ClaimTrade(p) PROVE Migrated'
  BY <1>3, <1>6 DEF ClaimTrade, MigratedPcs, TablePcs
<1>7. ASSUME NEW p \in Callers, NEW label, NEW labels, RunLocked(p, label, labels),
             label \in MigratedPcs
      PROVE  Migrated'
  BY <1>3, <1>7 DEF RunLocked
<1>8. ASSUME NEW p \in Callers, NEW label, NEW next, EndTransaction(p, label, next),
             label \in MigratedPcs
      PROVE  Migrated'
  BY <1>3, <1>8 DEF EndTransaction
<1> QED
  BY <1>1, <1>2, <1>4, <1>5, <1>6, <1>7, <1>8
     DEF Next, Proceed, Migrating, Working, IndexPending, IndexAudit, LockTrade, InsertPending,
         RecordReconciled, DeleteClaimed, RecordBreak, CommitMigration, CommitIngest, CommitClaim,
         MigratedPcs, TablePcs

-----------------------------------------------------------------------------
(***************************************************************************)
(* The steps, by what they do to the locks.                                *)
(***************************************************************************)

OthersStay(p) == \A q \in Callers \ {p} : pc'[q] = pc[q] /\ key'[q] = key[q]

\* p holds no lock, waits for none and asks for none.
LeavesLocks(p) ==
    /\ UNCHANGED locks
    /\ pc[p] \in {"idle", "create", "created", "begin", "list", "claim"}

\* p gets a lock and keeps those it has.
TakesLock(p) ==
    \E o \in Objects, mode \in Modes :
        /\ Grant(p, o, mode)
        /\ pc'[p] \in HolderPcs(o)
        /\ \A x \in Objects : pc[p] \in HolderPcs(x) => pc'[p] \in HolderPcs(x)

\* p starts to wait for a lock.
AsksForLock(p) ==
    /\ pc[p] \in LockingPcs
    /\ Enqueue(p, Needs(p).object, Needs(p).mode)

LockStep(p) == LeavesLocks(p) \/ TakesLock(p) \/ AsksForLock(p) \/ ReleaseAll(p)

\* The statements in labels may follow that at label, which took the lock of o.
Follow(labels, label, o) ==
    \A next \in labels :
        /\ next \in HolderPcs(o)
        /\ \A x \in Objects : label \in HolderPcs(x) => next \in HolderPcs(x)

LEMMA RunIsLockStep ==
    ASSUME TypeInv, NEW p \in Callers, NEW label \in LockingPcs, NEW labels,
           RunLocked(p, label, labels),
           Follow(labels, label, Needs(p).object)
    PROVE  OthersStay(p) /\ TakesLock(p)
<1>1. pc[p] = label /\ Grant(p, Needs(p).object, Needs(p).mode) /\ key' = key
  BY DEF RunLocked
<1>2. PICK next \in labels : pc' = [pc EXCEPT ![p] = next]
  BY DEF RunLocked, Go
<1>3. pc'[p] = next /\ OthersStay(p)
  BY <1>1, <1>2 DEF TypeInv, TypeOK, OthersStay
<1>4. Needs(p).object \in Objects /\ Needs(p).mode \in Modes
  BY <1>1, NeedsIsLock DEF Modes
<1> QED
  BY <1>1, <1>2, <1>3, <1>4 DEF TakesLock, Follow

LEMMA StepIsLockStep ==
    ASSUME TypeInv, Next
    PROVE  \E p \in Callers : OthersStay(p) /\ LockStep(p)
<1>0. /\ pc \in [Callers -> TablePcs \union LockingPcs
                          \union {"idle", "create", "created", "migrated", "begin"}]
      /\ key \in [Callers -> Keys \union {None}]
      /\ todo \in [Callers -> SUBSET Keys]
  BY DEF TypeInv, TypeOK
<1>1. ASSUME NEW p \in Callers,
             StartCall(p) \/ CreateTables(p) \/ CommitTables(p) \/ LoseRace(p) \/ EndCall(p)
                \/ BeginIngest(p) \/ ListExpired(p)
      PROVE  OthersStay(p) /\ LeavesLocks(p)
  BY <1>0, <1>1 DEF StartCall, CreateTables, CommitTables, LoseRace, EndCall, BeginIngest,
                    ListExpired, Go, OthersStay, LeavesLocks
<1>2. ASSUME NEW p \in Callers, CommitMigration(p) \/ CommitIngest(p) \/ CommitClaim(p) \/ Fail(p)
      PROVE  OthersStay(p) /\ ReleaseAll(p)
  BY <1>0, <1>2 DEF CommitMigration, CommitIngest, CommitClaim, EndTransaction, Fail, ReleaseAll,
                    Go, OthersStay
<1>3. ASSUME NEW p \in Callers, Wait(p) PROVE OthersStay(p) /\ AsksForLock(p)
  BY <1>3 DEF Wait, Enqueue, OthersStay, AsksForLock
<1>4. ASSUME NEW p \in Callers, ClaimTrade(p)
      PROVE  OthersStay(p) /\ (LeavesLocks(p) \/ TakesLock(p))
  <2>1. PICK k \in todo[p] :
             IF Blockers(p, k, "exclusive") # {}
             THEN UNCHANGED <<pc, key, locks>>
             ELSE /\ key' = [key EXCEPT ![p] = k]
                  /\ Grant(p, k, "exclusive")
                  /\ Go(p, "claim delete") \/ Go(p, "claim commit")
    BY <1>4 DEF ClaimTrade
  <2>2. pc[p] = "claim"
    BY <1>4 DEF ClaimTrade
  <2>3. CASE UNCHANGED <<pc, key, locks>>
    BY <2>2, <2>3 DEF OthersStay, LeavesLocks
  <2>4. CASE /\ key' = [key EXCEPT ![p] = k] /\ Grant(p, k, "exclusive")
             /\ Go(p, "claim delete") \/ Go(p, "claim commit")
    <3>1. k \in Keys /\ k \in Objects
      BY <1>0 DEF Objects
    <3>2. OthersStay(p) /\ pc'[p] \in HolderPcs(k)
      BY <1>0, <2>4, <3>1, MigrationAssumption DEF Go, OthersStay, HolderPcs
    <3>3. \A x \in Objects : pc[p] \notin HolderPcs(x)
      BY <2>2 DEF HolderPcs
    <3> QED
      BY <2>4, <3>1, <3>2, <3>3 DEF TakesLock, Modes
  <2> QED
    BY <2>1, <2>3, <2>4
<1>5. ASSUME NEW p \in Callers, IndexPending(p) \/ IndexAudit(p)
      PROVE  OthersStay(p) /\ TakesLock(p)
  <2>1. CASE IndexPending(p)
    <3>1. RunLocked(p, "index pending", {"index audit"}) /\ "index pending" \in LockingPcs
      BY <2>1 DEF IndexPending, LockingPcs
    <3>2. Needs(p).object = "pending_events"
      BY <3>1 DEF RunLocked, Needs, Lock
    <3>3. Follow({"index audit"}, "index pending", "pending_events")
      BY DEF Follow, HolderPcs
    <3> QED
      BY <3>1, <3>2, <3>3, RunIsLockStep
  <2>2. CASE IndexAudit(p)
    <3>1. RunLocked(p, "index audit", {"migrated"}) /\ "index audit" \in LockingPcs
      BY <2>2 DEF IndexAudit, LockingPcs
    <3>2. Needs(p).object = "audit_log"
      BY <3>1 DEF RunLocked, Needs, Lock
    <3>3. Follow({"migrated"}, "index audit", "audit_log")
      BY DEF Follow, HolderPcs
    <3> QED
      BY <3>1, <3>2, <3>3, RunIsLockStep
  <2> QED
    BY <1>5, <2>1, <2>2
<1>6. ASSUME NEW p \in Callers, LockTrade(p) PROVE OthersStay(p) /\ TakesLock(p)
  <2>1. Needs(p).object = key[p] /\ key[p] \in Keys
    BY <1>6 DEF LockTrade, RunLocked, Needs, Lock, TypeInv, KeyChosen
  <2>2. HolderPcs(key[p]) = {"insert", "record", "commit",
                             "claim delete", "claim record", "claim commit"}
    BY <2>1, MigrationAssumption DEF HolderPcs
  <2>3. Follow({"insert", "commit"}, "advisory", key[p])
    BY <2>2 DEF Follow, HolderPcs
  <2> QED
    BY <1>6, <2>1, <2>3, RunIsLockStep DEF LockTrade, LockingPcs
<1>7. ASSUME NEW p \in Callers, InsertPending(p) \/ RecordReconciled(p)
      PROVE  OthersStay(p) /\ TakesLock(p)
  <2>1. CASE InsertPending(p)
    <3>1. RunLocked(p, "insert", {"record", "commit"}) /\ "insert" \in LockingPcs
      BY <2>1 DEF InsertPending, LockingPcs
    <3>2. Needs(p).object = "pending_events"
      BY <3>1 DEF RunLocked, Needs, Lock
    <3>3. Follow({"record", "commit"}, "insert", "pending_events")
      BY DEF Follow, HolderPcs
    <3> QED
      BY <3>1, <3>2, <3>3, RunIsLockStep
  <2>2. CASE RecordReconciled(p)
    <3>1. RunLocked(p, "record", {"commit"}) /\ "record" \in LockingPcs
      BY <2>2 DEF RecordReconciled, LockingPcs
    <3>2. Needs(p).object = "audit_log"
      BY <3>1 DEF RunLocked, Needs, Lock
    <3>3. Follow({"commit"}, "record", "audit_log")
      BY DEF Follow, HolderPcs
    <3> QED
      BY <3>1, <3>2, <3>3, RunIsLockStep
  <2> QED
    BY <1>7, <2>1, <2>2
<1>8. ASSUME NEW p \in Callers, DeleteClaimed(p) \/ RecordBreak(p)
      PROVE  OthersStay(p) /\ TakesLock(p)
  <2>1. CASE DeleteClaimed(p)
    <3>1. RunLocked(p, "claim delete", {"claim record"}) /\ "claim delete" \in LockingPcs
      BY <2>1 DEF DeleteClaimed, LockingPcs
    <3>2. Needs(p).object = "pending_events"
      BY <3>1 DEF RunLocked, Needs, Lock
    <3>3. Follow({"claim record"}, "claim delete", "pending_events")
      BY DEF Follow, HolderPcs
    <3> QED
      BY <3>1, <3>2, <3>3, RunIsLockStep
  <2>2. CASE RecordBreak(p)
    <3>1. RunLocked(p, "claim record", {"claim commit"}) /\ "claim record" \in LockingPcs
      BY <2>2 DEF RecordBreak, LockingPcs
    <3>2. Needs(p).object = "audit_log"
      BY <3>1 DEF RunLocked, Needs, Lock
    <3>3. Follow({"claim commit"}, "claim record", "audit_log")
      BY DEF Follow, HolderPcs
    <3> QED
      BY <3>1, <3>2, <3>3, RunIsLockStep
  <2> QED
    BY <1>8, <2>1, <2>2
<1> QED
  BY <1>1, <1>2, <1>3, <1>4, <1>5, <1>6, <1>7, <1>8
     DEF Next, Proceed, Migrating, Working, LockStep

-----------------------------------------------------------------------------
(***************************************************************************)
(* The order of the locks and of the callers that wait for one.            *)
(***************************************************************************)

LEMMA NextLockOrder == TypeInv /\ LockOrder /\ [Next]_vars => LockOrder'
<1> SUFFICES ASSUME TypeInv, LockOrder, [Next]_vars PROVE LockOrder'
  OBVIOUS
<1>1. ASSUME UNCHANGED vars PROVE LockOrder'
  BY <1>1 DEF vars, locks, LockOrder
<1>2. ASSUME NEW p \in Callers, OthersStay(p), LockStep(p) PROVE LockOrder'
  <2> SUFFICES ASSUME NEW o \in Objects, NEW l \in held'[o] PROVE pc'[l.caller] \in HolderPcs(o)
    BY DEF LockOrder
  <2>1. held[o] \subseteq [caller : Callers, mode : Modes]
    BY DEF TypeInv, LocksTyped
  <2>2. ASSUME l \in held[o], l.caller # p PROVE pc'[l.caller] \in HolderPcs(o)
    BY <1>2, <2>1, <2>2 DEF OthersStay, LockOrder
  <2>3. CASE LeavesLocks(p)
    <3>1. l \in held[o]
      BY <2>3 DEF LeavesLocks, locks
    <3>2. pc[p] \notin HolderPcs(o)
      BY <2>3 DEF LeavesLocks, HolderPcs
    <3> QED
      BY <2>2, <3>1, <3>2 DEF LockOrder
  <2>4. CASE TakesLock(p)
    <3>1. PICK x \in Objects, mode \in Modes :
             /\ Grant(p, x, mode)
             /\ pc'[p] \in HolderPcs(x)
             /\ \A y \in Objects : pc[p] \in HolderPcs(y) => pc'[p] \in HolderPcs(y)
      BY <2>4 DEF TakesLock
    <3>2. held' = [held EXCEPT ![x] = held[x] \union {Request(p, mode)}]
      BY <3>1 DEF Grant
    <3>3. l \in held[o] \/ (o = x /\ l = Request(p, mode))
      BY <3>2 DEF TypeInv, LocksTyped
    <3>4. Request(p, mode).caller = p
      BY DEF Request
    <3> QED
      BY <2>2, <3>1, <3>3, <3>4 DEF LockOrder
  <2>5. CASE AsksForLock(p)
    BY <2>5 DEF AsksForLock, Enqueue, LockOrder
  <2>6. CASE ReleaseAll(p)
    BY <2>2, <2>6 DEF ReleaseAll
  <2> QED
    BY <1>2, <2>3, <2>4, <2>5, <2>6 DEF LockStep
<1> QED
  BY <1>1, <1>2, StepIsLockStep

LEMMA NextQueues == TypeInv /\ Queues /\ [Next]_vars => Queues'
<1> SUFFICES ASSUME TypeInv, Queues, [Next]_vars PROVE Queues'
  OBVIOUS
<1>0. waiting \subseteq Callers /\ ahead \in [Callers -> SUBSET Callers]
  BY DEF TypeInv, TypeOK
<1>1. ASSUME UNCHANGED vars PROVE Queues'
  <2>1. \A q \in Callers : pc'[q] = pc[q] /\ Needs(q)' = Needs(q)
    BY <1>1, NeedsStays DEF vars
  <2>2. waiting' = waiting /\ ahead' = ahead
    BY <1>1 DEF vars, locks
  <2> QED
    BY <1>0, <2>1, <2>2 DEF Queues
<1>2. ASSUME NEW p \in Callers, OthersStay(p), LockStep(p) PROVE Queues'
  <2>1. \A q \in Callers \ {p} : pc'[q] = pc[q] /\ Needs(q)' = Needs(q)
    BY <1>2, NeedsStays DEF OthersStay
  <2>2. CASE LeavesLocks(p)
    <3>1. p \notin waiting
      BY <2>2 DEF LeavesLocks, Queues, LockingPcs
    <3>2. waiting' = waiting /\ ahead' = ahead
      BY <2>2 DEF LeavesLocks, locks
    <3> QED
      BY <1>0, <2>1, <3>1, <3>2 DEF Queues
  <2>3. CASE StopWaiting(p)
    <3>1. waiting' = waiting \ {p} /\ \A q \in Callers \ {p} : ahead'[q] = ahead[q] \ {p}
      BY <2>3 DEF StopWaiting
    <3> QED
      BY <1>0, <2>1, <3>1 DEF Queues
  <2>4. CASE AsksForLock(p)
    <3> DEFINE mine == Before(p, Needs(p).object)
    <3>1. /\ p \notin waiting /\ waiting' = waiting \union {p}
          /\ ahead' = [ahead EXCEPT ![p] = mine]
          /\ UNCHANGED <<pc, key>>
      BY <2>4 DEF AsksForLock, Enqueue, Waiting
    <3>2. mine = {q \in waiting : Needs(q).object = Needs(p).object}
      BY <3>1 DEF Before, Waiting
    <3>3. \A q \in Callers : Needs(q)' = Needs(q)
      BY <3>1, NeedsStays
    <3>4. ahead'[p] = mine /\ \A q \in Callers \ {p} : ahead'[q] = ahead[q]
      BY <1>0, <3>1
    <3>5. \A q \in mine : ahead[q] \subseteq mine
      BY <1>0, <3>2 DEF Queues
    <3>6. \A q \in waiting :
             /\ pc'[q] \in LockingPcs
             /\ ahead'[q] \subseteq waiting' /\ q \notin ahead'[q]
             /\ \A r \in ahead'[q] :
                   ahead'[r] \subseteq ahead'[q] /\ (Needs(r)').object = (Needs(q)').object
      BY <1>0, <3>1, <3>3, <3>4 DEF Queues
    <3>7. /\ pc'[p] \in LockingPcs
          /\ ahead'[p] \subseteq waiting' /\ p \notin ahead'[p]
          /\ \A r \in ahead'[p] :
                ahead'[r] \subseteq ahead'[p] /\ (Needs(r)').object = (Needs(p)').object
      BY <1>0, <2>4, <3>1, <3>2, <3>3, <3>4, <3>5 DEF AsksForLock
    <3> QED
      BY <3>1, <3>6, <3>7 DEF Queues
  <2> QED
    BY <1>2, <2>2, <2>3, <2>4 DEF LockStep, TakesLock, Grant, ReleaseAll
<1> QED
  BY <1>1, <1>2, StepIsLockStep

-----------------------------------------------------------------------------
(***************************************************************************)
(* The inductive invariant.                                                *)
(***************************************************************************)

LEMMA InitInv == Init => Inv
<1> SUFFICES ASSUME Init PROVE Inv
  OBVIOUS
<1>1. TypeInv
  BY MigrationAssumption DEF Init, TypeInv, TypeOK, LocksTyped, KeyChosen
<1>2. Migrated /\ LockOrder /\ Queues
  BY DEF Init, Migrated, MigratedPcs, TablePcs, LockOrder, Queues
<1> QED
  BY <1>1, <1>2 DEF Inv

LEMMA NextInv == Inv /\ [Next]_vars => Inv'
BY NextTypeInv, NextMigrated, NextLockOrder, NextQueues DEF Inv

LEMMA Invariance == Spec => []Inv
BY InitInv, NextInv, PTL DEF Spec

-----------------------------------------------------------------------------
(***************************************************************************)
(* What the invariant says about the system.                               *)
(***************************************************************************)

\* Every variable holds a value of its kind, for every number of callers and keys.
THEOREM TypeCorrect == Spec => []TypeOK
<1>1. Inv => TypeOK
  BY DEF Inv, TypeInv
<1> QED
  BY Invariance, <1>1, PTL

\* No statement of an ingest or a sweep runs on a table before the migration that
\* creates it has committed, whichever call wins the race of the first ones.
THEOREM TablesComeFirst == Spec => []TablesExistWhenUsed
<1>1. Inv => TablesExistWhenUsed
  BY DEF Inv, Migrated, MigratedPcs, TablesExistWhenUsed
<1> QED
  BY Invariance, <1>1, PTL

\* Of the callers that wait for one lock, one came first.
LEMMA QueueHasFirst ==
    ASSUME TypeInv, Queues, NEW S \in SUBSET waiting, S # {}
    PROVE  \E p \in S : \A q \in S : q \notin ahead[p]
<1> DEFINE T == {ahead[p] : p \in S}
           R == StrictSubsetOrdering(Callers)
<1>0. waiting \subseteq Callers /\ ahead \in [Callers -> SUBSET Callers]
  BY DEF TypeInv, TypeOK
<1>1. T # {} /\ T \subseteq SUBSET Callers
  BY <1>0
<1>2. T \subseteq FiniteSubsetsOf(Callers)
  BY <1>1, MigrationAssumption, FS_Subset DEF FiniteSubsetsOf
<1>3. \E m \in T : \A n \in T : ~ (<<n, m>> \in R)
  <2> HIDE DEF T, R
  <2>1. IsWellFoundedOn(R, FiniteSubsetsOf(Callers))
    BY FS_StrictSubsetOrderingWellFounded DEF R
  <2> QED
    BY <1>1, <1>2, <2>1, WFMin
<1>4. PICK p \in S : \A n \in T : ~ (<<n, ahead[p]>> \in R)
  BY <1>3
<1>5. ASSUME NEW q \in S, q \in ahead[p] PROVE FALSE
  <2>1. ahead[q] \subseteq ahead[p] /\ q \notin ahead[q]
    BY <1>5 DEF Queues
  <2>2. <<ahead[q], ahead[p]>> \in R
    BY <1>0, <1>5, <2>1 DEF StrictSubsetOrdering
  <2> QED
    BY <1>4, <2>2
<1> QED
  BY <1>5

\* A caller waits for one that holds the lock, or for one that waits for it too.
LEMMA WaitsForHolderOrQueue ==
    ASSUME Inv, NEW p \in waiting, NEW q, WaitsFor(p, q)
    PROVE  \/ pc[q] \in HolderPcs(Needs(p).object)
           \/ q \in ahead[p] /\ Needs(q).object = Needs(p).object
<1>1. p \in Callers /\ pc[p] \in LockingPcs
  BY DEF Inv, TypeInv, TypeOK, Queues
<1>2. Needs(p).object \in Objects
  BY <1>1, NeedsIsLock DEF Inv
<1>3. PICK l \in held[Needs(p).object]
                 \union {Request(r, Needs(r).mode) : r \in Before(p, Needs(p).object)} :
             l.caller = q
  BY DEF WaitsFor, Blockers
<1>4. CASE l \in held[Needs(p).object]
  BY <1>2, <1>3, <1>4 DEF Inv, LockOrder
<1>5. ASSUME NEW r \in Before(p, Needs(p).object), l = Request(r, Needs(r).mode)
      PROVE  q \in ahead[p] /\ Needs(q).object = Needs(p).object
  BY <1>3, <1>5 DEF Request, Before, Waiting
<1> QED
  BY <1>3, <1>4, <1>5

\* The statements at which the holder of a lock may wait take later locks.
LEMMA HoldersWaitForLaterLocks ==
    ASSUME Inv, NEW p \in waiting, NEW q \in waiting, pc[q] \in HolderPcs(Needs(p).object)
    PROVE  /\ Needs(p).object # "audit_log"
           /\ Needs(p).object = "pending_events" => Needs(q).object = "audit_log"
           /\ Needs(q).object \in {"pending_events", "audit_log"}
<1>1. pc[q] \in LockingPcs
  BY DEF Inv, Queues
<1>2. Needs(p).object # "audit_log"
  BY <1>1 DEF HolderPcs, LockingPcs
<1>3. Needs(p).object = "pending_events" => pc[q] \in {"index audit", "record", "claim record"}
  BY <1>1 DEF HolderPcs, LockingPcs
<1>4. pc[q] \in {"index audit", "insert", "record", "claim delete", "claim record"}
  BY <1>1, <1>2, <1>3 DEF HolderPcs, LockingPcs
<1> QED
  BY <1>2, <1>3, <1>4 DEF Needs, Lock

\* Callers that all wait for the lock of o, and each of them for one of a set of waiting
\* callers, have one that waits for a holder.
LEMMA SomeoneWaitsForHolder ==
    ASSUME Inv, NEW ring \in SUBSET waiting,
           \A p \in ring : \E q \in ring : WaitsFor(p, q),
           NEW p0 \in ring
    PROVE  \E p \in ring, q \in ring :
              Needs(p).object = Needs(p0).object /\ pc[q] \in HolderPcs(Needs(p).object)
<1> DEFINE S == {p \in ring : Needs(p).object = Needs(p0).object}
<1>1. PICK p \in S : \A q \in S : q \notin ahead[p]
  <2>1. S \in SUBSET waiting /\ S # {}
    OBVIOUS
  <2> HIDE DEF S
  <2> QED
    BY <2>1, QueueHasFirst DEF Inv
<1>2. PICK q \in ring : WaitsFor(p, q)
  OBVIOUS
<1>3. p \in ring /\ p \in waiting /\ Needs(p).object = Needs(p0).object
  OBVIOUS
<1>4. CASE pc[q] \in HolderPcs(Needs(p).object)
  BY <1>3, <1>4
<1>5. CASE q \in ahead[p] /\ Needs(q).object = Needs(p).object
  BY <1>1, <1>3, <1>5
<1> QED
  BY <1>2, <1>3, <1>4, <1>5, WaitsForHolderOrQueue

\* No calls wait for each other in a circle: migrations, ingests and sweeps, however
\* many run and whatever trades they lock, take their locks in one order.
THEOREM DeadlockFree == Spec => []NoDeadlock
<1>1. ASSUME Inv, NEW ring \in SUBSET Callers, ring # {},
             \A p \in ring : \E q \in ring : WaitsFor(p, q)
      PROVE  FALSE
  <2>1. ring \in SUBSET waiting
    BY <1>1 DEF WaitsFor, Waiting
  <2>2. ASSUME NEW p0 \in ring
        PROVE  \E p \in ring, q \in ring :
                  Needs(p).object = Needs(p0).object /\ pc[q] \in HolderPcs(Needs(p).object)
    BY <1>1, <2>1, <2>2, SomeoneWaitsForHolder
  <2>3. ASSUME NEW p0 \in ring PROVE Needs(p0).object # "audit_log"
    BY <1>1, <2>1, <2>2, HoldersWaitForLaterLocks
  <2>4. ASSUME NEW p0 \in ring PROVE Needs(p0).object # "pending_events"
    <3>1. PICK p \in ring, q \in ring :
             Needs(p).object = Needs(p0).object /\ pc[q] \in HolderPcs(Needs(p).object)
      BY <2>2
    <3>2. Needs(p).object # "pending_events"
      BY <1>1, <2>1, <2>3, <3>1, HoldersWaitForLaterLocks
    <3> QED
      BY <3>1, <3>2
  <2>5. PICK p0 \in ring : TRUE
    BY <1>1
  <2>6. PICK p \in ring, q \in ring :
           Needs(p).object = Needs(p0).object /\ pc[q] \in HolderPcs(Needs(p).object)
    BY <2>2, <2>5
  <2> QED
    BY <1>1, <2>1, <2>3, <2>4, <2>6, HoldersWaitForLaterLocks
<1>2. ASSUME Inv PROVE NoDeadlock
  <2> SUFFICES ASSUME NEW ring \in (SUBSET Callers) \ {{}},
                      \A p \in ring : \E q \in ring : WaitsFor(p, q)
               PROVE  FALSE
    BY DEF NoDeadlock
  <2> QED
    BY <1>1, <1>2
<1> QED
  BY Invariance, <1>2, PTL

\* The locks that are held at one time agree with each other: no caller creates an index
\* on a table another writes, and no two work on one trade.
HeldLocksAgree ==
    \A o \in Objects : \A l, m \in held[o] : ~Blocks(l, m.caller, m.mode)

THEOREM LocksExclude == Spec => []HeldLocksAgree
<1>1. Init => HeldLocksAgree
  BY DEF Init, HeldLocksAgree
<1>2. ASSUME Inv, HeldLocksAgree, [Next]_vars PROVE HeldLocksAgree'
  <2>1. ASSUME NEW p \in Callers, LockStep(p) PROVE HeldLocksAgree'
    <3>1. CASE held' = held
      BY <1>2, <3>1 DEF HeldLocksAgree
    <3>2. CASE ReleaseAll(p)
      BY <1>2, <3>2 DEF ReleaseAll, HeldLocksAgree
    <3>3. ASSUME NEW x \in Objects, NEW mode, Grant(p, x, mode) PROVE HeldLocksAgree'
      <4> DEFINE new == Request(p, mode)
      <4>1. held' = [held EXCEPT ![x] = held[x] \union {new}]
        BY <3>3 DEF Grant
      <4>2. new.caller = p /\ new.mode = mode
        BY DEF Request
      <4>3. \A l \in held[x] : ~Blocks(l, p, mode)
        BY <3>3 DEF Grant, Blockers
      <4>4. \A l \in held[x] : ~Blocks(l, new.caller, new.mode) /\ ~Blocks(new, l.caller, l.mode)
        BY <4>2, <4>3 DEF Blocks, Conflict
      <4>5. ~Blocks(new, new.caller, new.mode)
        BY DEF Blocks
      <4>6. ASSUME NEW o \in Objects, NEW l \in held'[o], NEW m \in held'[o]
            PROVE  ~Blocks(l, m.caller, m.mode)
        <5> HIDE DEF new
        <5>1. held'[o] = held[o] \/ (o = x /\ held'[o] = held[x] \union {new})
          BY <1>2, <4>1 DEF Inv, TypeInv, LocksTyped
        <5> QED
          BY <1>2, <4>4, <4>5, <4>6, <5>1 DEF HeldLocksAgree
      <4> QED
        BY <4>6 DEF HeldLocksAgree
    <3> QED
      BY <2>1, <3>1, <3>2, <3>3 DEF LockStep, LeavesLocks, locks, TakesLock, AsksForLock, Enqueue
  <2>2. CASE UNCHANGED vars
    BY <1>2, <2>2 DEF vars, locks, HeldLocksAgree
  <2> QED
    BY <1>2, <2>1, <2>2, StepIsLockStep DEF Inv
<1> QED
  BY <1>1, <1>2, Invariance, PTL DEF Spec
=============================================================================
