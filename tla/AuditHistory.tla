------------------------------ MODULE AuditHistory ------------------------------
(***************************************************************************)
(* get_audit_history beside the calls that write the audit log.            *)
(*                                                                         *)
(* A row of audit_log gets recorded_at from DEFAULT NOW(), which is the    *)
(* time its transaction BEGAN, before the transaction waited for the       *)
(* trade's lock, and a random UUID as its id.  A history query is one      *)
(* SELECT of the committed rows, ordered by (recorded_at, id) descending   *)
(* and cut at a limit.  This module asks what callers may conclude from    *)
(* the order and the completeness of the answers.                          *)
(*                                                                         *)
(* Of ingest and sweep only the transactions' begin, lock, insert and end  *)
(* are kept: whether a transaction finds a complete or a due trade is left *)
(* open (PostgresStore has the details), except that a trade has at most   *)
(* one entry.                                                              *)
(***************************************************************************)
EXTENDS Integers, Sequences, FiniteSetsExt, Functions

CONSTANTS
    Trades,         \* trade identifiers
    Ingesters,      \* callers of ingest_trade_event
    Sweepers,       \* callers of sweep_expired_trades
    Readers,        \* callers of get_audit_history
    TradeFilters, OutcomeFilters,  \* the filters readers pass
    RawLimits,      \* the "limit" arguments readers pass
    None,           \* an argument left out; no value
    DefaultLimit,   \* 100
    MaxLimit,       \* 500
    TiesHappen,     \* whether two transactions may read the same time
    MaxClock,       \* bound: how far the clock moves while no transaction commits
    MaxQueries,     \* bound: history queries in a behaviour
    MaxFails        \* bound: failed calls

Recorders == Ingesters \union Sweepers
Outcomes  == {"reconciled", "break"}
Ids       == 1..Cardinality(Trades)

Entry == [trade: Trades, outcome: Outcomes, recordedAt: Nat, id: Ids]

ASSUME AuditAssumption ==
    /\ IsFiniteSet(Trades)
    /\ Ingesters \intersect Sweepers = {} /\ Recorders \intersect Readers = {}
    /\ TradeFilters \subseteq Trades \union {None}
    /\ OutcomeFilters \subseteq Outcomes \union {None}
    /\ RawLimits \subseteq Int \union {None}
    /\ None \notin Int \union Trades \union Outcomes \union Entry
    /\ DefaultLimit \in 1..MaxLimit /\ MaxLimit \in Nat
    /\ TiesHappen \in BOOLEAN
    /\ MaxClock \in Nat /\ MaxQueries \in Nat /\ MaxFails \in Nat

VARIABLES
    dbClock,    \* the database server's clock
    log,        \* the committed rows of audit_log in the order of their commits
    pc,         \* what each caller does next
    trade,      \* the trade a recorder's transaction is about
    begunAt,    \* the server's clock when that transaction began: its NOW()
    row,        \* the row the open transaction has inserted
    claimed,    \* trades whose break a sweep has committed and not yet reported
    asked,      \* the query a reader's handler passed to the store
    answer,     \* the reply to a reader's last query
    earlier,    \* history: its reply before, when that was to the same query
    reported,   \* history: trades whose outcome a call has replied
    known,      \* history: what was reported when a call started
    fence,      \* history: what was reported when the call that wrote a row started
    queries, fails  \* history: what the bounds count

transaction == <<trade, begunAt, row>>
reading     == <<asked, answer, earlier>>
counts      == <<queries, fails>>
vars        == <<dbClock, log, pc, transaction, claimed, reading, reported, known,
                 fence, counts>>

-----------------------------------------------------------------------------
(***************************************************************************)
(* The limit of a query.  Handlers refuse limits outside 1..MaxLimit; the  *)
(* stores clamp what they are given, each in its own way.                  *)
(***************************************************************************)
LimitAccepted(raw) == raw = None \/ raw \in 1..MaxLimit

GoStoreLimit(limit) ==
    IF limit <= 0 THEN DefaultLimit ELSE Min({limit, MaxLimit})

PyStoreLimit(limit) == Min({Max({limit, 1}), MaxLimit})

StoreLimit(impl, raw) ==
    LET limit == IF raw = None THEN DefaultLimit ELSE raw
    IN  IF impl = "go" THEN GoStoreLimit(limit) ELSE PyStoreLimit(limit)

(***************************************************************************)
(* The SELECT.  Rows that compare equal may come in any order.             *)
(***************************************************************************)
Matches(e, query) ==
    /\ query.trade \in {None, e.trade}
    /\ query.outcome \in {None, e.outcome}

Matching(query) == {e \in Range(log) : Matches(e, query)}

\* FAULTY VARIANTS of ListedBefore: ORDER BY id DESC; ORDER BY recorded_at DESC.
ListedByIdOnly(e, f) == e.id > f.id
ListedByTimeOnly(e, f) == e.recordedAt > f.recordedAt

ListedBefore(e, f) ==
    \/ e.recordedAt > f.recordedAt
    \/ e.recordedAt = f.recordedAt /\ e.id > f.id

\* FAULTY VARIANT of Listings: the limit is applied before the order.
ListingsCutFirst(rows, limit) ==
    {s \in [1..Min({limit, Cardinality(rows)}) -> rows] :
        /\ IsInjective(s)
        /\ \A i, j \in DOMAIN s : i < j => ~ListedBefore(s[j], s[i])}

Listings(rows, limit) ==
    {s \in [1..Min({limit, Cardinality(rows)}) -> rows] :
        /\ IsInjective(s)
        /\ \A i, j \in DOMAIN s : i < j => ~ListedBefore(s[j], s[i])
        /\ \A e \in rows \ Range(s), i \in DOMAIN s : ~ListedBefore(e, s[i])}

(***************************************************************************)
(* GetAudit of the in-memory stores the engines' tests run on: the log     *)
(* read backwards.                                                         *)
(***************************************************************************)
MemoryListing(query) ==
    LET newest  == [i \in DOMAIN log |-> log[Len(log) + 1 - i]]
        matched == SelectSeq(newest, LAMBDA e : Matches(e, query))
    IN  SubSeq(matched, 1, Min({query.limit, Len(matched)}))

-----------------------------------------------------------------------------
Go(p, label) == pc' = [pc EXCEPT ![p] = label]

HoldsLock(p, t) == pc[p] \in {"record", "commit"} /\ trade[p] = t
LockFree(p, t) == \A q \in Recorders \ {p} : ~HoldsLock(q, t)

Finalized(t) == \E e \in Range(log) : e.trade = t

EndTransaction(p) ==
    /\ trade' = [trade EXCEPT ![p] = None]
    /\ begunAt' = [begunAt EXCEPT ![p] = 0]
    /\ row' = [row EXCEPT ![p] = None]

\* Where a transaction leaves its call: an ingest call is over, a sweep goes on
\* to the next trade of its list.
AfterTransaction(p) ==
    IF p \in Sweepers
    THEN Go(p, "begin") /\ UNCHANGED known
    ELSE Go(p, "idle") /\ known' = [known EXCEPT ![p] = {}]

Init ==
    /\ dbClock = 0 /\ log = <<>>
    /\ pc = [p \in Recorders \union Readers |-> "idle"]
    /\ trade = [p \in Recorders |-> None]
    /\ begunAt = [p \in Recorders |-> 0]
    /\ row = [p \in Recorders |-> None]
    /\ claimed = [p \in Recorders |-> {}]
    /\ asked = [r \in Readers |-> None]
    /\ answer = [r \in Readers |-> None] /\ earlier = [r \in Readers |-> None]
    /\ reported = {}
    /\ known = [p \in Recorders \union Readers |-> {}]
    /\ fence = [t \in Trades |-> {}]
    /\ queries = 0 /\ fails = 0

StartCall(p) ==
    /\ pc[p] = "idle"
    /\ known' = [known EXCEPT ![p] = reported]
    /\ Go(p, "begin")
    /\ UNCHANGED <<dbClock, log, transaction, claimed, reading, reported, fence, counts>>

(***************************************************************************)
(* Transactions that begin together may read the same microsecond, when    *)
(* the model lets them.                                                    *)
(***************************************************************************)
Begin(p) ==
    /\ pc[p] = "begin"
    /\ \E t \in Trades \ claimed[p] : trade' = [trade EXCEPT ![p] = t]
    /\ \/ TiesHappen /\ dbClock' = dbClock
       \/ dbClock < MaxClock /\ dbClock' = dbClock + 1
    /\ begunAt' = [begunAt EXCEPT ![p] = dbClock']
    /\ Go(p, "lock")
    /\ UNCHANGED <<log, row, claimed, reading, reported, known, fence, counts>>

(***************************************************************************)
(* With the lock of its trade the transaction finds something to record,   *)
(* or nothing: an event already stored, a trade already finalized, still   *)
(* incomplete or not due.  A sweep skips a trade whose lock is held.       *)
(***************************************************************************)
Lock(p) ==
    /\ pc[p] = "lock"
    /\ LockFree(p, trade[p])
    /\ ~Finalized(trade[p])
    /\ Go(p, "record")
    /\ UNCHANGED <<dbClock, log, transaction, claimed, reading, reported, known,
                   fence, counts>>

NothingToRecord(p) ==
    /\ pc[p] = "lock"
    /\ p \in Sweepers \/ LockFree(p, trade[p])
    /\ EndTransaction(p)
    /\ AfterTransaction(p)
    /\ UNCHANGED <<dbClock, log, claimed, reading, reported, fence, counts>>

RecordAudit(p) ==
    /\ pc[p] = "record"
    /\ \E id \in Ids \ ({e.id : e \in Range(log)}
                        \union {row[q].id : q \in {q \in Recorders : row[q] # None}}) :
          row' = [row EXCEPT ![p] =
                    [trade |-> trade[p],
                     outcome |-> IF p \in Sweepers THEN "break" ELSE "reconciled",
                     recordedAt |-> begunAt[p],
                     id |-> id]]
    /\ Go(p, "commit")
    /\ UNCHANGED <<dbClock, log, trade, begunAt, claimed, reading, reported, known,
                   fence, counts>>

\* A commit waits for the disk and for a round trip: the clock moves on.
WriteRow(p) ==
    /\ dbClock' = dbClock + 1
    /\ log' = Append(log, row[p])
    /\ fence' = [fence EXCEPT ![trade[p]] = known[p]]

(***************************************************************************)
(* An ingest call replies "reconciled" after its commit; a sweep replies   *)
(* with all its breaks when its list is done.                              *)
(***************************************************************************)
Commit(p) ==
    /\ pc[p] = "commit"
    /\ WriteRow(p)
    /\ IF p \in Sweepers
       THEN /\ claimed' = [claimed EXCEPT ![p] = @ \union {trade[p]}]
            /\ UNCHANGED reported
       ELSE /\ reported' = reported \union {trade[p]}
            /\ UNCHANGED claimed
    /\ EndTransaction(p)
    /\ AfterTransaction(p)
    /\ UNCHANGED <<reading, counts>>

FinishSweep(p) ==
    /\ pc[p] = "begin"
    /\ p \in Sweepers
    /\ reported' = reported \union claimed[p]
    /\ claimed' = [claimed EXCEPT ![p] = {}]
    /\ known' = [known EXCEPT ![p] = {}]
    /\ Go(p, "idle")
    /\ UNCHANGED <<dbClock, log, transaction, reading, fence, counts>>

(***************************************************************************)
(* A statement fails or the caller dies: the transaction rolls back, and a *)
(* sweep loses its answer.  COMMIT may fail after it was applied.          *)
(***************************************************************************)
FailCall(p) ==
    /\ pc[p] # "idle"
    /\ fails < MaxFails
    /\ fails' = fails + 1
    /\ \/ pc[p] = "commit" /\ WriteRow(p)
       \/ UNCHANGED <<dbClock, log, fence>>
    /\ EndTransaction(p)
    /\ claimed' = [claimed EXCEPT ![p] = {}]
    /\ known' = [known EXCEPT ![p] = {}]
    /\ Go(p, "idle")
    /\ UNCHANGED <<reading, reported, queries>>

-----------------------------------------------------------------------------
(***************************************************************************)
(* get_audit_history, Go or Python.                                        *)
(***************************************************************************)
StartQuery(r) ==
    /\ pc[r] = "idle"
    /\ queries < MaxQueries
    /\ queries' = queries + 1
    /\ \E impl \in {"go", "python"}, t \in TradeFilters, o \in OutcomeFilters,
          raw \in RawLimits :
          LET query == [trade |-> t, outcome |-> o, limit |-> StoreLimit(impl, raw)] IN
          /\ LimitAccepted(raw)
          /\ asked' = [asked EXCEPT ![r] = query]
          /\ earlier' = [earlier EXCEPT ![r] = IF query = asked[r] THEN answer[r] ELSE None]
    /\ answer' = [answer EXCEPT ![r] = None]
    /\ known' = [known EXCEPT ![r] = reported]
    /\ Go(r, "select")
    /\ UNCHANGED <<dbClock, log, transaction, claimed, reported, fence, fails>>

Select(r) ==
    /\ pc[r] = "select"
    /\ \E s \in Listings(Matching(asked[r]), asked[r].limit) :
          answer' = [answer EXCEPT ![r] = s]
    /\ Go(r, "idle")
    /\ UNCHANGED <<dbClock, log, transaction, claimed, asked, earlier, reported, known,
                   fence, counts>>

\* INVALID_LIMIT before the query, or AUDIT_QUERY_FAILED by it.
RefuseQuery(r) ==
    /\ \/ pc[r] = "idle" /\ queries < MaxQueries /\ queries' = queries + 1
          /\ (\E raw \in RawLimits : ~LimitAccepted(raw))
          /\ UNCHANGED fails
       \/ pc[r] = "select" /\ fails < MaxFails /\ fails' = fails + 1
          /\ UNCHANGED queries
    /\ answer' = [answer EXCEPT ![r] = None]
    /\ earlier' = [earlier EXCEPT ![r] = None]
    /\ asked' = [asked EXCEPT ![r] = None]
    /\ Go(r, "idle")
    /\ UNCHANGED <<dbClock, log, transaction, claimed, reported, known, fence>>

Next ==
    \/ \E p \in Recorders :
          \/ StartCall(p) \/ Begin(p) \/ Lock(p) \/ NothingToRecord(p)
          \/ RecordAudit(p) \/ Commit(p) \/ FinishSweep(p) \/ FailCall(p)
    \/ \E r \in Readers : StartQuery(r) \/ Select(r) \/ RefuseQuery(r)

Spec == Init /\ [][Next]_vars

-----------------------------------------------------------------------------
(***************************************************************************)
(* PROPERTIES                                                              *)
(***************************************************************************)
Answered(r) == answer[r] # None
Listed(r, t) == \E e \in Range(answer[r]) : e.trade = t
Full(r) == Len(answer[r]) = asked[r].limit

\* A query sees every outcome that was reported before the query was made,
\* unless the answer is full with rows at least as recent as the one left out.
ReportedIsListed ==
    \A r \in Readers, e \in Range(log) :
        /\ Answered(r)
        /\ e.trade \in known[r]
        /\ Matches(e, asked[r])
        => \/ Listed(r, e.trade)
           \/ Full(r) /\ \A f \in Range(answer[r]) : f.recordedAt >= e.recordedAt

\* The outcome of a call that began after another outcome had been reported is
\* listed above that outcome, whatever the calls waited for in between.
RealTimeOrder ==
    \A r \in Readers :
        Answered(r) =>
            \A i, j \in DOMAIN answer[r] :
                i < j => answer[r][i].trade \notin fence[answer[r][j].trade]

\* Two answers to the same query agree: a row of the earlier one is in the later
\* one unless newer rows fill it, and rows that both list are in the same order.
AnswersAgree ==
    \A r \in Readers :
        Answered(r) /\ earlier[r] # None =>
            /\ ~Full(r) => Range(earlier[r]) \subseteq Range(answer[r])
            /\ \A i, j \in DOMAIN earlier[r], k, l \in DOMAIN answer[r] :
                  /\ earlier[r][i] = answer[r][k]
                  /\ earlier[r][j] = answer[r][l]
                  /\ i < j
                  => k < l

\* Answers list entries newest first: as the in-memory store does, a later commit
\* comes before an earlier one.
NewestFirst ==
    [][\A r \in Readers : Select(r) => answer'[r] = MemoryListing(asked[r])]_vars
=============================================================================
