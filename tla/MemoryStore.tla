----------------------------- MODULE MemoryStore -----------------------------
(***************************************************************************)
(* An engine over the in-memory store, the store the tests of both         *)
(* toolsets run on.  Every operation of the store is atomic (Go: under the *)
(* store's mutex; Python: one thread), so each is a function of the state  *)
(* it finds: ev are the pending rows of all trades, log is the audit log,  *)
(* oldest entry first.                                                     *)
(***************************************************************************)
EXTENDS EventRows, Sequences

CONSTANTS
    Expected,   \* expected_sources
    Window      \* correlation_window_seconds

ASSUME MemoryAssumption ==
    /\ Expected \in (SUBSET Sources) \ {{}}
    /\ Window \in Nat \ {0}

-----------------------------------------------------------------------------
InAudit(log, t) == \E i \in DOMAIN log : log[i].trade = t

(***************************************************************************)
(* Ingest of an event of an expected source: the state it leaves.          *)
(***************************************************************************)
Ingested(impl, ev, log, t, s, now) ==
    LET existing == RowsOf(ev, t)
        row      == Merge(impl, existing, NewRow(t, s, now, Window))
        rows     == existing \union {row}
    IN  IF InAudit(log, t) \/ s \in SourcesOf(existing)
        THEN [events |-> ev, audit |-> log]
        ELSE IF HasEverySource(rows, Expected)
        THEN [events |-> ev \ existing,
              audit  |-> Append(log, BuildReconciled(impl, t, ExpectedEvents(rows, Expected), now))]
        ELSE [events |-> ev \union {row}, audit |-> log]

\* FAULTY VARIANT of Due: a deadline of now is not due yet.
DueStrictly(ev, now) ==
    {t \in Trades : RowsOf(ev, t) # {} /\ EarliestDeadline(RowsOf(ev, t)) < now}

Due(ev, now) ==
    {t \in Trades : RowsOf(ev, t) # {} /\ EarliestDeadline(RowsOf(ev, t)) <= now}

(***************************************************************************)
(* SweepExpired: one break for every due trade, in the order of            *)
(* their trade identifiers.                                                *)
(***************************************************************************)
InOrder(T) ==
    [i \in 1..Cardinality(T) |-> CHOOSE t \in T : Cardinality({u \in T : u < t}) = i - 1]

Breaks(ev, now) ==
    LET order == InOrder(Due(ev, now))
    IN  [i \in DOMAIN order |-> BuildBreak(order[i], RowsOf(ev, order[i]), Expected, now)]

Swept(ev, log, now) ==
    [events |-> {r \in ev : r.trade \notin Due(ev, now)}, audit |-> log \o Breaks(ev, now)]
=============================================================================
