----------------------------- MODULE Correlation -----------------------------
(***************************************************************************)
(* What a store of the event correlator promises its engine (interface     *)
(* store.Store): an event is recorded, a trade is reconciled and expired   *)
(* trades are broken, each in one indivisible step, and nothing else ever  *)
(* happens to the pending rows or the audit log.                           *)
(*                                                                         *)
(* The promise is the same for both implementations: it fixes whether an   *)
(* event is stored and which outcome a trade gets, of a row's stamps only  *)
(* that its deadline is no later than those already there, and of a match  *)
(* duration that one of the two implementations computes it.               *)
(***************************************************************************)
EXTENDS EventRows, Sequences

CONSTANT ExpectedSets   \* the sets of expected sources in use

VARIABLES
    pending,    \* the rows of trades that are not finalized
    log         \* the outcomes, in the order they were written

vars == <<pending, log>>

Finalized(t) == \E i \in DOMAIN log : log[i].trade = t

Init == pending = {} /\ log = <<>>

(***************************************************************************)
(* A row that may be stored: its trade is open, its key is new, and it     *)
(* does not extend the window.                                             *)
(***************************************************************************)
Storable(row) ==
    /\ ~Finalized(row.trade)
    /\ \A r \in RowsOf(pending, row.trade) :
          r.source # row.source /\ row.deadline <= r.deadline

(***************************************************************************)
(* An event is recorded and its trade still waits for a source.            *)
(***************************************************************************)
Record(row) ==
    /\ Storable(row)
    /\ \E expected \in ExpectedSets :
          /\ row.source \in expected
          /\ ~HasEverySource(RowsOf(pending, row.trade) \union {row}, expected)
    /\ pending' = pending \union {row}
    /\ UNCHANGED log

(***************************************************************************)
(* An event completes its trade: the rows go and the outcome is written.   *)
(***************************************************************************)
Reconcile(row) ==
    /\ Storable(row)
    /\ \E impl \in {"go", "python"}, expected \in ExpectedSets, now \in Stamps :
          LET rows == RowsOf(pending, row.trade) \union {row} IN
          /\ row.source \in expected
          /\ HasEverySource(rows, expected)
          /\ log' = Append(log, BuildReconciled(impl, row.trade,
                                                ExpectedEvents(rows, expected), now))
    /\ pending' = pending \ RowsOf(pending, row.trade)

(***************************************************************************)
(* A sweep claims some of the trades that are due: their rows go and one   *)
(* break is written for each, in some order.                               *)
(***************************************************************************)
Orders(T) == {o \in [1..Cardinality(T) -> T] : \A i, j \in DOMAIN o : o[i] = o[j] => i = j}

Break(T, now) ==
    /\ \A t \in T : /\ RowsOf(pending, t) # {}
                    /\ EarliestDeadline(RowsOf(pending, t)) <= now
    /\ pending' = {r \in pending : r.trade \notin T}
    /\ \E o \in Orders(T), config \in [T -> ExpectedSets] :
          log' = log \o [i \in DOMAIN o |->
                             BuildBreak(o[i], RowsOf(pending, o[i]), config[o[i]], now)]

Next ==
    \/ \E row \in Row : Record(row) \/ Reconcile(row)
    \/ \E T \in (SUBSET Trades) \ {{}}, now \in Stamps : Break(T, now)

Spec == Init /\ [][Next]_vars

-----------------------------------------------------------------------------
(***************************************************************************)
(* PROPERTIES                                                              *)
(***************************************************************************)

\* What the promise is for: a trade gets one outcome, and once it has one no
\* row of it is pending.
OneOutcome ==
    /\ \A i, j \in DOMAIN log : log[i].trade = log[j].trade => i = j
    /\ \A t \in Trades : Finalized(t) => RowsOf(pending, t) = {}
=============================================================================
