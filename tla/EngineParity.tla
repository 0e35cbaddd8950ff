---------------------------- MODULE EngineParity ----------------------------
(***************************************************************************)
(* The Go and the Python engine side by side: both are given the same      *)
(* calls with the same time stamps, each over an in-memory store of its    *)
(* own.  A call's time stamp was taken before the store was locked, so the *)
(* stamps of successive calls need not increase.                           *)
(***************************************************************************)
EXTENDS MemoryStore

Engines == {"go", "python"}

VARIABLES
    events, audit,  \* the store of each engine
    last,           \* the time stamp of the last call
    ordered         \* history: no call had an older stamp than the one before

vars == <<events, audit, last, ordered>>

Init ==
    /\ events = [e \in Engines |-> {}]
    /\ audit = [e \in Engines |-> <<>>]
    /\ last = 0
    /\ ordered = TRUE

Stamped(now) ==
    /\ last' = now
    /\ ordered' = (ordered /\ last <= now)

Ingest(t, s, now) ==
    LET result(e) == Ingested(e, events[e], audit[e], t, s, now) IN
    /\ events' = [e \in Engines |-> result(e).events]
    /\ audit' = [e \in Engines |-> result(e).audit]
    /\ Stamped(now)

Sweep(now) ==
    LET result(e) == Swept(events[e], audit[e], now) IN
    /\ events' = [e \in Engines |-> result(e).events]
    /\ audit' = [e \in Engines |-> result(e).audit]
    /\ Stamped(now)

(***************************************************************************)
(* Ingest stamps leave room for the deadline.                              *)
(***************************************************************************)
Next ==
    \/ \E t \in Trades, s \in Expected, now \in 0..Horizon - Window : Ingest(t, s, now)
    \/ \E now \in Stamps : Sweep(now)

Spec == Init /\ [][Next]_vars

-----------------------------------------------------------------------------
(***************************************************************************)
(* PROPERTIES                                                              *)
(***************************************************************************)
GoPromise == INSTANCE Correlation WITH
    pending <- events["go"], log <- audit["go"], ExpectedSets <- {Expected}
PyPromise == INSTANCE Correlation WITH
    pending <- events["python"], log <- audit["python"], ExpectedSets <- {Expected}

\* Each of the two engines keeps the promise of the store interface, although
\* they compute the stamps of a trade's later rows differently: each of its
\* operations is one step of Correlation, or changes nothing.
ImplementsCorrelation == GoPromise!Spec /\ PyPromise!Spec

\* A sweep by either engine leaves no trade behind whose window has elapsed,
\* those with a deadline at the very time of the sweep included: afterwards
\* every such trade is finalized.
SweepIsThorough ==
    [][\A now \in Stamps : Sweep(now) =>
          \A e \in Engines : \A r \in events[e] : r.deadline <= now =>
              InAudit(audit'[e], r.trade) /\ RowsOf(events'[e], r.trade) = {}]_vars

\* An entry of the Python engine next to the Go engine's: they are equal, or a
\* duration the float product puts below its whole milliseconds is one less.
SameEntry(go, python) ==
    \/ go = python
    \/ /\ go.outcome = "reconciled"
       /\ go.detail.matchDuration * Milli \in FallsShort
       /\ python = [go EXCEPT !.detail.matchDuration = @ - 1]

SameLog(go, python) ==
    /\ Len(go) = Len(python)
    /\ \A i \in DOMAIN go : SameEntry(go[i], python[i])

\* "Both implementations expose the same tool names, inputs, results"
\* (README.md:14): as long as calls come in the order of their time stamps the
\* two write the same outcomes in the same order, with the same sources, missing
\* sources and window expiries, although their rows differ; match durations
\* differ by the one millisecond that Python's float product may lose.
SameAudit == ordered => SameLog(audit["go"], audit["python"])
=============================================================================
