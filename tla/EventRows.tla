------------------------------ MODULE EventRows ------------------------------
(***************************************************************************)
(* The data of the event correlator and the functions its engines and      *)
(* stores compute from it: the rows of table pending_events, the entries   *)
(* of table audit_log, the rule that decides a new row's deadline, and the *)
(* audit entries built when a trade reconciles or breaks.                  *)
(*                                                                         *)
(* There are two implementations of the toolset, "go" and "python", over   *)
(* the same tables.  Where they compute different values the operator      *)
(* takes the implementation as its first parameter.  A payload is carried  *)
(* through unread by the code and is left out; a list of sources that the  *)
(* code sorts for output is a set.                                         *)
(***************************************************************************)
EXTENDS Integers, FiniteSetsExt

CONSTANTS
    Trades,     \* trade identifiers; numbers, because sweeps visit them in order
    Sources,    \* source system names
    Horizon,    \* the last time stamp of a model
    Milli,      \* time stamps per millisecond
    FallsShort  \* durations of whole milliseconds that a float product puts below

ASSUME RowsAssumption ==
    /\ Trades \subseteq Nat
    /\ Horizon \in Nat

ASSUME MillisecondsAssumption ==
    /\ Milli \in Nat \ {0}
    /\ \A d \in FallsShort : d \in Int /\ d # 0 /\ d % Milli = 0

Stamps == 0..Horizon

(***************************************************************************)
(* A pending event.  Its key (trade, source) is the table's primary key.   *)
(***************************************************************************)
Row == [trade: Trades, source: Sources, firstSeen: Stamps, deadline: Stamps]

(***************************************************************************)
(* An audit entry.  "detail" is the JSON document of the entry: a          *)
(* ReconciledEvent with its match duration, or a BreakEvent with the       *)
(* missing sources and the reported window expiry.                         *)
(***************************************************************************)
ReconciledDetail == [matchDuration: Int]
BreakDetail == [missing: SUBSET Sources, windowExpiry: Stamps]
AuditEntry == [trade: Trades, outcome: {"reconciled", "break"},
               sources: SUBSET Sources, at: Stamps,
               detail: ReconciledDetail \union BreakDetail]

-----------------------------------------------------------------------------
(***************************************************************************)
(* FAULTY VARIANTS of definitions below, with a bug the code could have.   *)
(* Each violates a property that the definition satisfies.                 *)
(***************************************************************************)

\* One expected source is enough.
HasSomeSource(rows, expected) == expected \intersect {r.source : r \in rows} # {}

\* The test fails when exactly the expected sources have reported.
HasMoreThanEverySource(rows, expected) ==
    expected \subseteq {r.source : r \in rows} /\ expected # {r.source : r \in rows}

\* The window is a tick too long.
LongWindowRow(t, s, now, window) ==
    [trade |-> t, source |-> s, firstSeen |-> now, deadline |-> now + window + 1]

\* Go without the clamp: every event starts a window of its own.
UnclampedDeadline(existing, row) == row

\* Python with its own time stamp next to the inherited deadline.
InheritOnlyDeadline(existing, row) ==
    IF existing = {} THEN row
    ELSE [row EXCEPT !.deadline = Min({r.deadline : r \in existing})]

\* Python inheriting the latest deadline.
InheritLatest(existing, row) ==
    IF existing = {} THEN row
    ELSE [row EXCEPT !.firstSeen = Min({r.firstSeen : r \in existing}),
                     !.deadline  = Max({row.deadline} \union {r.deadline : r \in existing})]

-----------------------------------------------------------------------------
(***************************************************************************)
(* Queries over a set of rows.                                             *)
(***************************************************************************)
RowsOf(rows, t) == {r \in rows : r.trade = t}

SourcesOf(rows) == {r.source : r \in rows}

HasEverySource(rows, expected) == expected \subseteq SourcesOf(rows)

ExpectedEvents(rows, expected) == {r \in rows : r.source \in expected}

EarliestDeadline(rows) == Min({r.deadline : r \in rows})

-----------------------------------------------------------------------------
(***************************************************************************)
(* The row an ingest call wants to insert, before it has looked at the     *)
(* rows of the trade that are already there.                               *)
(***************************************************************************)
NewRow(t, s, now, window) ==
    [trade |-> t, source |-> s, firstSeen |-> now, deadline |-> now + window]

(***************************************************************************)
(* Go: the row keeps its own first_seen; its deadline is lowered to any    *)
(* earlier deadline among the existing rows.                               *)
(***************************************************************************)
ClampDeadline(existing, row) ==
    [row EXCEPT !.deadline = Min({row.deadline} \union {r.deadline : r \in existing})]

(***************************************************************************)
(* Python: with rows already there, both stamps are taken from them and    *)
(* the call's own time is dropped.                                         *)
(***************************************************************************)
InheritStamps(existing, row) ==
    IF existing = {} THEN row
    ELSE [row EXCEPT !.firstSeen = Min({r.firstSeen : r \in existing}),
                     !.deadline  = EarliestDeadline(existing)]

Merge(impl, existing, row) ==
    IF impl = "go" THEN ClampDeadline(existing, row) ELSE InheritStamps(existing, row)

-----------------------------------------------------------------------------
(***************************************************************************)
(* Go: the whole milliseconds of a duration, the rest cut off.             *)
(***************************************************************************)
Milliseconds(d) == IF d >= 0 THEN d \div Milli ELSE -((-d) \div Milli)

(***************************************************************************)
(* Python: the seconds as a float, times 1000, the rest cut off.  The      *)
(* product of 1.001 and 1000 is below 1001, so this duration counts 1000.  *)
(***************************************************************************)
MillisecondsOfFloat(d) ==
    IF d \notin FallsShort THEN Milliseconds(d)
    ELSE IF d > 0 THEN Milliseconds(d) - 1 ELSE Milliseconds(d) + 1

MatchDuration(impl, d) == IF impl = "go" THEN Milliseconds(d) ELSE MillisecondsOfFloat(d)

(***************************************************************************)
(* The audit entry of a trade whose every expected source has reported.    *)
(***************************************************************************)
BuildReconciled(impl, t, events, now) ==
    [trade   |-> t, outcome |-> "reconciled",
     sources |-> SourcesOf(events), at |-> now,
     detail  |-> [matchDuration |->
                     MatchDuration(impl, now - Min({r.firstSeen : r \in events}))]]

(***************************************************************************)
(* The audit entry of a trade that expired.  The window expiry reported is *)
(* the LATEST deadline of its rows, although the earliest one made it due. *)
(***************************************************************************)
BuildBreak(t, events, expected, now) ==
    [trade   |-> t, outcome |-> "break",
     sources |-> SourcesOf(events), at |-> now,
     detail  |-> [missing      |-> expected \ SourcesOf(events),
                  windowExpiry |-> Max({r.deadline : r \in events})]]

(***************************************************************************)
(* The Go engine sizes the slice of missing sources as the number of       *)
(* expected sources less the number of events, and a negative capacity     *)
(* panics.  The Python engine subtracts two sets.                          *)
(***************************************************************************)
BuildBreakPanics(impl, events, expected) ==
    impl = "go" /\ Cardinality(events) > Cardinality(expected)
=============================================================================
