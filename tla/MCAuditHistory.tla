---------------------------- MODULE MCAuditHistory ----------------------------
(***************************************************************************)
(* Small instances of AuditHistory for TLC.                                *)
(***************************************************************************)
EXTENDS AuditHistory, TLC

CONSTANTS t1, t2

TwoTrades == {t1, t2}

\* No trade is named by the specification.
Interchangeable == Permutations(TwoTrades)

\* A limit left out, one out of range, one that cuts and one that does not.
SomeLimits == {None, 0, 1}

\* Queries filter by outcome, or not.
NoFilter    == {None}
BreaksOrAll == {None, "break"}
=============================================================================
