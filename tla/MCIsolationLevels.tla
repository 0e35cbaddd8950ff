-------------------------- MODULE MCIsolationLevels --------------------------
(***************************************************************************)
(* Small instances of IsolationLevels for TLC.  Ingests are Go's, sweeps  *)
(* Python's, and callers of one kind are interchangeable.                  *)
(***************************************************************************)
EXTENDS IsolationLevels, TLC

GoAndPython    == [p \in Procs |-> IF p \in Ingesters THEN "go" ELSE "python"]
SharedExpected == [p \in Procs |-> Sources]
UnitWindow     == [p \in Procs |-> 1]
LockPerTrade   == [t \in Trades |-> t]
BothLevels     == {ReadCommitted, RepeatableRead}

Interchangeable == Permutations(Ingesters) \union Permutations(Sweepers)
=============================================================================
