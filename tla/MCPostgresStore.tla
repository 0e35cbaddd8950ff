--------------------------- MODULE MCPostgresStore ---------------------------
(***************************************************************************)
(* Small instances of PostgresStore for TLC.  Callers are strings so that  *)
(* their configurations can be written as functions of them.               *)
(***************************************************************************)
EXTENDS PostgresStore, TLC

\* A Go and a Python deployment ingest, the Go one also sweeps.
GoIngest == "goIngest"
PyIngest == "pyIngest"
GoSweep  == "goSweep"

MixedIngesters == {GoIngest, PyIngest}
OneSweeper     == {GoSweep}

MixedImpl == [p \in Procs |-> IF p \in {GoIngest, GoSweep} THEN "go" ELSE "python"]

\* Every deployment has the same configuration, as config.yaml asks.
SharedExpected == [p \in Procs |-> Sources]
UnitWindow     == [p \in Procs |-> 1]

\* A source has been taken out of the configuration the sweeps run with.
DriftExpected == [p \in Procs |-> IF p \in Ingesters THEN Sources ELSE {"a"}]

\* Advisory lock keys: one per trade, or all trades colliding.
LockPerTrade == [t \in Trades |-> t]
LockShared   == [t \in Trades |-> 0]
=============================================================================
