\* Calls get the lock in another order than they took their stamps.
SPECIFICATION Spec
CONSTANTS
    Trades = {1}
    Sources = {"a", "b", "c"}
    Horizon = 2
    Milli = 1
    FallsShort = {1}
    Ingesters <- MixedIngesters
    Sweepers <- OneSweeper
    Impl <- MixedImpl
    Expected <- SharedExpected
    Window <- UnitWindow
    Keys = {0, 1, 2}
    LockKey <- LockPerTrade
    None = None
    MaxCalls = 2
    MaxFails = 0
    CommitsGetLost = FALSE
INVARIANTS
    BreakReportsElapsedWindow
