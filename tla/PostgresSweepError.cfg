\* A sweep fails on its second trade.
SPECIFICATION Spec
CONSTANTS
    Trades = {1, 2}
    Sources = {"a", "b"}
    Horizon = 2
    Milli = 1
    FallsShort = {1}
    Ingesters <- MixedIngesters
    Sweepers <- OneSweeper
    Impl <- MixedImpl
    Expected <- SharedExpected
    Window <- UnitWindow
    Keys = {0, 1, 2}
    LockKey <- LockPerTrade
    None = None
    MaxCalls = 2
    MaxFails = 1
    CommitsGetLost = FALSE
INVARIANTS
    EveryBreakReported
