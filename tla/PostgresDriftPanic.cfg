\* As PostgresMixed: a trade no Go sweep can finalize.
SPECIFICATION FairSpec
CONSTANTS
    Trades = {1}
    Sources = {"a", "b", "c"}
    Horizon = 2
    Milli = 1
    FallsShort = {1}
    Ingesters <- MixedIngesters
    Sweepers <- OneSweeper
    Impl <- MixedImpl
    Expected <- DriftExpected
    Window <- UnitWindow
    Keys = {0, 1, 2}
    LockKey <- LockPerTrade
    None = None
    MaxCalls = 2
    MaxFails = 0
    CommitsGetLost = FALSE
PROPERTIES
    ExpiredTradesAreFinalized
