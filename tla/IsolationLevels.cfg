\* One trade, both levels, with failures and lost commits.
SPECIFICATION IsoSpec
CONSTANTS
    Trades = {1}
    Sources = {"a", "b"}
    Horizon = 1
    Milli = 1
    FallsShort = {1}
    Ingesters = {i1, i2}
    Sweepers = {s1, s2}
    Impl <- GoAndPython
    Expected <- SharedExpected
    Window <- UnitWindow
    Keys = {0, 1, 2}
    LockKey <- LockPerTrade
    None = None
    MaxCalls = 3
    MaxFails = 1
    CommitsGetLost = TRUE
    Levels <- BothLevels
SYMMETRY Interchangeable
INVARIANTS
    ReadCommittedSuffices
    NoEventLostOrDoubled
