\* Two trades whose advisory lock keys collide, under fair scheduling.
SPECIFICATION FairSpec
CONSTANTS
    Trades = {1, 2}
    Sources = {"a", "b"}
    Horizon = 2
    Milli = 1
    FallsShort = {1}
    Ingesters <- MixedIngesters
    Sweepers <- OneSweeper
    Impl <- MixedImpl
    Expected <- SharedExpected
    Window <- UnitWindow
    Keys = {0, 1, 2}
    LockKey <- LockShared
    None = None
    MaxCalls = 2
    MaxFails = 1
    CommitsGetLost = TRUE
INVARIANTS
    BreakHasMissingSource
    BreaksLostOnlyByFailure
PROPERTIES
    ImplementsCorrelation
    CallsReturn
    ExpiredTradesAreFinalized
