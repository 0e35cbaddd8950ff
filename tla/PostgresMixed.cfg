\* Go and Python ingests race with a Go sweep that expects fewer sources.
SPECIFICATION Spec
CONSTANTS
    Trades = {1}
    Sources = {"a", "b", "c"}
    Horizon = 2
    Milli = 1
    FallsShort = {1}
    Ingesters <- MixedIngesters
    Sweepers <- OneSweeper
    Impl <- MixedImpl
    Expected <- DriftExpected
    Window <- UnitWindow
    Keys = {0, 1, 2}
    LockKey <- LockPerTrade
    None = None
    MaxCalls = 3
    MaxFails = 1
    CommitsGetLost = TRUE
INVARIANTS
    TypeOK
    LockProtectsTrade
    ReadsStayValid
    FinalizedOnce
    NoEventLost
    ReportedAtMostOnce
    FinalizedHasNoPending
    NoCompleteTradeIsPending
    ReconciledHasEverySource
    WindowFromFirstEvent
PROPERTIES
    RowsLeaveOnlyByFinalization
