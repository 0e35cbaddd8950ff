\* The order of an answer against the order of the commits.
SPECIFICATION Spec
CONSTANTS
    t1 = t1
    t2 = t2
    Trades <- TwoTrades
    Ingesters = {i1}
    Sweepers = {s1}
    Readers = {r1}
    TradeFilters <- NoFilter
    OutcomeFilters <- NoFilter
    RawLimits <- SomeLimits
    None = None
    DefaultLimit = 3
    MaxLimit = 3
    TiesHappen = FALSE
    MaxClock = 3
    MaxQueries = 1
    MaxFails = 0
PROPERTIES
    NewestFirst
CHECK_DEADLOCK FALSE
