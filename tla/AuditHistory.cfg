\* An ingest caller, a sweep and a reader over two trades.
SPECIFICATION Spec
CONSTANTS
    t1 = t1
    t2 = t2
    Trades <- TwoTrades
    Ingesters = {i1}
    Sweepers = {s1}
    Readers = {r1}
    TradeFilters <- NoFilter
    OutcomeFilters <- BreaksOrAll
    RawLimits <- SomeLimits
    None = None
    DefaultLimit = 2
    MaxLimit = 2
    TiesHappen = TRUE
    MaxClock = 1
    MaxQueries = 2
    MaxFails = 1
SYMMETRY Interchangeable
INVARIANTS
    ReportedIsListed
    RealTimeOrder
    AnswersAgree
CHECK_DEADLOCK FALSE
