\* Two ingest callers and a sweep, from an empty database on.
SPECIFICATION FairSpec
CONSTANTS
    Ingesters = {i1, i2}
    Sweepers = {s1}
    Keys = {k1, k2}
    None = None
    MaxFails = 1
INVARIANTS
    TypeOK
    NoDeadlock
    TablesExistWhenUsed
PROPERTIES
    CallsEnd
