\* Every parameter type with every argument, every result, and two LLM callers.
SPECIFICATION Spec
CONSTANTS
    Callers = {g1, g2}
    NoCaller = NoCaller
    Tools <- SmallTools
    Values <- SmallValues
    GoTypes <- SmallTypes
    TypeDepth <- DepthOfType
    JSONValues <- SmallJSON
    ValueDepth <- DepthOfValue
    Names = {"", "x", "./x", ".//x", "bad"}
    NoName = ""
    Paths = {"", "x", "bad"}
    PathOf <- SmallPaths
    Unwritable = {"bad"}
    Unfinished = {".//x"}
CHECK_DEADLOCK FALSE
INVARIANTS
    TypeOK
    SchemaIsHonoured
    TransportsAgree
    ContentKept
    OwnAnswer
PROPERTIES
    InvocationsEnd
