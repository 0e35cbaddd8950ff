\* Two trades of three sources; time stamps come in any order.
SPECIFICATION Spec
CONSTANTS
    Trades = {1, 2}
    Sources = {"a", "b", "c"}
    Horizon = 2
    Milli = 1
    FallsShort = {1}
    Expected = {"a", "b", "c"}
    Window = 1
INVARIANTS
    SameAudit
PROPERTIES
    ImplementsCorrelation
    SweepIsThorough
