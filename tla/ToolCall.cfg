\* Every tool, request and configuration.
SPECIFICATION Spec
CONSTANTS
    WindowNumbers = {0, 2, 9, 40}
    DefaultWindow = 3
    GoMaxSeconds = 7
    PyMaxSeconds = 30
    MaxRetries = 3
INVARIANTS
    TypeOK
    EnginesAgree
    StoreIsReleased
PROPERTIES
    HandlerIsAnswered
CHECK_DEADLOCK FALSE
