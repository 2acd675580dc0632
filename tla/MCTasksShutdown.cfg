SPECIFICATION TasksFairSpec
CONSTANTS
    Workers = {w1, w2}
    Tasks = {k1, k2}
    Main = main
    None = none
    InitialCapacity = 2
    Failing = {}
    Nested = FALSE
    Shared = FALSE
PROPERTY ShutdownReturns
CHECK_DEADLOCK FALSE
