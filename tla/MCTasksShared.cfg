SPECIFICATION TasksSpec
CONSTANTS
    Workers = {w1, w2}
    Tasks = {k1, k2}
    Main = main
    None = none
    InitialCapacity = 2
    Failing = {}
    Nested = TRUE
    Shared = TRUE
INVARIANT PointersLive
CHECK_DEADLOCK FALSE
