SPECIFICATION TasksFairSpec
CONSTANTS
    Workers = {w1, w2}
    Tasks = {k1, k2, k3}
    Main = main
    None = none
    InitialCapacity = 2
    Failing = {main}
    Nested = TRUE
    Shared = FALSE
INVARIANTS
    HandlesDenoteTheirTask
    ScheduledOnce
    NoLostCompletion
    ShutdownDrains
PROPERTIES
    QueuedTasksRun
    ShutdownWakesSleepers
CHECK_DEADLOCK FALSE
