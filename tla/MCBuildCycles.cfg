SPECIFICATION Spec
CONSTANTS
    Behaviors = {"a", "b"}
    Library = {"l"}
    Patterns = {"p"}
    Calls <- MCCalls
    Requirable <- MCRequirable
    Versions = {1, 2}
    Start <- MCStart
    MaxEdits = 2
    MaxTroubles = 0
    MaxBuilds = 1
    StackLimit = 6
INVARIANT CyclesReported
CHECK_DEADLOCK FALSE
