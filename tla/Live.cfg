CONSTANTS
    Workers = {w1, w2}
    MaxSlots = 3
    MaxGeneration = 1
    MaxNow = 2
    MaxMonitors = 0
    MaxCalls = 1
    Scenarios <- LiveScenarios
SPECIFICATION FairSpec
PROPERTIES
    OrphansDie
    CallersOfTheDeadWake
    GraceEndsEveryone
CHECK_DEADLOCK FALSE
