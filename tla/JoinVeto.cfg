CONSTANTS
    Programs <- ReturningArm
    MaxConditions = 3
    MaxBlocks = 10
SPECIFICATION Spec
INVARIANT MemorySafe
CHECK_DEADLOCK FALSE
