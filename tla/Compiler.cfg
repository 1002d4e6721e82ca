CONSTANTS
    Programs <- AllPrograms
    MaxConditions = 3
    MaxBlocks = 10
SPECIFICATION Spec
INVARIANTS
    WellFormed
    DominatorsExact
    MemorySafe
    MeaningKept
    NothingLeaks
    LoopsYield
CHECK_DEADLOCK FALSE
