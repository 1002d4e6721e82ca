CONSTANTS
    Workers = {w1, w2}
    IDLE_ACTIVE = 1
    IDLE_QUIET = 2
    MaxClock = 3
    MaxWork = 3
SPECIFICATION FairSpec
INVARIANTS
    NoWorkWhileAllSleep
    NoOversleep
PROPERTIES
    EveryoneLeaves
CHECK_DEADLOCK FALSE
