CONSTANTS
    Pids <- ThreePids
    STARVATION_THRESHOLD = 1
    MaxLen = 8
    ArmSets <- BothArms
    Grace = 1
    MaxTime = 3
    Scenarios <- AllScenarios
    Timeout = 1
SPECIFICATION Spec_cooperative
INVARIANTS
    AgeBound
    DeathsSettled
    NoProcessLost
    ParkedWithNothingToDo
    DeadlinesAgree
PROPERTIES
    RunnableRuns
    DeadlineEndsWait
    DrainEnds
CHECK_DEADLOCK FALSE
