CONSTANTS
    Pids <- ThreePids
    STARVATION_THRESHOLD = 1
    MaxLen = 8
    ArmSets <- BusinessArmOnly
    Grace = 1
    MaxTime = 3
    Scenarios <- MailAndSignal
    Timeout = 1
SPECIFICATION Spec_cooperative
INVARIANTS
    ParkedWithNothingToDo
CHECK_DEADLOCK FALSE
