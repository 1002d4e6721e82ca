CONSTANTS
    Workers = {w1, w2}
    MaxSlots = 2
    MaxGeneration = 2
    MaxNow = 2
    MaxMonitors = 0
    MaxCalls = 2
    Scenarios <- TalkScenarios
SPECIFICATION Spec
SYMMETRY WorkerSymmetry
INVARIANTS
    NoLostWakeup
    ReceiveFindsMail
    DeadlineWillFire
    NoLeakedDeadline
    CallerNotStranded
PROPERTIES
    ImplementsLifetime
    NoReplyAfterGivingUp
CHECK_DEADLOCK FALSE
