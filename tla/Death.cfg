CONSTANTS
    Workers = {w1, w2}
    MaxSlots = 3
    MaxGeneration = 2
    MaxNow = 1
    MaxMonitors = 2
    MaxCalls = 0
    Scenarios <- DeathScenarios
SPECIFICATION Spec
SYMMETRY WorkerSymmetry
INVARIANTS
    TypeOK
    OneOwner
    SlotsConserved
    Custody
    NoLostProcess
    CountersAgree
    NoOrphans
    MonitorAnsweredOnce
CHECK_DEADLOCK FALSE
