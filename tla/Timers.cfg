CONSTANTS
    Workers = {w1, w2}
    TimerPids = {p1}
    WHEEL_SLOTS = 2
    WHEEL_TICK = 2
    GRACE = 1
    MaxInstant = 4
    MaxInserts = 2
SPECIFICATION Spec
SYMMETRY WorkerSymmetry
INVARIANTS
    GateNeverLate
PROPERTIES
    ImplementsDeadlines
CHECK_DEADLOCK FALSE
