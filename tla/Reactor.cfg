CONSTANTS
    Processes = {p, q}
    Fds = {3, 4}
    MaxFiles = 3
    MaxCalls = 3
    Menus <- AllMenus
    Overlap = FALSE
SPECIFICATION Spec
INVARIANTS
    NobodyStranded
    ClosedHasNoWaker
PROPERTIES
    WaiterResumes
CHECK_DEADLOCK FALSE
