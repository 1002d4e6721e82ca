CONSTANTS
    Processes = {p, q}
    Fds = {3, 4}
    MaxFiles = 3
    MaxCalls = 4
    Menus <- Blocking
    Overlap = TRUE
SPECIFICATION Spec
INVARIANT NobodyStranded
CHECK_DEADLOCK FALSE
