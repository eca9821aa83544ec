SPECIFICATION MCSpec
CONSTANTS
    Threads = {t1, t2}
    MaxTime = 7
    MaxOpen = 2
    MaxSessions = 2
    MaxStorages = 2
SYMMETRY Symmetry
INVARIANTS
    Nested
    IdsOfOwnStorage
    
    DrainVisitsLiving
CHECK_DEADLOCK FALSE
