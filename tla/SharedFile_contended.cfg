SPECIFICATION Spec
CONSTANTS
    Procs = {p1, p2, p3}
    Nobody = nobody
    Contended = TRUE
    CrashCreating = FALSE
    MaxCrashes = 0
    MaxSessions = 3
SYMMETRY Symmetry
INVARIANT SingleDelegate
CHECK_DEADLOCK FALSE
