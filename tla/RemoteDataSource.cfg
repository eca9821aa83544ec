SPECIFICATION FairSpec
CONSTANTS
    Conns = {c1}
    Flushers = {f1, f2}
    Nobody = nobody
    MaxMessages = 2
    MaxFlushes = 2
INVARIANTS
    FlushCovers
    WrittenInOrder
    EndComplete
PROPERTIES
    CallsReturn
CHECK_DEADLOCK FALSE
