SPECIFICATION FairSpec
CONSTANTS
    Users = {u1}
    Nobody = nobody
    Empty = empty
    OverheadName = writeRows
    Names = {writeRows, a}
    Args = {a}
    CAPACITY = 1
    BUFFERSIZE = 1
    MaxCalls = 2
    MaxRows = 1
    MaxStorages = 2
INVARIANTS
    RightStrings
    OneRowPerString
    FinalizeKeepsAll
PROPERTIES
    FlushResolves
    LockReleased
CHECK_DEADLOCK FALSE
