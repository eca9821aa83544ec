SPECIFICATION FairSpec
CONSTANTS
    Inserters = {p1, p2}
    Flushers = {f1}
    Worker = worker
    Finalizer = finalizer
    Nobody = nobody
    BUFFERSIZE = 3
    BATCHSIZE = 2
    DirectWrite = TRUE
    QuietFlush = FALSE
    MaxRows = 4
INVARIANTS
    TypeOK
    NoOverwrite
    NoMissedSignal
    FlushVisible
    FinalizeComplete
PROPERTIES
    ImplementsLog
    CallsReturn
CHECK_DEADLOCK FALSE
