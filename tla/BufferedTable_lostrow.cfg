SPECIFICATION Spec
CONSTANTS
    Inserters = {p1, p2}
    Flushers = {f1}
    Worker = worker
    Finalizer = finalizer
    Nobody = nobody
    BUFFERSIZE = 3
    BATCHSIZE = 2
    DirectWrite = FALSE
    QuietFlush = FALSE
    MaxRows = 4
SYMMETRY Symmetry
INVARIANT FlushVisible
CHECK_DEADLOCK FALSE
