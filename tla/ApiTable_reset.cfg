SPECIFICATION FairSpec
CONSTANTS
    Inserters = {p1}
    Flushers = {f1}
    Worker = worker
    Finalizer = finalizer
    BUFFERSIZE = 4
    BATCHSIZE = 2
    ClearsOverhead = FALSE
    QuietFinalize = TRUE
    MaxCalls = 1
    MaxDepth = 1
PROPERTY FinalizeReturns
CHECK_DEADLOCK FALSE
