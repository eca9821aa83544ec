SPECIFICATION ControlSpec
CONSTANTS
    Users = {u1, u2}
    Exiters = {e1, e2}
    AutoFlusher = autoflusher
    Nobody = nobody
    Sources = {s1, s2}
    Autostart = FALSE
    Autoflush = TRUE
    MaxHeld = 3
    MaxStorages = 3
    SignalThreads = {t1, t2}
    RepeatStop = FALSE
    InterruptInsert = FALSE
    MaxSignals = 5
    Inserters = {p1, p2}
    Flushers = {f1}
    TableWorker = worker
    Finalizer = finalizer
    BUFFERSIZE = 4
    BATCHSIZE = 2
    MaxCalls = 5
    MaxDepth = 2
    MaxRows = 4
    Procs = {j1, j2}
    Contended = FALSE
    CrashCreating = FALSE
    MaxCrashes = 1
    MaxSessions = 3
INVARIANTS
    SourcesFollowStarts
    StorageOutlivesUse
    
    FlushVisible
    UniqueSessions
    SchemaBeforeTables
    SingleDelegate
PROPERTIES
    CallsReturn
    WorkerRests
CHECK_DEADLOCK FALSE
