SPECIFICATION SourcesSpec
CONSTANTS
    Subjects = {"cupti"}
    MaxStarts = 1
    RocprofThreads = {t3}
    RocprofApis = {"hipLaunchKernel", "hipMemcpy", "hipGetDevice"}
    Agents = {"a1"}
    SetsOf <- MCSetsOf
    NameOf <- MCNameOf
    CountersOf <- MCCountersOf
    CollectCounters = TRUE
    MaxSlots = 1
    RocprofEvents = 2
    Kernel1 = k1
    Kernel2 = k2
    HipThreads = {t1, t2}
    HipApis = {"hipLaunchKernel", "hipMemcpy", "hipMemcpyAsync", "hipGetDevice"}
    FrameDepth = 2
    PoolSize = 3
    HipEvents = 2
    CudaThreads = {t4, t5}
    CudaApis = {"cudaLaunchKernel", "cudaMemcpyAsync", "cudaGetDevice"}
    LostNames = 1
    RecordsPerBuffer = 1
    CudaEvents = 2
    Kinds = {"launch", "omitted"}
    SlabSize = 2
    ClrEvents = 4
    ClrStarts = 2
    Slots <- MCSlots
    Deadband <- MCDeadband
    Readings = {1, 2, 3}
    MaxTime = 4
    SmiStarts = 2
    Processes = {p1, p2}
    Nobody = nobody
    MaxUpdates = 2
    MaxDelegates = 1
    ProbeWindow = 1
    MaxRounds = 4
    MaxInFlight = 3
    Window = 5
    Capacity = 6
    Offsets = {0, 1, 9}
    MaxMeasurements = 8
    Overlap = FALSE
    MaxMessages = 4
    MaxConnections = 3
    Placeholders = FALSE
    MaxRows = 4
    EndOfTime = 6
SYMMETRY Symmetry
INVARIANT OneTimeBase
CHECK_DEADLOCK FALSE
