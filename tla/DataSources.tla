------------------------------ MODULE DataSources ------------------------------
(***************************************************************************)
(* The data sources, beside each other.  A source shares nothing with      *)
(* another but the tables it fills, and the Logger drives each by itself:  *)
(* a behaviour is one of a single component, `subject`, whose module has   *)
(* the variables; those that are not of its module keep the value 0, and   *)
(* those of ClockSync, which it extends, their initial values.             *)
(***************************************************************************)
EXTENDS ClockSync, Sequences, FiniteSets

CONSTANTS
    Subjects,                                   \* the components to explore
    MaxStarts,                                  \* of the sources on a profiler but clr
    RocprofThreads, RocprofApis, Agents, SetsOf, NameOf, CountersOf,
    CollectCounters, MaxSlots, RocprofEvents,
    HipThreads, HipApis, FrameDepth, PoolSize, HipEvents,
    CudaThreads, CudaApis, LostNames, RecordsPerBuffer, CudaEvents,
    Kinds, SlabSize, ClrEvents, ClrStarts,
    Slots, Deadband, Readings, MaxTime, SmiStarts,
    ProbeWindow, MaxRounds, MaxInFlight,        \* of Firefly
    Window, Capacity, Offsets, MaxMeasurements, \* of OutlierFilter
    Overlap, MaxMessages, MaxConnections,       \* of NetWriterBackend
    Placeholders, MaxRows, EndOfTime            \* of CallStacks

VARIABLES
    subject,
    context, starts, idsFrom, storageNow, tables,
    calls, buffer,
    registered, counterConfigs, dispatchCount, dispatches, others, pending,
    timestamp, operations, cuptiCrashHack,
    records, delivered, freed, snapshot, m_ranges, m_processedCount,
    loggingActive, worker, done, haveResource, metricsCache, readAt, todo, lastEmitted, values,
    runs, stopping, clock, disturbed,
    side, toA, toB, count, latest, lastCount, published, measurements, used,
    m_connected, m_fd, broken, streams, sending, messages,
    rocpd_api

Roc == INSTANCE RocprofDataSource WITH
    HipThreads <- RocprofThreads, Apis <- RocprofApis, MaxEvents <- RocprofEvents
Rtr == INSTANCE RoctracerDataSource WITH Apis <- HipApis, MaxEvents <- HipEvents
Cup == INSTANCE CuptiDataSource WITH MaxEvents <- CudaEvents
Clr == INSTANCE ClrDataSource WITH MaxEvents <- ClrEvents, MaxStarts <- ClrStarts
Smi == INSTANCE AmdSmiDataSource WITH MaxStarts <- SmiStarts
Ffy == INSTANCE Firefly WITH Window <- ProbeWindow
Flt == INSTANCE OutlierFilter
Net == INSTANCE NetWriterBackend
Cst == INSTANCE CallStacks

\* The metrics are a sequence, a deadband is a distance, and a reading a number.
ASSUME MetricsAssumption ==
    /\ Slots \in Seq(DOMAIN Deadband) /\ Deadband \in [DOMAIN Deadband -> Nat]
    /\ Readings \subseteq Int

\* Launches are counted (2 of each thread are without a name in the code).
ASSUME NamesAssumption == LostNames \in Nat

\* A slab of the runtime has room for a record.
ASSUME SlabAssumption == SlabSize \in Nat \ {0}

\* The clock filter's window and ring have room for a measurement, a number.
ASSUME FilterAssumption ==
    Window \in Nat \ {0} /\ Capacity \in Nat \ {0} /\ Offsets \subseteq Int

\* An agent's sets are different ones, numbered from 1 (0: not counted), and
\* each is a sequence of counters.
ASSUME SetsAssumption == \A a \in Agents :
    /\ SetsOf[a] \in Seq(Nat \ {0})
    /\ \A i, j \in 1 .. Len(SetsOf[a]) : SetsOf[a][i] = SetsOf[a][j] => i = j
    /\ \A i \in 1 .. Len(SetsOf[a]) :
           LET counters == CountersOf[SetsOf[a][i]]
           IN  Len(counters) \in Nat /\ DOMAIN counters = 1 .. Len(counters)

-----------------------------------------------------------------------------
(* The variables, by the modules that have them *)

lifeVars  == <<context, starts>>
rowVars   == <<idsFrom, storageNow, tables>>
callVars  == <<calls, buffer>>
rocVars   == <<registered, counterConfigs, dispatchCount, dispatches, others, pending>>
opVars    == <<timestamp, operations>>
chunkVars == <<records, delivered, freed, snapshot, m_ranges, m_processedCount>>
smiVars   == <<loggingActive, worker, done, haveResource, metricsCache, readAt, todo,
               lastEmitted, values, runs, stopping, clock, disturbed>>
clkVars   == clockVars       \* ClockSync's
ffyVars   == <<side, toA, toB, latest, lastCount, published>>
fltVars   == <<measurements, used>>
netVars   == <<m_connected, m_fd, broken, streams, sending, messages>>
onlineVars == <<clkVars, count, ffyVars, fltVars, netVars, rocpd_api>>
vars      == <<subject, lifeVars, rowVars, callVars, rocVars, opVars, cuptiCrashHack, chunkVars,
               smiVars, onlineVars>>

NoRows  == idsFrom = 0 /\ storageNow = 0 /\ tables = 0
NoCalls == calls = 0 /\ buffer = 0
NoRoc   == /\ registered = 0 /\ counterConfigs = 0 /\ dispatchCount = 0
           /\ dispatches = 0 /\ others = 0 /\ pending = 0
NoOps   == timestamp = 0 /\ operations = 0
NoHack  == cuptiCrashHack = 0
NoChunk == records = 0 /\ delivered = 0 /\ freed = 0 /\ snapshot = 0 /\ m_ranges = 0 /\ m_processedCount = 0
NoSmi   == /\ loggingActive = 0 /\ worker = 0 /\ done = 0 /\ haveResource = 0 /\ metricsCache = 0
           /\ readAt = 0 /\ todo = 0 /\ lastEmitted = 0 /\ values = 0 /\ runs = 0 /\ stopping = 0
           /\ clock = 0 /\ disturbed = 0
NoClk   == Init /\ rank = 0
NoFfy   == side = 0 /\ toA = 0 /\ toB = 0 /\ latest = 0 /\ lastCount = 0 /\ published = 0
NoFlt   == measurements = 0 /\ used = 0
NoNet   == m_connected = 0 /\ m_fd = 0 /\ broken = 0 /\ streams = 0 /\ sending = 0 /\ messages = 0

NotOnProfiler == NoRows /\ NoCalls /\ NoRoc /\ NoOps /\ NoHack /\ NoChunk
NotOnline     == NoClk /\ count = 0 /\ NoFfy /\ NoFlt /\ NoNet /\ rocpd_api = 0

SourcesInit ==
    /\ subject \in Subjects
    /\ \/ subject = "rocprof" /\ Roc!Init
          /\ NoOps /\ NoHack /\ NoChunk /\ NoSmi /\ NotOnline
       \/ subject = "roctracer" /\ Rtr!Init
          /\ NoRoc /\ NoHack /\ NoChunk /\ NoSmi /\ NotOnline
       \/ subject = "cupti" /\ Cup!Init
          /\ NoRoc /\ NoChunk /\ NoSmi /\ NotOnline
       \/ subject = "clr" /\ Clr!Init
          /\ NoCalls /\ NoRoc /\ NoOps /\ NoHack /\ NoSmi /\ NotOnline
       \/ subject = "smi" /\ Smi!Init
          /\ context = 0 /\ NotOnProfiler /\ NotOnline
       \/ /\ context = 0 /\ starts = 0 /\ NotOnProfiler /\ NoSmi
          /\ \/ subject = "clock" /\ Init /\ count = 0 /\ NoFfy /\ NoFlt /\ NoNet /\ rocpd_api = 0
             \/ subject = "firefly" /\ Ffy!Init /\ NoClk /\ NoFlt /\ NoNet /\ rocpd_api = 0
             \/ subject = "filter" /\ Flt!Init /\ NoClk /\ NoFfy /\ NoNet /\ rocpd_api = 0
             \/ subject = "net" /\ Net!Init /\ NoClk /\ count = 0 /\ NoFfy /\ NoFlt /\ rocpd_api = 0
             \/ subject = "callstacks" /\ Cst!Init /\ NoClk /\ count = 0 /\ NoFfy /\ NoFlt /\ NoNet

Rocprof == subject = "rocprof" /\ Roc!Next /\
    UNCHANGED <<subject, opVars, cuptiCrashHack, chunkVars, smiVars, onlineVars>>
Roctracer == subject = "roctracer" /\ Rtr!Next /\
    UNCHANGED <<subject, rocVars, cuptiCrashHack, chunkVars, smiVars, onlineVars>>
Cupti == subject = "cupti" /\ Cup!Next /\
    UNCHANGED <<subject, rocVars, chunkVars, smiVars, onlineVars>>
ClrNext == subject = "clr" /\ Clr!Next /\
    UNCHANGED <<subject, callVars, rocVars, opVars, cuptiCrashHack, smiVars, onlineVars>>
AmdSmi == subject = "smi" /\ Smi!Next /\
    UNCHANGED <<subject, context, rowVars, callVars, rocVars, opVars, cuptiCrashHack, chunkVars,
                onlineVars>>
Clock == subject = "clock" /\ Next /\
    UNCHANGED <<subject, lifeVars, rowVars, callVars, rocVars, opVars, cuptiCrashHack, chunkVars,
                smiVars, count, ffyVars, fltVars, netVars, rocpd_api>>
Probes == subject = "firefly" /\ Ffy!Next /\
    UNCHANGED <<subject, lifeVars, rowVars, callVars, rocVars, opVars, cuptiCrashHack, chunkVars,
                smiVars, clkVars, fltVars, netVars, rocpd_api>>
Filter == subject = "filter" /\ Flt!Next /\
    UNCHANGED <<subject, lifeVars, rowVars, callVars, rocVars, opVars, cuptiCrashHack, chunkVars,
                smiVars, clkVars, ffyVars, netVars, rocpd_api>>
Sender == subject = "net" /\ Net!Next /\
    UNCHANGED <<subject, lifeVars, rowVars, callVars, rocVars, opVars, cuptiCrashHack, chunkVars,
                smiVars, clkVars, count, ffyVars, fltVars, rocpd_api>>
CallStacks == subject = "callstacks" /\ Cst!Next /\
    UNCHANGED <<subject, lifeVars, rowVars, callVars, rocVars, opVars, cuptiCrashHack, chunkVars,
                smiVars, clkVars, count, ffyVars, fltVars, netVars>>

SourcesNext == Rocprof \/ Roctracer \/ Cupti \/ ClrNext \/ AmdSmi \/ Clock \/ Probes \/ Filter \/ Sender
               \/ CallStacks
SourcesSpec == SourcesInit /\ [][SourcesNext]_vars

-----------------------------------------------------------------------------
(* Each component's properties, under the names they have in its module *)

\* README_gpucounters.md: values belong to one dispatch and are all of it.
CountersOfOneDispatch == subject = "rocprof" => Roc!CountersOfOneDispatch
\* README_gpucounters.md: the sets of a kernel's dispatches take turns.
SetsTakeTurns == subject = "rocprof" => Roc!SetsTakeTurns
\* Rows carry their own call's arguments and times, and string ids of their storage.
RowsOfOwnCall ==
    /\ subject = "rocprof" => Roc!RowsOfOwnCall
    /\ subject = "roctracer" => Rtr!CallRowsAreOwn
    /\ subject = "cupti" => Cup!CallRowsAreOwn
\* A device operation has one row, and it can be joined with its call.
OperationsOnce ==
    /\ subject = "roctracer" => Rtr!OperationsOnce
    /\ subject = "cupti" => Cup!OperationsOnce
\* README_distributed.md:3: the clock offset is in the times of an operation once.
OneTimeBase == subject = "cupti" => Cup!OneTimeBase
\* ClrDataSource.cpp: a record that a flush or a slab brings is logged once.
EachRecordOnce == subject = "clr" => Clr!EachRecordOnce /\ Clr!FlushSparesDelivered
\* MonitorTable.cpp: the runs of a metric partition its time line.
MonitorRuns == subject = "smi" => Smi!MonitorRuns
\* Firefly.cpp: the four times behind an offset are of one round.
OffsetsOfOneRound == subject = "firefly" => Ffy!OffsetsOfOneRound
\* Firefly.cpp:261: outliers are refused, and only they.
RejectsOutliersOnly == subject = "filter" => Flt!RejectsOutliersOnly
\* NetWriterBackend.h:28: a connection carries whole messages.
FramesIntact == subject = "net" => Net!FramesIntact
\* call_stacks.py:14: both ways to find the callers give the rows around each row.
CallStacksAgree == subject = "callstacks" => Cst!CallStacksAgree
=============================================================================
