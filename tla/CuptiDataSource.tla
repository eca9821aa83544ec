---------------------------- MODULE CuptiDataSource ----------------------------
(***************************************************************************)
(* The CUPTI source (rpd_tracer/CuptiDataSource.cpp).  api_callback() runs *)
(* on the calling thread at the enter and the exit of a runtime call and   *)
(* of the driver call that the runtime makes inside it, each with its own  *)
(* thread_local time.  Activity records fill buffers that CUPTI hands to   *)
(* bufferCompleted().                                                      *)
(*                                                                         *)
(* CUPTI is external: it decides when a call is entered whether the call   *)
(* is reported.  A correlation id is a position in `calls`; the driver     *)
(* call inside has the id of its runtime call.  A time is <<event,         *)
(* shifts>>: when it was read and how often the offset to the reference    *)
(* clock was added to it.                                                  *)
(***************************************************************************)
EXTENDS Integers, Sequences, FiniteSets, Functions

CONSTANTS
    CudaThreads, CudaApis,  \* threads that call CUDA, and what they call
    LostNames,              \* launches of a thread without a name (2 in the code)
    RecordsPerBuffer,       \* activity records in one buffer
    MaxEvents,              \* bound: calls of the runtime
    MaxStarts               \* bound: startTracing() calls

VARIABLES
    context, starts,    \* "none", "stopped" or "started"; startTracing() calls
    calls,              \* what the application did so far
    timestamp,          \* the two thread_locals of each thread
    cuptiCrashHack,     \* its launches so far, counted by each thread
    operations,         \* operations enqueued so far
    buffer,             \* activity records: positions in operations
    idsFrom, storageNow,\* storage of the cached ids (0: not cached), m_storage
    tables              \* rows: api, kernels, copies, ops

contextVars == <<context, starts>>
rowVars     == <<idsFrom, storageNow, tables>>

Domains == {"runtime", "driver"}
NoTime  == <<>>
clocktime(event)         == <<event, 1>>
adjust_external_ts(time) == <<time[1], time[2] + 1>>

\* The cases of api_callback()'s switch that write a row of their own.
LaunchApis == {"cudaLaunchKernel"}
CopyApis   == {"cudaMemcpy", "cudaMemcpyAsync"}
RowSync(api) == TRUE

\* startTracing() takes some calls out of the runtime domain.
contains(api) == api # "cudaGetDevice"

Init ==
    /\ context = "none" /\ starts = 0
    /\ calls = <<>> /\ timestamp = [t \in CudaThreads |-> [d \in Domains |-> NoTime]]
    /\ cuptiCrashHack = [t \in CudaThreads |-> 0]
    /\ operations = <<>> /\ buffer = <<>>
    /\ idsFrom = 0 /\ storageNow = 1
    /\ tables = [api |-> {}, kernels |-> {}, copies |-> {}, ops |-> <<>>]

-----------------------------------------------------------------------------
(* api_callback() *)

InCall(t) == \E c \in DOMAIN calls : calls[c].thread = t /\ ~calls[c].exited
CallOf(t) == CHOOSE c \in DOMAIN calls : calls[c].thread = t /\ ~calls[c].exited
Works(c)  == calls[c].api \in LaunchApis \cup CopyApis

\* Weaker: one thread_local for the callbacks of both domains.
OneStamp(t, domain, time)   == [timestamp EXCEPT ![t] = [d \in Domains |-> time]]
StampAfter(t, domain, time) == [timestamp EXCEPT ![t][domain] = time]
Enter(t, c, domain, reported) ==
    timestamp' = IF reported THEN StampAfter(t, domain, clocktime(<<c, domain>>)) ELSE timestamp

RuntimeEnter(t, api) ==
    LET reported == context = "started" /\ contains(api) IN
    /\ ~InCall(t) /\ Len(calls) < MaxEvents
    /\ calls' = Append(calls, [thread |-> t, api |-> api, exited |-> FALSE,
                               reported |-> reported, driver |-> "none", inner |-> FALSE])
    /\ Enter(t, Len(calls) + 1, "runtime", reported)
    /\ UNCHANGED <<contextVars, cuptiCrashHack, operations, buffer, rowVars>>

\* The driver call inside a runtime call enqueues the operation.
DriverEnter(t) ==
    LET c == CallOf(t) IN
    /\ InCall(t) /\ Works(c) /\ calls[c].driver = "none"
    /\ calls' = [calls EXCEPT ![c].driver = "open", ![c].inner = context = "started"]
    /\ Enter(t, c, "driver", context = "started")
    /\ operations' = Append(operations,
           [corr |-> c, traced |-> context = "started", at |-> "queued"])
    /\ UNCHANGED <<contextVars, cuptiCrashHack, buffer, rowVars>>

Ids == IF idsFrom = 0 THEN storageNow ELSE idsFrom
ApiRow(c, t, domain) == [call |-> c, domain |-> domain, start |-> timestamp[t][domain],
                         storage |-> storageNow, ids |-> Ids]

DriverExit(t) ==
    LET c == CallOf(t) IN
    /\ InCall(t) /\ calls[c].driver = "open"
    /\ calls' = [calls EXCEPT ![c].driver = "done"]
    /\ IF calls[c].inner
       THEN tables' = [tables EXCEPT !.api = @ \cup {ApiRow(c, t, "driver")}] /\ idsFrom' = Ids
       ELSE UNCHANGED <<tables, idsFrom>>
    /\ UNCHANGED <<contextVars, timestamp, cuptiCrashHack, operations, buffer, storageNow>>

\* CUPTI's pointer to the name is bad for the first launches of a thread.
KernelRow(c, t) == [call |-> c, named |-> cuptiCrashHack[t] + 1 > LostNames]

RowsOfCall(c, t) ==
    [tables EXCEPT
        !.api = @ \cup {ApiRow(c, t, "runtime")},
        !.kernels = IF calls[c].api \in LaunchApis THEN @ \cup {KernelRow(c, t)} ELSE @,
        !.copies = IF calls[c].api \in CopyApis
                   THEN @ \cup {[call |-> c, sync |-> RowSync(calls[c].api)]} ELSE @]

RuntimeExit(t) ==
    LET c == CallOf(t) IN
    /\ InCall(t) /\ (Works(c) => calls[c].driver = "done")
    /\ calls' = [calls EXCEPT ![c].exited = TRUE]
    /\ IF calls[c].reported
       THEN /\ tables' = RowsOfCall(c, t) /\ idsFrom' = Ids
            /\ cuptiCrashHack' = IF calls[c].api \in LaunchApis
                                 THEN [cuptiCrashHack EXCEPT ![t] = @ + 1] ELSE cuptiCrashHack
       ELSE UNCHANGED <<tables, idsFrom, cuptiCrashHack>>
    /\ UNCHANGED <<contextVars, timestamp, operations, buffer, storageNow>>

-----------------------------------------------------------------------------
(* Activity records *)

Complete(i) ==
    /\ operations[i].at = "queued"
    /\ operations' = [operations EXCEPT ![i].at = "completed"]
    /\ buffer' = IF operations[i].traced THEN Append(buffer, i) ELSE buffer
    /\ UNCHANGED <<contextVars, calls, timestamp, cuptiCrashHack, rowVars>>

\* `toffset` is the distance of CUPTI's clock from clocktime_ns(), which the
\* offset to the reference clock is part of; then it is added once more.
PlusOffset(i) == clocktime(i)
OpTime(i)     == adjust_external_ts(PlusOffset(i))

RowsOfBatch(batch) ==
    [j \in DOMAIN batch |->
        [op |-> batch[j], corr |-> operations[batch[j]].corr, start |-> OpTime(batch[j])]]

bufferCompleted(n) ==
    LET batch == SubSeq(buffer, 1, n) IN
    /\ n \in DOMAIN buffer
    /\ tables' = [tables EXCEPT !.ops = @ \o RowsOfBatch(batch)]
    /\ operations' = [i \in DOMAIN operations |->
                        IF i \in Range(batch) THEN [operations[i] EXCEPT !.at = "handed over"]
                                              ELSE operations[i]]
    /\ buffer' = SubSeq(buffer, n + 1, Len(buffer))
    /\ UNCHANGED <<contextVars, calls, timestamp, cuptiCrashHack, idsFrom, storageNow>>

\* A buffer is complete when it is full and when flush() or end() asks for it.
BufferFull == Len(buffer) >= RecordsPerBuffer /\ bufferCompleted(RecordsPerBuffer)

-----------------------------------------------------------------------------
(* The life cycle, called by the Logger *)

init ==
    /\ context = "none" /\ starts = 0 /\ calls = <<>>
    /\ context' = "stopped"
    /\ UNCHANGED <<starts, calls, timestamp, cuptiCrashHack, operations, buffer, rowVars>>

startTracing ==
    /\ context = "stopped" /\ starts < MaxStarts
    /\ context' = "started" /\ starts' = starts + 1
    /\ UNCHANGED <<calls, timestamp, cuptiCrashHack, operations, buffer, rowVars>>

stopTracing ==
    /\ context = "started"
    /\ context' = "stopped"
    /\ UNCHANGED <<starts, calls, timestamp, cuptiCrashHack, operations, buffer, rowVars>>

flush == context # "none" /\ bufferCompleted(Len(buffer))

end ==
    /\ context = "stopped" /\ starts > 0 /\ buffer = <<>>
    /\ context' = "none"
    /\ UNCHANGED <<starts, calls, timestamp, cuptiCrashHack, operations, buffer, rowVars>>

\* resetStorage(): a new storage, and reset() of the source.
IdsAfterReset == 0
reset ==
    /\ context = "stopped" /\ storageNow = 1
    /\ storageNow' = 2 /\ idsFrom' = IdsAfterReset
    /\ UNCHANGED <<contextVars, calls, timestamp, cuptiCrashHack, operations, buffer, tables>>

-----------------------------------------------------------------------------
Next ==
    \/ \E t \in CudaThreads : \/ \E api \in CudaApis : RuntimeEnter(t, api)
                              \/ DriverEnter(t) \/ DriverExit(t) \/ RuntimeExit(t)
    \/ \E i \in DOMAIN operations : Complete(i)
    \/ BufferFull
    \/ init \/ startTracing \/ stopTracing \/ flush \/ end \/ reset

-----------------------------------------------------------------------------
(* Properties *)

\* "From TLS from preceding enter call" (CuptiDataSource.cpp:143): the row of a
\* call starts at the enter of that very call, although a driver call comes
\* between the callbacks of a runtime call, and has ids of the storage it is in;
\* only the first launches that a thread was seen to make are without a name.
CallRowsAreOwn ==
    /\ \A row \in tables.api :
           row.start = clocktime(<<row.call, row.domain>>) /\ row.ids = row.storage
    /\ \A t \in CudaThreads :
           Cardinality({row \in tables.kernels : calls[row.call].thread = t /\ ~row.named})
               <= LostNames

\* Every operation that was handed over has one row, whether its buffer was full
\* or a flush asked for it, and once its call returned the row can be joined
\* with the row of that call, if the call was reported.
OperationsOnce ==
    /\ \A i \in DOMAIN operations :
           Cardinality({j \in DOMAIN tables.ops : tables.ops[j].op = i}) =
               IF operations[i].at = "handed over" THEN 1 ELSE 0
    /\ \A j \in DOMAIN tables.ops :
           LET c == tables.ops[j].corr IN
           calls[c].exited /\ calls[c].reported =>
               \E row \in tables.api : row.call = c /\ row.domain = "runtime"

\* "All nodes write timestamps aligned to a common reference clock"
\* (README_distributed.md:3): the offset is in every operation's times once.
OneTimeBase == \A j \in DOMAIN tables.ops : tables.ops[j].start = clocktime(tables.ops[j].op)
=============================================================================
