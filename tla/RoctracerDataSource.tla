-------------------------- MODULE RoctracerDataSource --------------------------
(***************************************************************************)
(* The roctracer source (rpd_tracer/RoctracerDataSource.cpp).              *)
(* api_callback() runs on the calling thread, once at the enter and once   *)
(* at the exit of a call: the first keeps the time in a thread_local, the  *)
(* second writes the rows.  The operations of the device arrive later, in  *)
(* batches, at hcc_activity_callback() on a thread of roctracer.           *)
(*                                                                         *)
(* roctracer is external: it decides when a call is entered whether the    *)
(* call is reported, and puts a completed operation into the pool, which   *)
(* it hands over when it is full or flushed.  A correlation id is a        *)
(* position in `calls`.  A time is <<event, shifts>>: when it was read and *)
(* how often the offset to the reference clock was added to it.            *)
(***************************************************************************)
EXTENDS Integers, Sequences, FiniteSets, Functions, Selection

CONSTANTS
    HipThreads, Apis,   \* threads that call HIP, and what they call
    FrameDepth,         \* frames of a stack, 0 if RPDT_STACKFRAMES is off
    PoolSize,           \* records the pool holds
    MaxEvents,          \* bound: calls
    MaxStarts           \* bound: startTracing() calls

VARIABLES
    context, starts,    \* "none", "stopped" or "started"; startTracing() calls
    calls,              \* what the application did so far
    timestamp,          \* the thread_local of each thread
    operations,         \* operations enqueued so far
    buffer,             \* m_hccPool: positions in operations
    idsFrom, storageNow,\* storage of the cached ids (0: not cached), m_storage
    tables              \* rows: api, kernels, copies, ops, frames

contextVars   == <<context, starts>>
rowVars       == <<idsFrom, storageNow, tables>>

clocktime(event)         == <<event, 1>>
adjust_external_ts(time) == <<time[1], time[2] + 1>>
Raw(event)               == <<event, 0>>
NoTime == <<0, 0>>

\* The cases of api_callback()'s switch.
LaunchApis == {"hipLaunchKernel"}
CopyApis   == {"hipMemcpy", "hipMemcpyAsync"}
Sync(api)  == api = "hipMemcpy"

\* init() takes some calls out of the domain that it enables.
contains(api) == api # "hipGetDevice"

Init ==
    /\ context = "none" /\ starts = 0
    /\ calls = <<>> /\ timestamp = [t \in HipThreads |-> NoTime]
    /\ operations = <<>> /\ buffer = <<>>
    /\ idsFrom = 0 /\ storageNow = 1
    /\ tables = [api |-> {}, kernels |-> {}, copies |-> {}, ops |-> <<>>, frames |-> {}]

-----------------------------------------------------------------------------
(* api_callback() *)

InCall(t) == \E c \in DOMAIN calls : calls[c].thread = t /\ ~calls[c].exited
CallOf(t) == CHOOSE c \in DOMAIN calls : calls[c].thread = t /\ ~calls[c].exited

StampAfter(t, time) == [timestamp EXCEPT ![t] = time]

ApiEnter(t, api) ==
    LET reported == context = "started" /\ contains(api) IN
    /\ ~InCall(t) /\ Len(calls) < MaxEvents
    /\ calls' = Append(calls, [thread |-> t, api |-> api, exited |-> FALSE,
                               traced |-> context = "started", reported |-> reported])
    /\ timestamp' = IF reported THEN StampAfter(t, clocktime(Len(calls) + 1)) ELSE timestamp
    /\ UNCHANGED <<contextVars, operations, buffer, rowVars>>

\* A call puts its operation into a stream, and a barrier behind a copy.
Enqueue(t) ==
    /\ InCall(t) /\ calls[CallOf(t)].api \in LaunchApis \cup CopyApis
    /\ ~\E i \in DOMAIN operations : operations[i].corr = CallOf(t)
    /\ operations' = operations \o
           IF calls[CallOf(t)].api \in LaunchApis
           THEN <<[corr |-> CallOf(t), kind |-> "kernel", at |-> "queued"]>>
           ELSE <<[corr |-> CallOf(t), kind |-> "copy", at |-> "queued"],
                  [corr |-> CallOf(t), kind |-> "barrier", at |-> "queued"]>>
    /\ UNCHANGED <<contextVars, calls, timestamp, buffer, rowVars>>

Ids == IF idsFrom = 0 THEN storageNow ELSE idsFrom

\* unwind(): the frames of the caller, behind the row of the call.
unwind(c) == {[call |-> c, depth |-> d, storage |-> storageNow] : d \in 0 .. FrameDepth - 1}

RowsOfCall(c, t) ==
    [tables EXCEPT
        !.api = @ \cup {[call |-> c, start |-> timestamp[t], storage |-> storageNow, ids |-> Ids]},
        !.kernels = IF calls[c].api \in LaunchApis THEN @ \cup {c} ELSE @,
        !.copies = IF calls[c].api \in CopyApis
                   THEN @ \cup {[call |-> c, sync |-> Sync(calls[c].api)]} ELSE @,
        !.frames = @ \cup unwind(c)]

ApiExit(t) ==
    LET c == CallOf(t) IN
    /\ InCall(t)
    /\ calls[c].api \in LaunchApis \cup CopyApis =>
           \E i \in DOMAIN operations : operations[i].corr = c
    /\ Sync(calls[c].api) => \A i \in DOMAIN operations :
                                 operations[i].corr = c => operations[i].at # "queued"
    /\ calls' = [calls EXCEPT ![c].exited = TRUE]
    /\ IF calls[c].reported
       THEN tables' = RowsOfCall(c, t) /\ idsFrom' = Ids
       ELSE UNCHANGED <<tables, idsFrom>>
    /\ UNCHANGED <<contextVars, timestamp, operations, buffer, storageNow>>

-----------------------------------------------------------------------------
(* hcc_activity_callback() *)

Recorded(i) == calls[operations[i].corr].traced

Complete(i) ==
    /\ operations[i].at = "queued" /\ Len(buffer) < PoolSize
    /\ operations' = [operations EXCEPT ![i].at = "completed"]
    /\ buffer' = IF Recorded(i) THEN Append(buffer, i) ELSE buffer
    /\ UNCHANGED <<contextVars, calls, timestamp, rowVars>>

OpRow(i) == [op |-> i, corr |-> operations[i].corr, start |-> adjust_external_ts(Raw(i))]

\* Weaker: markers are logged, too.
RowsOfAll(batch) == [j \in DOMAIN batch |-> OpRow(batch[j])]

\* Markers are not logged.
RowsOfBatch(batch) ==
    LET logged == Selected(batch, {i \in DOMAIN operations : operations[i].kind # "barrier"})
    IN [j \in DOMAIN logged |-> OpRow(logged[j])]

hcc_activity_callback ==
    /\ buffer # <<>>
    /\ tables' = [tables EXCEPT !.ops = @ \o RowsOfBatch(buffer)]
    /\ operations' = [i \in DOMAIN operations |->
                        IF i \in Range(buffer) THEN [operations[i] EXCEPT !.at = "handed over"]
                                               ELSE operations[i]]
    /\ buffer' = <<>>
    /\ UNCHANGED <<contextVars, calls, timestamp, idsFrom, storageNow>>

PoolFull == Len(buffer) = PoolSize /\ hcc_activity_callback

-----------------------------------------------------------------------------
(* The life cycle, called by the Logger *)

init ==
    /\ context = "none" /\ starts = 0 /\ calls = <<>>
    /\ context' = "stopped"
    /\ UNCHANGED <<starts, calls, timestamp, operations, buffer, rowVars>>

startTracing ==
    /\ context = "stopped" /\ starts < MaxStarts
    /\ context' = "started" /\ starts' = starts + 1
    /\ UNCHANGED <<calls, timestamp, operations, buffer, rowVars>>

stopTracing ==
    /\ context = "started"
    /\ context' = "stopped"
    /\ UNCHANGED <<starts, calls, timestamp, operations, buffer, rowVars>>

flush == context # "none" /\ hcc_activity_callback

\* The stop, the domains and the flush of end(); the Logger stopped it before.
end ==
    /\ context = "stopped" /\ starts > 0 /\ buffer = <<>>
    /\ context' = "none"
    /\ UNCHANGED <<starts, calls, timestamp, operations, buffer, rowVars>>

\* resetStorage(): a new storage, and reset() of the source.
IdsAfterReset == 0
reset ==
    /\ context = "stopped" /\ storageNow = 1
    /\ storageNow' = 2 /\ idsFrom' = IdsAfterReset
    /\ UNCHANGED <<contextVars, calls, timestamp, operations, buffer, tables>>

-----------------------------------------------------------------------------
Next ==
    \/ \E t \in HipThreads : (\E api \in Apis : ApiEnter(t, api)) \/ Enqueue(t) \/ ApiExit(t)
    \/ \E i \in DOMAIN operations : Complete(i)
    \/ PoolFull
    \/ init \/ startTracing \/ stopTracing \/ flush \/ end \/ reset

-----------------------------------------------------------------------------
(* Properties *)

\* "From TLS from preceding enter call" (RoctracerDataSource.cpp:112): the row
\* of a call starts at the enter of that very call, on the reference clock, with
\* ids of the storage it is in and its frames beside it, whatever other threads,
\* stops and storage swaps come between the two callbacks.
CallRowsAreOwn ==
    /\ \A row \in tables.api : row.start = clocktime(row.call) /\ row.ids = row.storage
    /\ \A frame \in tables.frames :
           \E row \in tables.api : row.call = frame.call /\ row.storage = frame.storage

\* Every operation that was handed over, and is no marker, has one row, whatever
\* the pool holds when it is handed over and whether a stop or a flush comes
\* first; its times are on the reference clock, and a launch or copy of a call
\* that was reported can be joined with the call's row once the call returned.
OperationsOnce ==
    /\ \A i \in DOMAIN operations :
           Cardinality({j \in DOMAIN tables.ops : tables.ops[j].op = i}) =
               IF operations[i].at = "handed over" /\ operations[i].kind # "barrier" THEN 1 ELSE 0
    /\ \A j \in DOMAIN tables.ops :
           LET op == tables.ops[j] IN
           /\ op.start = clocktime(op.op)
           /\ calls[op.corr].exited =>
                /\ \E row \in tables.api : row.call = op.corr
                /\ op.corr \in tables.kernels \/ \E row \in tables.copies : row.call = op.corr
=============================================================================
