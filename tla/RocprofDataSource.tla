--------------------------- MODULE RocprofDataSource ---------------------------
(***************************************************************************)
(* The rocprofiler-sdk source (rpd_tracer/RocprofDataSource.cpp).  The sdk *)
(* appends a record to one buffer whenever an API call returns, an         *)
(* operation of the device completes, the counters of a dispatch were read *)
(* or nothing refers to a call any more, and hands the records over in     *)
(* batches, at its watermark or on flush(), to buffer_callback() on one    *)
(* thread.  counter_dispatch_callback() runs on the thread that launches.  *)
(* The sdk is external: the order in which it appends records is open as   *)
(* far as the events themselves leave it open.  A correlation id, a        *)
(* dispatch id and an operation's row id are positions in the sequences    *)
(* calls, dispatches and ops; the arguments of a call are its correlation  *)
(* id, so that a row with another call's data shows.                       *)
(***************************************************************************)
EXTENDS Integers, Sequences, FiniteSets, Functions

CONSTANTS
    HipThreads,     \* threads that call HIP
    Apis,           \* the APIs they call
    Agents, SetsOf, \* GPUs; SetsOf[a]: the counter sets agent a can collect, in order
    NameOf,         \* name of each kernel id
    CountersOf,     \* CountersOf[s]: the counters of set s, in the order they are read
    CollectCounters,\* RPDT_ROCPROF_COLLECT_COUNTERS
    MaxSlots,       \* CTR_ACCUM_BUCKETS
    MaxEvents,      \* bound: API calls, scratch and kfd records
    MaxStarts       \* bound: startTracing() calls

VARIABLES
    context, starts,                \* contexts[0]: "none", "stopped", "started"
    registered,                     \* kernel_names and kernelIdToName
    counterConfigs, dispatchCount,  \* configs by agent, kernelDispatchCount
    calls, dispatches, others,      \* what the application did so far
    buffer,                         \* records not handed over yet
    pending,                        \* pendingKernels, pendingCopies and dispatchOpId
    idsFrom, storageNow,            \* storage of the cached ids (0: not cached), m_storage
    tables                          \* rows: ops, kernels, copies, counters

contextVars == <<context, starts>>
appVars     == <<calls, dispatches, others, registered>>
configVars  == <<counterConfigs, dispatchCount>>
rowVars     == <<pending, idsFrom, storageNow, tables>>

Kernels == DOMAIN NameOf
Empty   == [x \in {} |-> 0]
With(f, key, v) == [x \in DOMAIN f \cup {key} |-> IF x = key THEN v ELSE f[x]]
Without(f, key) == [x \in DOMAIN f \ {key} |-> f[x]]

-----------------------------------------------------------------------------
(* The APIs, by what the switches make of them *)

isKernelApi(api) == api \in {"hipLaunchKernel", "hipExtLaunchMultiKernelMultiDevice"}
isCopyApi(api)   == api \in {"hipMemcpy", "hipMemcpy2D"}

\* Launches on several devices and copies of arrays, symbols and peers are
\* known as launches and copies, but no data is taken from their arguments.
NoArgs == 0
extractKernelLaunchData(api, args) == IF api = "hipLaunchKernel" THEN args ELSE NoArgs
extractCopyData(api, args)         == IF api = "hipMemcpy" THEN args ELSE NoArgs

\* toolInit() omits some calls from the API service.
allEnabled == Apis \ {"hipGetDevice"}

-----------------------------------------------------------------------------
(* rocprofiler-sdk and the application *)

Init ==
    /\ context = "none" /\ starts = 0 /\ registered = {}
    /\ counterConfigs = Empty
    /\ dispatchCount = [n \in {NameOf[k] : k \in Kernels} |-> 0]
    /\ calls = <<>> /\ dispatches = <<>> /\ others = 0
    /\ buffer = <<>>
    /\ pending = [kernels |-> Empty, copies |-> Empty, opIds |-> Empty]
    /\ idsFrom = 0 /\ storageNow = 1
    /\ tables = [ops |-> <<>>, kernels |-> {}, copies |-> {}, counters |-> {}]

Emplace(traced, records) == buffer' = IF traced THEN buffer \o records ELSE buffer
InCall(t)      == \E c \in DOMAIN calls : calls[c].thread = t /\ ~calls[c].exited
CallOf(t)      == CHOOSE c \in DOMAIN calls : calls[c].thread = t /\ ~calls[c].exited
DispatchOf(c)  == {d \in DOMAIN dispatches : dispatches[d].corr = c}

ApiEnter(t, api) ==
    /\ ~InCall(t) /\ Len(calls) + others < MaxEvents /\ registered = Kernels
    /\ calls' = Append(calls, [thread |-> t, api |-> api, exited |-> FALSE,
                               traced |-> context = "started",
                               copying |-> isCopyApi(api), retired |-> FALSE])
    /\ UNCHANGED <<contextVars, dispatches, others, registered, configVars, buffer, rowVars>>

Enqueue(t, k, a) ==
    /\ InCall(t) /\ isKernelApi(calls[CallOf(t)].api) /\ DispatchOf(CallOf(t)) = {}
    /\ dispatches' = Append(dispatches,
           [corr |-> CallOf(t), kernel |-> k, agent |-> a, set |-> 0, counted |-> FALSE,
            at |-> IF CollectCounters /\ calls[CallOf(t)].traced THEN "new" ELSE "queued"])
    /\ UNCHANGED <<contextVars, calls, others, registered, configVars, buffer, rowVars>>

\* A completed operation; its counters are read before or after its record.
Complete(d) ==
    /\ dispatches[d].at = "queued"
    /\ dispatches' = [dispatches EXCEPT ![d].at = "done"]
    /\ Emplace(calls[dispatches[d].corr].traced,
               <<[kind |-> "dispatch", corr |-> dispatches[d].corr, disp |-> d]>>)
    /\ UNCHANGED <<contextVars, calls, others, registered, configVars, rowVars>>

Values(d) == LET counters == CountersOf[dispatches[d].set] IN
    [i \in DOMAIN counters |-> [kind |-> "value", disp |-> d, counter |-> counters[i], part |-> i]]

ReadCounters(d) ==
    /\ dispatches[d].at \in {"queued", "done"}
    /\ dispatches[d].set # 0 /\ ~dispatches[d].counted
    /\ dispatches' = [dispatches EXCEPT ![d].counted = TRUE]
    /\ Emplace(TRUE, <<[kind |-> "header", disp |-> d]>> \o Values(d))
    /\ UNCHANGED <<contextVars, calls, others, registered, configVars, rowVars>>

CompleteCopy(c) ==
    /\ calls[c].copying
    /\ calls' = [calls EXCEPT ![c].copying = FALSE]
    /\ Emplace(calls[c].traced, <<[kind |-> "copy", corr |-> c]>>)
    /\ UNCHANGED <<contextVars, dispatches, others, registered, configVars, rowVars>>

ApiExit(t) ==
    /\ InCall(t)
    /\ isKernelApi(calls[CallOf(t)].api) =>
           \E d \in DispatchOf(CallOf(t)) : dispatches[d].at \in {"queued", "done"}
    /\ calls' = [calls EXCEPT ![CallOf(t)].exited = TRUE]
    /\ Emplace(calls[CallOf(t)].traced /\ calls[CallOf(t)].api \in allEnabled,
               <<[kind |-> "api", corr |-> CallOf(t), api |-> calls[CallOf(t)].api]>>)
    /\ UNCHANGED <<contextVars, dispatches, others, registered, configVars, rowVars>>

\* The call has returned, its operations have completed: the last record.
Retire(c) ==
    /\ calls[c].traced /\ calls[c].exited /\ ~calls[c].copying /\ ~calls[c].retired
    /\ \A d \in DispatchOf(c) : dispatches[d].at = "done"
    /\ calls' = [calls EXCEPT ![c].retired = TRUE]
    /\ Emplace(TRUE, <<[kind |-> "retire", corr |-> c]>>)
    /\ UNCHANGED <<contextVars, dispatches, others, registered, configVars, rowVars>>

OtherRecord(kind) ==
    /\ context = "started" /\ Len(calls) + others < MaxEvents
    /\ others' = others + 1
    /\ Emplace(TRUE, <<[kind |-> kind]>>)
    /\ UNCHANGED <<contextVars, calls, dispatches, registered, configVars, rowVars>>

\* code_object_callback(): a kernel symbol is loaded.
RegisterKernel(k) ==
    /\ context # "none" /\ k \notin registered
    /\ registered' = registered \cup {k}
    /\ UNCHANGED <<contextVars, calls, dispatches, others, configVars, buffer, rowVars>>

-----------------------------------------------------------------------------
(* counter_dispatch_callback() *)

\* A set the agent cannot collect is left out.
buildCounterConfigs(a) ==
    IF a \in DOMAIN counterConfigs THEN counterConfigs ELSE With(counterConfigs, a, SetsOf[a])

CountKey(d) == NameOf[dispatches[d].kernel]

NotCounted(count)    == count       \* the next dispatch gets the same set
CountAfter(count)    == count + 1

\* An agent's configs never change once built, so that the callback's critical
\* sections can be taken together.
counter_dispatch_callback(d) ==
    LET configs == buildCounterConfigs(dispatches[d].agent)[dispatches[d].agent]
        count   == dispatchCount[CountKey(d)]
        counted == configs # <<>> /\ dispatches[d].kernel \in registered
    IN /\ dispatches[d].at = "new"
       /\ counterConfigs' = buildCounterConfigs(dispatches[d].agent)
       /\ dispatches' = [dispatches EXCEPT ![d].at = "queued",
                ![d].set = IF counted THEN configs[(count % Len(configs)) + 1] ELSE 0]
       /\ dispatchCount' = IF counted THEN [dispatchCount EXCEPT ![CountKey(d)] = CountAfter(count)]
                                      ELSE dispatchCount
       /\ UNCHANGED <<contextVars, calls, others, registered, buffer, rowVars>>

-----------------------------------------------------------------------------
(* buffer_callback(): `st` is what it changes, ctrOp and slots its locals *)

Ids == IF idsFrom = 0 THEN storageNow ELSE idsFrom
OpRow(corr, disp)    == [corr |-> corr, disp |-> disp, storage |-> storageNow, ids |-> Ids]
CounterRow(op, slot) == [op |-> op, counter |-> slot.counter, parts |-> slot.parts, storage |-> storageNow]

OnDispatch(st, r) ==
    LET op == Len(st.rows.ops) + 1 IN
    [st EXCEPT
        !.rows.ops = Append(@, OpRow(r.corr, r.disp)),
        !.pend.opIds = IF CollectCounters THEN With(@, r.disp, op) ELSE @,
        !.rows.kernels = IF r.corr \in DOMAIN st.pend.kernels
                         THEN @ \cup {[corr |-> r.corr, args |-> st.pend.kernels[r.corr]]}
                         ELSE @]

OnCopy(st, r) ==
    [st EXCEPT
        !.rows.ops = Append(@, OpRow(r.corr, 0)),
        !.rows.copies = IF r.corr \in DOMAIN st.pend.copies
                        THEN @ \cup {[corr |-> r.corr, args |-> st.pend.copies[r.corr]]}
                        ELSE @]

\* The row of the api table is written here too; nothing refers to it.
OnApi(st, r) ==
    [st EXCEPT
        !.pend.kernels = IF isKernelApi(r.api)
                         THEN With(@, r.corr, extractKernelLaunchData(r.api, r.corr)) ELSE @,
        !.pend.copies = IF isCopyApi(r.api)
                        THEN With(@, r.corr, extractCopyData(r.api, r.corr)) ELSE @]

OnRetire(st, r) == [st EXCEPT !.pend.kernels = Without(@, r.corr),
                              !.pend.copies = Without(@, r.corr)]

\* Page migrations, page faults and queue events of the driver, with api_id 0.
OnKfd(st, r) == [st EXCEPT !.rows.ops = Append(@, OpRow(0, 0))]

\* flush_counters(): a row for each slot, the sum or average of its parts.  The
\* id of its name is not one of the cached ones.
FlushCounters(st) ==
    [st EXCEPT !.rows.counters = @ \cup
                   {CounterRow(st.ctrOp, slot) : slot \in Range(st.slots)},
               !.slots = <<>>, !.ctrOp = 0]

TakeOp(st, r) ==
    IF r.disp \in DOMAIN st.pend.opIds
    THEN [st EXCEPT !.ctrOp = st.pend.opIds[r.disp], !.pend.opIds = Without(@, r.disp)]
    ELSE st

OnHeader(st, r) == TakeOp(FlushCounters(st), r)

\* A value whose header was not in this batch is ignored, and one of a counter
\* beyond the last slot.
OnValue(st, r) ==
    LET part == <<r.disp, r.part>>
        own  == {i \in DOMAIN st.slots : st.slots[i].counter = r.counter}
    IN IF st.ctrOp = 0 THEN st
       ELSE IF own # {} THEN [st EXCEPT !.slots[CHOOSE i \in own : TRUE].parts = @ \cup {part}]
       ELSE IF Len(st.slots) < MaxSlots
       THEN [st EXCEPT !.slots = Append(@, [counter |-> r.counter, parts |-> {part}])]
       ELSE st

\* Scratch memory is a row of the api table, which nothing refers to.
OnRecord(st, r) ==
    CASE r.kind = "dispatch" -> OnDispatch(st, r)
      [] r.kind = "copy"     -> OnCopy(st, r)
      [] r.kind = "api"      -> OnApi(st, r)
      [] r.kind = "retire"   -> OnRetire(st, r)
      [] r.kind = "kfd"      -> OnKfd(st, r)
      [] r.kind = "header"   -> OnHeader(st, r)
      [] r.kind = "value"    -> OnValue(st, r)
      [] r.kind = "scratch"  -> st

\* One callback at a time, and nothing else touches what it changes.  A batch is
\* all there is, or ends among the values that are just being appended.
BatchEnds == {n \in DOMAIN buffer : \A i \in n + 1 .. Len(buffer) : buffer[i].kind = "value"}

\* After the first i records.
Handled[i \in Nat] ==
    IF i = 0 THEN [pend |-> pending, rows |-> tables, ctrOp |-> 0, slots |-> <<>>]
    ELSE OnRecord(Handled[i - 1], buffer[i])

buffer_callback(n) ==
    LET after == FlushCounters(Handled[n])
    IN /\ n \in BatchEnds
       /\ pending' = after.pend /\ tables' = after.rows
       /\ idsFrom' = IF idsFrom = 0 THEN storageNow ELSE idsFrom
       /\ buffer' = SubSeq(buffer, n + 1, Len(buffer))
       /\ UNCHANGED <<contextVars, appVars, configVars, storageNow>>

-----------------------------------------------------------------------------
(* The life cycle, called by the Logger *)

\* The constructor forces the configuration.
toolInit ==
    /\ context = "none" /\ starts = 0
    /\ context' = "stopped"
    /\ UNCHANGED <<starts, appVars, configVars, buffer, rowVars>>

startTracing ==
    /\ context = "stopped" /\ starts < MaxStarts
    /\ context' = "started" /\ starts' = starts + 1
    /\ UNCHANGED <<appVars, configVars, buffer, rowVars>>

stopTracing ==
    /\ context = "started"
    /\ context' = "stopped"
    /\ UNCHANGED <<starts, appVars, configVars, buffer, rowVars>>

flush == buffer_callback(Len(buffer))

\* end() flushes; then the sdk calls toolFinialize(), which stops the context.
end ==
    /\ context = "stopped" /\ starts > 0 /\ buffer = <<>>
    /\ context' = "none"
    /\ UNCHANGED <<starts, appVars, configVars, buffer, rowVars>>

\* resetStorage(): a new storage, and reset() of the source.  Assumed: no record
\* of the first storage's operations is still to come.
Quiet == buffer = <<>> /\ \A d \in DOMAIN dispatches :
             dispatches[d].at = "done" /\ (dispatches[d].set # 0 => dispatches[d].counted)
IdsAfterReset == 0

reset ==
    /\ context = "stopped" /\ storageNow = 1 /\ Quiet
    /\ storageNow' = 2 /\ idsFrom' = IdsAfterReset
    /\ UNCHANGED <<contextVars, appVars, configVars, buffer, pending, tables>>

-----------------------------------------------------------------------------
Application ==
    \/ \E t \in HipThreads : \/ \E api \in Apis : ApiEnter(t, api)
                             \/ \E k \in Kernels, a \in Agents : Enqueue(t, k, a)
                             \/ ApiExit(t)
    \/ \E d \in DOMAIN dispatches : \/ counter_dispatch_callback(d)
                                    \/ Complete(d) \/ ReadCounters(d)
    \/ \E c \in DOMAIN calls : CompleteCopy(c) \/ Retire(c)
    \/ \E k \in Kernels : RegisterKernel(k)
    \/ \E kind \in {"scratch", "kfd"} : OtherRecord(kind)

LifeCycle == toolInit \/ startTracing \/ stopTracing \/ flush \/ end \/ reset

Next ==
    \/ Application \/ LifeCycle
    \/ \E n \in BatchEnds \ {Len(buffer)} : buffer_callback(n)

-----------------------------------------------------------------------------
(* Properties *)

\* "links each value to a kernel dispatch via op_id" (README_gpucounters.md):
\* a counter's row sums records of the dispatch its operation stands for and
\* of no other, each counter of a dispatch has one row, and the row is in the
\* storage of that operation, wherever batches end and in whatever order the
\* sdk appends headers, values and dispatches of several kernels.
CountersOfOneDispatch ==
    \A row \in tables.counters :
        LET op == tables.ops[row.op] IN
        /\ \A part \in row.parts :
               part[1] = op.disp /\ CountersOf[dispatches[op.disp].set][part[2]] = row.counter
        /\ row.storage = op.storage
        /\ \A other \in tables.counters :
               other.op = row.op /\ other.counter = row.counter => other = row

\* Every row carries the string ids of the storage it is written to and, for a
\* launch or a copy, its own call's arguments; a call's arguments are kept until
\* its last operation, and once its records were handed over none is left behind.
RowsOfOwnCall ==
    /\ \A i \in DOMAIN tables.ops : tables.ops[i].ids = tables.ops[i].storage
    /\ \A row \in tables.kernels :
           row.args = extractKernelLaunchData(calls[row.corr].api, row.corr)
    /\ \A row \in tables.copies : row.args = extractCopyData(calls[row.corr].api, row.corr)
    /\ \A c \in DOMAIN pending.kernels \cup DOMAIN pending.copies :
           calls[c].retired => \E i \in DOMAIN buffer : buffer[i] = [kind |-> "retire", corr |-> c]

\* "The sets rotate per kernel: the first dispatch of a given kernel uses set
\* 1, the second uses set 2, then back" (README_gpucounters.md), also for a
\* kernel of two code objects and launches of several threads: on one agent
\* no set is ahead of another by more than one dispatch.
Uses(name, s) == Cardinality({d \in DOMAIN dispatches :
                                 NameOf[dispatches[d].kernel] = name /\ dispatches[d].set = s})
SetsTakeTurns ==
    \A name \in DOMAIN dispatchCount, a \in Agents :
        (\A d \in DOMAIN dispatches :
            NameOf[dispatches[d].kernel] = name => dispatches[d].agent = a)
        => \A s1, s2 \in Range(SetsOf[a]) : Uses(name, s1) - Uses(name, s2) <= 1
=============================================================================
