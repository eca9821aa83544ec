--------------------------- MODULE AmdSmiDataSource ---------------------------
(***************************************************************************)
(* The sampling of GPU metrics (rpd_tracer/AmdSmiDataSource.cpp) and the   *)
(* runs of equal values that the monitor table makes of the samples        *)
(* (rpd_tracer/MonitorTable.cpp; a finished run goes into its ring, which  *)
(* BufferedTable models).  A worker reads the metrics and inserts one slot *)
(* after the other; stopTracing() and flush() end all runs from their own  *)
(* thread.  Nothing guards the runs: an access is one step here, and two   *)
(* at once is a data race whose other outcomes are left out.  The time of  *)
(* the readings comes from the driver and that of a stop from              *)
(* clocktime_ns(): they are assumed to be one clock.                       *)
(***************************************************************************)
EXTENDS Integers, Sequences, FiniteSets, Functions

CONSTANTS
    Slots,          \* the metrics enabled, in order
    Deadband,       \* Deadband[s]: a smaller change of metric s is no change
    Readings,       \* values a metric may have
    MaxTime,        \* bound: reads of the clock
    MaxStarts       \* bound: startTracing() calls

Unavailable == -1   \* UINT16_MAX
NotEmitted  == -2   \* INT_MIN

VARIABLES
    loggingActive, starts,
    worker,         \* "none", "waiting", "looping", "sampling", "ended"
    done, haveResource,
    metricsCache, readAt,   \* last readings, and their time
    todo,           \* slots that the worker has still to insert
    lastEmitted,    \* by slot
    values,         \* the open run of each slot that has one: value and start
    runs,           \* finished runs
    stopping,       \* stopTracing() is between its lock and endCurrentRuns()
    clock,
    disturbed       \* history: a control call met a sample in progress, or a read failed

smiVars == <<loggingActive, starts, worker, done, haveResource, metricsCache, readAt, todo,
             lastEmitted, values, runs, stopping, clock, disturbed>>
slotVars == <<metricsCache, readAt, todo, lastEmitted>>

SlotSet == Range(Slots)
abs(n) == IF n < 0 THEN -n ELSE n

Init ==
    /\ loggingActive = FALSE /\ starts = 0
    /\ worker = "none" /\ done = FALSE /\ haveResource = FALSE
    /\ metricsCache = [s \in SlotSet |-> 0] /\ readAt = 0 /\ todo = <<>>
    /\ lastEmitted = [s \in SlotSet |-> NotEmitted]
    /\ values = [s \in {} |-> 0] /\ runs = {}
    /\ stopping = FALSE /\ clock = 1 /\ disturbed = FALSE

Tick == clock < MaxTime /\ clock' = clock + 1

-----------------------------------------------------------------------------
(* MonitorTable *)

OpenRun(s, v, at) ==
    values' = [x \in DOMAIN values \cup {s} |->
                 IF x = s THEN [value |-> v, start |-> at] ELSE values[x]]
Finished(s, at) == [slot |-> s, start |-> values[s].start, end |-> at, value |-> values[s].value]

\* insert(): a changed value ends the run and begins the next.
insert(s, v, at) ==
    IF s \notin DOMAIN values THEN OpenRun(s, v, at) /\ UNCHANGED runs
    ELSE IF values[s].value # v THEN OpenRun(s, v, at) /\ runs' = runs \cup {Finished(s, at)}
    ELSE UNCHANGED <<values, runs>>

RunsKept == values          \* the runs are written and stay open
RunsLeft == [s \in {} |-> 0]

endCurrentRuns ==
    /\ runs' = runs \cup {Finished(s, clock) : s \in DOMAIN values}
    /\ values' = RunsLeft

-----------------------------------------------------------------------------
(* The worker *)

\* work() waits for the first startTracing(), then tries for the resource.
WorkBegin ==
    /\ worker = "waiting" /\ (loggingActive \/ done)
    /\ worker' = IF done THEN "ended" ELSE "looping"
    /\ haveResource' \in IF done THEN {FALSE} ELSE BOOLEAN
    /\ UNCHANGED <<loggingActive, starts, done, slotVars, values, runs, stopping, clock, disturbed>>

\* A failed read leaves the last one in the cache.
Read ==
    /\ worker = "looping" /\ ~done /\ haveResource /\ loggingActive
    /\ \/ /\ metricsCache' \in [SlotSet -> Readings \cup {Unavailable}]
          /\ Tick /\ readAt' = clock /\ UNCHANGED disturbed
       \/ disturbed' = TRUE /\ UNCHANGED <<metricsCache, readAt, clock>>
    /\ worker' = "sampling" /\ todo' = Slots
    /\ UNCHANGED <<loggingActive, starts, done, haveResource, lastEmitted, values, runs, stopping>>

collects(s) ==
    /\ metricsCache[s] # Unavailable
    /\ lastEmitted[s] # NotEmitted /\ Deadband[s] > 0
         => abs(metricsCache[s] - lastEmitted[s]) >= Deadband[s]

InsertSlot ==
    LET s == Head(todo) IN
    /\ worker = "sampling" /\ todo # <<>>
    /\ todo' = Tail(todo)
    /\ IF collects(s)
       THEN /\ lastEmitted' = [lastEmitted EXCEPT ![s] = metricsCache[s]]
            /\ insert(s, metricsCache[s], readAt)
       ELSE UNCHANGED <<lastEmitted, values, runs>>
    /\ UNCHANGED <<loggingActive, starts, worker, done, haveResource, metricsCache, readAt,
                   stopping, clock, disturbed>>

\* The wait at the end of the loop, after which it tries again for the resource.
Sleep ==
    /\ \/ worker = "sampling" /\ todo = <<>>
       \/ worker = "looping" /\ ~(haveResource /\ loggingActive)
    /\ worker' = IF done THEN "ended" ELSE "looping"
    /\ haveResource' \in IF haveResource THEN {TRUE} ELSE BOOLEAN
    /\ UNCHANGED <<loggingActive, starts, done, slotVars, values, runs, stopping, clock, disturbed>>

Leave ==
    /\ worker = "looping" /\ done
    /\ worker' = "ended"
    /\ UNCHANGED <<loggingActive, starts, done, haveResource, slotVars, values, runs, stopping,
                   clock, disturbed>>

-----------------------------------------------------------------------------
(* The life cycle, called by the Logger *)

Disturbs == disturbed' = (disturbed \/ worker = "sampling")

init ==
    /\ worker = "none" /\ ~done
    /\ worker' = "waiting"
    /\ UNCHANGED <<loggingActive, starts, done, haveResource, slotVars, values, runs, stopping,
                   clock, disturbed>>

startTracing ==
    /\ worker # "none" /\ ~done /\ ~loggingActive /\ ~stopping /\ starts < MaxStarts
    /\ loggingActive' = TRUE /\ starts' = starts + 1
    /\ Disturbs
    /\ UNCHANGED <<worker, done, haveResource, slotVars, values, runs, stopping, clock>>

StopBegin ==
    /\ loggingActive /\ ~done
    /\ loggingActive' = FALSE /\ stopping' = TRUE
    /\ Disturbs
    /\ UNCHANGED <<starts, worker, done, haveResource, slotVars, values, runs, clock>>

StopEnd ==
    /\ stopping
    /\ Tick /\ endCurrentRuns /\ stopping' = FALSE
    /\ Disturbs
    /\ UNCHANGED <<loggingActive, starts, worker, done, haveResource, slotVars>>

flush ==
    /\ worker # "none" /\ ~done /\ ~stopping
    /\ Tick /\ endCurrentRuns
    /\ Disturbs
    /\ UNCHANGED <<loggingActive, starts, worker, done, haveResource, slotVars, stopping>>

\* end() tells the worker and joins it; then the resource is unlocked.
EndBegin ==
    /\ worker # "none" /\ ~done /\ ~loggingActive /\ ~stopping
    /\ done' = TRUE
    /\ UNCHANGED <<loggingActive, starts, worker, haveResource, slotVars, values, runs, stopping,
                   clock, disturbed>>

EndJoin ==
    /\ done /\ worker = "ended"
    /\ worker' = "none" /\ haveResource' = FALSE
    /\ UNCHANGED <<loggingActive, starts, done, slotVars, values, runs, stopping, clock, disturbed>>

-----------------------------------------------------------------------------
Next ==
    \/ WorkBegin \/ Read \/ InsertSlot \/ Sleep \/ Leave
    \/ init \/ startTracing \/ StopBegin \/ StopEnd \/ flush \/ EndBegin \/ EndJoin

-----------------------------------------------------------------------------
(* Properties *)

\* The runs of a metric are what its time line is drawn from: they never
\* overlap, a run that follows another at once has another value, and while
\* tracing is on the open run is within the deadband of the last sample,
\* across changes, flushes, stops and starts, as long as no control call met a
\* sample in progress and every read succeeded.
MonitorRuns ==
    ~disturbed =>
        /\ \A r \in runs : r.start <= r.end
        /\ \A r, q \in runs : r.slot = q.slot /\ r # q => r.end <= q.start \/ q.end <= r.start
        /\ \A s \in DOMAIN values : \A r \in runs : r.slot = s => r.end <= values[s].start
        /\ \A s \in DOMAIN values :
               s \notin Range(todo) /\ metricsCache[s] # Unavailable
                 => values[s].value = metricsCache[s]
                    \/ abs(values[s].value - metricsCache[s]) < Deadband[s]
        /\ ~loggingActive /\ ~stopping => DOMAIN values = {}
=============================================================================
