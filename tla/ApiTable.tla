------------------------------- MODULE ApiTable -------------------------------
(***************************************************************************)
(* The table of API calls (rpd_tracer/ApiTable.cpp).  It differs from the  *)
(* tables of BufferedTable in two ways:                                    *)
(*   - insert() tests for a full ring once, sleeps once, records the time  *)
(*     it was blocked as a row of this same table (a nested insert()), and *)
(*     then stores its row without testing again;                          *)
(*   - the worker itself inserts: writeRows ends with createOverheadRecord *)
(*     (rpd_tracer/Logger.cpp), whose row goes to this table.              *)
(* Since overhead rows make more overhead rows, rows are not numbered here *)
(* but counted relative to m_tail, which keeps endless behaviours finite:  *)
(* size is m_head - m_tail and left is flushTarget - m_tail.  flushRows()  *)
(* and the strings of a record do not touch this state and are left out,   *)
(* so m_mutex is never held across two steps.                              *)
(***************************************************************************)
EXTENDS Integers, FiniteSets

CONSTANTS
    Inserters, Flushers, Worker, Finalizer,     \* threads, as in BufferedTable
    BUFFERSIZE, BATCHSIZE,
    ClearsOverhead, \* finalize() is reached through Logger::finalize, which
                    \* clears m_writeOverheadRecords first; resetStorage does not
    QuietFinalize,  \* environment: rpdstop() came first, nobody inserts or
                    \* flushes once the table is being finalized
    MaxCalls,       \* bound: insert() calls made by the application
    MaxDepth        \* bound: nesting of insert() within insert()

Threads == Inserters \cup Flushers \cup {Worker, Finalizer}

VARIABLES
    size, left,             \* m_head - m_tail, flushTarget - m_tail (0 if less)
    flushRequested, done, workerRunning,
    overhead,               \* Logger::m_writeOverheadRecords
    waiting, pc,            \* as in BufferedTable
    ret, count,             \* the worker: caller of writeRows, rows in its batch
    depth,                  \* insert() calls of a thread that wait for a nested one
    calls                   \* insert() calls made so far

flags  == <<flushRequested, done>>
worker == <<ret, count>>
vars   == <<size, left, flags, workerRunning, overhead, waiting, pc, worker,
            depth, calls>>

Awake(t) == t \notin waiting

AfterNotifyOne == IF waiting = {} THEN {{}}
                  ELSE {waiting \ {t} : t \in waiting}

Goto(t, place) == pc' = [pc EXCEPT ![t] = place]

Init ==
    /\ size = 0 /\ left = 0
    /\ flushRequested = FALSE /\ done = FALSE /\ workerRunning = TRUE
    /\ overhead = TRUE
    /\ waiting = {}
    /\ pc = [t \in Threads |-> IF t = Worker THEN "parked" ELSE "idle"]
    /\ ret = "batch" /\ count = 0
    /\ depth = [t \in Inserters \cup {Worker} |-> 0]
    /\ calls = 0

-----------------------------------------------------------------------------
(* insert(), by the application, by createOverheadRecord in the worker, or *)
(* nested in a blocked insert().                                           *)

\* Where the worker goes once writeRows is over: the batch loop notifies all.
AfterWriteRows == IF ret = "batch" THEN "notify" ELSE ret

\* Store the row, wake the worker if it sleeps on a full batch, and return to
\* the enclosing insert(), which stores its own row next, or to the caller.
StoreAndReturn(t) ==
    /\ size' = size + 1
    /\ IF ~workerRunning /\ size + 1 >= BATCHSIZE
       THEN waiting' \in AfterNotifyOne
       ELSE UNCHANGED waiting
    /\ IF depth[t] > 0
       THEN /\ Goto(t, "store")
            /\ depth' = [depth EXCEPT ![t] = @ - 1]
       ELSE /\ Goto(t, IF t = Worker THEN AfterWriteRows ELSE "idle")
            /\ UNCHANGED depth

\* The test for a full ring.
Enter(t) ==
    IF size >= BUFFERSIZE
    THEN /\ \E W \in AfterNotifyOne : waiting' = W \cup {t}
         /\ Goto(t, "blocked")
         /\ UNCHANGED <<size, depth>>
    ELSE StoreAndReturn(t)

MayCall == QuietFinalize => pc[Finalizer] = "idle"

Insert(p) ==
    /\ pc[p] = "idle" /\ calls < MaxCalls /\ MayCall
    /\ Enter(p)
    /\ calls' = calls + 1
    /\ UNCHANGED <<left, flags, workerRunning, overhead, worker>>

\* The nested insert() of a BLOCKING record, or the worker's own record.
NestedInsert(t) ==
    /\ pc[t] = "enter" /\ Awake(t)
    /\ Enter(t)
    /\ UNCHANGED <<left, flags, workerRunning, overhead, worker, calls>>

\* The wait is over: record it, unless overhead records are off.
Unblock(t) ==
    /\ pc[t] = "blocked" /\ Awake(t)
    /\ IF overhead
       THEN /\ depth[t] < MaxDepth
            /\ depth' = [depth EXCEPT ![t] = @ + 1]
            /\ Goto(t, "enter")
       ELSE Goto(t, "store") /\ UNCHANGED depth
    /\ UNCHANGED <<size, left, flags, workerRunning, overhead, waiting, worker, calls>>

\* After the BLOCKING record: store the row, full or not.
StoreUnchecked(t) ==
    /\ pc[t] = "store" /\ Awake(t)
    /\ StoreAndReturn(t)
    /\ UNCHANGED <<left, flags, workerRunning, overhead, worker, calls>>

-----------------------------------------------------------------------------
(* work(): the same loops as in BufferedTable. *)

CallWriteRows(from) == ret' = from /\ Goto(Worker, "take") /\ workerRunning' = TRUE

Drain(W) ==
    /\ waiting' = W
    /\ IF size > 0
       THEN CallWriteRows("drain")
       ELSE Goto(Worker, "exited") /\ workerRunning' = TRUE /\ UNCHANGED ret

ParkAlways(W) ==
    /\ waiting' = W \cup {Worker} /\ workerRunning' = FALSE
    /\ Goto(Worker, "parked") /\ UNCHANGED ret
Park(W) == IF done THEN Drain(W) ELSE ParkAlways(W)

FlushLoop ==
    IF left > 0
    THEN CallWriteRows("flush") /\ UNCHANGED <<waiting, flushRequested>>
    ELSE flushRequested' = FALSE /\ Park({})

BatchNeverEnds == size > 0
BatchReady == size >= BATCHSIZE

BatchLoop ==
    IF BatchReady
    THEN CallWriteRows("batch") /\ UNCHANGED <<waiting, flushRequested>>
    ELSE IF flushRequested THEN FlushLoop
                           ELSE Park(waiting) /\ UNCHANGED flushRequested

WorkerStep ==
    /\ Awake(Worker)
    /\ \/ /\ pc[Worker] = "parked"
          /\ IF done THEN Drain(waiting) /\ UNCHANGED flushRequested
                     ELSE BatchLoop
       \/ pc[Worker] = "batch" /\ BatchLoop
       \/ pc[Worker] = "flush" /\ FlushLoop
       \/ pc[Worker] = "drain" /\ Drain(waiting) /\ UNCHANGED flushRequested
    /\ UNCHANGED <<size, left, done, overhead, count, depth, calls>>

RowsToWrite == IF size > BATCHSIZE THEN BATCHSIZE ELSE size

TakeBatch ==
    /\ pc[Worker] = "take"
    /\ count' = RowsToWrite
    /\ Goto(Worker, "commit")
    /\ UNCHANGED <<size, left, flags, workerRunning, overhead, waiting, ret, depth, calls>>

\* m_tail = end, then the overhead record of this writeRows.
LeftAfterBatch == IF left > count THEN left - count ELSE 0

CommitBatch ==
    /\ pc[Worker] = "commit"
    /\ size' = size - count
    /\ left' = LeftAfterBatch
    /\ Goto(Worker, IF overhead THEN "enter" ELSE AfterWriteRows)
    /\ UNCHANGED <<flags, workerRunning, overhead, waiting, worker, depth, calls>>

NotifyAll ==
    /\ pc[Worker] = "notify"
    /\ waiting' = {}
    /\ Goto(Worker, "batch")
    /\ UNCHANGED <<size, left, flags, workerRunning, overhead, worker, depth, calls>>

-----------------------------------------------------------------------------
(* flush() and finalize() *)

FlushCall(f) ==
    /\ pc[f] = "idle" /\ MayCall
    /\ left' = size /\ flushRequested' = TRUE
    /\ \E W \in AfterNotifyOne : waiting' = W \cup {f}
    /\ Goto(f, "waitflush")
    /\ UNCHANGED <<size, done, workerRunning, overhead, worker, depth, calls>>

FlushWake(f) ==
    /\ pc[f] = "waitflush" /\ Awake(f)
    /\ IF flushRequested THEN waiting' = waiting \cup {f} /\ UNCHANGED pc
                         ELSE Goto(f, "idle") /\ UNCHANGED waiting
    /\ UNCHANGED <<size, left, flags, workerRunning, overhead, worker, depth, calls>>

\* Logger::finalize or Logger::resetStorage, on the way to Storage::finalize.
OverheadCleared == overhead /\ ~ClearsOverhead

FinalizeBegin ==
    /\ pc[Finalizer] = "idle"
    /\ QuietFinalize => \A t \in Inserters \cup Flushers : pc[t] = "idle"
    /\ overhead' = OverheadCleared
    /\ Goto(Finalizer, "finalize")
    /\ UNCHANGED <<size, left, flags, workerRunning, waiting, worker, depth, calls>>

FinalizeCall ==
    /\ pc[Finalizer] = "finalize"
    /\ done' = TRUE
    /\ waiting' \in AfterNotifyOne
    /\ Goto(Finalizer, "joining")
    /\ UNCHANGED <<size, left, flushRequested, workerRunning, overhead, worker, depth, calls>>

FinalizeJoin ==
    /\ pc[Finalizer] = "joining" /\ pc[Worker] = "exited"
    /\ workerRunning' = FALSE
    /\ Goto(Finalizer, "finalized")
    /\ UNCHANGED <<size, left, flags, overhead, waiting, worker, depth, calls>>

-----------------------------------------------------------------------------
InsertStep(p) == Insert(p) \/ NestedInsert(p) \/ Unblock(p) \/ StoreUnchecked(p)
WorkerThread  == \/ WorkerStep \/ TakeBatch \/ CommitBatch \/ NotifyAll
                 \/ NestedInsert(Worker) \/ Unblock(Worker) \/ StoreUnchecked(Worker)
FinalizeStep  == FinalizeBegin \/ FinalizeCall \/ FinalizeJoin

Next ==
    \/ \E p \in Inserters : InsertStep(p)
    \/ WorkerThread
    \/ \E f \in Flushers : FlushCall(f) \/ FlushWake(f)
    \/ FinalizeStep

Spec == Init /\ [][Next]_vars

\* Every thread that can run does, also when it has to compete for m_mutex;
\* nobody has to make a call.  A finalize() that began goes on.
Fairness ==
    /\ \A p \in Inserters : SF_vars(pc[p] # "idle" /\ InsertStep(p))
    /\ SF_vars(WorkerThread)
    /\ \A f \in Flushers : SF_vars(FlushWake(f))
    /\ SF_vars(FinalizeCall \/ FinalizeJoin)

FairSpec == Spec /\ Fairness

-----------------------------------------------------------------------------
(* Properties *)

\* The type of every variable; no batch is larger than what the ring holds.
TypeOK ==
    /\ size \in Nat /\ left \in Nat
    /\ flushRequested \in BOOLEAN /\ done \in BOOLEAN
    /\ workerRunning \in BOOLEAN /\ overhead \in BOOLEAN
    /\ waiting \subseteq Threads
    /\ pc \in [Threads ->
                 {"idle", "blocked", "enter", "store", "waitflush", "finalize",
                  "joining", "finalized", "parked", "batch", "flush", "drain",
                  "take", "commit", "notify", "exited"}]
    /\ ret \in {"batch", "flush", "drain"} /\ count \in 0 .. BATCHSIZE
    /\ depth \in [Inserters \cup {Worker} -> 0 .. MaxDepth]
    /\ calls \in 0 .. MaxCalls

\* An insert() sleeps on a full ring: from then on nothing is promised, since
\* rows may be overwritten and the worker itself may sleep (see README).
RingFilled == \E t \in Threads : pc[t] = "blocked"

\* The records the worker writes about its own batches do not keep it writing
\* batches for ever: it comes to rest, or is told to finish.
WorkerRests == []<>(pc[Worker] = "parked" \/ done \/ RingFilled)

\* flush() returns, although each of the worker's batches adds a row, unless
\* the table is being finalized.
FlushReturns ==
    \A f \in Flushers : pc[f] = "waitflush" ~> pc[f] = "idle" \/ done \/ RingFilled

\* finalize() returns: the drain loop comes to an end.
FinalizeReturns ==
    pc[Finalizer] = "joining" ~> pc[Finalizer] = "finalized" \/ RingFilled

\* Both do, whatever the application inserts meanwhile.
ApiCallsReturn == FlushReturns /\ FinalizeReturns
=============================================================================
