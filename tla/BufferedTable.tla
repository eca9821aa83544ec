---------------------------- MODULE BufferedTable ----------------------------
(***************************************************************************)
(* The in-memory ring every row table of the tracer derives from           *)
(* (rpd_tracer/BufferedTable.cpp, with the insert and writeRows of         *)
(* OpTable.cpp, which KernelApiTable, CopyApiTable, StackFrameTable and    *)
(* CounterTable repeat line for line), and the SQLite backend it writes    *)
(* to.                                                                     *)
(*                                                                         *)
(* Application threads insert rows; one worker thread per table hands them *)
(* to the backend in batches, without holding m_mutex; flush() waits for   *)
(* the worker and then moves the backend's temporary table to the main one *)
(* while holding m_mutex; finalize() stops the worker and drains.  All     *)
(* threads sleep on the single condition variable m_wait.                  *)
(*                                                                         *)
(* A critical section under m_mutex is one step, except flushRows() inside *)
(* flush(), which the worker's writeBatch can overlap: `owner' names the   *)
(* flusher that holds m_mutex meanwhile.  m_writeMutex is only ever taken  *)
(* by the worker and is left out.  A row is the number insert() gave it    *)
(* (op_id = m_head); its payload is abstracted away.                       *)
(***************************************************************************)
EXTENDS Integers, Sequences, FiniteSets

CONSTANTS
    Inserters,      \* threads that call insert()
    Flushers,       \* threads that call flush()
    Worker,         \* the table's own thread, running work()
    Finalizer,      \* the thread that calls finalize(), at most once
    Nobody,         \* "no thread owns m_mutex"
    BUFFERSIZE,     \* slots in the ring
    BATCHSIZE,      \* rows per writeBatch, and the level that wakes the worker
    DirectWrite,    \* writeBatch goes straight to the main table
    QuietFlush,     \* environment: nobody inserts while a flush() is under way,
                    \* the documented rpdstop(); rpdflush() sequence
    MaxRows         \* bound: no insert() starts once this many rows exist

Threads == Inserters \cup Flushers \cup {Worker, Finalizer}

ASSUME ThreadsAssumption ==
    /\ Inserters \cap Flushers = {}
    /\ {Worker, Finalizer} \cap (Inserters \cup Flushers) = {}
    /\ Worker # Finalizer
    /\ Nobody \notin Threads

ASSUME SizeAssumption ==
    /\ BUFFERSIZE \in Nat \ {0}
    /\ BATCHSIZE \in 1 .. BUFFERSIZE
    /\ DirectWrite \in BOOLEAN /\ QuietFlush \in BOOLEAN
    /\ MaxRows \in Nat

VARIABLES
    head, tail,         \* m_head, m_tail: last row inserted, last row written
    rows,               \* d->rows, the ring: slot -> row (0: never used)
    flushRequested, flushTarget, done, workerRunning,   \* BufferedTablePrivate
    waiting,            \* threads asleep on m_wait
    owner,              \* who holds m_mutex across steps, or Nobody
    pc,                 \* where each thread is
    ret,                \* where in work() the worker called writeRows from
    cursor, last,       \* writeBatch: next row to store, last row of the batch
    cache, main,        \* rows in the temporary and in the main SQLite table
    written,            \* history: rows handed to the backend, in order
    mark                \* history: m_head when flush()/finalize() was called

ring    == <<head, tail, rows>>
request == <<flushRequested, flushTarget>>
batch   == <<ret, cursor, last>>
store   == <<cache, main, written>>
vars    == <<ring, request, done, workerRunning, waiting, owner, pc, batch,
             store, mark>>

Slot(i) == i % BUFFERSIZE

(***************************************************************************)
(* m_mutex and m_wait.  A thread that wants m_mutex runs when it is not    *)
(* asleep and nobody owns the mutex.  notify_one wakes any sleeper.        *)
(***************************************************************************)
CanRun(t) == t \notin waiting /\ owner = Nobody

AfterNotifyOne == IF waiting = {} THEN {{}}
                  ELSE {waiting \ {t} : t \in waiting}

Goto(t, place) == pc' = [pc EXCEPT ![t] = place]

Init ==
    /\ head = 0 /\ tail = 0
    /\ rows = [s \in 0 .. BUFFERSIZE - 1 |-> 0]
    /\ flushRequested = FALSE /\ flushTarget = 0
    /\ done = FALSE /\ workerRunning = TRUE
    /\ waiting = {} /\ owner = Nobody
    /\ pc = [t \in Threads |-> IF t = Worker THEN "parked" ELSE "idle"]
    /\ ret = "batch" /\ cursor = 0 /\ last = 0
    /\ cache = {} /\ main = {} /\ written = <<>>
    /\ mark = [t \in Flushers \cup {Finalizer} |-> 0]

-----------------------------------------------------------------------------
(* insert() *)

Wants(p) ==
    \/ /\ pc[p] = "idle" /\ head < MaxRows
       /\ QuietFlush => \A f \in Flushers : pc[f] = "idle"
    \/ pc[p] = "blocked"

FullOffByOne == head - tail > BUFFERSIZE
Full == head - tail >= BUFFERSIZE

\* The ring is full: wake somebody and sleep, whether the call just started
\* or just woke up.
InsertWait(p) ==
    /\ Wants(p) /\ CanRun(p)
    /\ Full
    /\ \E W \in AfterNotifyOne : waiting' = W \cup {p}
    /\ Goto(p, "blocked")
    /\ UNCHANGED <<ring, request, done, workerRunning, owner, batch, store,
                   mark>>

InsertRow(p) ==
    /\ Wants(p) /\ CanRun(p)
    /\ ~Full
    /\ head' = head + 1
    /\ rows' = [rows EXCEPT ![Slot(head + 1)] = head + 1]
    /\ IF ~workerRunning /\ head + 1 - tail >= BATCHSIZE
       THEN waiting' \in AfterNotifyOne
       ELSE UNCHANGED waiting
    /\ Goto(p, "idle")
    /\ UNCHANGED <<tail, request, done, workerRunning, owner, batch, store, mark>>

-----------------------------------------------------------------------------
(* work(), the worker thread.  Each test below is made with m_mutex held;  *)
(* W is the wait set the path has left behind.                             *)

CallWriteRows(from) == ret' = from /\ Goto(Worker, "take") /\ workerRunning' = TRUE

DrainNothing(W) ==
    waiting' = W /\ Goto(Worker, "exited") /\ workerRunning' = TRUE /\ UNCHANGED ret
Drain(W) ==
    /\ waiting' = W
    /\ IF head > tail
       THEN CallWriteRows("drain")
       ELSE Goto(Worker, "exited") /\ workerRunning' = TRUE /\ UNCHANGED ret

Park(W) ==
    IF done THEN Drain(W)
    ELSE /\ waiting' = W \cup {Worker}
         /\ workerRunning' = FALSE
         /\ Goto(Worker, "parked")
         /\ UNCHANGED ret

FlushLoopNoNotify ==
    IF tail < flushTarget
    THEN CallWriteRows("flush") /\ UNCHANGED <<waiting, flushRequested>>
    ELSE flushRequested' = FALSE /\ Park(waiting)
FlushLoop ==
    IF tail < flushTarget
    THEN CallWriteRows("flush") /\ UNCHANGED <<waiting, flushRequested>>
    ELSE flushRequested' = FALSE /\ Park({})

BatchLoop ==
    IF head - tail >= BATCHSIZE
    THEN CallWriteRows("batch") /\ UNCHANGED <<waiting, flushRequested>>
    ELSE IF flushRequested THEN FlushLoop
                           ELSE Park(waiting) /\ UNCHANGED flushRequested

\* The worker takes m_mutex and goes on from where it is in work(): at the
\* top of the outer loop, having started or woken up, or at one of the inner
\* loops after writeRows returned.
WorkerStep ==
    /\ CanRun(Worker)
    /\ \/ /\ pc[Worker] = "parked"
          /\ IF done THEN Drain(waiting) /\ UNCHANGED flushRequested
                     ELSE BatchLoop
       \/ pc[Worker] = "batch" /\ BatchLoop
       \/ pc[Worker] = "flush" /\ FlushLoop
       \/ pc[Worker] = "drain" /\ Drain(waiting) /\ UNCHANGED flushRequested
    /\ UNCHANGED <<ring, flushTarget, done, owner, cursor, last, store, mark>>

\* writeRows: choose the batch under m_mutex.
FromTail   == tail
FirstOfBatch == tail + 1

TakeBatch ==
    /\ pc[Worker] = "take" /\ CanRun(Worker)
    /\ cursor' = FirstOfBatch
    /\ last' = IF tail + BATCHSIZE > head THEN head ELSE tail + BATCHSIZE
    /\ Goto(Worker, IF head = tail THEN ret ELSE "write")
    /\ UNCHANGED <<ring, request, done, workerRunning, waiting, owner, ret, store, mark>>

\* writeBatch: store one row, read from the ring without m_mutex.
WriteRow ==
    /\ pc[Worker] = "write"
    /\ LET row == rows[Slot(cursor)] IN
       /\ written' = Append(written, row)
       /\ IF DirectWrite THEN main' = main \cup {row} /\ UNCHANGED cache
                         ELSE cache' = cache \cup {row} /\ UNCHANGED main
    /\ cursor' = cursor + 1
    /\ Goto(Worker, IF cursor = last THEN "commit" ELSE "write")
    /\ UNCHANGED <<ring, request, done, workerRunning, waiting, owner, ret, last, mark>>

\* writeRows: free the slots of the batch.
TailAfterSkip  == head
TailAfterBatch == last

CommitBatch ==
    /\ pc[Worker] = "commit" /\ CanRun(Worker)
    /\ tail' = TailAfterBatch
    /\ Goto(Worker, IF ret = "batch" THEN "notify" ELSE ret)
    /\ UNCHANGED <<head, rows, request, done, workerRunning, waiting, owner,
                   batch, store, mark>>

\* The notify_all of the batch loop, made without m_mutex.
SleepersLeft == waiting
SleepersGone == {}

NotifyAll ==
    /\ pc[Worker] = "notify"
    /\ waiting' = SleepersGone
    /\ Goto(Worker, "batch")
    /\ UNCHANGED <<ring, request, done, workerRunning, owner, batch, store, mark>>

-----------------------------------------------------------------------------
(* flush() *)

FlushCall(f) ==
    /\ pc[f] = "idle" /\ CanRun(f)
    /\ QuietFlush => \A p \in Inserters : pc[p] = "idle"
    /\ flushTarget' = head /\ flushRequested' = TRUE
    /\ mark' = [mark EXCEPT ![f] = head]
    /\ \E W \in AfterNotifyOne : waiting' = W \cup {f}
    /\ Goto(f, "waitflush")
    /\ UNCHANGED <<ring, done, workerRunning, owner, batch, store>>

KeepWaitingNever == FALSE
KeepWaiting == flushRequested

FlushWake(f) ==
    /\ pc[f] = "waitflush" /\ CanRun(f)
    /\ IF KeepWaiting
       THEN waiting' = waiting \cup {f} /\ UNCHANGED <<owner, pc>>
       ELSE owner' = f /\ Goto(f, "copy") /\ UNCHANGED waiting
    /\ UNCHANGED <<ring, request, done, workerRunning, batch, store, mark>>

(* flushRows(), the backend's flush: "insert into main select * from temp", *)
(* which fails as a whole on a duplicate id, then "delete from temp".  Each *)
(* statement is atomic; begin and commit isolate nothing, the worker's      *)
(* statements being on the same connection.                                 *)

FlushCopy(f) ==
    /\ pc[f] = "copy"
    /\ main' = IF cache \cap main = {} THEN main \cup cache ELSE main
    /\ Goto(f, "delete")
    /\ UNCHANGED <<ring, request, done, workerRunning, waiting, owner, batch,
                   cache, written, mark>>

FlushDelete(f) ==
    /\ pc[f] = "delete"
    /\ cache' = {}
    /\ owner' = IF owner = f THEN Nobody ELSE owner
    /\ Goto(f, IF f = Finalizer THEN "finalized" ELSE "idle")
    /\ UNCHANGED <<ring, request, done, workerRunning, waiting, batch, main,
                   written, mark>>

-----------------------------------------------------------------------------
(* finalize().  The final flushRows() runs without m_mutex. *)

FinalizeCall ==
    /\ pc[Finalizer] = "idle" /\ CanRun(Finalizer)
    /\ done' = TRUE
    /\ waiting' \in AfterNotifyOne
    /\ mark' = [mark EXCEPT ![Finalizer] = head]
    /\ Goto(Finalizer, "joining")
    /\ UNCHANGED <<ring, request, workerRunning, owner, batch, store>>

FinalizeJoin ==
    /\ pc[Finalizer] = "joining"
    /\ pc[Worker] = "exited"
    /\ workerRunning' = FALSE
    /\ Goto(Finalizer, "copy")
    /\ UNCHANGED <<ring, request, done, waiting, owner, batch, store, mark>>

-----------------------------------------------------------------------------
\* condition_variable::wait may return although nobody notified.
SpuriousWakeup(t) ==
    /\ t \in waiting
    /\ waiting' = waiting \ {t}
    /\ UNCHANGED <<ring, request, done, workerRunning, owner, pc, batch, store, mark>>

InsertStep(p)  == InsertWait(p) \/ InsertRow(p)
WorkerThread   == WorkerStep \/ TakeBatch \/ WriteRow \/ CommitBatch \/ NotifyAll
FlushStep(f)   == FlushCall(f) \/ FlushWake(f) \/ FlushCopy(f) \/ FlushDelete(f)
FinalizeStep   == FinalizeCall \/ FinalizeJoin
                  \/ FlushCopy(Finalizer) \/ FlushDelete(Finalizer)

Next ==
    \/ \E p \in Inserters : InsertStep(p)
    \/ WorkerThread
    \/ \E f \in Flushers : FlushStep(f)
    \/ FinalizeStep
    \/ \E t \in Threads : SpuriousWakeup(t)

Spec == Init /\ [][Next]_vars

-----------------------------------------------------------------------------
(* Safety *)

\* The type of every variable.  Rows are numbered from 1: an unused slot (0)
\* never reaches the backend.
TypeOK ==
    /\ head \in Nat /\ tail \in Nat
    /\ rows \in [0 .. BUFFERSIZE - 1 -> Nat]
    /\ flushRequested \in BOOLEAN /\ flushTarget \in Nat
    /\ done \in BOOLEAN /\ workerRunning \in BOOLEAN
    /\ waiting \subseteq Threads
    /\ owner \in Flushers \cup {Nobody}
    /\ pc \in [Threads ->
                 {"idle", "blocked", "waitflush", "copy", "delete", "joining",
                  "finalized", "parked", "batch", "flush", "drain", "take",
                  "write", "commit", "notify", "exited"}]
    /\ ret \in {"batch", "flush", "drain"}
    /\ cursor \in Nat /\ last \in Nat
    /\ cache \subseteq Nat \ {0} /\ main \subseteq Nat \ {0}
    /\ written \in Seq(Nat \ {0})
    /\ mark \in [Flushers \cup {Finalizer} -> Nat]

\* A row that has not been written yet is still in its slot: inserting never
\* overtakes the worker, although the worker reads the ring without m_mutex
\* (insert's full test, writeRows' late m_tail = end).
NoOverwrite ==
    /\ head - tail <= BUFFERSIZE
    /\ \A i \in tail + 1 .. head : rows[Slot(i)] = i

\* When the worker sleeps, nobody else sleeps on m_wait and no flush or
\* finalize is pending: a single notify_one, by whoever needs the worker
\* next, cannot be spent on another sleeper.
NoMissedSignal ==
    Worker \in waiting => waiting = {Worker} /\ ~flushRequested /\ ~done

\* "Call rpdflush() before querying to ensure all buffered data is visible"
\* (docs/README_embedded.md:92): once flush() has returned, the main table
\* has every row inserted before the call.
FlushVisible ==
    \A f \in Flushers : pc[f] = "idle" => 1 .. mark[f] \subseteq main

\* Once finalize() has returned, the main table has every row that was
\* inserted before it was called.
FinalizeComplete ==
    pc[Finalizer] = "finalized" => 1 .. mark[Finalizer] \subseteq main

\* The table implements the log it promises: rows reach the backend once and
\* in the order of insert(), and flush()/finalize() publish only after the
\* backend received every row inserted before the call.
Log == INSTANCE TableLog WITH
         Callers  <- Flushers \cup {Finalizer},
         accepted <- head,
         stored   <- written,
         target   <- mark,
         waits    <- {c \in Flushers \cup {Finalizer} :
                        pc[c] \in {"waitflush", "joining"}}

ImplementsLog == Log!Spec

-----------------------------------------------------------------------------
(***************************************************************************)
(* Liveness.  The operating system runs every thread that can run, and a   *)
(* thread that competes for a mutex released again and again gets it some  *)
(* day: strong fairness for the steps that lock m_mutex, weak fairness for *)
(* the others.  Nobody has to call insert(), flush() or finalize().        *)
(***************************************************************************)
Fairness ==
    /\ \A p \in Inserters : SF_vars(pc[p] = "blocked" /\ InsertStep(p))
    /\ SF_vars(WorkerStep \/ TakeBatch \/ CommitBatch)
    /\ WF_vars(WriteRow \/ NotifyAll)
    /\ \A f \in Flushers : SF_vars(FlushWake(f))
                           /\ WF_vars(FlushCopy(f) \/ FlushDelete(f))
    /\ WF_vars(FinalizeJoin \/ FlushCopy(Finalizer) \/ FlushDelete(Finalizer))

FairSpec == Spec /\ Fairness

\* An insert() that found the ring full returns, unless the table is being
\* finalized.
InsertReturns ==
    \A p \in Inserters : pc[p] = "blocked" ~> pc[p] = "idle" \/ done

\* flush() returns, unless the table is being finalized.
FlushReturns ==
    \A f \in Flushers : pc[f] # "idle" ~> pc[f] = "idle" \/ done

\* finalize() returns, whatever inserts and flushes are under way.
FinalizeReturns == pc[Finalizer] = "joining" ~> pc[Finalizer] = "finalized"

\* Every call of the table returns, whatever the others do.
CallsReturn == InsertReturns /\ FlushReturns /\ FinalizeReturns
=============================================================================
