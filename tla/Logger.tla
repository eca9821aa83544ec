-------------------------------- MODULE Logger --------------------------------
(***************************************************************************)
(* The life cycle of the tracer (rpd_tracer/Logger.cpp): init(), counted   *)
(* rpdstart()/rpdstop(), rpdflush(), the autoflush thread, resetStorage()  *)
(* and finalize().  Users are application threads; Control is the thread   *)
(* that calls resetStorage(), following the documented sequence (after the *)
(* last rpdstop(), nobody else calling); Exiters are the ways finalize()   *)
(* is reached (atexit handlers, the library's destructor).  A storage is   *)
(* its generation; the inside of a flush is the time a thread uses it.     *)
(* Starting and stopping a source is a step each, since m_activeMutex does *)
(* not keep finalize() or rpdflush() from running in between.              *)
(***************************************************************************)
EXTENDS Integers, FiniteSets

CONSTANTS
    Users, Exiters, AutoFlusher, Nobody,    \* threads; Nobody: a free mutex
    Sources,        \* m_sources
    Autostart,      \* RPDT_AUTOSTART
    Autoflush,      \* RPDT_AUTOFLUSH > 0
    MaxHeld,        \* bound: rpdstart() calls that wait for their rpdstop()
    MaxStorages     \* bound: storages

VARIABLES
    count, active,      \* m_activeCount, holder of m_activeMutex
    tracing,            \* the sources between startTracing() and stopTracing()
    ended,              \* how often end() was called on each source
    held,               \* rpdstart() calls the users have not stopped
    storage, deleted,   \* m_storage, the storages that were deleted
    finalized,          \* the storages that were finalized
    using,              \* the storage a thread flushes, 0: none
    overhead,           \* m_writeOverheadRecords
    done, worker,       \* m_done, the autoflush thread ("none": m_worker is null)
    reset, respawn,     \* position in resetStorage() and its local `autoflush`
    doFinalize, finalizeMutex,
    pc                  \* positions of Users and Exiters

refs    == <<count, active, tracing, held>>
store   == <<storage, deleted, finalized>>
resetting == <<reset, respawn>>
ending  == <<ended, overhead, doFinalize, finalizeMutex>>
vars    == <<refs, store, using, done, worker, resetting, ending, pc>>

Goto(t, place) == pc' = [pc EXCEPT ![t] = place]

\* The constructor runs init(), which starts the sources without the mutex;
\* nobody has the Logger before it returns.
Init ==
    /\ count = IF Autostart THEN 1 ELSE 0
    /\ tracing = IF Autostart THEN Sources ELSE {}
    /\ active = Nobody /\ held = 0
    /\ ended = [s \in Sources |-> 0]
    /\ storage = 1 /\ deleted = {} /\ finalized = {}
    /\ using = [t \in Users \cup {AutoFlusher} |-> 0]
    /\ overhead = TRUE
    /\ done = FALSE /\ worker = IF Autoflush THEN "run" ELSE "none"
    /\ reset = "idle" /\ respawn = FALSE
    /\ doFinalize = TRUE /\ finalizeMutex = Nobody
    /\ pc = [t \in Users \cup Exiters |-> "idle"]

-----------------------------------------------------------------------------
(* rpdstart(), rpdstop() and rpdflush() *)

MayCall(u) == pc[u] = "idle" /\ reset = "idle"

RpdStart(u) ==
    /\ MayCall(u) /\ active = Nobody /\ held < MaxHeld
    /\ active' = u
    /\ Goto(u, "starting")
    /\ UNCHANGED <<count, tracing, held, store, using, done, worker, resetting, ending>>

StartSource(u, s) ==
    /\ pc[u] = "starting" /\ count = 0
    /\ s \notin tracing
    /\ tracing' = tracing \cup {s}
    /\ UNCHANGED <<count, active, held, store, using, done, worker, resetting, ending, pc>>

CountAfterStart == count + 1

StartReturn(u) ==
    /\ pc[u] = "starting" /\ (count = 0 => tracing = Sources)
    /\ count' = CountAfterStart /\ held' = held + 1
    /\ active' = Nobody /\ Goto(u, "idle")
    /\ UNCHANGED <<tracing, store, using, done, worker, resetting, ending>>

\* A user stops what a user started, though it may be another thread.
RpdStop(u) ==
    /\ MayCall(u) /\ active = Nobody /\ held > 0
    /\ active' = u /\ held' = held - 1
    /\ Goto(u, "stopping")
    /\ UNCHANGED <<count, tracing, store, using, done, worker, resetting, ending>>

AnyStop  == count >= 1
LastStop == count = 1

StopSource(u, s) ==
    /\ pc[u] = "stopping" /\ LastStop
    /\ s \in tracing
    /\ tracing' = tracing \ {s}
    /\ UNCHANGED <<count, active, held, store, using, done, worker, resetting, ending, pc>>

StopReturn(u) ==
    /\ pc[u] = "stopping" /\ (LastStop => tracing = {})
    /\ count' = count - 1
    /\ active' = Nobody /\ Goto(u, "idle")
    /\ UNCHANGED <<tracing, held, store, using, done, worker, resetting, ending>>

FlushBegin(u) ==
    /\ MayCall(u)
    /\ using' = [using EXCEPT ![u] = storage]
    /\ Goto(u, "flushing")
    /\ UNCHANGED <<refs, store, done, worker, resetting, ending>>

FlushEnd(u) ==
    /\ pc[u] = "flushing"
    /\ using' = [using EXCEPT ![u] = 0]
    /\ Goto(u, "idle")
    /\ UNCHANGED <<refs, store, done, worker, resetting, ending>>

\* autoflushWorker(): flush and sleep until m_done.
WorkerLoop ==
    /\ worker = "run"
    /\ IF done
       THEN worker' = "exited" /\ UNCHANGED using
       ELSE worker' = "flush" /\ using' = [using EXCEPT ![AutoFlusher] = storage]
    /\ UNCHANGED <<refs, store, done, resetting, ending, pc>>

WorkerFlushed ==
    /\ worker = "flush"
    /\ using' = [using EXCEPT ![AutoFlusher] = 0]
    /\ worker' = "run"
    /\ UNCHANGED <<refs, store, done, resetting, ending, pc>>

-----------------------------------------------------------------------------
(* resetStorage() *)

Exiting == \E e \in Exiters : pc[e] # "idle"

DoneOnReset   == done \/ worker # "none"

ResetCall ==
    /\ reset = "idle" /\ ~Exiting /\ storage < MaxStorages
    /\ count = 0 /\ \A u \in Users : pc[u] = "idle"
    /\ respawn' = (worker # "none")
    /\ done' = DoneOnReset
    /\ reset' = "join"
    /\ UNCHANGED <<refs, store, using, worker, ending, pc>>

NoJoin == TRUE
Joined == respawn => worker = "exited"

ResetJoin ==
    /\ reset = "join" /\ Joined
    /\ worker' = IF respawn THEN "none" ELSE worker
    /\ reset' = "finalize"
    /\ UNCHANGED <<refs, store, using, done, respawn, ending, pc>>

\* Storage::finalize, and the deletion, which finalizes again to no effect.
ResetFinalize ==
    /\ reset = "finalize"
    /\ finalized' = finalized \cup {storage}
    /\ reset' = "delete"
    /\ UNCHANGED <<refs, storage, deleted, using, done, worker, respawn, ending, pc>>

ResetDelete ==
    /\ reset = "delete"
    /\ deleted' = deleted \cup {storage}
    /\ reset' = "new"
    /\ UNCHANGED <<refs, storage, finalized, using, done, worker, respawn, ending, pc>>

\* A new Storage, and reset() of every source.
ResetNew ==
    /\ reset = "new"
    /\ storage' = storage + 1
    /\ reset' = "respawn"
    /\ UNCHANGED <<refs, deleted, finalized, using, done, worker, respawn, ending, pc>>

DoneOnRespawn == done /\ ~respawn

ResetReturn ==
    /\ reset = "respawn"
    /\ done' = DoneOnRespawn
    /\ worker' = IF respawn THEN "run" ELSE worker
    /\ reset' = "idle"
    /\ UNCHANGED <<refs, store, using, respawn, ending, pc>>

-----------------------------------------------------------------------------
(* finalize() *)

\* The first caller does the work; a later one waits for it and returns.
DoFinalizeAfter == FALSE

DoneNotSet == done
DoneAtExit == TRUE

FinalizeCall(e) ==
    /\ pc[e] = "idle" /\ reset = "idle" /\ finalizeMutex = Nobody
    /\ IF doFinalize
       THEN /\ finalizeMutex' = e
            /\ doFinalize' = DoFinalizeAfter
            /\ done' = DoneAtExit
            /\ Goto(e, "join")
       ELSE /\ Goto(e, "done")
            /\ UNCHANGED <<finalizeMutex, doFinalize, done>>
    /\ UNCHANGED <<refs, store, using, worker, resetting, ended, overhead>>

NotAwaited     == TRUE
AutoflushEnded == worker \in {"none", "exited"}

FinalizeJoin(e) ==
    /\ pc[e] = "join" /\ AutoflushEnded
    /\ Goto(e, "lock")
    /\ UNCHANGED <<refs, store, using, done, worker, resetting, ending>>

FinalizeLock(e) ==
    /\ pc[e] = "lock" /\ active = Nobody
    /\ active' = e
    /\ Goto(e, "stop")
    /\ UNCHANGED <<count, tracing, held, store, using, done, worker, resetting, ending>>

FinalizeStop(e) ==
    /\ pc[e] = "stop"
    /\ IF count > 0 /\ tracing # {}
       THEN /\ \E s \in tracing : tracing' = tracing \ {s}
            /\ UNCHANGED <<active, pc>>
       ELSE /\ active' = Nobody /\ Goto(e, "end")
            /\ UNCHANGED tracing
    /\ UNCHANGED <<count, held, store, using, done, worker, resetting, ending>>

\* end() of every source, which also stops it.
FinalizeEnd(e) ==
    /\ pc[e] = "end"
    /\ ended' = [s \in Sources |-> ended[s] + 1]
    /\ tracing' = {}
    /\ overhead' = FALSE
    /\ Goto(e, "storage")
    /\ UNCHANGED <<count, active, held, store, using, done, worker, resetting,
                   doFinalize, finalizeMutex>>

FinalizeStorage(e) ==
    /\ pc[e] = "storage"
    /\ finalized' = finalized \cup {storage}
    /\ finalizeMutex' = Nobody
    /\ Goto(e, "done")
    /\ UNCHANGED <<refs, storage, deleted, using, done, worker, resetting, ended,
                   overhead, doFinalize>>

-----------------------------------------------------------------------------
StartStop(u) ==
    \/ RpdStart(u) \/ StartReturn(u) \/ RpdStop(u) \/ StopReturn(u)
    \/ \E s \in Sources : StartSource(u, s) \/ StopSource(u, s)
UserStep(u) == StartStop(u) \/ FlushBegin(u) \/ FlushEnd(u)
Worker      == WorkerLoop \/ WorkerFlushed
ResetStep   == ResetJoin \/ ResetFinalize \/ ResetDelete \/ ResetNew \/ ResetReturn
FinalizeStep(e) == \/ FinalizeJoin(e) \/ FinalizeLock(e) \/ FinalizeStop(e)
                   \/ FinalizeEnd(e) \/ FinalizeStorage(e)

Next ==
    \/ \E u \in Users : UserStep(u)
    \/ Worker
    \/ ResetCall \/ ResetStep
    \/ \E e \in Exiters : FinalizeCall(e) \/ FinalizeStep(e)

Spec == Init /\ [][Next]_vars

\* Threads inside a call go on; the one that waits for m_activeMutex gets it.
\* Nobody has to make a call.
Fairness ==
    /\ \A u \in Users : WF_vars(pc[u] # "idle" /\ UserStep(u))
    /\ WF_vars(Worker)
    /\ WF_vars(ResetStep)
    /\ \A e \in Exiters : SF_vars(FinalizeStep(e))

FairSpec == Spec /\ Fairness

-----------------------------------------------------------------------------
(* Properties *)

\* The type of every variable; the users' starts are part of the count, which
\* never goes below zero, and no source is ended twice.
TypeOK ==
    /\ count \in held .. MaxHeld + 2 /\ held \in 0 .. MaxHeld
    /\ active \in Users \cup Exiters \cup {Nobody}
    /\ tracing \subseteq Sources /\ ended \in [Sources -> 0 .. 1]
    /\ storage \in 1 .. MaxStorages
    /\ deleted \subseteq 1 .. MaxStorages /\ finalized \subseteq 1 .. MaxStorages
    /\ using \in [Users \cup {AutoFlusher} -> 0 .. MaxStorages]
    /\ overhead \in BOOLEAN /\ done \in BOOLEAN
    /\ worker \in {"none", "run", "flush", "exited"}
    /\ reset \in {"idle", "join", "finalize", "delete", "new", "respawn"}
    /\ respawn \in BOOLEAN
    /\ doFinalize \in BOOLEAN /\ finalizeMutex \in Exiters \cup {Nobody}
    /\ pc \in [Users \cup Exiters ->
                 {"idle", "starting", "stopping", "flushing", "join", "lock",
                  "stop", "end", "storage", "done"}]

\* Whenever m_activeMutex is free and the tracer is not being finalized, all
\* sources trace if somebody's rpdstart(), or autostart's, is not stopped
\* yet, and none does otherwise: nested and overlapping recording windows of
\* several threads do not end each other.
SourcesFollowStarts ==
    active = Nobody /\ ~Exiting
      => tracing = IF held > 0 \/ Autostart THEN Sources ELSE {}

\* "stop it for the duration of the swap so it cannot use the old storage"
\* (Logger.cpp:61): no thread flushes a storage that was deleted.
NoDeletedStorage == \A t \in DOMAIN using : using[t] \notin deleted

\* The autoflush thread never flushes a storage that was finalized, at a swap
\* or at exit: its tables have no worker left to answer.
AutoflushBeforeFinalize == using[AutoFlusher] \notin finalized

\* resetStorage() and finalize() return: the join of the autoflush thread comes
\* to an end, also while users go on starting, stopping and flushing.
ResetReturns    == reset # "idle" ~> reset = "idle"
FinalizeReturns == \A e \in Exiters : pc[e] = "join" ~> pc[e] = "done"
CallsReturn     == ResetReturns /\ FinalizeReturns
=============================================================================
