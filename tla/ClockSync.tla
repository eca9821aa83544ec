------------------------------- MODULE ClockSync -------------------------------
(***************************************************************************)
(* The clock offset of a node (rpd_tracer/ChronoSyncDataSource.cpp, the    *)
(* shared memory of Utility.cpp, the seqlock of Utility.h and Firefly.cpp).*)
(* The processes of a node share the file.  The one that gets the lock of  *)
(* "chronosync_active" is the delegate: it makes a segment of shared       *)
(* memory, stores its name in the metadata, and its worker updates the     *)
(* offset there.  The others read the name, attach and wait for the first  *)
(* offset.  clocktime_ns() reads the offset without a lock.                *)
(*                                                                         *)
(* Each access to a field of the shared state is a step, in the order of   *)
(* the program (the fields are plain: a compiler may do worse).  An update *)
(* writes its number into every field.  tryLock() is one step: DbResource  *)
(* details it.  Assumed: no thread reads the clock while its process is in *)
(* end() (what it reads may be unmapped then), no delegate is killed while *)
(* it updates (sequence would stay odd, and every reader would spin).      *)
(***************************************************************************)
EXTENDS Integers

CONSTANTS
    Processes, Nobody,
    MaxUpdates,     \* bound: updates of a segment
    MaxDelegates    \* bound: delegates that the file sees

VARIABLES
    rank,           \* of the node: 0 is the reference, -1 not set
    holder,         \* of the resource
    clocksync_shm,  \* the name in the metadata, 0: none
    linked,         \* segments that have a name
    delegates,      \* delegates so far; the segment of the n-th is segment n
    SvcState,       \* every shared state: a segment, or a process's s_localState
    g_pSvcState,    \* the one each process uses
    at, timedOut,   \* each process in init() and end(), those that gave up
    m_shmName,      \* the segment of each process that is or was a delegate
    updating,       \* the worker of the delegate: position and local `sequence`
    reading         \* a thread of each process in svc_read_offset_ns()

clockVars == <<rank, holder, clocksync_shm, linked, delegates, SvcState, g_pSvcState, at,
               timedOut, m_shmName, updating, reading>>
lockVars  == <<holder, clocksync_shm, linked, delegates>>

Segments == 1 .. MaxDelegates
Running(p)  == at[p] \in {"attached", "delegate"}
NotReading  == [at |-> "out", seq |-> 0, offset |-> 0, drift |-> 0, ref |-> 0, seen |-> 0]
NotUpdating == [at |-> "sleeping", sequence |-> 0]

Init ==
    /\ rank \in {-1, 0, 1}
    /\ holder = Nobody /\ clocksync_shm = 0 /\ linked = {} /\ delegates = 0
    /\ SvcState = [s \in Processes \cup Segments |->
                     [sequence |-> 0, referenceTime |-> 0, offset |-> 0, drift |-> 0]]
    /\ g_pSvcState = [p \in Processes |-> p]
    /\ at = [p \in Processes |-> "new"] /\ timedOut = {}
    /\ m_shmName = [p \in Processes |-> 0]
    /\ updating = [p \in Processes |-> NotUpdating]
    /\ reading = [p \in Processes |-> NotReading]

Goto(p, place) == at' = [at EXCEPT ![p] = place]

-----------------------------------------------------------------------------
(* init() *)

Elect(p) ==
    /\ at[p] = "new" /\ holder = Nobody /\ delegates < MaxDelegates
    /\ holder' = p /\ delegates' = delegates + 1
    /\ m_shmName' = [m_shmName EXCEPT ![p] = delegates + 1]
    /\ Goto(p, "creating")
    /\ UNCHANGED <<rank, clocksync_shm, linked, SvcState, g_pSvcState, timedOut, updating, reading>>

\* create_clocksync_shm() leaves the process with its own state if it fails.
CreateShm(p) ==
    /\ at[p] = "creating"
    /\ \/ linked' = linked \cup {m_shmName[p]} /\ g_pSvcState' = [g_pSvcState EXCEPT ![p] = m_shmName[p]]
       \/ UNCHANGED <<linked, g_pSvcState>>
    /\ Goto(p, "storing")
    /\ UNCHANGED <<rank, holder, clocksync_shm, delegates, SvcState, timedOut, m_shmName, updating,
                   reading>>

StoreMetadata(p) ==
    /\ at[p] = "storing"
    /\ clocksync_shm' = m_shmName[p]
    /\ Goto(p, "delegate")
    /\ UNCHANGED <<rank, holder, linked, delegates, SvcState, g_pSvcState, timedOut, m_shmName,
                   updating, reading>>

NotElected(p) ==
    /\ at[p] = "new" /\ holder # Nobody
    /\ Goto(p, "querying")
    /\ UNCHANGED <<rank, lockVars, SvcState, g_pSvcState, timedOut, m_shmName, updating, reading>>

\* attach_clocksync_shm() returns in silence if there is no such segment.
Attach(p) ==
    /\ at[p] = "querying" /\ clocksync_shm # 0
    /\ g_pSvcState' = IF clocksync_shm \in linked
                      THEN [g_pSvcState EXCEPT ![p] = clocksync_shm] ELSE g_pSvcState
    /\ Goto(p, "waiting")
    /\ UNCHANGED <<rank, lockVars, SvcState, timedOut, m_shmName, updating, reading>>

Published(p) == SvcState[g_pSvcState[p]].sequence > 0

Synced(p) ==
    /\ at[p] = "waiting" /\ Published(p)
    /\ Goto(p, "attached")
    /\ UNCHANGED <<rank, lockVars, SvcState, g_pSvcState, timedOut, m_shmName, updating, reading>>

\* 60 s are over: it goes on with what it has.
TimeOut(p) ==
    /\ at[p] \in {"querying", "waiting"}
    /\ timedOut' = timedOut \cup {p}
    /\ Goto(p, "attached")
    /\ UNCHANGED <<rank, lockVars, SvcState, g_pSvcState, m_shmName, updating, reading>>

(* end(): a process that is no delegate leaves everything as it is. *)

Leave(p) ==
    /\ at[p] = "attached" /\ reading[p].at = "out"
    /\ Goto(p, "over")
    /\ UNCHANGED <<rank, lockVars, SvcState, g_pSvcState, timedOut, m_shmName, updating, reading>>

JoinWorker(p) ==
    /\ at[p] = "delegate" /\ updating[p].at = "sleeping" /\ reading[p].at = "out"
    /\ Goto(p, "unlocking")
    /\ UNCHANGED <<rank, lockVars, SvcState, g_pSvcState, timedOut, m_shmName, updating, reading>>

Unlock(p) ==
    /\ at[p] = "unlocking"
    /\ holder' = Nobody
    /\ Goto(p, "cleaning")
    /\ UNCHANGED <<rank, clocksync_shm, linked, delegates, SvcState, g_pSvcState, timedOut, m_shmName,
                   updating, reading>>

CleanupShm(p) ==
    /\ at[p] = "cleaning"
    /\ linked' = linked \ {m_shmName[p]}
    /\ g_pSvcState' = [g_pSvcState EXCEPT ![p] = p]
    /\ Goto(p, "over")
    /\ UNCHANGED <<rank, holder, clocksync_shm, delegates, SvcState, timedOut, m_shmName, updating,
                   reading>>

-----------------------------------------------------------------------------
(* svc_update_ns(), by the worker: once if this is node 0, after each        *)
(* measurement if it is another, never without a rank                        *)

Mine(p) == SvcState[g_pSvcState[p]]
Set(p, state) == SvcState' = [SvcState EXCEPT ![g_pSvcState[p]] = state]
Update(p) == updating[p].sequence \div 2 + 1

UpdateStep(p, from, to, state) ==
    /\ updating[p].at = from
    /\ Set(p, state)
    /\ updating' = [updating EXCEPT ![p].at = to]
    /\ UNCHANGED <<rank, lockVars, g_pSvcState, at, timedOut, m_shmName, reading>>

UpdateBegin(p) ==
    /\ at[p] = "delegate" /\ updating[p].at = "sleeping" /\ rank >= 0
    /\ Mine(p).sequence < 2 * (IF rank = 0 THEN 1 ELSE MaxUpdates)
    /\ Set(p, [Mine(p) EXCEPT !.sequence = @ + 1])
    /\ updating' = [updating EXCEPT ![p] = [at |-> "time", sequence |-> Mine(p).sequence]]
    /\ UNCHANGED <<rank, lockVars, g_pSvcState, at, timedOut, m_shmName, reading>>

UpdateTime(p)   == UpdateStep(p, "time", "offset", [Mine(p) EXCEPT !.referenceTime = Update(p)])
UpdateOffset(p) == UpdateStep(p, "offset", "drift", [Mine(p) EXCEPT !.offset = Update(p)])
UpdateDrift(p)  == UpdateStep(p, "drift", "end", [Mine(p) EXCEPT !.drift = Update(p)])
UpdateEnd(p)    == UpdateStep(p, "end", "sleeping",
                              [Mine(p) EXCEPT !.sequence = updating[p].sequence + 2])

-----------------------------------------------------------------------------
(* svc_read_offset_ns(): the pointer is read anew at every access *)

ReadTo(p, value) ==
    /\ reading' = [reading EXCEPT ![p] = value]
    /\ UNCHANGED <<rank, lockVars, SvcState, g_pSvcState, at, timedOut, m_shmName, updating>>

\* Without any update there is no offset to add.
ReadBegin(p) ==
    /\ Running(p) /\ reading[p].at \in {"out", "done"} /\ Published(p)
    /\ ReadTo(p, [NotReading EXCEPT !.at = "sequence", !.seen = Mine(p).sequence])

ReadSequence(p) ==
    /\ reading[p].at = "sequence"
    /\ ReadTo(p, [reading[p] EXCEPT !.at = "offset", !.seq = Mine(p).sequence])

ReadOffset(p) ==
    /\ reading[p].at = "offset"
    /\ ReadTo(p, [reading[p] EXCEPT !.at = "drift", !.offset = Mine(p).offset])

ReadDrift(p) ==
    /\ reading[p].at = "drift"
    /\ ReadTo(p, [reading[p] EXCEPT !.at = "time", !.drift = Mine(p).drift])

ReadTime(p) ==
    /\ reading[p].at = "time"
    /\ ReadTo(p, [reading[p] EXCEPT !.at = "check", !.ref = Mine(p).referenceTime])

\* Weaker: only an update in progress is noticed, not one that has passed.
AgainIfOdd(p) == reading[p].seq % 2 = 1
Again(p) == reading[p].seq % 2 = 1 \/ Mine(p).sequence # reading[p].seq

ReadCheck(p) ==
    /\ reading[p].at = "check"
    /\ ReadTo(p, [reading[p] EXCEPT !.at = IF Again(p) THEN "sequence" ELSE "done"])

\* The caller adds the offset to its time.
ReadDone(p) == reading[p].at = "done" /\ ReadTo(p, NotReading)

-----------------------------------------------------------------------------
LifeCycle(p) ==
    \/ Elect(p) \/ CreateShm(p) \/ StoreMetadata(p)
    \/ NotElected(p) \/ Attach(p) \/ Synced(p) \/ TimeOut(p)
    \/ Leave(p) \/ JoinWorker(p) \/ Unlock(p) \/ CleanupShm(p)

Worker(p) == UpdateBegin(p) \/ UpdateTime(p) \/ UpdateOffset(p) \/ UpdateDrift(p) \/ UpdateEnd(p)

Reader(p) ==
    \/ ReadBegin(p) \/ ReadSequence(p) \/ ReadOffset(p) \/ ReadDrift(p) \/ ReadTime(p)
    \/ ReadCheck(p) \/ ReadDone(p)

Next == \E p \in Processes : LifeCycle(p) \/ Worker(p) \/ Reader(p)

Spec == Init /\ [][Next]_clockVars

-----------------------------------------------------------------------------
(* Properties *)

\* "Seqlock-protected clock sync state" (Utility.h:50): the offset, drift and
\* time that a reader goes on with are of one update, and of none that was
\* replaced before the reader began, whatever process writes them meanwhile.
ReadsOneUpdate ==
    \A p \in Processes : reading[p].at = "done" =>
        /\ {reading[p].offset, reading[p].drift, reading[p].ref} = {reading[p].seq \div 2}
        /\ reading[p].seq >= reading[p].seen
=============================================================================
