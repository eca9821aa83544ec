----------------------------- MODULE LoggerProofs -----------------------------
(***************************************************************************)
(* Proofs about the life cycle of the tracer, for every number of threads, *)
(* of ways to the end, of sources, starts and storages.                    *)
(***************************************************************************)
EXTENDS Logger, TLAPS

\* The threads are told apart; the bounds are numbers.
Distinct ==
    /\ Nobody \notin Users \cup Exiters /\ Users \cap Exiters = {} /\ AutoFlusher \notin Users
    /\ Autostart \in BOOLEAN /\ Autoflush \in BOOLEAN
    /\ MaxHeld \in Nat /\ MaxStorages \in Nat \ {0}

UserPlaces == {"idle", "starting", "stopping", "flushing"}
ExitPlaces == {"idle", "join", "lock", "stop", "end", "storage", "done"}

Types ==
    /\ count \in Nat /\ held \in 0 .. MaxHeld
    /\ tracing \subseteq Sources /\ active \in Users \cup Exiters \cup {Nobody}
    /\ pc \in [Users \cup Exiters -> UserPlaces \cup ExitPlaces]
    /\ \A u \in Users : pc[u] \in UserPlaces
    /\ \A e \in Exiters : pc[e] \in ExitPlaces

StoreTypes ==
    /\ storage \in 1 .. MaxStorages
    /\ using \in [Users \cup {AutoFlusher} -> 0 .. MaxStorages]
    /\ done \in BOOLEAN /\ overhead \in BOOLEAN /\ respawn \in BOOLEAN /\ doFinalize \in BOOLEAN
    /\ worker \in {"none", "run", "flush", "exited"}
    /\ reset \in {"idle", "join", "finalize", "delete", "new", "respawn"}
    /\ reset # "idle" => (storage < MaxStorages \/ reset = "respawn")
    /\ finalizeMutex \in Exiters \cup {Nobody}

\* Who is between the lock and the unlock of m_activeMutex has it.
MutexInv ==
    /\ \A u \in Users : pc[u] \in {"starting", "stopping"} <=> active = u
    /\ \A e \in Exiters : pc[e] = "stop" <=> active = e

\* The count is one for each start whose stop has not returned, and one for autostart.
Starts == held + IF Autostart THEN 1 ELSE 0
CountInv ==
    /\ \A u \in Users : pc[u] = "stopping" => count = Starts + 1
    /\ (\A u \in Users : pc[u] # "stopping") => count = Starts
    /\ \A u \in Users : pc[u] = "starting" => held < MaxHeld
    /\ \A u \in Users : pc[u] = "stopping" => held < MaxHeld

\* Until finalize() is called, sources differ from what the count says only while
\* a thread has the mutex to change both.
SourcesInv ==
    ~Exiting =>
      /\ active = Nobody => tracing = IF count > 0 THEN Sources ELSE {}
      /\ \A u \in Users : pc[u] = "starting" /\ count > 0 => tracing = Sources
      /\ \A u \in Users : pc[u] = "stopping" /\ count > 1 => tracing = Sources

RefInv == Types /\ MutexInv /\ CountInv /\ SourcesInv

\* Only resetStorage() goes on to another storage, while no user flushes.
UsingInv ==
    /\ \A u \in Users : using[u] = IF pc[u] = "flushing" THEN storage ELSE 0
    /\ using[AutoFlusher] = IF worker = "flush" THEN storage ELSE 0
    /\ reset # "idle" => ~Exiting /\ \A u \in Users : pc[u] = "idle"

\* From its join on, resetStorage() has no autoflush thread beside it.
ResetInv ==
    /\ reset = "join" => (respawn <=> worker # "none")
    /\ reset \in {"finalize", "delete", "new", "respawn"} => worker = "none"

\* The present storage is deleted or finalized by resetStorage() or finalize() only,
\* the latter once the autoflush thread has ended.
EndedInv ==
    /\ \A s \in deleted : s \in 1 .. storage /\ (s = storage => reset = "new")
    /\ \A s \in finalized : s \in 1 .. storage
    /\ storage \in finalized => reset \in {"delete", "new"} \/ (Exiting /\ AutoflushEnded)

\* One thread is inside finalize(), and the others come after it.
FinalizeInv ==
    /\ doFinalize => ~Exiting
    /\ \A e \in Exiters : pc[e] \in {"join", "lock", "stop", "end", "storage"} <=> finalizeMutex = e
    /\ \A e \in Exiters : pc[e] \in {"lock", "stop", "end", "storage", "done"} => AutoflushEnded
    /\ ~doFinalize /\ finalizeMutex = Nobody => Exiting /\ AutoflushEnded

\* end() of the sources is called by that thread only.
SourcesEnded == ~doFinalize /\ (finalizeMutex = Nobody \/ pc[finalizeMutex] = "storage")
EndInv == ended = [s \in Sources |-> IF SourcesEnded THEN 1 ELSE 0]

StoreInv == StoreTypes /\ UsingInv /\ ResetInv /\ EndedInv /\ FinalizeInv /\ EndInv

IInv == RefInv /\ StoreInv

-----------------------------------------------------------------------------
(* Starts, stops and the sources *)

LEMMA Threads ==
    ASSUME Distinct
    PROVE  /\ \A u \in Users : u \notin Exiters /\ u # Nobody /\ u # AutoFlusher
           /\ \A e \in Exiters : e \notin Users /\ e # Nobody
  BY DEF Distinct

\* One thread goes to another position.
LEMMA Moves ==
    ASSUME Types, NEW t \in Users \cup Exiters, NEW place, Goto(t, place),
           t \in Users => place \in UserPlaces, t \in Exiters => place \in ExitPlaces
    PROVE  /\ pc' \in [Users \cup Exiters -> UserPlaces \cup ExitPlaces]
           /\ pc'[t] = place /\ \A s \in Users \cup Exiters : s # t => pc'[s] = pc[s]
           /\ \A u \in Users : pc'[u] \in UserPlaces
           /\ \A e \in Exiters : pc'[e] \in ExitPlaces
<1>1. /\ pc' = [pc EXCEPT ![t] = place] /\ place \in UserPlaces \cup ExitPlaces
      /\ pc \in [Users \cup Exiters -> UserPlaces \cup ExitPlaces]
  BY DEF Goto, Types
<1>2. /\ pc'[t] = place /\ \A s \in Users \cup Exiters : s # t => pc'[s] = pc[s]
      /\ pc' \in [Users \cup Exiters -> UserPlaces \cup ExitPlaces]
  BY <1>1
<1> QED
  BY <1>2 DEF Types

\* Once some thread is inside finalize(), one always is or has been.
LEMMA ExitingLasts ==
    ASSUME Types, NEW t \in Users \cup Exiters, NEW place, Goto(t, place), place # "idle" \/ t \notin Exiters
    PROVE  Exiting => Exiting'
<1>1. \A s \in Users \cup Exiters : s # t => pc'[s] = pc[s]
  BY DEF Goto, Types
<1>2. pc'[t] = place
  BY DEF Goto, Types
<1> QED
  BY <1>1, <1>2 DEF Exiting

LEMMA RefInit == Distinct /\ Init => RefInv
  BY DEF Distinct, Init, RefInv, Types, MutexInv, CountInv, SourcesInv, Starts, Exiting, UserPlaces, ExitPlaces

LEMMA StartStopKeeps ==
    ASSUME Distinct, RefInv, NEW u \in Users, StartStop(u)
    PROVE  RefInv'
<1> USE Threads
<1> DEFINE others == \A t \in Users \cup Exiters : t # u => pc'[t] = pc[t]
<1>1. CASE RpdStart(u)
  <2>1. /\ active = Nobody /\ active' = u /\ held < MaxHeld /\ pc[u] = "idle"
        /\ UNCHANGED <<count, tracing, held>> /\ Goto(u, "starting")
    BY <1>1 DEF RpdStart, MayCall
  <2>2. Types' /\ others /\ pc'[u] = "starting"
    BY <2>1, Moves DEF RefInv, Types, UserPlaces
  <2>3. MutexInv'
    BY <2>1, <2>2 DEF RefInv, MutexInv
  <2>4. CountInv'
    BY <2>1, <2>2 DEF RefInv, CountInv, MutexInv, Starts
  <2>5. SourcesInv'
    BY <2>1, <2>2 DEF RefInv, SourcesInv, MutexInv, Exiting
  <2> QED
    BY <2>2, <2>3, <2>4, <2>5 DEF RefInv
<1>2. CASE \E s \in Sources : StartSource(u, s)
  <2>1. /\ pc[u] = "starting" /\ count = 0 /\ tracing' \subseteq Sources
        /\ UNCHANGED <<count, active, held, pc>>
    BY <1>2 DEF StartSource, RefInv, Types
  <2>2. Types' /\ MutexInv' /\ CountInv'
    BY <2>1 DEF RefInv, Types, MutexInv, CountInv, Starts
  <2>3. SourcesInv'
    BY <2>1 DEF RefInv, SourcesInv, MutexInv, Exiting
  <2> QED
    BY <2>2, <2>3 DEF RefInv
<1>3. CASE StartReturn(u)
  <2>1. /\ pc[u] = "starting" /\ (count = 0 => tracing = Sources) /\ count' = count + 1
        /\ held' = held + 1 /\ active' = Nobody /\ tracing' = tracing /\ Goto(u, "idle")
    BY <1>3 DEF StartReturn, CountAfterStart
  <2>2. /\ pc'[u] = "idle" /\ others /\ \A t \in Users : pc[t] = "stopping" => t = u
        /\ held < MaxHeld /\ active = u /\ count = Starts
    BY <2>1, Moves DEF RefInv, MutexInv, CountInv, UserPlaces
  <2>3. Types'
    BY <2>1, <2>2, Moves DEF RefInv, Types, UserPlaces, Distinct
  <2>4. MutexInv'
    BY <2>1, <2>2 DEF RefInv, MutexInv
  <2>5. CountInv'
    BY <2>1, <2>2, <2>4 DEF RefInv, CountInv, MutexInv, Starts, Types
  <2>6. SourcesInv'
    BY <2>1, <2>2, <2>4 DEF RefInv, SourcesInv, MutexInv, Exiting, Types
  <2> QED
    BY <2>3, <2>4, <2>5, <2>6 DEF RefInv
<1>4. CASE RpdStop(u)
  <2>1. /\ active = Nobody /\ active' = u /\ held > 0 /\ held' = held - 1 /\ pc[u] = "idle"
        /\ UNCHANGED <<count, tracing>> /\ Goto(u, "stopping")
    BY <1>4 DEF RpdStop, MayCall
  <2>2. /\ pc'[u] = "stopping" /\ others /\ \A t \in Users : pc[t] # "stopping" /\ pc[t] # "starting"
    BY <2>1, Moves DEF RefInv, MutexInv, UserPlaces
  <2>3. Types'
    BY <2>1, <2>2, Moves DEF RefInv, Types, UserPlaces, Distinct
  <2>4. MutexInv'
    BY <2>1, <2>2 DEF RefInv, MutexInv
  <2>5. CountInv'
    BY <2>1, <2>2, <2>4 DEF RefInv, CountInv, MutexInv, Starts, Types, Distinct
  <2>6. SourcesInv'
    BY <2>1, <2>2, <2>4 DEF RefInv, SourcesInv, MutexInv, Exiting, Types
  <2> QED
    BY <2>3, <2>4, <2>5, <2>6 DEF RefInv
<1>5. CASE \E s \in Sources : StopSource(u, s)
  <2>1. /\ pc[u] = "stopping" /\ count = 1 /\ tracing' \subseteq Sources
        /\ UNCHANGED <<count, active, held, pc>>
    BY <1>5 DEF StopSource, LastStop, RefInv, Types
  <2>2. Types' /\ MutexInv' /\ CountInv'
    BY <2>1 DEF RefInv, Types, MutexInv, CountInv, Starts
  <2>3. SourcesInv'
    BY <2>1 DEF RefInv, SourcesInv, MutexInv, Exiting
  <2> QED
    BY <2>2, <2>3 DEF RefInv
<1>6. CASE StopReturn(u)
  <2>1. /\ pc[u] = "stopping" /\ (count = 1 => tracing = {}) /\ count' = count - 1
        /\ active' = Nobody /\ UNCHANGED <<tracing, held>> /\ Goto(u, "idle")
    BY <1>6 DEF StopReturn, LastStop
  <2>2. /\ pc'[u] = "idle" /\ others /\ \A t \in Users : pc[t] \in {"stopping", "starting"} => t = u
        /\ active = u /\ count = Starts + 1 /\ Starts \in Nat
    BY <2>1, Moves DEF RefInv, MutexInv, CountInv, UserPlaces, Types, Starts, Distinct
  <2>3. Types'
    BY <2>1, <2>2, Moves DEF RefInv, Types, UserPlaces
  <2>4. MutexInv'
    BY <2>1, <2>2 DEF RefInv, MutexInv
  <2>5. CountInv'
    BY <2>1, <2>2, <2>4 DEF RefInv, CountInv, MutexInv, Starts, Types
  <2>6. SourcesInv'
    BY <2>1, <2>2, <2>4 DEF RefInv, SourcesInv, MutexInv, Exiting, Types
  <2> QED
    BY <2>3, <2>4, <2>5, <2>6 DEF RefInv
<1> QED
  BY <1>1, <1>2, <1>3, <1>4, <1>5, <1>6 DEF StartStop

\* Steps that neither start nor stop anything.
LEMMA RefFrame ==
    ASSUME RefInv, UNCHANGED refs, UNCHANGED pc
    PROVE  RefInv'
  BY DEF RefInv, Types, MutexInv, CountInv, SourcesInv, Starts, Exiting, refs

LEMMA RefMove ==
    ASSUME Distinct, RefInv, UNCHANGED refs, NEW t \in Users \cup Exiters, NEW place, Goto(t, place),
           t \in Users => pc[t] \in {"idle", "flushing"} /\ place \in {"idle", "flushing"},
           t \in Exiters => pc[t] # "stop" /\ place \in ExitPlaces \ {"idle", "stop"}
    PROVE  RefInv'
<1>1. /\ pc' \in [Users \cup Exiters -> UserPlaces \cup ExitPlaces]
      /\ pc'[t] = place /\ \A s \in Users \cup Exiters : s # t => pc'[s] = pc[s]
      /\ \A u \in Users : pc'[u] \in UserPlaces
      /\ \A e \in Exiters : pc'[e] \in ExitPlaces
  BY Moves DEF RefInv, UserPlaces
<1>2. Types'
  BY <1>1 DEF RefInv, Types, refs
<1>3. \A u \in Users : pc'[u] # pc[u] => {pc[u], pc'[u]} \subseteq {"idle", "flushing"}
  BY <1>1
<1>4. \A e \in Exiters : pc'[e] = "stop" <=> pc[e] = "stop"
  BY <1>1
<1>5. MutexInv'
  BY <1>3, <1>4 DEF RefInv, MutexInv, refs
<1>6. CountInv'
  BY <1>3 DEF RefInv, CountInv, Starts, refs
<1>7. Exiting => Exiting'
  BY ExitingLasts, Threads DEF RefInv
<1>8. SourcesInv'
  BY <1>3, <1>7 DEF RefInv, SourcesInv, refs
<1> QED
  BY <1>2, <1>5, <1>6, <1>8 DEF RefInv

LEMMA FinalizeKeepsRefs ==
    ASSUME Distinct, RefInv, NEW e \in Exiters, FinalizeCall(e) \/ FinalizeStep(e)
    PROVE  RefInv'
<1> USE Threads
<1>1. CASE FinalizeCall(e) \/ FinalizeJoin(e) \/ FinalizeStorage(e)
  <2>1. UNCHANGED refs
    BY <1>1 DEF FinalizeCall, FinalizeJoin, FinalizeStorage
  <2>2. pc[e] # "stop" /\ \E place \in ExitPlaces \ {"idle", "stop"} : Goto(e, place)
    BY <1>1 DEF FinalizeCall, FinalizeJoin, FinalizeStorage, ExitPlaces
  <2> QED
    BY <2>1, <2>2, RefMove
<1>2. CASE FinalizeLock(e)
  <2>1. /\ active = Nobody /\ active' = e /\ pc[e] = "lock" /\ Goto(e, "stop")
        /\ UNCHANGED <<count, tracing, held>>
    BY <1>2 DEF FinalizeLock
  <2>2. /\ pc'[e] = "stop" /\ \A t \in Users \cup Exiters : t # e => pc'[t] = pc[t]
    BY <2>1, Moves DEF RefInv, ExitPlaces
  <2>3. Types'
    BY <2>1, <2>2, Moves DEF RefInv, Types, ExitPlaces
  <2>4. MutexInv'
    BY <2>1, <2>2 DEF RefInv, MutexInv
  <2>5. CountInv'
    BY <2>1, <2>2 DEF RefInv, CountInv, Starts
  <2>6. SourcesInv'
    BY <2>2 DEF SourcesInv, Exiting
  <2> QED
    BY <2>3, <2>4, <2>5, <2>6 DEF RefInv
<1>3. CASE FinalizeStop(e)
  <2>1. pc[e] = "stop" /\ UNCHANGED <<count, held>> /\ tracing' \subseteq Sources
    BY <1>3 DEF FinalizeStop, RefInv, Types
  <2>2. \/ UNCHANGED <<active, pc>>
        \/ active' = Nobody /\ Goto(e, "end")
    BY <1>3 DEF FinalizeStop
  <2>3. CASE UNCHANGED <<active, pc>>
    BY <2>1, <2>3 DEF RefInv, Types, MutexInv, CountInv, SourcesInv, Starts, Exiting
  <2>4. CASE active' = Nobody /\ Goto(e, "end")
    <3>1. /\ pc'[e] = "end" /\ \A t \in Users \cup Exiters : t # e => pc'[t] = pc[t]
          /\ active = e
      BY <2>1, <2>4, Moves DEF RefInv, ExitPlaces, MutexInv
    <3>2. Types'
      BY <2>1, <2>4, Moves DEF RefInv, Types, ExitPlaces
    <3>3. MutexInv'
      BY <2>4, <3>1 DEF RefInv, MutexInv
    <3>4. CountInv'
      BY <2>1, <3>1 DEF RefInv, CountInv, Starts
    <3>5. SourcesInv'
      BY <3>1 DEF SourcesInv, Exiting
    <3> QED
      BY <3>2, <3>3, <3>4, <3>5 DEF RefInv
  <2> QED
    BY <2>2, <2>3, <2>4
<1>4. CASE FinalizeEnd(e)
  <2>1. pc[e] = "end" /\ UNCHANGED <<count, active, held>> /\ tracing' = {} /\ Goto(e, "storage")
    BY <1>4 DEF FinalizeEnd
  <2>2. /\ pc'[e] = "storage" /\ \A t \in Users \cup Exiters : t # e => pc'[t] = pc[t]
    BY <2>1, Moves DEF RefInv, ExitPlaces
  <2>3. Types'
    BY <2>1, <2>2, Moves DEF RefInv, Types, ExitPlaces
  <2>4. MutexInv'
    BY <2>1, <2>2 DEF RefInv, MutexInv
  <2>5. CountInv'
    BY <2>1, <2>2 DEF RefInv, CountInv, Starts
  <2>6. SourcesInv'
    BY <2>2 DEF SourcesInv, Exiting
  <2> QED
    BY <2>3, <2>4, <2>5, <2>6 DEF RefInv
<1> QED
  BY <1>1, <1>2, <1>3, <1>4 DEF FinalizeStep

LEMMA RefStep == ASSUME Distinct, RefInv, [Next]_vars PROVE RefInv'
<1>1. ASSUME NEW u \in Users, FlushBegin(u) \/ FlushEnd(u) PROVE RefInv'
  <2>1. /\ UNCHANGED refs /\ pc[u] \in {"idle", "flushing"}
        /\ \E place \in {"idle", "flushing"} : Goto(u, place)
    BY <1>1 DEF FlushBegin, FlushEnd, MayCall
  <2> QED
    BY <2>1, RefMove, Threads
<1>2. CASE Worker \/ ResetCall \/ ResetStep
  <2>1. UNCHANGED refs /\ UNCHANGED pc
    BY <1>2 DEF Worker, WorkerLoop, WorkerFlushed, ResetCall, ResetStep, ResetJoin, ResetFinalize,
                ResetDelete, ResetNew, ResetReturn
  <2> QED
    BY <2>1, RefFrame
<1>3. CASE UNCHANGED vars
  BY <1>3, RefFrame DEF vars
<1> QED
  BY <1>1, <1>2, <1>3, StartStopKeeps, FinalizeKeepsRefs DEF Next, UserStep

-----------------------------------------------------------------------------
(* Storages, the autoflush thread and the end *)

LEMMA StoreInit == Distinct /\ Init => StoreInv
<1> SUFFICES ASSUME Distinct, Init PROVE StoreInv
  OBVIOUS
<1>1. StoreTypes
  <2>1. /\ 1 \in 1 .. MaxStorages
        /\ [t \in Users \cup {AutoFlusher} |-> 0] \in [Users \cup {AutoFlusher} -> 0 .. MaxStorages]
    BY DEF Distinct
  <2>2. /\ storage = 1 /\ using = [t \in Users \cup {AutoFlusher} |-> 0] /\ done = FALSE
        /\ overhead = TRUE /\ respawn = FALSE /\ doFinalize = TRUE /\ worker \in {"none", "run"}
        /\ reset = "idle" /\ finalizeMutex = Nobody
    BY DEF Init
  <2> QED
    BY <2>1, <2>2 DEF StoreTypes
<1>2. UsingInv
  <2>1. \A t \in Users \cup {AutoFlusher} : using[t] = 0
    BY DEF Init
  <2>2. \A u \in Users : pc[u] = "idle"
    BY DEF Init
  <2> QED
    BY <2>1, <2>2 DEF Init, UsingInv
<1>3. ResetInv /\ EndedInv /\ FinalizeInv
  BY Threads DEF Init, ResetInv, EndedInv, FinalizeInv, Exiting
<1>4. EndInv
  BY DEF Init, EndInv, SourcesEnded
<1> QED
  BY <1>1, <1>2, <1>3, <1>4 DEF StoreInv

\* A user's step touches no storage; a flush uses the present one.
LEMMA UserKeepsStore ==
    ASSUME Distinct, RefInv, StoreInv, NEW u \in Users, UserStep(u)
    PROVE  StoreInv'
<1> USE Threads
<1>1. /\ UNCHANGED <<store, done, worker, reset, respawn, ended, overhead, doFinalize, finalizeMutex>>
      /\ reset = "idle"
  <2>1. StartStop(u) => pc[u] # "idle" \/ reset = "idle"
    BY DEF StartStop, RpdStart, RpdStop, StartReturn, StopReturn, StartSource, StopSource, MayCall
  <2>2. FlushBegin(u) \/ FlushEnd(u) => pc[u] # "idle" \/ reset = "idle"
    BY DEF FlushBegin, FlushEnd, MayCall
  <2>3. reset = "idle"
    BY <2>1, <2>2 DEF UserStep, StoreInv, UsingInv
  <2> QED
    BY <2>3 DEF UserStep, StartStop, RpdStart, RpdStop, StartReturn, StopReturn, StartSource,
                StopSource, FlushBegin, FlushEnd, resetting, ending
<1>2. \/ UNCHANGED using /\ (pc' = pc \/ \E place \in UserPlaces \ {"flushing"} :
                                            pc[u] # "flushing" /\ Goto(u, place))
      \/ FlushBegin(u) \/ FlushEnd(u)
  BY DEF UserStep, StartStop, RpdStart, RpdStop, StartReturn, StopReturn, StartSource,
         StopSource, MayCall, UserPlaces
<1>3. \A t \in Users \cup Exiters : t # u => pc'[t] = pc[t]
  BY <1>2, Moves DEF FlushBegin, FlushEnd, RefInv, UserPlaces
<1>4. /\ StoreTypes' /\ UsingInv'
  <2>1. CASE UNCHANGED using /\ pc' = pc
    BY <1>1, <2>1 DEF StoreInv, StoreTypes, UsingInv, store, Exiting
  <2>2. CASE UNCHANGED using /\ \E place \in UserPlaces \ {"flushing"} :
                                  pc[u] # "flushing" /\ Goto(u, place)
    <3>1. pc[u] # "flushing" /\ pc'[u] # "flushing"
      BY <2>2, Moves DEF RefInv
    <3> QED
      BY <1>1, <1>3, <2>2, <3>1 DEF StoreInv, StoreTypes, UsingInv, store
  <2>3. CASE FlushBegin(u)
    <3>1. using' = [using EXCEPT ![u] = storage] /\ pc'[u] = "flushing"
      BY <2>3, Moves DEF FlushBegin, RefInv, UserPlaces
    <3>2. /\ \A t \in Users : using'[t] = IF pc'[t] = "flushing" THEN storage ELSE 0
          /\ using'[AutoFlusher] = using[AutoFlusher]
          /\ using' \in [Users \cup {AutoFlusher} -> 0 .. MaxStorages]
      BY <1>3, <3>1 DEF StoreInv, StoreTypes, UsingInv, Distinct
    <3> QED
      BY <1>1, <3>2 DEF StoreInv, StoreTypes, UsingInv, store
  <2>4. CASE FlushEnd(u)
    <3>1. using' = [using EXCEPT ![u] = 0] /\ pc'[u] = "idle"
      BY <2>4, Moves DEF FlushEnd, RefInv, UserPlaces
    <3>2. /\ \A t \in Users : using'[t] = IF pc'[t] = "flushing" THEN storage ELSE 0
          /\ using'[AutoFlusher] = using[AutoFlusher]
          /\ using' \in [Users \cup {AutoFlusher} -> 0 .. MaxStorages]
      BY <1>3, <3>1 DEF StoreInv, StoreTypes, UsingInv, Distinct
    <3> QED
      BY <1>1, <3>2 DEF StoreInv, StoreTypes, UsingInv, store
  <2> QED
    BY <1>2, <2>1, <2>2, <2>3, <2>4
<1>5. \A e \in Exiters : pc'[e] = pc[e]
  BY <1>3
<1>6. Exiting' <=> Exiting
  BY <1>5 DEF Exiting
<1>7. ResetInv' /\ EndedInv' /\ FinalizeInv'
  BY <1>1, <1>5, <1>6 DEF StoreInv, ResetInv, EndedInv, FinalizeInv, AutoflushEnded, store
<1>8. EndInv'
  BY <1>1, <1>5 DEF StoreInv, StoreTypes, EndInv, SourcesEnded
<1> QED
  BY <1>4, <1>7, <1>8 DEF StoreInv

\* The autoflush thread and resetStorage(): nobody moves, nothing is ended.
LEMMA ResetKeepsStore ==
    ASSUME Distinct, RefInv, StoreInv, Worker \/ ResetCall \/ ResetStep
    PROVE  StoreInv'
<1> USE Threads
<1>1. UNCHANGED <<pc, ended, overhead, doFinalize, finalizeMutex>>
  BY DEF Worker, WorkerLoop, WorkerFlushed, ResetCall, ResetStep, ResetJoin, ResetFinalize,
         ResetDelete, ResetNew, ResetReturn, ending
<1>2. EndInv' /\ (Exiting' <=> Exiting)
  BY <1>1 DEF StoreInv, EndInv, SourcesEnded, Exiting
<1>3. CASE Worker
  <2>1. UNCHANGED <<store, done, reset, respawn>>
    BY <1>3 DEF Worker, WorkerLoop, WorkerFlushed, resetting
  <2>2. \/ worker = "run" /\ worker' = "exited" /\ using' = using
        \/ worker = "run" /\ worker' = "flush" /\ using' = [using EXCEPT ![AutoFlusher] = storage]
        \/ worker = "flush" /\ worker' = "run" /\ using' = [using EXCEPT ![AutoFlusher] = 0]
    BY <1>3 DEF Worker, WorkerLoop, WorkerFlushed
  <2>3. StoreTypes'
    <3>1. using' \in [Users \cup {AutoFlusher} -> 0 .. MaxStorages]
      BY <2>2 DEF StoreInv, StoreTypes, Distinct
    <3> QED
      BY <1>1, <2>1, <2>2, <3>1 DEF StoreInv, StoreTypes, store
  <2>4. UsingInv'
    <3>1. /\ \A u \in Users : using'[u] = using[u]
          /\ using'[AutoFlusher] = IF worker' = "flush" THEN storage ELSE 0
      BY <2>2 DEF StoreInv, StoreTypes, UsingInv
    <3> QED
      BY <1>1, <1>2, <2>1, <3>1 DEF StoreInv, UsingInv, store
  <2>5. ResetInv' /\ EndedInv' /\ FinalizeInv'
    BY <1>1, <1>2, <2>1, <2>2 DEF StoreInv, ResetInv, EndedInv, FinalizeInv, AutoflushEnded, store
  <2> QED
    BY <1>2, <2>3, <2>4, <2>5 DEF StoreInv
<1>4. CASE ResetCall
  <2>1. /\ reset = "idle" /\ reset' = "join" /\ (respawn' <=> worker # "none") /\ respawn' \in BOOLEAN
        /\ done' \in BOOLEAN /\ ~Exiting /\ storage < MaxStorages /\ \A u \in Users : pc[u] = "idle"
        /\ UNCHANGED <<store, using, worker>>
    BY <1>4 DEF ResetCall, DoneOnReset, StoreInv, StoreTypes
  <2>2. StoreTypes' /\ UsingInv'
    BY <1>1, <1>2, <2>1 DEF StoreInv, StoreTypes, UsingInv, store
  <2>3. ResetInv' /\ EndedInv' /\ FinalizeInv'
    BY <1>1, <1>2, <2>1 DEF StoreInv, ResetInv, EndedInv, FinalizeInv, AutoflushEnded, store
  <2> QED
    BY <1>2, <2>2, <2>3 DEF StoreInv
<1>5. CASE ResetJoin
  <2>1. /\ reset = "join" /\ reset' = "finalize" /\ worker' = "none"
        /\ worker # "flush" /\ UNCHANGED <<store, using, done, respawn>>
    BY <1>5 DEF ResetJoin, Joined, StoreInv, ResetInv, StoreTypes
  <2>2. StoreTypes' /\ UsingInv'
    BY <1>1, <1>2, <2>1 DEF StoreInv, StoreTypes, UsingInv, store
  <2>3. ResetInv' /\ EndedInv' /\ FinalizeInv'
    BY <1>1, <1>2, <2>1 DEF StoreInv, UsingInv, ResetInv, EndedInv, FinalizeInv, AutoflushEnded, store
  <2> QED
    BY <1>2, <2>2, <2>3 DEF StoreInv
<1>6. CASE ResetFinalize
  <2>1. /\ reset = "finalize" /\ reset' = "delete" /\ finalized' = finalized \cup {storage}
        /\ UNCHANGED <<storage, deleted, using, done, worker, respawn>>
    BY <1>6 DEF ResetFinalize
  <2>2. StoreTypes' /\ UsingInv'
    BY <1>1, <1>2, <2>1 DEF StoreInv, StoreTypes, UsingInv
  <2>3. ResetInv' /\ EndedInv' /\ FinalizeInv'
    BY <1>1, <1>2, <2>1 DEF StoreInv, StoreTypes, ResetInv, EndedInv, FinalizeInv, AutoflushEnded
  <2> QED
    BY <1>2, <2>2, <2>3 DEF StoreInv
<1>7. CASE ResetDelete
  <2>1. /\ reset = "delete" /\ reset' = "new" /\ deleted' = deleted \cup {storage}
        /\ UNCHANGED <<storage, finalized, using, done, worker, respawn>>
    BY <1>7 DEF ResetDelete
  <2>2. StoreTypes' /\ UsingInv'
    BY <1>1, <1>2, <2>1 DEF StoreInv, StoreTypes, UsingInv
  <2>3. ResetInv' /\ EndedInv' /\ FinalizeInv'
    BY <1>1, <1>2, <2>1 DEF StoreInv, StoreTypes, ResetInv, EndedInv, FinalizeInv, AutoflushEnded
  <2> QED
    BY <1>2, <2>2, <2>3 DEF StoreInv
<1>8. CASE ResetNew
  <2>1. /\ reset = "new" /\ reset' = "respawn" /\ storage' = storage + 1
        /\ UNCHANGED <<deleted, finalized, using, done, worker, respawn>>
    BY <1>8 DEF ResetNew
  <2>2. /\ \A u \in Users : pc[u] = "idle" /\ worker = "none" /\ storage < MaxStorages
        /\ storage \in Nat /\ MaxStorages \in Nat
    BY <2>1 DEF StoreInv, StoreTypes, UsingInv, ResetInv, Distinct
  <2>3. worker = "none" /\ storage < MaxStorages /\ storage \in Nat /\ MaxStorages \in Nat
    BY <2>1 DEF StoreInv, StoreTypes, ResetInv, Distinct
  <2>4. StoreTypes' /\ UsingInv'
    BY <1>1, <1>2, <2>1, <2>2, <2>3 DEF StoreInv, StoreTypes, UsingInv
  <2>5. ResetInv' /\ FinalizeInv'
    BY <1>1, <1>2, <2>1 DEF StoreInv, ResetInv, FinalizeInv, AutoflushEnded
  <2>6. EndedInv'
    BY <2>1, <2>3 DEF StoreInv, EndedInv
  <2> QED
    BY <1>2, <2>4, <2>5, <2>6 DEF StoreInv
<1>9. CASE ResetReturn
  <2>1. /\ reset = "respawn" /\ reset' = "idle" /\ worker = "none" /\ worker' \in {"none", "run"}
        /\ done' \in BOOLEAN /\ UNCHANGED <<store, using, respawn>>
    BY <1>9 DEF ResetReturn, DoneOnRespawn, StoreInv, StoreTypes, ResetInv
  <2>2. ~Exiting
    BY <2>1 DEF StoreInv, UsingInv
  <2>3. StoreTypes' /\ UsingInv'
    BY <1>1, <1>2, <2>1 DEF StoreInv, StoreTypes, UsingInv, store
  <2>4. ResetInv' /\ EndedInv'
    BY <2>1, <2>2 DEF StoreInv, ResetInv, EndedInv, store
  <2>5. FinalizeInv'
    BY <1>1, <1>2, <2>2 DEF StoreInv, FinalizeInv, Exiting
  <2> QED
    BY <1>2, <2>3, <2>4, <2>5 DEF StoreInv
<1> QED
  BY <1>3, <1>4, <1>5, <1>6, <1>7, <1>8, <1>9 DEF ResetStep

LEMMA FinalizeKeepsStore ==
    ASSUME Distinct, RefInv, StoreInv, NEW e \in Exiters, FinalizeCall(e) \/ FinalizeStep(e)
    PROVE  StoreInv'
<1> USE Threads
<1>1. /\ UNCHANGED <<storage, deleted, using, worker, reset, respawn>>
      /\ \/ pc' = pc
         \/ \E place \in ExitPlaces \ {"idle"} : Goto(e, place)
  BY DEF FinalizeCall, FinalizeStep, FinalizeJoin, FinalizeLock, FinalizeStop, FinalizeEnd,
         FinalizeStorage, store, resetting, ExitPlaces
<1>2. \A t \in Users \cup Exiters : t # e => pc'[t] = pc[t]
  BY <1>1, Moves DEF RefInv
<1>3. reset = "idle"
  BY DEF FinalizeCall, FinalizeStep, FinalizeJoin, FinalizeLock, FinalizeStop, FinalizeEnd,
         FinalizeStorage, StoreInv, UsingInv, Exiting
<1>4. finalizeMutex' \in Exiters \cup {Nobody} /\ done' \in BOOLEAN /\ overhead' \in BOOLEAN
      /\ doFinalize' \in BOOLEAN
  BY DEF FinalizeCall, FinalizeStep, FinalizeJoin, FinalizeLock, FinalizeStop, FinalizeEnd,
         FinalizeStorage, StoreInv, StoreTypes, ending, DoFinalizeAfter, DoneAtExit
<1>5. StoreTypes' /\ UsingInv' /\ ResetInv'
  BY <1>1, <1>2, <1>3, <1>4 DEF StoreInv, StoreTypes, UsingInv, ResetInv
<1>6. CASE FinalizeCall(e)
  <2>1. /\ pc[e] = "idle" /\ finalizeMutex = Nobody /\ UNCHANGED <<finalized, ended>>
        /\ \/ doFinalize /\ finalizeMutex' = e /\ ~doFinalize' /\ Goto(e, "join")
           \/ ~doFinalize /\ Goto(e, "done") /\ UNCHANGED <<finalizeMutex, doFinalize>>
    BY <1>6 DEF FinalizeCall, store, DoFinalizeAfter
  <2>2. \/ doFinalize /\ finalizeMutex' = e /\ ~doFinalize' /\ pc'[e] = "join"
        \/ ~doFinalize /\ pc'[e] = "done" /\ UNCHANGED <<finalizeMutex, doFinalize>>
    BY <2>1, Moves DEF RefInv, ExitPlaces
  <2>3. Exiting'
    BY <2>2 DEF Exiting
  <2>4. EndedInv'
    BY <1>1, <1>3, <2>1, <2>3 DEF StoreInv, EndedInv, AutoflushEnded
  <2>5. FinalizeInv'
    BY <1>1, <1>2, <2>1, <2>2, <2>3 DEF StoreInv, FinalizeInv, AutoflushEnded, Exiting
  <2>6. EndInv'
    BY <1>2, <2>1, <2>2 DEF StoreInv, EndInv, SourcesEnded
  <2> QED
    BY <1>5, <2>4, <2>5, <2>6 DEF StoreInv
<1>7. CASE FinalizeJoin(e) \/ FinalizeLock(e) \/ FinalizeStop(e)
  <2>1. /\ UNCHANGED <<finalized, ended, finalizeMutex, doFinalize>>
        /\ pc[e] \in {"join", "lock", "stop"} /\ pc'[e] \in {"lock", "stop", "end"}
        /\ pc[e] # "join" \/ AutoflushEnded
    <3>1. UNCHANGED <<finalized, ended, finalizeMutex, doFinalize>>
      BY <1>7 DEF FinalizeJoin, FinalizeLock, FinalizeStop, store, ending
    <3>2. /\ pc[e] \in {"join", "lock", "stop"} /\ (pc[e] # "join" \/ AutoflushEnded)
          /\ \/ pc' = pc /\ pc[e] = "stop"
             \/ \E place \in {"lock", "stop", "end"} : Goto(e, place)
      BY <1>7 DEF FinalizeJoin, FinalizeLock, FinalizeStop
    <3> QED
      BY <3>1, <3>2, Moves DEF RefInv, ExitPlaces
  <2>2. Exiting' /\ AutoflushEnded
    BY <2>1 DEF Exiting, StoreInv, FinalizeInv
  <2>3. EndedInv'
    BY <1>1, <1>3, <2>1, <2>2 DEF StoreInv, EndedInv, AutoflushEnded
  <2>4. FinalizeInv'
    BY <1>1, <1>2, <2>1, <2>2 DEF StoreInv, FinalizeInv, AutoflushEnded, Exiting
  <2>5. EndInv'
    BY <1>2, <2>1 DEF StoreInv, StoreTypes, EndInv, SourcesEnded
  <2> QED
    BY <1>5, <2>3, <2>4, <2>5 DEF StoreInv
<1>8. CASE FinalizeEnd(e)
  <2>1. /\ UNCHANGED <<finalized, finalizeMutex, doFinalize>> /\ pc[e] = "end" /\ pc'[e] = "storage"
        /\ ended' = [s \in Sources |-> ended[s] + 1]
    BY <1>8, Moves DEF FinalizeEnd, RefInv, ExitPlaces, store
  <2>2. Exiting' /\ AutoflushEnded
    BY <2>1 DEF Exiting, StoreInv, FinalizeInv
  <2>3. EndedInv'
    BY <1>1, <1>3, <2>1, <2>2 DEF StoreInv, EndedInv, AutoflushEnded
  <2>4. FinalizeInv'
    BY <1>1, <1>2, <2>1, <2>2 DEF StoreInv, FinalizeInv, AutoflushEnded, Exiting
  <2>5. finalizeMutex = e /\ ~doFinalize
    BY <2>1 DEF StoreInv, FinalizeInv, Exiting
  <2>6. EndInv'
    BY <2>1, <2>5 DEF StoreInv, EndInv, SourcesEnded
  <2> QED
    BY <1>5, <2>3, <2>4, <2>6 DEF StoreInv
<1>9. CASE FinalizeStorage(e)
  <2>1. /\ finalized' = finalized \cup {storage} /\ finalizeMutex' = Nobody
        /\ UNCHANGED <<doFinalize, ended>> /\ pc[e] = "storage" /\ pc'[e] = "done"
    BY <1>9, Moves DEF FinalizeStorage, RefInv, ExitPlaces
  <2>2. Exiting' /\ AutoflushEnded
    BY <2>1 DEF Exiting, StoreInv, FinalizeInv
  <2>3. EndedInv'
    BY <1>1, <1>3, <2>1, <2>2 DEF StoreInv, StoreTypes, EndedInv, AutoflushEnded
  <2>4. finalizeMutex = e /\ ~doFinalize
    BY <2>1 DEF StoreInv, FinalizeInv, Exiting
  <2>5. FinalizeInv'
    BY <1>1, <1>2, <2>1, <2>2, <2>4 DEF StoreInv, FinalizeInv, AutoflushEnded, Exiting
  <2>6. EndInv'
    BY <2>1, <2>4 DEF StoreInv, EndInv, SourcesEnded
  <2> QED
    BY <1>5, <2>3, <2>5, <2>6 DEF StoreInv
<1> QED
  BY <1>6, <1>7, <1>8, <1>9 DEF FinalizeStep

LEMMA StoreStutter == ASSUME StoreInv, UNCHANGED vars PROVE StoreInv'
  BY DEF StoreInv, StoreTypes, UsingInv, ResetInv, EndedInv, FinalizeInv, EndInv, SourcesEnded,
         Exiting, AutoflushEnded, vars, store, resetting, ending

LEMMA InvStep == ASSUME Distinct, IInv, [Next]_vars PROVE IInv'
<1>1. RefInv'
  BY RefStep DEF IInv
<1>2. StoreInv'
  BY UserKeepsStore, ResetKeepsStore, FinalizeKeepsStore, StoreStutter DEF IInv, Next
<1> QED
  BY <1>1, <1>2 DEF IInv

\* The inductive invariant.
THEOREM Invariance == Distinct => (Spec => []IInv)
<1> SUFFICES ASSUME Distinct PROVE Spec => []IInv
  OBVIOUS
<1>1. Init => IInv
  BY RefInit, StoreInit DEF IInv
<1>2. IInv /\ [Next]_vars => IInv'
  BY InvStep
<1> QED
  BY <1>1, <1>2, PTL DEF Spec

\* Every variable has its type, a source is ended at most once, and the count is never
\* below the starts that are open (Logger.cpp:98).
THEOREM TypeCorrect == Distinct => (Spec => []TypeOK)
<1> SUFFICES ASSUME Distinct PROVE Spec => []TypeOK
  OBVIOUS
<1>1. IInv => TypeOK
  <2> SUFFICES ASSUME IInv PROVE TypeOK
    OBVIOUS
  <2>1. count \in held .. MaxHeld + 2
    <3>1. count = Starts \/ count = Starts + 1
      BY DEF IInv, RefInv, CountInv
    <3> QED
      BY <3>1 DEF IInv, RefInv, Types, Starts, Distinct
  <2>2. ended \in [Sources -> 0 .. 1]
    BY DEF IInv, StoreInv, EndInv
  <2>3. deleted \subseteq 1 .. MaxStorages /\ finalized \subseteq 1 .. MaxStorages
    BY DEF IInv, StoreInv, StoreTypes, EndedInv, Distinct
  <2>4. /\ held \in 0 .. MaxHeld /\ active \in Users \cup Exiters \cup {Nobody} /\ tracing \subseteq Sources
        /\ pc \in [Users \cup Exiters -> UserPlaces \cup ExitPlaces]
    BY DEF IInv, RefInv, Types
  <2> QED
    BY <2>1, <2>2, <2>3, <2>4 DEF IInv, StoreInv, StoreTypes, TypeOK, UserPlaces, ExitPlaces
<1> QED
  BY <1>1, Invariance, PTL

\* Overlapping recording windows do not end each other (Logger.cpp:98).
THEOREM WindowsNest == Distinct => (Spec => []SourcesFollowStarts)
<1> SUFFICES ASSUME Distinct PROVE Spec => []SourcesFollowStarts
  OBVIOUS
<1>1. IInv => SourcesFollowStarts
  <2> SUFFICES ASSUME IInv, active = Nobody, ~Exiting
               PROVE  tracing = IF held > 0 \/ Autostart THEN Sources ELSE {}
    BY DEF SourcesFollowStarts
  <2>1. \A u \in Users : pc[u] # "stopping"
    BY Threads DEF IInv, RefInv, MutexInv
  <2>2. count = Starts /\ tracing = IF count > 0 THEN Sources ELSE {}
    BY <2>1 DEF IInv, RefInv, CountInv, SourcesInv
  <2>3. count > 0 <=> held > 0 \/ Autostart
    BY <2>2 DEF Starts, Distinct, IInv, RefInv, Types
  <2> QED
    BY <2>2, <2>3
<1> QED
  BY <1>1, Invariance, PTL

\* No thread flushes a storage that resetStorage() has deleted (Logger.cpp:61).
THEOREM NoUseAfterDelete == Distinct => (Spec => []NoDeletedStorage)
<1> SUFFICES ASSUME Distinct PROVE Spec => []NoDeletedStorage
  OBVIOUS
<1>1. IInv => NoDeletedStorage
  <2> SUFFICES ASSUME IInv, NEW t \in Users \cup {AutoFlusher}, using[t] \in deleted PROVE FALSE
    BY DEF NoDeletedStorage, IInv, StoreInv, StoreTypes
  <2>1. using[t] = storage
    BY DEF IInv, StoreInv, UsingInv, EndedInv
  <2>2. reset = "new"
    BY <2>1 DEF IInv, StoreInv, EndedInv
  <2>3. using[t] = 0
    BY <2>2 DEF IInv, StoreInv, UsingInv, ResetInv
  <2> QED
    BY <2>1, <2>3 DEF IInv, StoreInv, StoreTypes
<1> QED
  BY <1>1, Invariance, PTL

\* The autoflush thread never flushes a storage whose tables have ended (Logger.cpp:274).
THEOREM AutoflushEndsFirst == Distinct => (Spec => []AutoflushBeforeFinalize)
<1> SUFFICES ASSUME Distinct PROVE Spec => []AutoflushBeforeFinalize
  OBVIOUS
<1>1. IInv => AutoflushBeforeFinalize
  <2> SUFFICES ASSUME IInv, using[AutoFlusher] \in finalized PROVE FALSE
    BY DEF AutoflushBeforeFinalize
  <2>1. using[AutoFlusher] = storage /\ worker = "flush"
    BY DEF IInv, StoreInv, UsingInv, EndedInv
  <2>2. reset \in {"delete", "new"} \/ AutoflushEnded
    BY <2>1 DEF IInv, StoreInv, EndedInv
  <2> QED
    BY <2>1, <2>2 DEF IInv, StoreInv, ResetInv, AutoflushEnded
<1> QED
  BY <1>1, Invariance, PTL
=============================================================================
