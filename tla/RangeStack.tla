------------------------------ MODULE RangeStack ------------------------------
(***************************************************************************)
(* Push/pop ranges and marks of the roctx and nvtx data sources            *)
(* (rpd_tracer/RoctxDataSource.cpp; NvtxDataSource.cpp is the same code).  *)
(* Application threads push, pop and mark; a control thread starts and     *)
(* stops tracing, swaps the storage (Logger::resetStorage) and finalizes.  *)
(* A call reads `active` once at its start and goes on whatever happens    *)
(* later; a thread's stack is touched by its owner without a lock and by   *)
(* drainStacks() under s_stacksMutex.                                      *)
(*                                                                         *)
(* A string id is represented by the generation of the storage that        *)
(* created it, a time by the value of a clock that ticks when it is read.  *)
(* Each push_front, pop_front and insert is one step: two of them at once  *)
(* on one deque is a data race whose other outcomes are left out.          *)
(***************************************************************************)
EXTENDS Naturals, Sequences, FiniteSets

CONSTANTS
    Threads,
    MaxTime,        \* bound: reads of the clock
    MaxOpen,        \* bound: ranges on a thread's stack
    MaxSessions,    \* bound: startTracing() calls
    MaxStorages     \* bound: storages

ASSUME RangeAssumption ==
    /\ MaxTime \in Nat /\ MaxOpen \in Nat
    /\ MaxSessions \in Nat /\ MaxStorages \in Nat \ {0}

VARIABLES
    active, resumeTime,     \* RoctxDataSourcePrivate
    idsOf,                  \* storage of the cached ids, 0: not cached
    storage,                \* Logger::m_storage, as its generation
    stack,                  \* t_roctxStack of each thread, the front first
    registered,             \* the threads in s_stacks
    alive,                  \* threads that have not exited
    pc, mine,               \* per thread: position in a call and its local row
    ctl, drains, finalizing,\* control thread: position, drains left to do, and
                            \* whether it is in Logger::finalize
    now, todo,              \* drainStacks(): its timestamp, stacks left to visit
    clock,
    session,                \* startTracing() calls so far
    rows,                   \* the rows in rocpd_api, each with its storage
    raced                   \* history: a control call came during a thread's call

source  == <<active, resumeTime, idsOf>>
control == <<ctl, drains, finalizing, now, todo>>
call    == <<pc, mine>>
vars    == <<source, storage, stack, registered, alive, call, control, clock,
             session, rows, raced>>

Range(t) == <<t, clock>>        \* names a range by its thread and its start
Unnamed  == <<>>                \* the range of a placeholder
NoRow == [range |-> Unnamed, start |-> 0, end |-> 0, ids |-> 0, arg |-> 0]

Init ==
    /\ active = FALSE /\ resumeTime = 0 /\ idsOf = 0
    /\ storage = 1
    /\ stack = [t \in Threads |-> <<>>] /\ registered = {} /\ alive = Threads
    /\ pc = [t \in Threads |-> "idle"] /\ mine = [t \in Threads |-> NoRow]
    /\ ctl = "idle" /\ drains = 0 /\ finalizing = FALSE
    /\ now = 0 /\ todo = {}
    /\ clock = 1 /\ session = 0
    /\ rows = {} /\ raced = FALSE

-----------------------------------------------------------------------------
(* Calls of the application *)

Goto(t, place) == pc' = [pc EXCEPT ![t] = place]
Hold(t, row)   == mine' = [mine EXCEPT ![t] = row]
Tick           == clock < MaxTime /\ clock' = clock + 1

\* s_stacksMutex is free: drainStacks() holds it from `now` to its last stack.
StacksFree == ctl # "drain"

\* The ids after cacheIds().
CacheIds == IF idsOf = 0 THEN storage ELSE idsOf

\* Every call first reads `active` and returns if it is off.
Call(t, place) ==
    /\ pc[t] = "idle" /\ t \in alive /\ active /\ clock < MaxTime
    /\ Goto(t, place)
    /\ UNCHANGED <<source, storage, stack, registered, alive, mine, control,
                   clock, session, rows, raced>>

CallPush(t) == Len(stack[t]) < MaxOpen /\ Call(t, "push")
CallPop(t)  == Call(t, "pop")
CallMark(t) == Call(t, "mark")

\* roctxRangePushA: cache the ids, register the stack, make the row.
MakeRange(t) ==
    /\ pc[t] = "push" /\ (t \in registered \/ StacksFree)
    /\ Tick
    /\ idsOf' = CacheIds
    /\ registered' = registered \cup {t}
    /\ Hold(t, [range |-> Range(t), start |-> clock, end |-> 0,
                ids |-> CacheIds, arg |-> storage])
    /\ Goto(t, "pushrow")
    /\ UNCHANGED <<active, resumeTime, storage, stack, alive, control, session,
                   rows, raced>>

PushRow(t) ==
    /\ pc[t] = "pushrow"
    /\ stack' = [stack EXCEPT ![t] = <<mine[t]>> \o @]
    /\ Hold(t, NoRow) /\ Goto(t, "idle")
    /\ UNCHANGED <<source, storage, registered, alive, control, clock, session,
                   rows, raced>>

\* roctxRangePop: the row on top, or a placeholder from the resume on.
PlaceholderStart == resumeTime

LeftOnPop(ranges)   == ranges
AfterPop(ranges)    == Tail(ranges)

TakeRange(t) ==
    /\ pc[t] = "pop"
    /\ Tick
    /\ idsOf' = CacheIds
    /\ IF stack[t] = <<>>
       THEN /\ Hold(t, [range |-> Unnamed, start |-> PlaceholderStart,
                        end |-> clock, ids |-> CacheIds, arg |-> storage])
            /\ UNCHANGED stack
       ELSE /\ Hold(t, [Head(stack[t]) EXCEPT !.end = clock])
            /\ stack' = [stack EXCEPT ![t] = AfterPop(@)]
    /\ Goto(t, "insert")
    /\ UNCHANGED <<active, resumeTime, storage, registered, alive, control,
                   session, rows, raced>>

\* roctxMarkA
MakeMark(t) ==
    /\ pc[t] = "mark"
    /\ Tick
    /\ idsOf' = CacheIds
    /\ Hold(t, [range |-> Range(t), start |-> clock, end |-> clock,
                ids |-> CacheIds, arg |-> storage])
    /\ Goto(t, "insert")
    /\ UNCHANGED <<active, resumeTime, storage, stack, registered, alive,
                   control, session, rows, raced>>

\* apiTable().insert(); the tables of a finalized storage have no worker left.
Inserted(t, row) ==
    IF ctl = "ended" THEN rows
                     ELSE rows \cup {[thread |-> t, row |-> row, storage |-> storage]}

InsertRow(t) ==
    /\ pc[t] = "insert"
    /\ rows' = Inserted(t, mine[t])
    /\ Hold(t, NoRow) /\ Goto(t, "idle")
    /\ UNCHANGED <<source, storage, stack, registered, alive, control, clock,
                   session, raced>>

\* The thread ends: StackRegistrator removes its stack, which then dies.
RegisteredForEver(t) == registered
RegisteredAfterExit(t) == registered \ {t}

Exit(t) ==
    /\ pc[t] = "idle" /\ t \in alive /\ StacksFree
    /\ alive' = alive \ {t}
    /\ registered' = RegisteredAfterExit(t)
    /\ stack' = [stack EXCEPT ![t] = <<>>]
    /\ UNCHANGED <<source, storage, call, control, clock, session, rows, raced>>

-----------------------------------------------------------------------------
(* Control: Logger::rpdstart, rpdstop, resetStorage and finalize *)

\* Nothing keeps the application from calls meanwhile; `raced` remembers it.
ControlCall == raced' = (raced \/ \E t \in Threads : pc[t] # "idle")

StartTracing ==
    /\ ctl = "idle" /\ ~active /\ session < MaxSessions
    /\ Tick
    /\ resumeTime' = clock /\ active' = TRUE
    /\ session' = session + 1
    /\ ControlCall
    /\ UNCHANGED <<idsOf, storage, stack, registered, alive, call, control, rows>>

StopTracing ==
    /\ ctl = "idle" /\ active /\ clock < MaxTime
    /\ active' = FALSE
    /\ ctl' = "drainnow" /\ drains' = 1
    /\ ControlCall
    /\ UNCHANGED <<resumeTime, idsOf, storage, stack, registered, alive, call,
                   finalizing, now, todo, clock, session, rows>>

\* Logger::finalize: stopTracing() if tracing is on, then end(), which drains too.
Finalize ==
    /\ ctl = "idle" /\ clock + 1 < MaxTime
    /\ active' = FALSE /\ finalizing' = TRUE
    /\ ctl' = "drainnow" /\ drains' = IF active THEN 2 ELSE 1
    /\ ControlCall
    /\ UNCHANGED <<resumeTime, idsOf, storage, stack, registered, alive, call,
                   now, todo, clock, session, rows>>

\* drainStacks(): read the clock, then take the lock.
NothingToDrain == {}
StacksToDrain == registered

DrainBegin ==
    /\ ctl = "drainnow"
    /\ Tick
    /\ now' = clock /\ todo' = StacksToDrain /\ ctl' = "drain"
    /\ UNCHANGED <<source, storage, stack, registered, alive, call, drains,
                   finalizing, session, rows, raced>>

DrainRow(t) ==
    /\ ctl = "drain" /\ t \in todo /\ stack[t] # <<>>
    /\ stack' = [stack EXCEPT ![t] = Tail(@)]
    /\ rows' = Inserted(t, [Head(stack[t]) EXCEPT !.end = now])
    /\ UNCHANGED <<source, storage, registered, alive, call, control, clock,
                   session, raced>>

DrainNext(t) ==
    /\ ctl = "drain" /\ t \in todo /\ stack[t] = <<>>
    /\ todo' = todo \ {t}
    /\ UNCHANGED <<source, storage, stack, registered, alive, call, ctl, drains,
                   finalizing, now, clock, session, rows, raced>>

DrainEnd ==
    /\ ctl = "drain" /\ todo = {}
    /\ drains' = drains - 1
    /\ ctl' = IF drains > 1 THEN "drainnow"
              ELSE IF finalizing THEN "ended" ELSE "idle"
    /\ UNCHANGED <<source, storage, stack, registered, alive, call, finalizing,
                   now, todo, clock, session, rows, raced>>

\* resetStorage(): a new storage, then reset() of the source.  It is called
\* between rpdstop() and the next rpdstart().
SwapStorage ==
    /\ ctl = "idle" /\ ~active /\ storage < MaxStorages
    /\ storage' = storage + 1
    /\ ctl' = "swapped"
    /\ ControlCall
    /\ UNCHANGED <<source, stack, registered, alive, call, drains, finalizing,
                   now, todo, clock, session, rows>>

IdsKept == idsOf
IdsAfterReset == 0

ResetSource ==
    /\ ctl = "swapped"
    /\ idsOf' = IdsAfterReset
    /\ ctl' = "idle"
    /\ UNCHANGED <<active, resumeTime, storage, stack, registered, alive, call,
                   drains, finalizing, now, todo, clock, session, rows, raced>>

-----------------------------------------------------------------------------
CallStep(t) == CallPush(t) \/ CallPop(t) \/ CallMark(t) \/ MakeRange(t) \/ PushRow(t)
               \/ TakeRange(t) \/ MakeMark(t) \/ InsertRow(t) \/ Exit(t)
DrainStep   == \/ DrainBegin \/ DrainEnd
               \/ \E t \in Threads : DrainRow(t) \/ DrainNext(t)

Next ==
    \/ \E t \in Threads : CallStep(t)
    \/ StartTracing \/ StopTracing \/ Finalize
    \/ DrainStep
    \/ SwapStorage \/ ResetSource

Spec == Init /\ [][Next]_vars

-----------------------------------------------------------------------------
(* Properties *)

RowType == [range : {Unnamed} \cup (Threads \X (1 .. MaxTime)), start : 0 .. MaxTime,
            end : 0 .. MaxTime, ids : 0 .. MaxStorages, arg : 0 .. MaxStorages]

\* The type of every variable; a recorded row was closed.
TypeOK ==
    /\ active \in BOOLEAN /\ resumeTime \in 0 .. MaxTime
    /\ idsOf \in 0 .. MaxStorages /\ storage \in 1 .. MaxStorages
    /\ \A t \in Threads : \A i \in DOMAIN stack[t] : stack[t][i] \in RowType
    /\ registered \subseteq Threads /\ alive \subseteq Threads
    /\ pc \in [Threads -> {"idle", "push", "pushrow", "pop", "mark", "insert"}]
    /\ mine \in [Threads -> RowType]
    /\ ctl \in {"idle", "drainnow", "drain", "swapped", "ended"}
    /\ drains \in 0 .. 2 /\ finalizing \in BOOLEAN
    /\ now \in 0 .. MaxTime /\ todo \subseteq Threads
    /\ clock \in 1 .. MaxTime /\ session \in 0 .. MaxSessions
    /\ \A r \in rows : r.row \in RowType /\ r.row.end > 0 /\ r.row.start > 0

\* "viewers derive nesting from start/end containment" (RoctxDataSource.cpp:200):
\* two rows of a thread are disjoint or one contains the other, also across
\* pauses, placeholders and ranges that a stop closed, as long as no control
\* call has met a thread inside a call.
Disjoint(a, b) == a.end <= b.start \/ b.end <= a.start
Contains(a, b) == a.start <= b.start /\ b.end <= a.end
Nested ==
    \A r, q \in rows :
        ~raced /\ r.thread = q.thread /\ r.storage = q.storage
          => \/ Disjoint(r.row, q.row)
             \/ Contains(r.row, q.row) \/ Contains(q.row, r.row)

\* "Drain in-flight ranges so their string ids (valid only in the current
\* storage) cannot outlive a resetStorage()" (RoctxDataSource.cpp:254): every
\* string id of a row was made by the storage that the row is in, as long as no
\* control call has met a thread inside a call.
IdsOfOwnStorage ==
    ~raced => \A r \in rows : r.row.ids = r.storage /\ r.row.arg = r.storage

\* A push or a mark is recorded at most once, whether its pop, a stop or the
\* finalization closes it, in whatever order they come.
RecordedOnce ==
    \A r, q \in rows : r.row.range = q.row.range /\ r.row.range # Unnamed => r = q

\* "the drain never dereferences a destroyed thread_local"
\* (RoctxDataSource.cpp:83): it only visits stacks of threads that live.
DrainVisitsLiving == ctl = "drain" => todo \subseteq alive
=============================================================================
