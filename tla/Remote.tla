-------------------------------- MODULE Remote --------------------------------
(***************************************************************************)
(* Remote start and stop (remote/Remote.cpp): rpdRemote sends SIGUSR1 to   *)
(* start tracing and SIGUSR2 to stop it, and the handlers call rpdstart(), *)
(* rpdstop() and rpdflush() of a tracer that the first start loads.        *)
(* rpdRemote is a command that somebody types: it is used again only when  *)
(* its last signal was handled, so handlers do not meet each other.  But a *)
(* handler runs on whatever thread the kernel picks, also on one that is   *)
(* inside the insert() of a table and holds its mutex.  rpdstart() and     *)
(* rpdstop() are one step each: Logger details them.                       *)
(***************************************************************************)
EXTENDS Integers

CONSTANTS
    Threads, Nobody,
    Autostart,      \* RPDT_AUTOSTART of the process
    RepeatStop,     \* environment: a stop may be sent when the last was a stop
    InterruptInsert,\* environment: a signal may hit a thread inside insert()
    MaxSignals      \* bound: signals sent

VARIABLES
    refCount, loaded,       \* refCount and dl of Remote.cpp
    activeCount, tracing,   \* Logger: m_activeCount, the sources
    mutex,                  \* holder of the table's m_mutex
    at,                     \* position of each thread in a handler
    wants,                  \* threads that saw tracing on and will insert()
    pending, last, sent     \* signal not delivered yet, the last, how many

logger == <<activeCount, tracing>>
remote == <<refCount, loaded>>
env    == <<pending, last, sent>>
vars   == <<logger, remote, mutex, at, wants, env>>

Signals == {"start", "stop"}

Init ==
    /\ refCount = 0 /\ loaded = FALSE
    /\ activeCount = 0 /\ tracing = FALSE
    /\ mutex = Nobody
    /\ at = [t \in Threads |-> "none"] /\ wants = {}
    /\ pending = {} /\ last = "stop" /\ sent = 0

Handled == pending = {} /\ \A t \in Threads : at[t] = "none"

Send(signal) ==
    /\ Handled /\ sent < MaxSignals
    /\ signal = "stop" /\ last = "stop" => RepeatStop
    /\ pending' = {signal}
    /\ last' = signal /\ sent' = sent + 1
    /\ UNCHANGED <<logger, remote, mutex, at, wants>>

Goto(t, place) == at' = [at EXCEPT ![t] = place]

Deliver(t, signal) ==
    /\ signal \in pending
    /\ mutex = t => InterruptInsert
    /\ pending' = {}
    /\ Goto(t, signal)
    /\ UNCHANGED <<logger, remote, mutex, wants, last, sent>>

-----------------------------------------------------------------------------
(* startTracing() *)

NeverStarted   == FALSE
AlreadyStarted == refCount > 0

\* Loading the tracer runs its init(), which starts tracing if Autostart.
StartEnter(t) ==
    /\ at[t] = "start"
    /\ IF AlreadyStarted
       THEN Goto(t, "none") /\ UNCHANGED <<logger, loaded>>
       ELSE /\ Goto(t, "rpdstart")
            /\ loaded' = TRUE
            /\ IF ~loaded /\ Autostart
               THEN activeCount' = 1 /\ tracing' = TRUE
               ELSE UNCHANGED logger
    /\ UNCHANGED <<refCount, mutex, wants, env>>

StartCall(t) ==
    /\ at[t] = "rpdstart"
    /\ tracing' = (tracing \/ activeCount = 0)
    /\ activeCount' = activeCount + 1
    /\ refCount' = refCount + 1
    /\ Goto(t, "none")
    /\ UNCHANGED <<loaded, mutex, wants, env>>

(* stopTracing() *)

StopEnter(t) ==
    /\ at[t] = "stop"
    /\ Goto(t, IF refCount > 1 \/ ~loaded THEN "none" ELSE "rpdstop")
    /\ UNCHANGED <<logger, remote, mutex, wants, env>>

StopCall(t) ==
    /\ at[t] = "rpdstop"
    /\ tracing' = (tracing /\ activeCount # 1)
    /\ activeCount' = activeCount - 1
    /\ Goto(t, "rpdflush")
    /\ UNCHANGED <<remote, mutex, wants, env>>

\* rpdflush() takes the mutex of each table and waits for its worker.
CountAfterStop == refCount - 1

StopFlush(t) ==
    /\ at[t] = "rpdflush" /\ mutex = Nobody
    /\ refCount' = CountAfterStop
    /\ Goto(t, "none")
    /\ UNCHANGED <<logger, loaded, mutex, wants, env>>

-----------------------------------------------------------------------------
(* A traced thread records; it does not run while it is in a handler. *)

Record(t) ==
    /\ at[t] = "none" /\ tracing /\ t \notin wants
    /\ wants' = wants \cup {t}
    /\ UNCHANGED <<logger, remote, mutex, at, env>>

InsertBegin(t) ==
    /\ at[t] = "none" /\ t \in wants /\ mutex = Nobody
    /\ mutex' = t
    /\ UNCHANGED <<logger, remote, at, wants, env>>

MutexFree == Nobody

InsertEnd(t) ==
    /\ at[t] = "none" /\ mutex = t
    /\ mutex' = MutexFree /\ wants' = wants \ {t}
    /\ UNCHANGED <<logger, remote, at, env>>

-----------------------------------------------------------------------------
Handle(t) == StartEnter(t) \/ StartCall(t) \/ StopEnter(t) \/ StopCall(t) \/ StopFlush(t)
Insert(t) == InsertBegin(t) \/ InsertEnd(t)

Next ==
    \/ \E signal \in Signals : Send(signal) \/ \E t \in Threads : Deliver(t, signal)
    \/ \E t \in Threads : Handle(t) \/ Record(t) \/ Insert(t)

Spec == Init /\ [][Next]_vars

\* The kernel delivers signals and runs every thread that can run; a thread
\* that waits for the mutex gets it in the end.
Fairness ==
    /\ WF_vars(\E t \in Threads, signal \in Signals : Deliver(t, signal))
    /\ \A t \in Threads : SF_vars(Handle(t)) /\ WF_vars(InsertEnd(t))

FairSpec == Spec /\ Fairness

-----------------------------------------------------------------------------
(* Properties *)

\* The type of every variable; neither count goes below zero.
TypeOK ==
    /\ refCount \in Nat /\ loaded \in BOOLEAN
    /\ activeCount \in Nat /\ tracing \in BOOLEAN
    /\ mutex \in Threads \cup {Nobody} /\ wants \subseteq Threads
    /\ at \in [Threads -> {"none", "start", "rpdstart", "stop", "rpdstop", "rpdflush"}]
    /\ pending \subseteq Signals /\ last \in Signals /\ sent \in 0 .. MaxSignals

\* "you can use the rpdRemote command to start/stop recording" (FEATURES.md:78):
\* once its signal is handled, the tracer does what the last command said,
\* also when a start was repeated.
CommandObeyed == Handled => tracing = (last = "start")

\* "Data is flushed each time the trace is stopped" (FEATURES.md:83): the
\* handler of every stop gets through its flush.
StopFlushes == \A t \in Threads : at[t] = "stop" ~> at[t] = "none"
=============================================================================
