------------------------------ MODULE SharedFile ------------------------------
(***************************************************************************)
(* Processes that share a trace file: each joins it and writes rows        *)
(* (Session), and once it has opened the file it tries to become the one   *)
(* that logs GPU metrics, drives the clocks or receives the rows of other  *)
(* nodes (DbResource).  Both use sqlite's one write lock, through          *)
(* different connections.                                                  *)
(***************************************************************************)
EXTENDS Integers, FiniteSets

CONSTANTS
    Procs, Nobody,
    Contended,      \* environment: BEGIN of tryLock() may find a writer
    CrashCreating,  \* environment: a process may die while it creates the schema
    MaxCrashes,     \* bound: crashes
    MaxSessions     \* bound: session numbers given out

VARIABLES
    schema, wal, sessionCount, writer, pc, metaReady, tablesReady, sessionId,
    owners, crashes,                    \* Session
    value, lockPc, locked, inserted     \* DbResource; writer is shared

Connection(p) == <<p, "resource">>

Join == INSTANCE Session
Lock == INSTANCE DbResource WITH pc <- lockPc

lockVars == <<value, lockPc, locked, inserted>>
joinVars == <<schema, wal, sessionCount, pc, metaReady, tablesReady, sessionId,
              owners, crashes>>
vars     == <<writer, joinVars, lockVars>>

Init == Join!Init /\ Lock!Init

Open(p) == pc[p] \in {"running", "writing"}

JoinStep(p)  == Join!Join(p) /\ UNCHANGED lockVars
WriteStep(p) == (Join!WriteBegin(p) \/ Join!WriteEnd(p)) /\ UNCHANGED lockVars

\* A source that has the resource gives it back in end(), before the process
\* leaves the file.
Exit(p) ==
    /\ lockPc[p] = "idle" /\ p \notin locked
    /\ Join!Exit(p)
    /\ UNCHANGED lockVars

Crash(p) == Join!Crash(p) /\ Lock!Die(p)

\* init(), or the monitoring thread that tries again every second.
TryLock(p)  == Open(p) /\ Lock!TryLock(p) /\ UNCHANGED joinVars
LockStep(p) == Lock!LockStep(p) /\ UNCHANGED joinVars
Unlock(p)   == Lock!UnlockBegin(p) /\ UNCHANGED joinVars
UnlockEnd(p) == Lock!UnlockUpdate(p) /\ UNCHANGED joinVars

Next == \E p \in Procs :
    \/ JoinStep(p) \/ WriteStep(p) \/ Exit(p) \/ Crash(p)
    \/ TryLock(p) \/ LockStep(p) \/ Unlock(p) \/ UnlockEnd(p)

Spec == Init /\ [][Next]_vars

\* A process that joins goes on, a writer commits, a process without the
\* resource tries again and gets through its call; sqlite's lock is not
\* withheld for ever from one that waits.  Nobody has to start or to leave.
Fairness ==
    \A p \in Procs :
        /\ SF_vars(pc[p] # "start" /\ JoinStep(p))
        /\ WF_vars(pc[p] = "writing" /\ WriteStep(p))
        /\ SF_vars(TryLock(p)) /\ SF_vars(LockStep(p)) /\ SF_vars(UnlockEnd(p))

FairSpec == Spec /\ Fairness

-----------------------------------------------------------------------------
(* Properties *)

\* The type of every variable.
TypeOK == Join!TypeOK /\ Lock!TypeOK

\* "Bits 32-47: sessionId (per-process offset = sessionId * (1<<32))"
\* (RemoteDataSource.cpp:39): no two processes ever write rows under the same
\* session, so their row ids do not meet, also after crashes and restarts.
UniqueSessions == \A s \in DOMAIN owners : owners[s] <= 1

\* "Use BEGIN EXCLUSIVE to serialize against other processes" (Schema.cpp:25):
\* a process that found the file locked and went on without a schema of its
\* own still opens every table after the other one has created them.
SchemaBeforeTables ==
    \A p \in Procs :
        /\ pc[p] = "session" => p \in metaReady
        /\ pc[p] = "announce" => p \in tablesReady

\* Joining does not take for ever, whoever else starts, writes, elects or
\* crashes.
JoinEnds == \A p \in Procs : pc[p] = "open" ~> pc[p] \in {"running", "start"}

\* "Runs as a single delegate on Node 0 (elected via DbResource)"
\* (RemoteDataSource.h:7): no two processes have the resource.
SingleDelegate == Cardinality(locked) <= 1

\* As long as nobody has crashed, a process that stays does not stay without
\* a delegate: somebody gets the resource whenever it was given back.
AlwaysElected ==
    \A p \in Procs : []<>(~Open(p) \/ locked # {} \/ crashes > 0)

\* Neither joining nor the election of a delegate comes to a standstill.
Proceeds == JoinEnds /\ AlwaysElected
=============================================================================
