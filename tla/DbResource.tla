------------------------------ MODULE DbResource ------------------------------
(***************************************************************************)
(* The election of a delegate among processes that share one trace file    *)
(* (rpd_tracer/DbResource.cpp): the row 'resourceLock::<name>' of          *)
(* rocpd_metadata is 1 while some process has the resource.                *)
(*                                                                         *)
(* sqlite (external) is modelled as it is used: a file in WAL mode has one *)
(* writer at a time and readers that see the last commit.  DbResource's    *)
(* connection has no busy handler and its results are not looked at: a     *)
(* BEGIN that finds a writer leaves it outside a transaction, and each of  *)
(* the statements that follow is then a transaction of its own.  Who else  *)
(* writes, and when a process calls or dies, is said in SharedFile.        *)
(***************************************************************************)
CONSTANTS
    Procs, Nobody,  \* processes, no writer
    Connection(_),  \* a process's connection for DbResource
    Contended       \* environment: BEGIN may find a writer at work

VARIABLES
    value,      \* the row: "none", "0" or "1", as committed
    writer,     \* who has the write lock of the file
    pc,         \* position in tryLock() or unlock()
    locked,     \* DbResourcePrivate::locked
    inserted    \* processes whose transaction has written the row

Init ==
    /\ value = "none"
    /\ pc = [p \in Procs |-> "idle"]
    /\ locked = {} /\ inserted = {}

Goto(p, place) == pc' = [pc EXCEPT ![p] = place]
InTransaction(p) == writer = Connection(p)
MayBegin == Contended \/ writer = Nobody

\* BEGIN EXCLUSIVE TRANSACTION: fails unnoticed if somebody writes.
Begin(p) ==
    /\ MayBegin
    /\ writer' = IF writer = Nobody THEN Connection(p) ELSE writer

\* A write outside a transaction fails if somebody writes.
CanWrite(p) == writer \in {Connection(p), Nobody}

-----------------------------------------------------------------------------
(* tryLock() *)

TryLock(p) ==
    /\ pc[p] = "idle" /\ p \notin locked
    /\ value # "1"
    /\ Goto(p, "begin")
    /\ UNCHANGED <<value, writer, locked, inserted>>

LockBegin(p) ==
    /\ pc[p] = "begin"
    /\ Begin(p)
    /\ Goto(p, "check")
    /\ UNCHANGED <<value, locked, inserted>>

\* The second look at the row, inside the transaction.
NotLookedAt == TRUE
SeenFree == value # "1"

LockCheck(p) ==
    /\ pc[p] = "check"
    /\ Goto(p, IF SeenFree THEN "insert" ELSE "end")
    /\ UNCHANGED <<value, writer, locked, inserted>>

LockInsert(p) ==
    /\ pc[p] = "insert"
    /\ IF InTransaction(p)
       THEN /\ inserted' = inserted \cup {p} /\ locked' = locked \cup {p}
            /\ UNCHANGED value
       ELSE /\ UNCHANGED inserted
            /\ IF CanWrite(p)
               THEN value' = "1" /\ locked' = locked \cup {p}
               ELSE UNCHANGED <<value, locked>>
    /\ Goto(p, "end")
    /\ UNCHANGED writer

LockEnd(p) ==
    /\ pc[p] = "end"
    /\ value' = IF p \in inserted THEN "1" ELSE value
    /\ inserted' = inserted \ {p}
    /\ writer' = IF InTransaction(p) THEN Nobody ELSE writer
    /\ Goto(p, "idle")
    /\ UNCHANGED locked

-----------------------------------------------------------------------------
(* unlock() *)

UnlockBegin(p) ==
    /\ pc[p] = "idle" /\ p \in locked
    /\ Begin(p)
    /\ Goto(p, "update")
    /\ UNCHANGED <<value, locked, inserted>>

\* UPDATE and END in one: until the END, nobody else sees the UPDATE.
ValueAfterUnlock == "0"

UnlockUpdate(p) ==
    /\ pc[p] = "update"
    /\ value' = IF CanWrite(p) THEN ValueAfterUnlock ELSE value
    /\ writer' = IF InTransaction(p) THEN Nobody ELSE writer
    /\ locked' = locked \ {p}
    /\ Goto(p, "idle")
    /\ UNCHANGED inserted

-----------------------------------------------------------------------------
\* The process is gone: what its transaction wrote is rolled back, what was
\* committed stays.
Die(p) ==
    /\ locked' = locked \ {p} /\ inserted' = inserted \ {p}
    /\ Goto(p, "idle")
    /\ UNCHANGED value

LockStep(p) == LockBegin(p) \/ LockCheck(p) \/ LockInsert(p) \/ LockEnd(p)

\* The type of every variable; only the writer has uncommitted changes.
TypeOK ==
    /\ value \in {"none", "0", "1"}
    /\ pc \in [Procs -> {"idle", "begin", "check", "insert", "end", "update"}]
    /\ locked \subseteq Procs
    /\ inserted \subseteq {p \in Procs : InTransaction(p)}
=============================================================================
