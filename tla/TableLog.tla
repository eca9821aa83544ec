------------------------------- MODULE TableLog -------------------------------
(***************************************************************************)
(* What a row table promises its callers, without ring, batches, worker or *)
(* condition variable: rows are numbered in the order they are accepted,   *)
(* the backend receives every row once and in that order, and flush() does *)
(* not go on to publish before the backend has every row accepted when it  *)
(* was called.                                                             *)
(***************************************************************************)
EXTENDS Naturals, Sequences

CONSTANT Callers        \* threads that call flush() or finalize()

VARIABLES
    accepted,           \* number of rows accepted so far
    stored,             \* rows received by the backend, in order
    target,             \* rows accepted when a caller last called
    waits               \* callers whose flush() or finalize() is waiting

vars == <<accepted, stored, target, waits>>

Init ==
    /\ accepted = 0
    /\ stored = <<>>
    /\ target = [c \in Callers |-> 0]
    /\ waits = {}

Accept ==
    /\ accepted' = accepted + 1
    /\ UNCHANGED <<stored, target, waits>>

Store ==
    /\ Len(stored) < accepted
    /\ stored' = Append(stored, Len(stored) + 1)
    /\ UNCHANGED <<accepted, target, waits>>

Call(c) ==
    /\ c \notin waits
    /\ target' = [target EXCEPT ![c] = accepted]
    /\ waits' = waits \cup {c}
    /\ UNCHANGED <<accepted, stored>>

Publish(c) ==
    /\ c \in waits
    /\ target[c] <= Len(stored)
    /\ waits' = waits \ {c}
    /\ UNCHANGED <<accepted, stored, target>>

Next == \/ Accept \/ Store
        \/ \E c \in Callers : Call(c) \/ Publish(c)

Spec == Init /\ [][Next]_vars
=============================================================================
