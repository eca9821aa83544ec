------------------------------- MODULE Selection -------------------------------
(***************************************************************************)
(* What a loop that skips some of the records it is given works on.        *)
(***************************************************************************)
EXTENDS Integers, Sequences

\* The elements of `batch` that are in `wanted`, in their order.
Selected(batch, wanted) ==
    LET upTo[n \in Nat] ==
            IF n = 0 THEN <<>>
            ELSE IF batch[n] \in wanted THEN Append(upTo[n - 1], batch[n]) ELSE upTo[n - 1]
    IN upTo[Len(batch)]
=============================================================================
