----------------------------- MODULE MCRangeStack -----------------------------
(***************************************************************************)
(* Instances of RangeStack and RlogDataSource for TLC.  A source has its   *)
(* own stacks and rows: a behaviour is one of the source `subject`.        *)
(***************************************************************************)
EXTENDS RlogDataSource, TLC

VARIABLE subject

\* Bound: rlog's startTracing() reads no clock, so that fewer reads do.
RlogTimes == 1 .. MaxTime - 1

MCInit == subject \in {"roctx", "rlog"} /\ Init
MCNext == /\ \/ subject = "roctx" /\ Next
             \/ subject = "rlog" /\ NextRlog /\ clock' \in RlogTimes
          /\ UNCHANGED subject
MCSpec == MCInit /\ [][MCNext]_<<vars, subject>>

Symmetry == Permutations(Threads)
=============================================================================
