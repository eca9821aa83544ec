----------------------------- MODULE MCSharedFile -----------------------------
(***************************************************************************)
(* Instances of SharedFile for TLC.                                        *)
(***************************************************************************)
EXTENDS SharedFile, TLC

Symmetry == Permutations(Procs)
=============================================================================
