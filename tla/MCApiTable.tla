------------------------------ MODULE MCApiTable ------------------------------
(***************************************************************************)
(* Instances of ApiTable for TLC.                                          *)
(***************************************************************************)
EXTENDS ApiTable, TLC

Symmetry == Permutations(Inserters)
=============================================================================
