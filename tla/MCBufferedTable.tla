--------------------------- MODULE MCBufferedTable ---------------------------
(***************************************************************************)
(* Instances of BufferedTable for TLC.                                     *)
(***************************************************************************)
EXTENDS BufferedTable, TLC

Symmetry == Permutations(Inserters) \cup Permutations(Flushers)
=============================================================================
