--------------------------- MODULE MCRemoteDataSource ---------------------------
(***************************************************************************)
(* Instances of RemoteDataSource for TLC.                                  *)
(***************************************************************************)
EXTENDS RemoteDataSource, TLC
=============================================================================
