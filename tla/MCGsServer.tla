----------------------------- MODULE MCGsServer -----------------------------
(* Instances of GsServer for TLC. *)
EXTENDS GsServer

ConnectionSymmetry == Permutations(Connection)
=============================================================================
