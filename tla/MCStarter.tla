------------------------------ MODULE MCStarter ------------------------------
(* Instances of Starter for TLC. *)
EXTENDS Starter, TLC

OwnSymmetry == Permutations(Own)
=============================================================================
