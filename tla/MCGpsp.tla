------------------------------- MODULE MCGpsp -------------------------------
(* Instances of Gpsp for TLC. *)
EXTENDS Gpsp, TLC

MCReply == {"none", "nick", "profile id"}

ClientSymmetry == Permutations(Client)
=============================================================================
