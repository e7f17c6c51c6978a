------------------------------ MODULE MCCoding ------------------------------
(***************************************************************************)
(* The two codings of the login port and the configuration file, for TLC.  *)
(* They have no state in common: one of them moves while the others have   *)
(* not begun.                                                              *)
(***************************************************************************)
EXTENDS GsPassword, Md5Stream, Config

B == INSTANCE Bitwise

ASSUME XorIsBitwise == \A x, y \in 0 .. 255 : Xor(x, y) = B!^^(x, y)

MCLength == 0 .. 190

Passwords == <<typed, num, key>>
Codings == <<Passwords, vars>>
Files == <<line, m_CFG, meant, unclear>>

MCInit == NothingTyped /\ Init /\ EmptyFile

MCNext ==
  \/ /\ phase = "init" /\ EmptyFile
     /\ \E char \in Char : Type(char)
     /\ UNCHANGED <<vars, Files>>
  \/ /\ NothingTyped /\ EmptyFile
     /\ Next
     /\ UNCHANGED <<Passwords, Files>>
  \/ /\ NothingTyped /\ phase = "init"
     /\ Edit
     /\ UNCHANGED Codings

MCSpec == MCInit /\ [][MCNext]_<<Codings, Files>>
=============================================================================
