------------------------------- MODULE MCGpcm -------------------------------
(* Instances of Gpcm for TLC. *)
EXTENDS Gpcm, TLC

CONSTANTS w1, w2, p1, p2

\* Two passwords arrive as they were typed.
MCDecoded == [w \in WirePassword |-> IF w = w1 THEN p1 ELSE p2]

MCReply == {"challenge", "proof", "wrong password", "unknown user", "name taken",
            "new user", "profile", "keep-alive", "ticket"}

ClientSymmetry == Permutations(Client)
NameSymmetry == Permutations(Name)
ClientAndNameSymmetry == Permutations(Client) \cup Permutations(Name)
=============================================================================
