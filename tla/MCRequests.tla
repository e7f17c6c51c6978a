----------------------------- MODULE MCRequests -----------------------------
(* Instances of Requests for TLC. *)
EXTENDS Requests

\* A login of 20 fields is left out: it is a login of 18 with the flag, and is
\* read where 22 fields are cut.
MCRequest == AnyRequest \ {[verb |-> "login", fields |-> 20]}
=============================================================================
