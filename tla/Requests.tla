------------------------------ MODULE Requests ------------------------------
(***************************************************************************)
(* How the login port finds requests in the bytes of one connection        *)
(* (CClientCM::Update, SplitString, CTCPSocket::DoRecv).  TCP keeps the    *)
(* order of the bytes and not their division into requests: a pass may     *)
(* receive a part of a request, or several in one piece.  A pass clears    *)
(* the receive buffer, receives once, and looks at the number of fields    *)
(* and at the first of them.                                               *)
(*                                                                         *)
(* A field is two bytes here, so that it can be cut.  What Gpcm takes as   *)
(* the input of its handlers is what is found here; whether a proof is     *)
(* right is left to Gpcm, but a response read from another field never is. *)
(***************************************************************************)
EXTENDS Integers, Sequences

CONSTANTS Request,   \* what players send: verb and number of fields
          MaxSent    \* bound on the requests of a connection

\* The requests of the handlers; an answered "newuser" makes the game log in
\* with 22 or 24 fields, and 20 and 24 are those of Battlefield 2 1.5.
AnyRequest ==
  [verb : {"login"}, fields : {18, 20, 22, 24}] \cup
  {[verb |-> "newuser", fields |-> 18], [verb |-> "getprofile", fields |-> 8],
   [verb |-> "updatepro", fields |-> 10], [verb |-> "logout", fields |-> 4]}

ASSUME RequestAssumption == Request \subseteq AnyRequest /\ MaxSent \in Nat

VARIABLES
  m_State, m_BF2_15,   \* of CClientCM
  incoming,            \* the bytes sent to this connection, not yet received
  sent,                \* the number of requests sent
  handled,             \* history: the requests acted on, in that order
  acted                \* history: the fields used for the last of them

vars == <<m_State, m_BF2_15, incoming, sent, handled, acted>>

Init ==
  /\ m_State = 0
  /\ m_BF2_15 = FALSE
  /\ incoming = << >>
  /\ sent = 0
  /\ handled = << >>
  /\ acted = << >>

-----------------------------------------------------------------------------
(* The bytes of a request; its verb is its first field. *)
Bytes(number, request) ==
  [k \in 1 .. 2 * request.fields |->
     [field |-> [number |-> number, verb |-> request.verb, of |-> request.fields,
                 at |-> (k + 1) \div 2],
      half |-> 2 - (k % 2)]]

(* SplitString: the fields in their order, and whether they are whole: the   *)
(* first may lack its beginning and the last its end.                        *)
SplitString(bytes) ==
  LET lacking == bytes[1].half - 1
      begin(j) == IF j = 1 THEN 1 ELSE 2 * j - 1 - lacking
  IN  [j \in 1 .. (Len(bytes) + lacking + 1) \div 2 |->
         [field |-> bytes[begin(j)].field,
          whole |-> bytes[begin(j)].half = 1 /\ begin(j) < Len(bytes)]]

(* Variant: the first field is not looked at. *)
IsRequestByLength(vals, verb, fields) == Len(vals) = fields

(* RecvVals.size() == fields && RecvVals[0] == verb.  No other text a player *)
(* sends, nor an end of one, is taken to read like a verb.                   *)
IsRequest(vals, verb, fields) ==
  /\ vals[1].whole
  /\ vals[1].field.at = 1
  /\ vals[1].field.verb = verb
  /\ Len(vals) = fields

(* Variant: without ClearRecvBuffer, what was received is there again. *)
RemainingUncleared(n) == incoming

(* ClearRecvBuffer and DoRecv: the first n bytes are received, and gone when *)
(* the pass ends.                                                            *)
Remaining(n) == SubSeq(incoming, n + 1, Len(incoming))

(* Variant: the branch for the login that follows newuser is missing. *)
LoginLengthsTwo15 == {18, 20, 24}

LoginLengths == {18, 20, 22, 24}

(* RecvVals[6] and RecvVals[10]. *)
ResponseAt(fields) == IF fields \in {18, 20} THEN 7 ELSE 11

(* A handler acts on the request that its first field names. *)
ActOn(vals, positions) ==
  /\ acted' = [k \in DOMAIN positions |-> vals[positions[k]]]
  /\ handled' = Append(handled, vals[1].field.number)

(* The four branches of state 1 for "login", by length. *)
Login(vals) ==
  /\ m_State = 1
  /\ \E fields \in LoginLengths :
       /\ IsRequest(vals, "login", fields)
       /\ ActOn(vals, <<3, 5, ResponseAt(fields)>>)
       /\ m_BF2_15' = (m_BF2_15 \/ fields \in {20, 24})
       /\ \/ UNCHANGED m_State
          \/ /\ ResponseAt(fields) = ResponseAt(vals[1].field.of)
             /\ m_State' = 2

NewUser(vals) ==
  /\ m_State = 1
  /\ IsRequest(vals, "newuser", 18)
  /\ ActOn(vals, <<3, 5, 7>>)
  /\ UNCHANGED <<m_State, m_BF2_15>>

GetProfile(vals) ==
  /\ m_State \in {2, 3}
  /\ IsRequest(vals, "getprofile", 8)
  /\ ActOn(vals, << >>)
  /\ m_State' = 3
  /\ UNCHANGED m_BF2_15

UpdateProfile(vals) ==
  /\ m_State = 2
  /\ IsRequest(vals, "updatepro", 10)
  /\ ActOn(vals, <<7>>)
  /\ m_State' = 3
  /\ UNCHANGED m_BF2_15

Logout(vals) ==
  /\ m_State = 3
  /\ IsRequest(vals, "logout", 4)
  /\ ActOn(vals, << >>)
  /\ m_State' = 4
  /\ UNCHANGED m_BF2_15

(* No branch takes it; the bytes are lost. *)
Ignored(vals) ==
  /\ ~ \/ m_State = 1 /\ IsRequest(vals, "newuser", 18)
       \/ m_State = 1 /\ \E fields \in LoginLengths : IsRequest(vals, "login", fields)
       \/ m_State \in {2, 3} /\ IsRequest(vals, "getprofile", 8)
       \/ m_State = 2 /\ IsRequest(vals, "updatepro", 10)
       \/ m_State = 3 /\ IsRequest(vals, "logout", 4)
  /\ UNCHANGED <<m_State, m_BF2_15, handled, acted>>

(* One pass over the client in state 1, 2 or 3 whose recv brings n bytes. *)
Pass(n) ==
  /\ m_State \in 1 .. 3
  /\ incoming' = Remaining(n)
  /\ LET vals == SplitString(SubSeq(incoming, 1, n)) IN
       \/ Login(vals) \/ NewUser(vals)
       \/ GetProfile(vals) \/ UpdateProfile(vals) \/ Logout(vals)
       \/ Ignored(vals)
  /\ UNCHANGED sent

(* State 0 receives nothing. *)
SendServerChallenge ==
  /\ m_State = 0
  /\ m_State' = 1
  /\ UNCHANGED <<m_BF2_15, incoming, sent, handled, acted>>

(* The player sends whatever it likes, whenever it likes. *)
Send(request) ==
  /\ sent < MaxSent
  /\ sent' = sent + 1
  /\ incoming' = incoming \o Bytes(sent + 1, request)
  /\ UNCHANGED <<m_State, m_BF2_15, handled, acted>>

Next ==
  \/ SendServerChallenge
  \/ \E request \in Request : Send(request)
  \/ \E n \in 1 .. Len(incoming) : Pass(n)

Spec == Init /\ [][Next]_vars

-----------------------------------------------------------------------------
(* Properties.                                                             *)

(* However the network cuts and joins them, the requests that are acted on   *)
(* are acted on in the order they were sent, and none of them twice: no rest *)
(* of a request is read as that request again.                               *)
HandledInOrder ==
  \A i, j \in DOMAIN handled : i < j => handled[i] < handled[j]

(* What the server takes as name, challenge, response, password, e-mail or   *)
(* country is one whole field, and all of it stems from the one request that *)
(* is acted on, even where its rest is missing or the next has been joined   *)
(* to it: no account or session is made up of two requests.                  *)
OneRequestActed ==
  \A k \in DOMAIN acted :
    acted[k].whole /\ acted[k].field.number = handled[Len(handled)]

(* What the next byte to be received belongs to. *)
NextField == incoming[1].field

Admitted(state) ==
  CASE state = 1 -> {"login", "newuser"}
    [] state = 2 -> {"getprofile", "updatepro"}
    [] state = 3 -> {"getprofile", "logout"}
    [] OTHER -> {}

(* A request that a pass receives whole and alone is acted on if its state   *)
(* knows it, whatever was cut, joined or lost before: the connection is in   *)
(* step again with the first request that arrives undamaged.                 *)
WholeRequestHandled ==
  [][/\ incoming # << >> /\ incoming[1].half = 1 /\ NextField.at = 1
     /\ Len(incoming') = Len(incoming) - 2 * NextField.of
     /\ NextField.verb \in Admitted(m_State)
     => handled' = Append(handled, NextField.number)]_vars

=============================================================================
