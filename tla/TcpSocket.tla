----------------------------- MODULE TcpSocket -----------------------------
(***************************************************************************)
(* CTCPSocket (socket.cpp): the non-blocking stream socket of a connected  *)
(* client, as the client classes use it.  Per connection, the flags        *)
(* m_Connected and m_HasError and the bytes still to be sent.  The receive *)
(* buffer is cleared before every DoRecv, so what a pass reads is an input *)
(* of the pass and no state.                                               *)
(*                                                                         *)
(* The send buffer is a sequence of pieces: a reply, or (cut) the tail of  *)
(* one whose beginning has been sent.                                      *)
(***************************************************************************)
EXTENDS Integers, Sequences

CONSTANTS Client,         \* the connections that can be open at once
          Reply,          \* what PutBytes is called with
          NetworkFaults   \* what sockets do besides sending everything

ASSUME NetworkAssumption == NetworkFaults \subseteq {"blocked", "partial", "error"}

VARIABLES m_Connected, m_HasError, m_SendBuffer

tcpVars == <<m_Connected, m_HasError, m_SendBuffer>>

Piece == [reply : Reply, cut : BOOLEAN]

TcpTypeOK ==
  /\ m_Connected \in [Client -> BOOLEAN]
  /\ m_HasError \in [Client -> BOOLEAN]
  /\ m_SendBuffer \in [Client -> Seq(Piece)]

TcpInit ==
  /\ m_Connected = [c \in Client |-> FALSE]
  /\ m_HasError = [c \in Client |-> FALSE]
  /\ m_SendBuffer = [c \in Client |-> << >>]

(* PutBytes appends; it never looks at what is already queued. *)
PutBytes(buffer, reply) == Append(buffer, [reply |-> reply, cut |-> FALSE])

(* Variant: the reply is appended to what is still queued. *)
PutWithoutClear(buffer, reply) == PutBytes(buffer, reply)

(* ClearSendBuffer, then PutBytes: how every handler of the login port and  *)
(* half of the handlers of the search port answer.                          *)
ClearAndPut(buffer, reply) == PutBytes(<< >>, reply)

(* Accept wraps a new descriptor; the constructor of CClient clears both    *)
(* buffers.                                                                 *)
Open(c) ==
  /\ m_Connected' = [m_Connected EXCEPT ![c] = TRUE]
  /\ m_HasError' = [m_HasError EXCEPT ![c] = FALSE]
  /\ m_SendBuffer' = [m_SendBuffer EXCEPT ![c] = << >>]

(* The destructor closes the descriptor; nothing of the object is left. *)
Close(c) ==
  /\ m_Connected' = [m_Connected EXCEPT ![c] = FALSE]
  /\ m_HasError' = [m_HasError EXCEPT ![c] = FALSE]
  /\ m_SendBuffer' = [m_SendBuffer EXCEPT ![c] = << >>]

(* The process ends, and with it every connection. *)
CloseAll ==
  /\ m_Connected' = [c \in Client |-> FALSE]
  /\ m_HasError' = [c \in Client |-> FALSE]
  /\ m_SendBuffer' = [c \in Client |-> << >>]

Flags(c) == [connected |-> m_Connected[c], hasError |-> m_HasError[c]]

(* Variant: DoRecv without the test of m_HasError. *)
CanRecvAfterError(c) == m_Connected[c]

(* DoRecv can bring data only then: its early return. *)
CanRecv(c) == m_Connected[c] /\ ~m_HasError[c]

(* What DoRecv may leave behind without data for the handler: nothing was  *)
(* waiting, the peer closed (recv = 0), or recv failed.  An error does not *)
(* clear m_Connected.                                                      *)
RecvNothing(c) ==
  {Flags(c)} \cup
  (IF CanRecv(c)
   THEN {[connected |-> FALSE, hasError |-> FALSE]} \cup
        {[connected |-> TRUE, hasError |-> TRUE] : f \in NetworkFaults \cap {"error"}}
   ELSE {})

(* What is left when everything before piece k has been sent, and of piece *)
(* k itself, if cut, the beginning.                                        *)
Unsent(buffer, k, cut) ==
  [i \in 1 .. Len(buffer) - k + 1 |->
     [reply |-> buffer[k + i - 1].reply,
      cut |-> buffer[k + i - 1].cut \/ (i = 1 /\ cut)]]

Tails(buffer) ==
  {Unsent(buffer, k, TRUE) : k \in 1 .. Len(buffer)}
    \cup {Unsent(buffer, k, FALSE) : k \in 2 .. Len(buffer)}

(* DoSend: the flag and the buffer it may leave. *)
SendOutcomes(buffer) ==
  {[hasError |-> FALSE, buffer |-> << >>]}
    \cup {[hasError |-> FALSE, buffer |-> buffer] : f \in NetworkFaults \cap {"blocked"}}
    \cup {[hasError |-> TRUE, buffer |-> buffer] : f \in NetworkFaults \cap {"error"}}
    \cup (IF "partial" \in NetworkFaults
          THEN {[hasError |-> FALSE, buffer |-> b] : b \in Tails(buffer)} ELSE {})

DoSend(connected, hasError, buffer) ==
  IF ~connected \/ hasError \/ buffer = << >>
  THEN {[hasError |-> hasError, buffer |-> buffer]}
  ELSE SendOutcomes(buffer)

(* The end of a pass over a client that stays: its Update has left the     *)
(* socket with these flags and this buffer, and DoSend follows.            *)
EndPass(c, socket, buffer) ==
  \E sent \in DoSend(socket.connected, socket.hasError, buffer) :
    /\ m_Connected' = [m_Connected EXCEPT ![c] = socket.connected]
    /\ m_HasError' = [m_HasError EXCEPT ![c] = sent.hasError]
    /\ m_SendBuffer' = [m_SendBuffer EXCEPT ![c] = sent.buffer]

=============================================================================
