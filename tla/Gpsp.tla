-------------------------------- MODULE Gpsp --------------------------------
(***************************************************************************)
(* The search port (gpsp.cpp) with its clients (CClientSP in client.cpp):  *)
(* a player asks whether an e-mail address and a password belong to an     *)
(* account (nicks), or for the profile id of a name (check), and is        *)
(* disconnected.  One pass over a client (Update, then DoSend) is one      *)
(* action; the login port adds accounts in between.                        *)
(***************************************************************************)
EXTENDS UserTable, TcpSocket

\* "\nr\" without a nick, "\nr\1" with one, "\cur\".
ASSUME ReplyAssumption == Reply = {"none", "nick", "profile id"}

VARIABLES m_Clients,          \* the clients in the vector
          m_State, m_Name,    \* CClientSP, per client
          users               \* the table, which the login port writes

vars == <<tcpVars, m_Clients, m_State, m_Name, users>>

TypeOK ==
  /\ TcpTypeOK
  /\ m_Clients \subseteq Client
  /\ m_State \in [Client -> 0 .. 2]
  /\ m_Name \in [Client -> Name \cup {Empty}]
  /\ users \in Table

Init ==
  /\ TcpInit
  /\ m_Clients = {}
  /\ m_State = [c \in Client |-> 0]
  /\ m_Name = [c \in Client |-> Empty]
  /\ users = << >>

-----------------------------------------------------------------------------
Serving(c, state) == c \in m_Clients /\ m_Connected[c] /\ m_State[c] = state
Reading(c, state) == Serving(c, state) /\ CanRecv(c)

Accept(c) ==
  /\ c \notin m_Clients
  /\ m_Clients' = m_Clients \cup {c}
  /\ Open(c)
  /\ UNCHANGED <<m_State, m_Name, users>>

(* Variant: Update without its case 2. *)
DeleteClosedOnly(c) ==
  /\ c \in m_Clients
  /\ ~m_Connected[c]
  /\ m_Clients' = m_Clients \ {c}
  /\ Close(c)
  /\ m_State' = [m_State EXCEPT ![c] = 0]
  /\ m_Name' = [m_Name EXCEPT ![c] = Empty]
  /\ UNCHANGED users

(* Update returned true, and the object with all it has queued is destroyed. *)
Delete(c) ==
  /\ c \in m_Clients
  /\ ~m_Connected[c] \/ m_State[c] = 2
  /\ m_Clients' = m_Clients \ {c}
  /\ Close(c)
  /\ m_State' = [m_State EXCEPT ![c] = 0]
  /\ m_Name' = [m_Name EXCEPT ![c] = Empty]
  /\ UNCHANGED users

(* nicks, of ten fields and more (the branch for twelve fields below it is   *)
(* therefore never taken).  Without an account the client may ask again.     *)
NicksNone(c, e, p) ==
  /\ Reading(c, 0)
  /\ NoData \in GetDataByLogin(users, e, p)
  /\ EndPass(c, Flags(c), ClearAndPut(m_SendBuffer[c], "none"))
  /\ UNCHANGED <<m_Clients, m_State, m_Name, users>>

(* Variant: the empty map is not told apart; its name reads as "". *)
NicksFoundUnchecked(c, e, p) ==
  /\ Reading(c, 0)
  /\ \E row \in GetDataByLogin(users, e, p) :
       m_Name' = [m_Name EXCEPT ![c] = IF row = NoData THEN Empty ELSE row.name]
  /\ m_State' = [m_State EXCEPT ![c] = 1]
  /\ EndPass(c, Flags(c), PutBytes(m_SendBuffer[c], "nick"))
  /\ UNCHANGED <<m_Clients, users>>

(* Neither SendGPSP nor SendCheck clears the buffer. *)
NicksFound(c, e, p) ==
  /\ Reading(c, 0)
  /\ \E row \in GetDataByLogin(users, e, p) \ {NoData} :
       m_Name' = [m_Name EXCEPT ![c] = row.name]
  /\ m_State' = [m_State EXCEPT ![c] = 1]
  /\ EndPass(c, Flags(c), PutBytes(m_SendBuffer[c], "nick"))
  /\ UNCHANGED <<m_Clients, users>>

(* check answers for any name, with an empty id if there is no account. *)
Check(c, n) ==
  /\ Reading(c, 0)
  /\ m_Name' = [m_Name EXCEPT ![c] = n]
  /\ m_State' = [m_State EXCEPT ![c] = 1]
  /\ EndPass(c, Flags(c), PutBytes(m_SendBuffer[c], "profile id"))
  /\ UNCHANGED <<m_Clients, users>>

IdlePass(c) ==
  /\ Serving(c, 0)
  /\ \E socket \in RecvNothing(c) : EndPass(c, socket, m_SendBuffer[c])
  /\ UNCHANGED <<m_Clients, m_State, m_Name, users>>

(* Variant: case 2 falls through to the increment of case 1. *)
LastPassAgain(c) ==
  /\ Serving(c, 1) \/ Serving(c, 2)
  /\ m_State' = [m_State EXCEPT ![c] = @ + 1]
  /\ EndPass(c, Flags(c), m_SendBuffer[c])
  /\ UNCHANGED <<m_Clients, m_Name, users>>

(* One more pass, of which only DoSend does anything. *)
LastPass(c) ==
  /\ Serving(c, 1)
  /\ m_State' = [m_State EXCEPT ![c] = 2]
  /\ EndPass(c, Flags(c), m_SendBuffer[c])
  /\ UNCHANGED <<m_Clients, m_Name, users>>

(* The login port, on the same thread. *)
NewUser(n, p, e) ==
  /\ Len(users) < MaxUsers
  /\ FALSE \in UserExists(users, n)
  /\ users' \in CreateUser(users, n, p, e, DefaultCountry)
  /\ UNCHANGED <<tcpVars, m_Clients, m_State, m_Name>>

Next ==
  \/ \E c \in Client :
       \/ Accept(c) \/ Delete(c) \/ IdlePass(c) \/ LastPass(c)
       \/ \E e \in Email, p \in Password : NicksNone(c, e, p) \/ NicksFound(c, e, p)
       \/ \E n \in Name : Check(c, n)
  \/ \E n \in Name, p \in Password, e \in Email : NewUser(n, p, e)

(* The loop passes over every client in the vector for ever; these two kinds *)
(* of pass need nothing from the peer.                                       *)
Fairness == \A c \in Client : WF_vars(Delete(c)) /\ WF_vars(LastPass(c))

Spec == Init /\ [][Next]_vars
FairSpec == Spec /\ Fairness

-----------------------------------------------------------------------------
(* Properties.                                                             *)

(* What can pile up for a client: before its answer at most one "none", and  *)
(* then the answer, last, possibly behind an unsent "none".                  *)
QueueShape ==
  \A c \in Client : LET queue == m_SendBuffer[c] IN
    /\ Len(queue) <= IF m_State[c] = 0 THEN 1 ELSE 2
    /\ \A k \in DOMAIN queue :
         queue[k].reply # "none" => m_State[c] > 0 /\ k = Len(queue)
    /\ Len(queue) = 2 => queue[1].reply = "none" /\ queue[2].reply # "none"

(* A nick on its way to a player is that of an account, whatever queries     *)
(* failed since it asked.                                                    *)
NickIsAccount ==
  \A c \in Client : \A k \in DOMAIN m_SendBuffer[c] :
    m_SendBuffer[c][k].reply = "nick" => RowsOf(users, m_Name[c]) # {}

(* Every connection that was answered, or that the peer closed, is destroyed,*)
(* even if its socket has failed.                                            *)
AnsweredIsDeleted ==
  \A c \in Client :
    c \in m_Clients /\ (m_State[c] > 0 \/ ~m_Connected[c]) ~> c \notin m_Clients

=============================================================================
