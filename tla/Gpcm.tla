-------------------------------- MODULE Gpcm --------------------------------
(***************************************************************************)
(* The connection manager (gpcm.cpp) with its clients (CClientCM in        *)
(* client.cpp): accounts are created, players log in, read and change      *)
(* their profile, and log out.                                             *)
(*                                                                         *)
(* The main loop passes over the clients one after the other on one        *)
(* thread.  For each, CGPCM::Update calls CClientCM::Update and then either*)
(* deletes the client or calls DoSend: that pair is one action, told apart *)
(* by what Update did.  The position in the loop is not modelled: any      *)
(* client may have the next pass.                                          *)
(***************************************************************************)
EXTENDS UserTable, TcpSocket

CONSTANTS
  WirePassword,      \* a password as newuser carries it
  Decoded,           \* what base64_decode and gspassenc make of each
  ServerChallenge,   \* the random strings of GenerateRandomString
  ClientChallenge,   \* the random strings of the players
  Garbled            \* a response that is the hash of nothing in the model

ASSUME DecodedAssumption == Decoded \in [WirePassword -> PasswordText]
\* The missing account and session of the service this module implements.
ASSUME NoneAssumption ==
  Empty \notin [password : PasswordText, country : Text]
                \cup [name : Name, fresh : BOOLEAN]

ASSUME ReplyAssumption ==
  Reply = {"challenge", "proof", "wrong password", "unknown user", "name taken",
           "new user", "profile", "keep-alive", "ticket"}

VARIABLES
  m_Clients,                                \* the clients in the vector
  m_State, m_BF2_15, m_Name, m_Response,    \* CClientCM, per client
  m_ServerChallenge, m_ClientChallenge,
  keepAlives,      \* the function-static State, shared by ALL clients
  users,           \* the table behind m_DB
  registered       \* history: name and password of each acknowledged newuser

dialogueVars ==
  <<m_State, m_BF2_15, m_Name, m_Response, m_ServerChallenge, m_ClientChallenge>>
vars == <<tcpVars, m_Clients, dialogueVars, keepAlives, users, registered>>

(* GenerateResponseValue: md5 over these four texts, taken to be injective. *)
GenerateResponseValue(password, name, clientChallenge, serverChallenge) ==
  <<password, name, clientChallenge, serverChallenge>>

Response ==
  {GenerateResponseValue(p, n, cc, sc) :
     p \in PasswordText, n \in Name, cc \in ClientChallenge, sc \in ServerChallenge}
    \cup {Garbled}

TypeOK ==
  /\ TcpTypeOK
  /\ m_Clients \subseteq Client
  /\ m_State \in [Client -> 0 .. 4]
  /\ m_BF2_15 \in [Client -> BOOLEAN]
  /\ m_Name \in [Client -> Name \cup {Empty}]
  /\ m_Response \in [Client -> Response \cup {Empty}]
  /\ m_ServerChallenge \in [Client -> ServerChallenge \cup {Empty}]
  /\ m_ClientChallenge \in [Client -> ClientChallenge \cup {Empty}]
  /\ keepAlives \in 0 .. 4
  /\ users \in Table
  /\ registered \subseteq Name \X PasswordText

(* The first start finds no table and creates it. *)
Init ==
  /\ TcpInit
  /\ m_Clients = {}
  /\ m_State = [c \in Client |-> 0]
  /\ m_BF2_15 = [c \in Client |-> FALSE]
  /\ m_Name = [c \in Client |-> Empty]
  /\ m_Response = [c \in Client |-> Empty]
  /\ m_ServerChallenge = [c \in Client |-> Empty]
  /\ m_ClientChallenge = [c \in Client |-> Empty]
  /\ keepAlives = 0
  /\ users = << >>
  /\ registered = {}

-----------------------------------------------------------------------------
(* A client in the vector whose socket Update finds open, in a given state. *)
Serving(c, state) == c \in m_Clients /\ m_Connected[c] /\ m_State[c] = state

(* The same, and DoRecv may deliver a request. *)
Reading(c, state) == Serving(c, state) /\ CanRecv(c)

Goto(c, state) == m_State' = [m_State EXCEPT ![c] = state]

(* A new connection: CGPCM::Update accepts one per loop, after its clients.  *)
(* Unused connections keep the values of the constructor, so only the socket *)
(* changes.                                                                  *)
Accept(c) ==
  /\ c \notin m_Clients
  /\ m_Clients' = m_Clients \cup {c}
  /\ Open(c)
  /\ UNCHANGED <<dialogueVars, keepAlives, users, registered>>

(* Variant: Update without its case 4. *)
DeleteClosedOnly(c) ==
  /\ c \in m_Clients
  /\ ~m_Connected[c]
  /\ m_Clients' = m_Clients \ {c}
  /\ Close(c)
  /\ Goto(c, 0)
  /\ m_BF2_15' = [m_BF2_15 EXCEPT ![c] = FALSE]
  /\ m_Name' = [m_Name EXCEPT ![c] = Empty]
  /\ m_Response' = [m_Response EXCEPT ![c] = Empty]
  /\ m_ServerChallenge' = [m_ServerChallenge EXCEPT ![c] = Empty]
  /\ m_ClientChallenge' = [m_ClientChallenge EXCEPT ![c] = Empty]
  /\ UNCHANGED <<keepAlives, users, registered>>

(* Update returned true: the peer is gone or the player has logged out.  The *)
(* object is destroyed, the connection may be reused by a new one.           *)
Delete(c) ==
  /\ c \in m_Clients
  /\ ~m_Connected[c] \/ m_State[c] = 4
  /\ m_Clients' = m_Clients \ {c}
  /\ Close(c)
  /\ Goto(c, 0)
  /\ m_BF2_15' = [m_BF2_15 EXCEPT ![c] = FALSE]
  /\ m_Name' = [m_Name EXCEPT ![c] = Empty]
  /\ m_Response' = [m_Response EXCEPT ![c] = Empty]
  /\ m_ServerChallenge' = [m_ServerChallenge EXCEPT ![c] = Empty]
  /\ m_ClientChallenge' = [m_ClientChallenge EXCEPT ![c] = Empty]
  /\ UNCHANGED <<keepAlives, users, registered>>

(* Variant: the state is not advanced, another challenge follows. *)
SendServerChallengeAgain(c) ==
  /\ Serving(c, 0)
  /\ \E sc \in ServerChallenge :
       m_ServerChallenge' = [m_ServerChallenge EXCEPT ![c] = sc]
  /\ EndPass(c, Flags(c), ClearAndPut(m_SendBuffer[c], "challenge"))
  /\ UNCHANGED <<m_Clients, m_State, m_BF2_15, m_Name, m_Response,
                 m_ClientChallenge, keepAlives, users, registered>>

(* The generator is reseeded with the time in every call, so two clients may *)
(* be given the same string.                                                 *)
SendServerChallenge(c) ==
  /\ Serving(c, 0)
  /\ \E sc \in ServerChallenge :
       m_ServerChallenge' = [m_ServerChallenge EXCEPT ![c] = sc]
  /\ Goto(c, 1)
  /\ EndPass(c, Flags(c), ClearAndPut(m_SendBuffer[c], "challenge"))
  /\ UNCHANGED <<m_Clients, m_BF2_15, m_Name, m_Response, m_ClientChallenge,
                 keepAlives, users, registered>>

-----------------------------------------------------------------------------
(* State 1: login and newuser.                                             *)

(* Variant: a login is taken in state 2 as well. *)
TakeLoginAgain(c, n, cc, response) ==
  /\ Reading(c, 1) \/ Reading(c, 2)
  /\ \E bf2_15 \in BOOLEAN : m_BF2_15' = [m_BF2_15 EXCEPT ![c] = @ \/ bf2_15]
  /\ m_Name' = [m_Name EXCEPT ![c] = n]
  /\ m_ClientChallenge' = [m_ClientChallenge EXCEPT ![c] = cc]
  /\ m_Response' = [m_Response EXCEPT ![c] = response]
  /\ UNCHANGED <<m_Clients, m_ServerChallenge, keepAlives, users, registered>>

(* login, in one of its four lengths; those of Battlefield 2 1.5 set the     *)
(* flag, no other clears it.  The members are assigned before any check.     *)
TakeLogin(c, n, cc, response) ==
  /\ Reading(c, 1)
  /\ \E bf2_15 \in BOOLEAN : m_BF2_15' = [m_BF2_15 EXCEPT ![c] = @ \/ bf2_15]
  /\ m_Name' = [m_Name EXCEPT ![c] = n]
  /\ m_ClientChallenge' = [m_ClientChallenge EXCEPT ![c] = cc]
  /\ m_Response' = [m_Response EXCEPT ![c] = response]
  /\ UNCHANGED <<m_Clients, m_ServerChallenge, keepAlives, users, registered>>

(* Variant: the response is not compared. *)
ProvesAlways(c, n, cc, response, row) == TRUE

(* What SendProof compares the response with. *)
Proves(c, n, cc, response, row) ==
  response = GenerateResponseValue(row.password, n, cc, m_ServerChallenge[c])

LoginUnknown(c, n, cc, response) ==
  /\ TakeLogin(c, n, cc, response)
  /\ NoData \in GetData(users, n)
  /\ EndPass(c, Flags(c), ClearAndPut(m_SendBuffer[c], "unknown user"))
  /\ UNCHANGED m_State

(* Variant: SendProof returns true after the error message, too. *)
LoginRejectedAdvances(c, n, cc, response) ==
  /\ TakeLogin(c, n, cc, response)
  /\ \E row \in GetData(users, n) \ {NoData} : ~Proves(c, n, cc, response, row)
  /\ EndPass(c, Flags(c), ClearAndPut(m_SendBuffer[c], "wrong password"))
  /\ Goto(c, 2)

LoginRejected(c, n, cc, response) ==
  /\ TakeLogin(c, n, cc, response)
  /\ \E row \in GetData(users, n) \ {NoData} : ~Proves(c, n, cc, response, row)
  /\ EndPass(c, Flags(c), ClearAndPut(m_SendBuffer[c], "wrong password"))
  /\ UNCHANGED m_State

(* Variant: the empty map of a missing account is not told apart. *)
LoginAcceptedUnchecked(c, n, cc, response) ==
  /\ TakeLogin(c, n, cc, response)
  /\ \E row \in GetData(users, n) : Proves(c, n, cc, response, OldValues(row))
  /\ EndPass(c, Flags(c), ClearAndPut(m_SendBuffer[c], "proof"))
  /\ Goto(c, 2)

LoginAccepted(c, n, cc, response) ==
  /\ TakeLogin(c, n, cc, response)
  /\ \E row \in GetData(users, n) \ {NoData} : Proves(c, n, cc, response, row)
  /\ EndPass(c, Flags(c), ClearAndPut(m_SendBuffer[c], "proof"))
  /\ Goto(c, 2)

(* newuser, HandleNewUser: the client stays in state 1 and logs in next. *)
TakeNewUser(c, n) ==
  /\ Reading(c, 1)
  /\ m_Name' = [m_Name EXCEPT ![c] = n]
  /\ UNCHANGED <<m_Clients, m_State, m_BF2_15, m_Response, m_ServerChallenge,
                 m_ClientChallenge, keepAlives>>

NewUserTaken(c, n) ==
  /\ TakeNewUser(c, n)
  /\ TRUE \in UserExists(users, n)
  /\ EndPass(c, Flags(c), ClearAndPut(m_SendBuffer[c], "name taken"))
  /\ UNCHANGED <<users, registered>>

(* The answer is "\nur\" whatever became of the INSERT. *)
NewUserCreated(c, n, wire, e) ==
  /\ TakeNewUser(c, n)
  /\ Len(users) < MaxUsers
  /\ FALSE \in UserExists(users, n)
  /\ users' \in CreateUser(users, n, Decoded[wire], e, DefaultCountry)
  /\ registered' = registered \cup {<<n, Decoded[wire]>>}
  /\ EndPass(c, Flags(c), ClearAndPut(m_SendBuffer[c], "new user"))

-----------------------------------------------------------------------------
(* States 2 and 3: the session.                                            *)

KeepDialogue ==
  UNCHANGED <<m_Clients, m_BF2_15, m_Name, m_Response, m_ServerChallenge,
              m_ClientChallenge>>

GetProfile(c) ==
  /\ Reading(c, 2)
  /\ Goto(c, 3)
  /\ EndPass(c, Flags(c), ClearAndPut(m_SendBuffer[c], "profile"))
  /\ KeepDialogue /\ UNCHANGED <<keepAlives, users, registered>>

(* Variant: updatepro does not advance the state. *)
UpdateProfileAgain(c, country) ==
  /\ Reading(c, 2)
  /\ users' \in SetData(users, m_Name[c], [NothingGiven EXCEPT !.country = country])
  /\ EndPass(c, Flags(c), m_SendBuffer[c])
  /\ KeepDialogue /\ UNCHANGED <<m_State, keepAlives, registered>>

(* updatepro is stored and not answered. *)
UpdateProfile(c, country) ==
  /\ Reading(c, 2)
  /\ users' \in SetData(users, m_Name[c], [NothingGiven EXCEPT !.country = country])
  /\ Goto(c, 3)
  /\ EndPass(c, Flags(c), m_SendBuffer[c])
  /\ KeepDialogue /\ UNCHANGED <<keepAlives, registered>>

RetrieveProfile(c) ==
  /\ Reading(c, 3)
  /\ EndPass(c, Flags(c), ClearAndPut(m_SendBuffer[c], "profile"))
  /\ KeepDialogue /\ UNCHANGED <<m_State, keepAlives, users, registered>>

Logout(c) ==
  /\ Reading(c, 3)
  /\ users' \in SetData(users, m_Name[c], [NothingGiven EXCEPT !.session = 0])
  /\ Goto(c, 4)
  /\ EndPass(c, Flags(c), m_SendBuffer[c])
  /\ KeepDialogue /\ UNCHANGED <<keepAlives, registered>>

-----------------------------------------------------------------------------
(* Passes without a request the state knows.                               *)

(* Variant: the counter is never tested. *)
KeepAliveAlwaysDue(c) == m_State[c] = 3 /\ m_BF2_15[c]

KeepAliveDue(c) == m_State[c] = 3 /\ m_BF2_15[c] /\ keepAlives < 4

(* Battlefield 2 1.5 is sent "\ka\" twice, "\lt\" and "\ka\" once more: four *)
(* messages for the whole life of the process, whichever clients get them.   *)
KeepAlive(c) ==
  /\ Serving(c, 3) /\ KeepAliveDue(c)
  /\ \E socket \in RecvNothing(c) :
       EndPass(c, socket,
               ClearAndPut(m_SendBuffer[c],
                           IF keepAlives = 2 THEN "ticket" ELSE "keep-alive"))
  /\ keepAlives' = keepAlives + 1
  /\ KeepDialogue /\ UNCHANGED <<m_State, users, registered>>

IdlePass(c) ==
  /\ \E state \in 1 .. 3 : Serving(c, state)
  /\ ~KeepAliveDue(c)
  /\ \E socket \in RecvNothing(c) : EndPass(c, socket, m_SendBuffer[c])
  /\ KeepDialogue /\ UNCHANGED <<m_State, keepAlives, users, registered>>

-----------------------------------------------------------------------------
(* SignalCatcher ends the process wherever it is, also in a pass that has    *)
(* written the table and not yet queued or sent its answer.                  *)
Unanswered(c) ==
  \/ /\ Reading(c, 1)
     /\ Len(users) < MaxUsers
     /\ \E n \in Name, wire \in WirePassword, e \in Email :
          users' \in CreateUser(users, n, Decoded[wire], e, DefaultCountry)
  \/ /\ Reading(c, 2)
     /\ \E country \in Country :
          users' \in SetData(users, m_Name[c], [NothingGiven EXCEPT !.country = country])
  \/ /\ Reading(c, 3)
     /\ users' \in SetData(users, m_Name[c], [NothingGiven EXCEPT !.session = 0])

(* What is left of the clients when the process ends: nothing. *)
ForgetClients ==
  /\ CloseAll
  /\ m_Clients' = {}
  /\ m_State' = [c \in Client |-> 0]
  /\ m_BF2_15' = [c \in Client |-> FALSE]
  /\ m_Name' = [c \in Client |-> Empty]
  /\ m_Response' = [c \in Client |-> Empty]
  /\ m_ServerChallenge' = [c \in Client |-> Empty]
  /\ m_ClientChallenge' = [c \in Client |-> Empty]
  /\ keepAlives' = 0

(* Variant: the table is created again at every start. *)
RestartEmpty == ForgetClients /\ users' = << >> /\ UNCHANGED registered

(* The process ends and is started again; the constructor of CSQLite3 keeps  *)
(* the table it finds.                                                       *)
Restart ==
  /\ UNCHANGED users \/ \E c \in Client : Unanswered(c)
  /\ ForgetClients
  /\ UNCHANGED registered

-----------------------------------------------------------------------------
(* A player answers for the name and the challenge it sends, with any        *)
(* password and any server challenge it has been given, old ones included.   *)
Responses(n, cc) ==
  {GenerateResponseValue(p, n, cc, sc) :
     p \in PasswordText, sc \in ServerChallenge} \cup {Garbled}

Login(c) ==
  \E n \in Name, cc \in ClientChallenge : \E response \in Responses(n, cc) :
    \/ LoginUnknown(c, n, cc, response)
    \/ LoginRejected(c, n, cc, response)
    \/ LoginAccepted(c, n, cc, response)

NewUser(c) ==
  \E n \in Name :
    \/ NewUserTaken(c, n)
    \/ \E wire \in WirePassword, e \in Email : NewUserCreated(c, n, wire, e)

Session(c) ==
  \/ GetProfile(c)
  \/ \E country \in Country : UpdateProfile(c, country)
  \/ RetrieveProfile(c)
  \/ Logout(c)

Next ==
  \/ \E c \in Client :
       \/ Accept(c) \/ Delete(c) \/ SendServerChallenge(c)
       \/ Login(c) \/ NewUser(c) \/ Session(c)
       \/ KeepAlive(c) \/ IdlePass(c)
  \/ Restart

(* The loop passes over every client in the vector for ever; in these two    *)
(* situations a pass needs nothing from the peer.                            *)
Fairness ==
  \A c \in Client : WF_vars(Delete(c)) /\ WF_vars(SendServerChallenge(c))

Spec == Init /\ [][Next]_vars
FairSpec == Spec /\ Fairness

-----------------------------------------------------------------------------
(* Properties.                                                             *)

LoggedIn(c) == c \in m_Clients /\ m_State[c] \in 2 .. 4

(* Whoever is past the login has answered its own challenge with the         *)
(* password the account has NOW: neither later logins, nor profile changes   *)
(* of other sessions, nor newuser requests take the ground from a session.   *)
LoggedInProved ==
  \A c \in Client : LoggedIn(c) =>
    \E i \in RowsOf(users, m_Name[c]) :
      m_Response[c] = GenerateResponseValue(users[i].password, m_Name[c],
                        m_ClientChallenge[c], m_ServerChallenge[c])

(* Two rows never share a name, although the schema does not ask for it and  *)
(* the check and the insertion are separate queries.                         *)
UniqueNames ==
  \A i, j \in DOMAIN users : users[i].name = users[j].name => i = j

(* client.h:15: "we own the right password".  Of every account that newuser  *)
(* acknowledged, the server still has the password it was created with.      *)
OwnsRightPassword ==
  \A account \in registered :
    \E i \in RowsOf(users, account[1]) : users[i].password = account[2]

(* At most one reply, or what is left of one, is in the send buffer.         *)
OneReplyQueued == \A c \in Client : Len(m_SendBuffer[c]) <= 1

(* A queued reply fits the state its client is in: nobody who is told of a   *)
(* failed login is logged in, nobody reads a proof before it is, and no      *)
(* profile goes to a connection that has not logged in.                      *)
StatesOf(reply) ==
  CASE reply \in {"challenge", "wrong password", "unknown user", "name taken",
                  "new user"} -> {1}
    [] reply = "proof" -> {2, 3, 4}
    [] OTHER -> {3, 4}

RepliesFitState ==
  \A c \in Client : \A k \in DOMAIN m_SendBuffer[c] :
    m_State[c] \in StatesOf(m_SendBuffer[c][k].reply)

(* Even when queries fail, a connection enters the session only with the     *)
(* proof of a password that is in the table at that moment, for the          *)
(* challenge this connection was sent.                                       *)
LoginNeedsProof ==
  [][\A c \in Client : m_State[c] < 2 /\ m_State'[c] >= 2 =>
       \E i \in RowsOf(users, m_Name'[c]) :
         m_Response'[c] = GenerateResponseValue(users[i].password, m_Name'[c],
                            m_ClientChallenge'[c], m_ServerChallenge[c])]_vars

(* From the proof to the end of the connection the session stays that of the *)
(* same player: no request changes whose profile is read and written.        *)
IdentityFrozen ==
  [][\A c \in Client : LoggedIn(c) /\ c \in m_Clients' =>
       /\ m_Name'[c] = m_Name[c]
       /\ m_Response'[c] = m_Response[c]
       /\ m_ServerChallenge'[c] = m_ServerChallenge[c]]_vars

(* A row that exists is changed only by a step of a session of that account, *)
(* that keeps name and password; rows never go away, nor does a restart      *)
(* change one that no session was just writing.                              *)
AccountsChangeOnlyByOwner ==
  [][\A i \in DOMAIN users :
       /\ i \in DOMAIN users'
       /\ users'[i] # users[i] =>
            /\ users'[i].name = users[i].name
            /\ users'[i].password = users[i].password
            /\ \E c \in Client : LoggedIn(c) /\ m_Name[c] = users[i].name
                                 /\ m_State'[c] # m_State[c]]_vars

(* A step that acts on a request of c. *)
Handled(c) == Login(c) \/ NewUser(c) \/ Session(c)

KeepAliveQueued(c) ==
  m_SendBuffer'[c] \in {PutBytes(<< >>, reply) : reply \in {"keep-alive", "ticket"}}

(* A socket that has failed is served no more: no request of its client is   *)
(* acted on, nothing that is queued for it is sent, and nothing is queued,   *)
(* except that a keep-alive message may take the place of what was.  As      *)
(* Update asks for m_Connected only, the client stays in the vector, as it   *)
(* is, until the process ends, unless it had logged out.  What changes the   *)
(* table is a request from a socket that works, also when the process ends   *)
(* before it is answered.                                                    *)
FailedIsFrozen ==
  [][/\ \A c \in m_Clients : m_HasError[c] /\ m_State[c] < 4 /\ ~Restart =>
          /\ ~Handled(c)
          /\ c \in m_Clients' /\ m_HasError'[c]
          /\ <<m_State'[c], m_Name'[c], m_Response'[c]>>
               = <<m_State[c], m_Name[c], m_Response[c]>>
          /\ m_SendBuffer'[c] = m_SendBuffer[c] \/ (m_State[c] = 3 /\ KeepAliveQueued(c))
     /\ users' # users =>
          \E c \in m_Clients : ~m_HasError[c] /\ (Handled(c) \/ Restart)]_vars

(* A connection the peer has closed, or that has logged out, is destroyed.   *)
EndedIsDeleted ==
  \A c \in Client :
    c \in m_Clients /\ (~m_Connected[c] \/ m_State[c] = 4) ~> c \notin m_Clients

(* Every accepted connection is sent a challenge without being asked for     *)
(* anything, or is gone.                                                     *)
ChallengeComes ==
  \A c \in Client :
    c \in m_Clients /\ m_State[c] = 0 ~> m_State[c] # 0 \/ c \notin m_Clients

(* client.h:16-18: "If the string, the client gave us is something different,*)
(* he has also entered the wrong password.  Thus we will send an error       *)
(* message and close the connection."                                        *)
WrongPasswordCloses ==
  \A c \in Client :
    (\E k \in DOMAIN m_SendBuffer[c] : m_SendBuffer[c][k].reply = "wrong password")
      ~> c \notin m_Clients

(* socket.cpp:290: "success! only some of the data may have been sent,       *)
(* remove it from the buffer".  What was not sent stays in front of whatever *)
(* is queued behind it, until nothing is queued or the connection ends.      *)
PartialReplyKept ==
  [][\A c \in m_Clients :
       /\ m_SendBuffer[c] # << >>
       /\ m_SendBuffer[c][1].cut
       /\ c \in m_Clients'
       => m_SendBuffer'[c] = << >> \/ m_SendBuffer'[c][1] = m_SendBuffer[c][1]]_vars

(* ReadMe.txt:20: "The default database is SQLite", and with it "the         *)
(* emulator work in the condition you got it".  The country a player chooses *)
(* is the country of its account afterwards.                                 *)
CountryStored ==
  [][\A c \in Client, country \in Country : UpdateProfile(c, country) =>
       \A i \in RowsOf(users', m_Name[c]) : users'[i].country = country]_vars

(* The service the connection manager implements, where lookups answer and   *)
(* SetData stores what it is given.                                          *)
AccountOf(t, n) ==
  IF RowsOf(t, n) = {} THEN Empty
  ELSE LET row == t[CHOOSE i \in RowsOf(t, n) : TRUE]
       IN  [password |-> row.password, country |-> row.country]

SessionOf(c) ==
  IF m_State[c] \in {2, 3} THEN [name |-> m_Name[c], fresh |-> m_State[c] = 2]
                           ELSE Empty

Accounts == [n \in Name |-> AccountOf(users, n)]
Sessions == [c \in Client |-> SessionOf(c)]

Service == INSTANCE LoginService WITH
  Password <- PasswordText, None <- Empty, account <- Accounts, session <- Sessions

ImplementsService == Service!Spec

=============================================================================
