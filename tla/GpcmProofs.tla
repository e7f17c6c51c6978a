------------------------------ MODULE GpcmProofs ------------------------------
(***************************************************************************)
(* Proofs about Gpcm, for every set of clients, names and passwords.       *)
(***************************************************************************)
EXTENDS Gpcm, SharedProofs, TLAPS

(* The replies the handlers of the login port queue. *)
LEMMA Replies ==
  {"challenge", "proof", "wrong password", "unknown user", "name taken",
   "new user", "profile", "keep-alive", "ticket"} \subseteq Reply
BY ReplyAssumption

(* What a player can answer is a response. *)
LEMMA ResponsesType ==
  ASSUME NEW n \in Name, NEW cc \in ClientChallenge
  PROVE  Responses(n, cc) \subseteq Response
BY DEF Responses, Response

(* Every step keeps the types. *)
LEMMA TypeOKStep == TypeOK /\ [Next]_vars => TypeOK'
<1> SUFFICES ASSUME TypeOK, [Next]_vars PROVE TypeOK'
  OBVIOUS
<1>0. TcpTypeOK /\ users \in Table
  BY DEF TypeOK
<1>1. ASSUME NEW c \in Client, Accept(c) PROVE TypeOK'
  <2>1. TcpTypeOK'
    BY <1>0, <1>1 DEF Accept, Open, TcpTypeOK
  <2> QED BY <1>1, <2>1 DEF Accept, TypeOK, dialogueVars
<1>2. ASSUME NEW c \in Client, Delete(c) PROVE TypeOK'
  <2>1. TcpTypeOK'
    BY <1>0, <1>2 DEF Delete, Close, TcpTypeOK
  <2> QED BY <1>2, <2>1 DEF Delete, Goto, TypeOK
<1>3. ASSUME NEW c \in Client, SendServerChallenge(c) PROVE TypeOK'
  <2>1. TcpTypeOK'
    BY <1>0, <1>3, PassType, Replies DEF SendServerChallenge
  <2> QED BY <1>3, <2>1 DEF SendServerChallenge, Goto, TypeOK
<1>4. ASSUME NEW c \in Client, Login(c) PROVE TypeOK'
  <2>0. PICK n \in Name, cc \in ClientChallenge : \E response \in Responses(n, cc) :
          \/ LoginUnknown(c, n, cc, response)
          \/ LoginRejected(c, n, cc, response)
          \/ LoginAccepted(c, n, cc, response)
    BY <1>4 DEF Login
  <2>1. PICK response \in Responses(n, cc) :
          \/ LoginUnknown(c, n, cc, response)
          \/ LoginRejected(c, n, cc, response)
          \/ LoginAccepted(c, n, cc, response)
    BY <2>0
  <2>2. TcpTypeOK'
    BY <1>0, <2>1, PassType, Replies DEF LoginUnknown, LoginRejected, LoginAccepted
  <2>3. response \in Response
    BY ResponsesType
  <2>4. m_State' \in [Client -> 0 .. 4]
    <3>1. m_State' = m_State \/ m_State' = [m_State EXCEPT ![c] = 2]
      BY <2>1 DEF LoginUnknown, LoginRejected, LoginAccepted, Goto
    <3> QED BY <3>1 DEF TypeOK
  <2>5. TakeLogin(c, n, cc, response)
    BY <2>1 DEF LoginUnknown, LoginRejected, LoginAccepted
  <2>6. m_BF2_15' \in [Client -> BOOLEAN]
    BY <2>5 DEF TakeLogin, TypeOK
  <2> QED BY <2>2, <2>3, <2>4, <2>5, <2>6 DEF TakeLogin, TypeOK
<1>5. ASSUME NEW c \in Client, NewUser(c) PROVE TypeOK'
  <2>1. ASSUME NEW n \in Name, NewUserTaken(c, n) PROVE TypeOK'
    <3>1. TcpTypeOK'
      BY <1>0, <2>1, PassType, Replies DEF NewUserTaken
    <3> QED BY <2>1, <3>1 DEF NewUserTaken, TakeNewUser, TypeOK
  <2>2. ASSUME NEW n \in Name, NEW wire \in WirePassword, NEW e \in Email,
               NewUserCreated(c, n, wire, e)
        PROVE  TypeOK'
    <3>1. TcpTypeOK'
      BY <1>0, <2>2, PassType, Replies DEF NewUserCreated
    <3>2. Decoded[wire] \in PasswordText
      BY DecodedAssumption
    <3>3. users' \in Table
      BY <1>0, <2>2, <3>2, CreateUserType, CountryAssumption DEF NewUserCreated
    <3>4. registered' \subseteq Name \X PasswordText
      <4>1. registered' = registered \cup {<<n, Decoded[wire]>>}
        BY <2>2 DEF NewUserCreated
      <4>2. registered \subseteq Name \X PasswordText
        BY DEF TypeOK
      <4>3. <<n, Decoded[wire]>> \in Name \X PasswordText
        BY <3>2
      <4> QED BY <4>1, <4>2, <4>3
    <3>5. m_Name' \in [Client -> Name \cup {Empty}]
      BY <2>2 DEF NewUserCreated, TakeNewUser, TypeOK
    <3> QED BY <2>2, <3>1, <3>3, <3>4, <3>5 DEF NewUserCreated, TakeNewUser, TypeOK
  <2> QED BY <1>5, <2>1, <2>2 DEF NewUser
<1>6. ASSUME NEW c \in Client, Session(c) PROVE TypeOK'
  <2>1. CASE GetProfile(c) \/ RetrieveProfile(c)
    <3>1. TcpTypeOK'
      BY <1>0, <2>1, PassType, Replies DEF GetProfile, RetrieveProfile
    <3> QED BY <2>1, <3>1 DEF GetProfile, RetrieveProfile, KeepDialogue, Goto, TypeOK
  <2>2. ASSUME NEW country \in Country, UpdateProfile(c, country) PROVE TypeOK'
    <3>1. TcpTypeOK'
      BY <1>0, <2>2, PassType, Replies DEF UpdateProfile
    <3>2. users' \in Table
      BY <1>0, <2>2, SetDataType, GivenType DEF UpdateProfile
    <3> QED BY <2>2, <3>1, <3>2 DEF UpdateProfile, KeepDialogue, Goto, TypeOK
  <2>3. CASE Logout(c)
    <3>1. TcpTypeOK'
      BY <1>0, <2>3, PassType, Replies DEF Logout
    <3>2. users' \in Table
      BY <1>0, <2>3, SetDataType, GivenType DEF Logout
    <3> QED BY <2>3, <3>1, <3>2 DEF Logout, KeepDialogue, Goto, TypeOK
  <2> QED BY <1>6, <2>1, <2>2, <2>3 DEF Session
<1>7. ASSUME NEW c \in Client, KeepAlive(c) PROVE TypeOK'
  <2>1. TcpTypeOK'
    BY <1>0, <1>7, PassType, Replies DEF KeepAlive
  <2> QED BY <1>7, <2>1 DEF KeepAlive, KeepAliveDue, KeepDialogue, TypeOK
<1>8. ASSUME NEW c \in Client, IdlePass(c) PROVE TypeOK'
  <2>1. TcpTypeOK'
    BY <1>0, <1>8, PassType, Replies DEF IdlePass
  <2> QED BY <1>8, <2>1 DEF IdlePass, KeepDialogue, TypeOK
<1>9. CASE UNCHANGED vars
  BY <1>9 DEF vars, tcpVars, dialogueVars, TypeOK, TcpTypeOK
<1>10. CASE Restart
  <2>1. TcpTypeOK'
    BY <1>10 DEF Restart, ForgetClients, CloseAll, TcpTypeOK
  <2>2. users' \in Table
    <3>1. ASSUME NEW c \in Client, Unanswered(c) PROVE users' \in Table
      BY <1>0, <3>1, CreateUserType, SetDataType, GivenType, DecodedAssumption,
         CountryAssumption DEF Unanswered
    <3> QED BY <1>0, <1>10, <3>1 DEF Restart
  <2> QED BY <1>10, <2>1, <2>2 DEF Restart, ForgetClients, TypeOK
<1> QED BY <1>1, <1>2, <1>3, <1>4, <1>5, <1>6, <1>7, <1>8, <1>9, <1>10 DEF Next

(* Whatever queries and sockets fail, every variable keeps its type: the     *)
(* state counter of CClientCM never leaves its five cases, the shared        *)
(* keep-alive counter its four, and every row is well formed.                *)
THEOREM TypeCorrect == Spec => []TypeOK
<1>1. Init => TypeOK
  <2> SUFFICES ASSUME Init PROVE TypeOK
    OBVIOUS
  <2>1. TcpTypeOK
    BY DEF Init, TcpInit, TcpTypeOK
  <2>2. users \in Table
    BY DEF Init, Table
  <2> QED BY <2>1, <2>2 DEF Init, TypeOK
<1> QED BY <1>1, TypeOKStep, PTL DEF Spec

-----------------------------------------------------------------------------
(* Safety where lookups answer.  The inductive invariant: who is in a session *)
(* has proved the password of its account, as long as profile changes find    *)
(* the account by a name that no other has, and as long as a new connection   *)
(* starts without a session.                                                  *)
UnusedAtStart == \A c \in Client \ m_Clients : m_State[c] = 0

IInv ==
  /\ TypeOK
  /\ UnusedAtStart
  /\ UniqueNames
  /\ LoggedInProved

-----------------------------------------------------------------------------
(* The steps that write the table, and what the others leave. *)
Dialogue(c) == <<m_Name[c], m_Response[c], m_ServerChallenge[c], m_ClientChallenge[c]>>

(* Only newuser, updatepro and logout write the table. *)
LEMMA TableUntouched ==
  ASSUME TypeOK, [Next]_vars,
         \A c \in Client :
           /\ \A n \in Name, wire \in WirePassword, e \in Email :
                ~NewUserCreated(c, n, wire, e)
           /\ \A country \in Country : ~UpdateProfile(c, country)
           /\ ~Logout(c),
         ~Restart
  PROVE  users' = users /\ registered' = registered
<1>1. CASE UNCHANGED vars
  BY <1>1 DEF vars
<1>2. ASSUME NEW c \in Client, Accept(c) \/ Delete(c) \/ SendServerChallenge(c)
                               \/ KeepAlive(c) \/ IdlePass(c)
      PROVE  users' = users /\ registered' = registered
  BY <1>2 DEF Accept, Delete, SendServerChallenge, KeepAlive, IdlePass
<1>3. ASSUME NEW c \in Client, Login(c) \/ NewUser(c) \/ Session(c)
      PROVE  users' = users /\ registered' = registered
  BY <1>3 DEF Login, LoginUnknown, LoginRejected, LoginAccepted, TakeLogin,
              NewUser, NewUserTaken, Session, GetProfile, RetrieveProfile
<1> QED BY <1>1, <1>2, <1>3 DEF Next

(* Where lookups answer, every step keeps accounts and unique names; where    *)
(* insertions do not fail either, an acknowledged account has its row.        *)
LEMMA AccountsStep ==
  ASSUME QueriesAsMeant, LookupsAnswer, TypeOK, UniqueNames, [Next]_vars
  PROVE  /\ KeepsAccounts(users, users')
         /\ UniqueNames'
         /\ "insert" \notin FaultyQueries =>
              \A account \in registered' : account \in registered \/
                \E i \in RowsOf(users', account[1]) : users'[i].password = account[2]
<1>0. /\ users \in Table /\ Unique(users) /\ users' \in Table
      /\ \A c \in Client : m_Name[c] \in Name \cup {Empty}
  BY TypeOKStep DEF TypeOK, UniqueNames, Unique
<1>1. ASSUME NEW c \in Client, NEW n \in Name, NEW wire \in WirePassword, NEW e \in Email,
             NewUserCreated(c, n, wire, e)
      PROVE  /\ KeepsAccounts(users, users') /\ Unique(users')
             /\ "insert" \notin FaultyQueries =>
                  \A account \in registered' : account \in registered \/
                    \E i \in RowsOf(users', account[1]) : users'[i].password = account[2]
  <2> DEFINE row == NewRow(n, Decoded[wire], e, DefaultCountry)
  <2>1. row \in Row /\ row.name = n /\ row.password = Decoded[wire]
    BY DecodedAssumption, CountryAssumption DEF NewRow, Row, Text
  <2>2. users' \in CreateUser(users, n, Decoded[wire], e, DefaultCountry)
    BY <1>1 DEF NewUserCreated
  <2>3. KeepsAccounts(users, users') /\ Unique(users')
    BY <1>0, <2>2, CreateUserKeeps, DecodedAssumption, CountryAssumption DEF LookupsAnswer
  <2> SUFFICES ASSUME "insert" \notin FaultyQueries
               PROVE  \A account \in registered' : account \in registered \/
                        \E i \in RowsOf(users', account[1]) : users'[i].password = account[2]
    BY <2>3
  <2>7. users' = Append(users, row)
    <3>1. UserExists(users, n) = {FALSE}
      BY <1>1, ReliableUserExists DEF NewUserCreated, LookupsAnswer
    <3>2. users' \in Insert(users, row)
      BY <2>2, <3>1 DEF CreateUser
    <3>3. AsMeant({row.name, row.password, row.email, row.country})
      BY InsertTexts, DecodedAssumption, CountryAssumption
    <3> QED BY <3>2, <3>3 DEF Insert, Answers
  <2> HIDE DEF row
  <2>4. /\ Len(users) + 1 \in DOMAIN users'
        /\ users'[Len(users) + 1] = row
    BY <1>0, <2>7, <2>1 DEF Table
  <2>5. Len(users) + 1 \in RowsOf(users', n)
    BY <2>1, <2>4 DEF RowsOf
  <2>6. registered' = registered \cup {<<n, Decoded[wire]>>}
    BY <1>1 DEF NewUserCreated
  <2> QED BY <2>1, <2>4, <2>5, <2>6
<1>2. ASSUME NEW n \in Name \cup {Empty}, NEW given \in GivenData, given.password = Empty,
             users' \in SetData(users, n, given)
      PROVE  KeepsAccounts(users, users') /\ Unique(users')
  <2>1. KeepsAccounts(users, users') /\ Len(users') = Len(users)
    BY <1>0, <1>2, ReliableSetData
  <2> QED BY <1>0, <2>1 DEF KeepsAccounts, Unique, Table
<1>3. /\ \A country \in Country : [NothingGiven EXCEPT !.country = country].password = Empty
      /\ [NothingGiven EXCEPT !.session = 0].password = Empty
  BY DEF NothingGiven
<1>4. ASSUME NEW c \in Client, NEW country \in Country, UpdateProfile(c, country)
      PROVE  KeepsAccounts(users, users') /\ Unique(users') /\ registered' = registered
  BY <1>0, <1>2, <1>3, <1>4, GivenType DEF UpdateProfile
<1>5. ASSUME NEW c \in Client, Logout(c)
      PROVE  KeepsAccounts(users, users') /\ Unique(users') /\ registered' = registered
  BY <1>0, <1>2, <1>3, <1>5, GivenType DEF Logout
<1>6. CASE users' = users /\ registered' = registered
  <2>1. KeepsAccounts(users, users')
    BY <1>0, <1>6 DEF KeepsAccounts, Table
  <2>2. UniqueNames'
    BY <1>6 DEF UniqueNames
  <2> QED BY <1>6, <2>1, <2>2
<1>7. UniqueNames' <=> Unique(users')
  BY DEF UniqueNames, Unique
<1>8. CASE \E c \in Client :
             \/ \E n \in Name, wire \in WirePassword, e \in Email :
                  NewUserCreated(c, n, wire, e)
             \/ \E country \in Country : UpdateProfile(c, country)
             \/ Logout(c)
  <2>1. PICK c \in Client :
          \/ \E n \in Name, wire \in WirePassword, e \in Email :
               NewUserCreated(c, n, wire, e)
          \/ \E country \in Country : UpdateProfile(c, country)
          \/ Logout(c)
    BY <1>8
  <2>2. CASE \E n \in Name, wire \in WirePassword, e \in Email :
               NewUserCreated(c, n, wire, e)
    BY <1>1, <1>7, <2>2
  <2>3. CASE \E country \in Country : UpdateProfile(c, country)
    BY <1>4, <1>7, <2>3
  <2>4. CASE Logout(c)
    BY <1>5, <1>7, <2>4
  <2> QED BY <2>1, <2>2, <2>3, <2>4
<1>9. CASE ~Restart /\ ~ \E c \in Client :
             \/ \E n \in Name, wire \in WirePassword, e \in Email :
                  NewUserCreated(c, n, wire, e)
             \/ \E country \in Country : UpdateProfile(c, country)
             \/ Logout(c)
  <2>1. users' = users /\ registered' = registered
    BY <1>9, TableUntouched
  <2> QED BY <1>6, <2>1
<1>10. CASE Restart
  <2>1. registered' = registered
    BY <1>10 DEF Restart
  <2>2. ASSUME NEW c \in Client, Unanswered(c)
        PROVE  KeepsAccounts(users, users') /\ Unique(users')
    <3>1. ASSUME NEW n \in Name, NEW wire \in WirePassword, NEW e \in Email,
                 users' \in CreateUser(users, n, Decoded[wire], e, DefaultCountry)
          PROVE  KeepsAccounts(users, users') /\ Unique(users')
      BY <1>0, <3>1, CreateUserKeeps, DecodedAssumption, CountryAssumption
         DEF LookupsAnswer
    <3> QED BY <1>0, <1>2, <1>3, <2>2, <3>1, GivenType DEF Unanswered
  <2>3. CASE users' = users
    BY <1>6, <2>1, <2>3
  <2>4. CASE users' # users
    <3>1. KeepsAccounts(users, users') /\ Unique(users')
      BY <1>10, <2>2, <2>4 DEF Restart
    <3> QED BY <1>7, <2>1, <3>1
  <2> QED BY <2>3, <2>4
<1> QED BY <1>8, <1>9, <1>10

(* Who is logged in after a step was so before, and is the same player, or   *)
(* has just proved a password: one in the table, if the query for it was     *)
(* what it means.                                                            *)
LEMMA DialogueStep ==
  ASSUME TypeOK, UnusedAtStart, [Next]_vars, NEW d \in Client, LoggedIn(d)'
  PROVE  \/ LoggedIn(d) /\ Dialogue(d)' = Dialogue(d)
         \/ /\ m_State[d] = 1 /\ users' = users
            /\ m_ServerChallenge' = m_ServerChallenge
            /\ AsMeant(Name) => \E i \in RowsOf(users, m_Name'[d]) :
                 m_Response'[d] = GenerateResponseValue(users[i].password, m_Name'[d],
                                    m_ClientChallenge'[d], m_ServerChallenge'[d])
<1> DEFINE Kept == LoggedIn(d) /\ Dialogue(d)' = Dialogue(d)
           Proved == /\ m_State[d] = 1 /\ users' = users
                     /\ m_ServerChallenge' = m_ServerChallenge
                     /\ AsMeant(Name) => \E i \in RowsOf(users, m_Name'[d]) :
                          m_Response'[d] = GenerateResponseValue(users[i].password,
                             m_Name'[d], m_ClientChallenge'[d], m_ServerChallenge'[d])
<1>1. ASSUME NEW c \in Client, Accept(c) PROVE Kept
  BY <1>1 DEF Accept, dialogueVars, LoggedIn, UnusedAtStart, Dialogue
<1>2. ASSUME NEW c \in Client, Delete(c) PROVE Kept
  BY <1>2 DEF Delete, Goto, TypeOK, LoggedIn, Dialogue
<1>3. ASSUME NEW c \in Client, SendServerChallenge(c) PROVE Kept
  BY <1>3 DEF SendServerChallenge, Goto, TypeOK, LoggedIn, Dialogue
<1>4. ASSUME NEW c \in Client, Login(c) PROVE Kept \/ Proved
  <2>0. PICK n \in Name, cc \in ClientChallenge : \E response \in Responses(n, cc) :
          \/ LoginUnknown(c, n, cc, response)
          \/ LoginRejected(c, n, cc, response)
          \/ LoginAccepted(c, n, cc, response)
    BY <1>4 DEF Login
  <2>1. PICK response \in Responses(n, cc) :
          \/ LoginUnknown(c, n, cc, response)
          \/ LoginRejected(c, n, cc, response)
          \/ LoginAccepted(c, n, cc, response)
    BY <2>0
  <2>2. TakeLogin(c, n, cc, response)
    BY <2>1 DEF LoginUnknown, LoginRejected, LoginAccepted
  <2>3. CASE c # d
    <3>1. m_State'[d] = m_State[d]
      BY <2>1, <2>3 DEF LoginUnknown, LoginRejected, LoginAccepted, Goto, TypeOK
    <3> QED BY <2>2, <2>3, <3>1 DEF TakeLogin, TypeOK, LoggedIn, Dialogue
  <2>4. CASE c = d
    <3>1. m_State[d] = 1
      BY <2>2, <2>4 DEF TakeLogin, Reading, Serving
    <3>2. LoginAccepted(c, n, cc, response)
      <4>1. m_State' # m_State
        BY <3>1 DEF LoggedIn
      <4> QED BY <2>1, <4>1 DEF LoginUnknown, LoginRejected
    <3>3. PICK row \in GetData(users, n) \ {NoData} : Proves(c, n, cc, response, row)
      BY <3>2 DEF LoginAccepted
    <3>4. AsMeant(Name) => \E i \in RowsOf(users, n) : row = users[i]
      <4>1. AsMeant(Name) => AsMeant({n})
        BY DEF AsMeant
      <4> QED BY <3>3, <4>1, GetDataType DEF TypeOK
    <3>5. /\ m_Name'[d] = n /\ m_ClientChallenge'[d] = cc
          /\ m_Response'[d] = response /\ m_ServerChallenge' = m_ServerChallenge
          /\ users' = users
      BY <2>2, <2>4 DEF TakeLogin, TypeOK
    <3> QED BY <2>4, <3>1, <3>3, <3>4, <3>5 DEF Proves
  <2> QED BY <2>3, <2>4
<1>5. ASSUME NEW c \in Client, NewUser(c) PROVE Kept
  <2>1. PICK n \in Name : TakeNewUser(c, n)
    BY <1>5 DEF NewUser, NewUserTaken, NewUserCreated
  <2> QED BY <2>1 DEF TakeNewUser, Reading, Serving, TypeOK, LoggedIn, Dialogue
<1>6. ASSUME NEW c \in Client, Session(c) PROVE Kept
  <2>1. /\ KeepDialogue
        /\ m_State[c] \in {2, 3} /\ c \in m_Clients
        /\ m_State' = m_State \/ m_State' = [m_State EXCEPT ![c] = 3]
                              \/ m_State' = [m_State EXCEPT ![c] = 4]
    BY <1>6 DEF Session, GetProfile, UpdateProfile, RetrieveProfile, Logout,
                Reading, Serving, Goto
  <2> QED BY <2>1 DEF KeepDialogue, TypeOK, LoggedIn, Dialogue
<1>7. ASSUME NEW c \in Client, KeepAlive(c) \/ IdlePass(c) PROVE Kept
  BY <1>7 DEF KeepAlive, IdlePass, KeepDialogue, LoggedIn, Dialogue
<1>8. CASE UNCHANGED vars
  BY <1>8 DEF vars, dialogueVars, LoggedIn, Dialogue
<1>9. ~Restart
  BY DEF Restart, ForgetClients, LoggedIn
<1> QED BY <1>1, <1>2, <1>3, <1>4, <1>5, <1>6, <1>7, <1>8, <1>9 DEF Next

(* A connection that is not in the vector has the values of a new one. *)
LEMMA UnusedStep == TypeOK /\ UnusedAtStart /\ [Next]_vars => UnusedAtStart'
<1> SUFFICES ASSUME TypeOK, UnusedAtStart, [Next]_vars PROVE UnusedAtStart'
  OBVIOUS
<1>1. ASSUME NEW c \in Client, Accept(c) PROVE UnusedAtStart'
  BY <1>1 DEF Accept, dialogueVars, UnusedAtStart
<1>2. ASSUME NEW c \in Client, Delete(c) PROVE UnusedAtStart'
  BY <1>2 DEF Delete, Goto, TypeOK, UnusedAtStart
<1>3. ASSUME NEW c \in Client, c \in m_Clients, m_Clients' = m_Clients,
             \A d \in Client \ {c} : m_State'[d] = m_State[d]
      PROVE  UnusedAtStart'
  BY <1>3 DEF UnusedAtStart
<1>4. ASSUME NEW c \in Client, Login(c) PROVE UnusedAtStart'
  <2>1. /\ c \in m_Clients /\ m_Clients' = m_Clients
        /\ m_State' = m_State \/ m_State' = [m_State EXCEPT ![c] = 2]
    BY <1>4 DEF Login, LoginUnknown, LoginRejected, LoginAccepted, TakeLogin,
                Reading, Serving, Goto
  <2> QED BY <1>3, <2>1 DEF TypeOK
<1>5. ASSUME NEW c \in Client, SendServerChallenge(c) \/ NewUser(c) \/ Session(c)
                               \/ KeepAlive(c) \/ IdlePass(c)
      PROVE  UnusedAtStart'
  <2>1. /\ c \in m_Clients /\ m_Clients' = m_Clients
        /\ \/ m_State' = m_State
           \/ m_State' = [m_State EXCEPT ![c] = 1]
           \/ m_State' = [m_State EXCEPT ![c] = 3]
           \/ m_State' = [m_State EXCEPT ![c] = 4]
    <3>1. CASE SendServerChallenge(c) \/ NewUser(c)
      BY <3>1 DEF SendServerChallenge, NewUser, NewUserTaken, NewUserCreated,
                  TakeNewUser, Reading, Serving, Goto
    <3>2. CASE Session(c)
      BY <3>2 DEF Session, GetProfile, UpdateProfile, RetrieveProfile, Logout,
                  KeepDialogue, Reading, Serving, Goto
    <3>3. CASE KeepAlive(c) \/ IdlePass(c)
      BY <3>3 DEF KeepAlive, IdlePass, KeepDialogue, Serving
    <3> QED BY <1>5, <3>1, <3>2, <3>3
  <2> QED BY <1>3, <2>1 DEF TypeOK
<1>6. CASE UNCHANGED vars
  BY <1>6 DEF vars, dialogueVars, UnusedAtStart
<1>7. CASE Restart
  BY <1>7 DEF Restart, ForgetClients, UnusedAtStart
<1> QED BY <1>1, <1>2, <1>4, <1>5, <1>6, <1>7 DEF Next

(* The inductive step, one named part of the invariant after the other. *)
LEMMA IInvStep ==
  ASSUME QueriesAsMeant, LookupsAnswer
  PROVE  IInv /\ [Next]_vars => IInv'
<1> SUFFICES ASSUME IInv, [Next]_vars PROVE IInv'
  OBVIOUS
<1>1. TypeOK' /\ UnusedAtStart'
  BY TypeOKStep, UnusedStep DEF IInv
<1>2. /\ users \in Table /\ users' \in Table /\ KeepsAccounts(users, users')
      /\ UniqueNames'
  BY <1>1, AccountsStep DEF IInv, TypeOK
<1>3. LoggedInProved'
  <2>1. ASSUME NEW d \in Client, LoggedIn(d)'
        PROVE  \E i \in RowsOf(users', m_Name'[d]) :
                 m_Response'[d] = GenerateResponseValue(users'[i].password, m_Name'[d],
                                    m_ClientChallenge'[d], m_ServerChallenge'[d])
    <3>1. CASE LoggedIn(d) /\ Dialogue(d)' = Dialogue(d)
      <4>1. /\ m_Name'[d] = m_Name[d] /\ m_Response'[d] = m_Response[d]
            /\ m_ServerChallenge'[d] = m_ServerChallenge[d]
            /\ m_ClientChallenge'[d] = m_ClientChallenge[d]
        BY <3>1 DEF Dialogue
      <4>2. PICK i \in RowsOf(users, m_Name[d]) :
              m_Response[d] = GenerateResponseValue(users[i].password, m_Name[d],
                                m_ClientChallenge[d], m_ServerChallenge[d])
        BY <3>1 DEF IInv, LoggedInProved
      <4>3. i \in RowsOf(users', m_Name[d]) /\ users'[i].password = users[i].password
        BY <1>2, <4>2, KeepsRows
      <4> QED BY <4>1, <4>2, <4>3
    <3>2. CASE ~(LoggedIn(d) /\ Dialogue(d)' = Dialogue(d))
      <4>1. AsMeant(Name)
        BY TextsAsMeant
      <4> QED BY <2>1, <3>2, <4>1, DialogueStep DEF IInv
    <3> QED BY <3>1, <3>2
  <2> QED BY <2>1 DEF LoggedInProved
<1> QED BY <1>1, <1>2, <1>3 DEF IInv

(* Beside it the accounts: whoever was told "\nur\" has its row, where the     *)
(* INSERT does not fail.                                                       *)
LEMMA OwnedStep ==
  ASSUME QueriesAsMeant, LookupsAnswer, "insert" \notin FaultyQueries
  PROVE  IInv /\ OwnsRightPassword /\ [Next]_vars => OwnsRightPassword'
<1> SUFFICES ASSUME IInv, OwnsRightPassword, [Next]_vars PROVE OwnsRightPassword'
  OBVIOUS
<1>1. /\ users \in Table /\ users' \in Table /\ KeepsAccounts(users, users')
      /\ \A account \in registered' : account \in registered \/
           \E i \in RowsOf(users', account[1]) : users'[i].password = account[2]
  BY AccountsStep, TypeOKStep DEF IInv, TypeOK
<1>2. ASSUME NEW account \in registered'
      PROVE  \E i \in RowsOf(users', account[1]) : users'[i].password = account[2]
  <2>1. CASE account \in registered
    <3>1. PICK i \in RowsOf(users, account[1]) : users[i].password = account[2]
      BY <2>1 DEF OwnsRightPassword
    <3> QED BY <1>1, <3>1, KeepsRows
  <2> QED BY <1>1, <1>2, <2>1
<1> QED BY <1>2 DEF OwnsRightPassword

(* The empty server satisfies the invariant. *)
LEMMA IInvInit == Init => IInv /\ OwnsRightPassword
<1> SUFFICES ASSUME Init PROVE IInv /\ OwnsRightPassword
  OBVIOUS
<1>1. TypeOK
  <2>1. TcpTypeOK /\ users \in Table
    BY DEF Init, TcpInit, TcpTypeOK, Table
  <2> QED BY <2>1 DEF Init, TypeOK
<1> QED BY <1>1 DEF Init, IInv, UnusedAtStart, UniqueNames, LoggedInProved, LoggedIn,
                   OwnsRightPassword

(* Unique names rest on less: the count of CreateUser, and no other query. *)
LEMMA NamesStep ==
  ASSUME QueriesAsMeant, "count" \notin FaultyQueries, TypeOK, UniqueNames, [Next]_vars
  PROVE  UniqueNames'
<1>0. /\ users \in Table /\ Unique(users) /\ (UniqueNames' <=> Unique(users'))
      /\ \A c \in Client : m_Name[c] \in Name \cup {Empty}
  BY DEF TypeOK, UniqueNames, Unique
<1>1. ASSUME NEW n \in Name, NEW wire \in WirePassword, NEW e \in Email,
             users' \in CreateUser(users, n, Decoded[wire], e, DefaultCountry)
      PROVE  UniqueNames'
  BY <1>0, <1>1, CreateUserKeeps, DecodedAssumption, CountryAssumption
<1>2. ASSUME NEW n \in Name \cup {Empty}, NEW given \in GivenData,
             users' \in SetData(users, n, given)
      PROVE  UniqueNames'
  <2>1. DOMAIN users' = DOMAIN users /\ \A i \in DOMAIN users : users'[i].name = users[i].name
    BY <1>0, <1>2, SetDataNames
  <2> QED BY <1>0, <2>1 DEF Unique
<1>3. CASE users' = users
  BY <1>3 DEF UniqueNames
<1>4. ASSUME NEW c \in Client, NEW n \in Name, NEW wire \in WirePassword, NEW e \in Email,
             NewUserCreated(c, n, wire, e)
      PROVE  UniqueNames'
  BY <1>1, <1>4 DEF NewUserCreated
<1>5. ASSUME NEW c \in Client, NEW country \in Country, UpdateProfile(c, country)
      PROVE  UniqueNames'
  BY <1>0, <1>2, <1>5, GivenType DEF UpdateProfile
<1>6. ASSUME NEW c \in Client, Logout(c) PROVE UniqueNames'
  BY <1>0, <1>2, <1>6, GivenType DEF Logout
<1>7. CASE Restart
  <2>1. ASSUME NEW c \in Client, Unanswered(c) PROVE UniqueNames'
    BY <1>0, <1>1, <1>2, <2>1, GivenType DEF Unanswered
  <2> QED BY <1>3, <1>7, <2>1 DEF Restart
<1> QED BY <1>3, <1>4, <1>5, <1>6, <1>7, TableUntouched

(* As long as counts answer and every query is the one that is meant (on     *)
(* MySQL: all texts are plain), whichever reads and writes fail beside them, *)
(* no two rows share a name, although the check for the name and the         *)
(* insertion are separate queries and the schema would take a second row.    *)
THEOREM NamesStayUnique ==
  ASSUME QueriesAsMeant, "count" \notin FaultyQueries
  PROVE  Spec => []UniqueNames
<1>1. Init => TypeOK /\ UniqueNames
  BY IInvInit DEF IInv
<1>2. TypeOK /\ UniqueNames /\ [Next]_vars => UniqueNames'
  BY NamesStep
<1> QED BY <1>1, <1>2, TypeOKStep, PTL DEF Spec

(* Where lookups answer and every query is the one that is meant (on MySQL:  *)
(* all texts are plain), any number of players logging in, creating accounts *)
(* and changing profiles in any order, whichever writes fail: whoever is in  *)
(* a session has proved the password its account has now.                    *)
THEOREM SessionsAreProved ==
  ASSUME QueriesAsMeant, LookupsAnswer
  PROVE  Spec => []LoggedInProved
<1>1. IInv => LoggedInProved
  BY DEF IInv
<1> QED BY <1>1, IInvInit, IInvStep, PTL DEF Spec

(* Where updates at most fail and every query is the one that is meant (on   *)
(* MySQL: all texts are plain), the server keeps the password every          *)
(* acknowledged account was created with.  (An INSERT that fails is          *)
(* acknowledged like any other.)                                             *)
THEOREM AccountsAreKept ==
  ASSUME QueriesAsMeant, FaultyQueries \subseteq {"update"}
  PROVE  Spec => []OwnsRightPassword
<1>1. LookupsAnswer /\ "insert" \notin FaultyQueries
  BY DEF LookupsAnswer
<1>2. IInv /\ [Next]_vars => IInv'
  BY <1>1, IInvStep
<1>3. IInv /\ OwnsRightPassword /\ [Next]_vars => OwnsRightPassword'
  BY <1>1, OwnedStep
<1> QED BY <1>2, <1>3, IInvInit, PTL DEF Spec

-----------------------------------------------------------------------------
(* Action properties, whatever queries fail. *)

(* The state of a client never goes back while it is in the vector. *)
LEMMA StateGrows ==
  ASSUME TypeOK, UnusedAtStart, [Next]_vars, NEW d \in Client, d \in m_Clients'
  PROVE  m_State[d] <= m_State'[d]
<1>0. m_State \in [Client -> 0 .. 4]
  BY DEF TypeOK
<1>1. CASE m_State' = m_State
  BY <1>0, <1>1
<1>2. ASSUME NEW c \in Client, NEW state \in 0 .. 4,
             m_State[c] <= state, m_State' = [m_State EXCEPT ![c] = state]
      PROVE  m_State[d] <= m_State'[d]
  BY <1>0, <1>2
<1>3. ASSUME NEW c \in Client, Accept(c) \/ KeepAlive(c) \/ IdlePass(c)
      PROVE  m_State' = m_State
  BY <1>3 DEF Accept, KeepAlive, IdlePass, dialogueVars
<1>4. ASSUME NEW c \in Client, Delete(c) PROVE m_State[d] <= m_State'[d]
  BY <1>0, <1>4 DEF Delete, Goto
<1>5. ASSUME NEW c \in Client, SendServerChallenge(c) PROVE m_State[d] <= m_State'[d]
  <2>1. m_State[c] = 0 /\ m_State' = [m_State EXCEPT ![c] = 1]
    BY <1>5 DEF SendServerChallenge, Serving, Goto
  <2>2. m_State[c] <= 1 /\ 1 \in 0 .. 4
    BY <2>1
  <2> QED BY <1>2, <2>1, <2>2
<1>6. ASSUME NEW c \in Client, Login(c) PROVE m_State[d] <= m_State'[d]
  <2>1. /\ m_State[c] = 1
        /\ m_State' = m_State \/ m_State' = [m_State EXCEPT ![c] = 2]
    BY <1>6 DEF Login, LoginUnknown, LoginRejected, LoginAccepted, TakeLogin,
                Reading, Serving, Goto
  <2> QED BY <1>1, <1>2, <2>1
<1>7. ASSUME NEW c \in Client, NewUser(c) PROVE m_State' = m_State
  BY <1>7 DEF NewUser, NewUserTaken, NewUserCreated, TakeNewUser
<1>8. ASSUME NEW c \in Client, Session(c) PROVE m_State[d] <= m_State'[d]
  <2>1. \/ m_State' = m_State
        \/ m_State[c] = 2 /\ m_State' = [m_State EXCEPT ![c] = 3]
        \/ m_State[c] = 3 /\ m_State' = [m_State EXCEPT ![c] = 4]
    BY <1>8 DEF Session, GetProfile, UpdateProfile, RetrieveProfile, Logout,
                Reading, Serving, Goto
  <2> QED BY <1>1, <1>2, <2>1
<1>9. CASE UNCHANGED vars
  BY <1>1, <1>9 DEF vars, dialogueVars
<1>10. ~Restart
  BY DEF Restart, ForgetClients
<1> QED BY <1>1, <1>3, <1>4, <1>5, <1>6, <1>7, <1>8, <1>9, <1>10 DEF Next

(* The part of the invariant that needs no reliable queries. *)
LEMMA UnusedInvariant == Spec => [](TypeOK /\ UnusedAtStart)
<1>1. Init => TypeOK /\ UnusedAtStart
  BY IInvInit DEF IInv
<1> QED BY <1>1, TypeOKStep, UnusedStep, PTL DEF Spec

(* Even with failing queries, a session stays with the player that proved    *)
(* its password, until the connection is gone.                               *)
THEOREM IdentityIsFrozen == Spec => IdentityFrozen
<1>1. ASSUME TypeOK, UnusedAtStart, [Next]_vars, NEW c \in Client,
             LoggedIn(c), c \in m_Clients'
      PROVE  /\ m_Name'[c] = m_Name[c]
             /\ m_Response'[c] = m_Response[c]
             /\ m_ServerChallenge'[c] = m_ServerChallenge[c]
  <2>1. m_State[c] \in 2 .. 4 /\ m_State'[c] \in 0 .. 4
    BY <1>1, TypeOKStep DEF TypeOK, LoggedIn
  <2>2. m_State'[c] \in 2 .. 4
    BY <1>1, <2>1, StateGrows
  <2>3. LoggedIn(c)'
    BY <1>1, <2>2 DEF LoggedIn
  <2>4. Dialogue(c)' = Dialogue(c)
    BY <1>1, <2>1, <2>3, DialogueStep
  <2> QED BY <2>4 DEF Dialogue
<1>2. TypeOK /\ UnusedAtStart /\ [Next]_vars =>
        [\A c \in Client : LoggedIn(c) /\ c \in m_Clients' =>
           /\ m_Name'[c] = m_Name[c]
           /\ m_Response'[c] = m_Response[c]
           /\ m_ServerChallenge'[c] = m_ServerChallenge[c]]_vars
  BY <1>1
<1> QED BY <1>2, UnusedInvariant, PTL DEF Spec, IdentityFrozen

(* Even with failing queries, nobody gets into a session without the proof   *)
(* of a password that is in the table in that step; all this asks is that    *)
(* names are texts the lookup carries as they are (any text, on SQLite).     *)
THEOREM LoginIsProved ==
  ASSUME AsMeant(Name)
  PROVE  Spec => LoginNeedsProof
<1>1. ASSUME TypeOK, UnusedAtStart, [Next]_vars, NEW c \in Client,
             m_State[c] < 2, m_State'[c] >= 2
      PROVE  \E i \in RowsOf(users, m_Name'[c]) :
               m_Response'[c] = GenerateResponseValue(users[i].password, m_Name'[c],
                                  m_ClientChallenge'[c], m_ServerChallenge[c])
  <2>1. TypeOK' /\ UnusedAtStart'
    BY <1>1, TypeOKStep, UnusedStep
  <2>2. m_State'[c] \in 2 .. 4 /\ m_State[c] \in 0 .. 1
    BY <1>1, <2>1 DEF TypeOK
  <2>3. LoggedIn(c)' /\ ~LoggedIn(c)
    BY <2>1, <2>2 DEF LoggedIn, UnusedAtStart
  <2> QED BY <1>1, <2>3, DialogueStep
<1>2. TypeOK /\ UnusedAtStart /\ [Next]_vars =>
        [\A c \in Client : m_State[c] < 2 /\ m_State'[c] >= 2 =>
           \E i \in RowsOf(users, m_Name'[c]) :
             m_Response'[c] = GenerateResponseValue(users[i].password, m_Name'[c],
                                m_ClientChallenge'[c], m_ServerChallenge[c])]_vars
  BY <1>1
<1> QED BY <1>2, UnusedInvariant, PTL DEF Spec, LoginNeedsProof

-----------------------------------------------------------------------------
(* Replies and states. *)
Fits(buffer, state) ==
  /\ Len(buffer) <= 1
  /\ \A k \in DOMAIN buffer : state \in StatesOf(buffer[k].reply)

AllFit == \A c \in Client : Fits(m_SendBuffer[c], m_State[c])

(* What DoSend leaves of a fitting buffer fits. *)
LEMMA LeftFits ==
  ASSUME NEW buffer \in Seq(Piece), NEW state, Fits(buffer, state),
         NEW left \in {<< >>, buffer} \cup Tails(buffer)
  PROVE  Fits(left, state)
<1>1. CASE left = << >>
  BY <1>1 DEF Fits
<1>2. CASE left = buffer
  BY <1>2
<1>3. CASE left \in Tails(buffer)
  <2>1. /\ left \in Seq(Piece) /\ Len(left) <= Len(buffer)
        /\ \A k \in DOMAIN left : \E j \in DOMAIN buffer : left[k].reply = buffer[j].reply
    BY <1>3, TailsOfBuffer
  <2> QED BY <2>1 DEF Fits
<1> QED BY <1>1, <1>2, <1>3

(* A pass that keeps the buffer keeps it fitting if the state allows it. *)
LEMMA FitsAfterPass ==
  ASSUME TypeOK, AllFit, NEW c \in Client, NEW socket \in RecvNothing(c) \cup {Flags(c)},
         NEW buffer \in Seq(Piece), EndPass(c, socket, buffer),
         Fits(buffer, m_State'[c]),
         \A d \in Client \ {c} : m_State'[d] = m_State[d]
  PROVE  AllFit'
<1>1. TcpTypeOK /\ socket \in Socket
  BY RecvNothingType DEF TypeOK
<1>2. /\ m_SendBuffer'[c] \in {<< >>, buffer} \cup Tails(buffer)
      /\ \A d \in Client \ {c} : m_SendBuffer'[d] = m_SendBuffer[d]
  BY <1>1, EndPassType
<1>3. Fits(m_SendBuffer'[c], m_State'[c])
  BY <1>2, LeftFits
<1>4. ASSUME NEW d \in Client PROVE Fits(m_SendBuffer'[d], m_State'[d])
  BY <1>2, <1>3 DEF AllFit
<1> QED BY <1>4 DEF AllFit

(* A pass that queues a reply of its new state leaves a fitting buffer. *)
LEMMA FitsAfterReply ==
  ASSUME TypeOK, AllFit, NEW c \in Client, NEW socket \in RecvNothing(c) \cup {Flags(c)},
         NEW reply \in Reply, EndPass(c, socket, ClearAndPut(m_SendBuffer[c], reply)),
         NEW state \in StatesOf(reply),
         m_State' = [m_State EXCEPT ![c] = state]
  PROVE  AllFit'
<1> DEFINE buffer == ClearAndPut(m_SendBuffer[c], reply)
<1>1. /\ buffer = <<[reply |-> reply, cut |-> FALSE]>>
      /\ buffer \in Seq(Piece)
  BY ClearAndPutType
<1>2. m_State'[c] = state /\ \A d \in Client \ {c} : m_State'[d] = m_State[d]
  BY DEF TypeOK
<1>3. Len(buffer) = 1 /\ DOMAIN buffer = {1} /\ buffer[1].reply = reply
  BY <1>1
<1>4. Fits(buffer, m_State'[c])
  BY <1>2, <1>3 DEF Fits
<1> HIDE DEF buffer
<1>5. EndPass(c, socket, buffer)
  BY DEF buffer
<1>6. buffer \in Seq(Piece)
  BY <1>1
<1> QED BY <1>2, <1>4, <1>5, <1>6, FitsAfterPass

(* Goto and UNCHANGED seen from one client and from the others. *)
LEMMA StateMaps ==
  ASSUME TypeOK, NEW c \in Client
  PROVE  /\ m_State = [m_State EXCEPT ![c] = m_State[c]]
         /\ \A state : /\ [m_State EXCEPT ![c] = state][c] = state
                       /\ \A d \in Client \ {c} : [m_State EXCEPT ![c] = state][d] = m_State[d]
BY DEF TypeOK

(* Every step keeps every buffer fitting. *)
LEMMA AllFitStep == TypeOK /\ AllFit /\ [Next]_vars => AllFit'
<1> SUFFICES ASSUME TypeOK, AllFit, [Next]_vars PROVE AllFit'
  OBVIOUS
<1>0. m_State \in [Client -> 0 .. 4] /\ m_SendBuffer \in [Client -> Seq(Piece)]
  BY DEF TypeOK, TcpTypeOK
<1>1. ASSUME NEW c \in Client, Accept(c) \/ Delete(c) PROVE AllFit'
  <2>1. /\ m_SendBuffer' = [m_SendBuffer EXCEPT ![c] = << >>]
        /\ \A d \in Client \ {c} : m_State'[d] = m_State[d]
    BY <1>0, <1>1 DEF Accept, Delete, Open, Close, Goto, dialogueVars
  <2>2. \A state : Fits(<< >>, state)
    BY DEF Fits
  <2> QED BY <1>0, <2>1, <2>2 DEF AllFit
<1>2. ASSUME NEW c \in Client, SendServerChallenge(c) PROVE AllFit'
  <2>1. 1 \in StatesOf("challenge")
    BY DEF StatesOf
  <2> QED BY <1>2, <2>1, Replies, FitsAfterReply DEF SendServerChallenge, Goto
<1>3. ASSUME NEW c \in Client, NEW reply \in Reply, Reading(c, 1),
             EndPass(c, Flags(c), ClearAndPut(m_SendBuffer[c], reply)),
             1 \in StatesOf(reply), UNCHANGED m_State
      PROVE  AllFit'
  <2>1. m_State' = [m_State EXCEPT ![c] = 1]
    BY <1>3, StateMaps DEF Reading, Serving
  <2> QED BY <1>3, <2>1, FitsAfterReply
<1>4. ASSUME NEW c \in Client, Login(c) PROVE AllFit'
  <2>0. PICK n \in Name, cc \in ClientChallenge : \E response \in Responses(n, cc) :
          \/ LoginUnknown(c, n, cc, response)
          \/ LoginRejected(c, n, cc, response)
          \/ LoginAccepted(c, n, cc, response)
    BY <1>4 DEF Login
  <2>1. PICK response \in Responses(n, cc) :
          \/ LoginUnknown(c, n, cc, response)
          \/ LoginRejected(c, n, cc, response)
          \/ LoginAccepted(c, n, cc, response)
    BY <2>0
  <2>2. CASE LoginUnknown(c, n, cc, response)
    <3>1. 1 \in StatesOf("unknown user")
      BY DEF StatesOf
    <3> QED BY <1>3, <2>2, <3>1, Replies DEF LoginUnknown, TakeLogin
  <2>3. CASE LoginRejected(c, n, cc, response)
    <3>1. 1 \in StatesOf("wrong password")
      BY DEF StatesOf
    <3> QED BY <1>3, <2>3, <3>1, Replies DEF LoginRejected, TakeLogin
  <2>4. CASE LoginAccepted(c, n, cc, response)
    <3>1. 2 \in StatesOf("proof")
      BY DEF StatesOf
    <3> QED BY <2>4, <3>1, Replies, FitsAfterReply DEF LoginAccepted, Goto
  <2> QED BY <2>1, <2>2, <2>3, <2>4
<1>5. ASSUME NEW c \in Client, NewUser(c) PROVE AllFit'
  <2>1. 1 \in StatesOf("name taken") /\ 1 \in StatesOf("new user")
    BY DEF StatesOf
  <2>2. PICK reply \in {"name taken", "new user"} :
          /\ Reading(c, 1) /\ UNCHANGED m_State
          /\ EndPass(c, Flags(c), ClearAndPut(m_SendBuffer[c], reply))
    BY <1>5 DEF NewUser, NewUserTaken, NewUserCreated, TakeNewUser
  <2>3. reply \in Reply /\ 1 \in StatesOf(reply)
    BY <2>1, Replies
  <2> QED BY <1>3, <2>2, <2>3
<1>6. ASSUME NEW c \in Client, NEW state,
             (m_State[c] = 2 /\ state = 3) \/ (m_State[c] = 3 /\ state = 4),
             m_State' = [m_State EXCEPT ![c] = state],
             EndPass(c, Flags(c), m_SendBuffer[c])
      PROVE  AllFit'
  <2>1. \A reply : m_State[c] \in StatesOf(reply) => state \in StatesOf(reply)
    <3>1. \A reply : StatesOf(reply) \in {{1}, {2, 3, 4}, {3, 4}}
      BY DEF StatesOf
    <3> QED BY <1>6, <3>1
  <2>2. Fits(m_SendBuffer[c], m_State'[c])
    BY <1>0, <1>6, <2>1 DEF AllFit, Fits
  <2>3. \A d \in Client \ {c} : m_State'[d] = m_State[d]
    BY <1>6, StateMaps
  <2> QED BY <1>0, <1>6, <2>2, <2>3, FitsAfterPass
<1>7. ASSUME NEW c \in Client, Session(c) PROVE AllFit'
  <2>1. 3 \in StatesOf("profile")
    BY DEF StatesOf
  <2>2. CASE GetProfile(c)
    BY <2>1, <2>2, Replies, FitsAfterReply DEF GetProfile, Goto
  <2>3. CASE RetrieveProfile(c)
    <3>1. m_State' = [m_State EXCEPT ![c] = 3]
      BY <2>3, StateMaps DEF RetrieveProfile, Reading, Serving
    <3> QED BY <2>1, <2>3, <3>1, Replies, FitsAfterReply DEF RetrieveProfile
  <2>4. ASSUME NEW country \in Country, UpdateProfile(c, country) PROVE AllFit'
    BY <1>6, <2>4 DEF UpdateProfile, Reading, Serving, Goto
  <2>5. CASE Logout(c)
    BY <1>6, <2>5 DEF Logout, Reading, Serving, Goto
  <2> QED BY <1>7, <2>2, <2>3, <2>4, <2>5 DEF Session
<1>8. ASSUME NEW c \in Client, KeepAlive(c) PROVE AllFit'
  <2>1. 3 \in StatesOf("ticket") /\ 3 \in StatesOf("keep-alive")
    BY DEF StatesOf
  <2>2. m_State' = [m_State EXCEPT ![c] = 3]
    BY <1>8, StateMaps DEF KeepAlive, Serving
  <2>3. PICK reply \in {"ticket", "keep-alive"}, socket \in RecvNothing(c) :
          EndPass(c, socket, ClearAndPut(m_SendBuffer[c], reply))
    BY <1>8 DEF KeepAlive
  <2> QED BY <2>1, <2>2, <2>3, Replies, FitsAfterReply
<1>9. ASSUME NEW c \in Client, IdlePass(c) PROVE AllFit'
  <2>1. PICK socket \in RecvNothing(c) : EndPass(c, socket, m_SendBuffer[c])
    BY <1>9 DEF IdlePass
  <2>2. m_State' = m_State
    BY <1>9 DEF IdlePass
  <2>3. Fits(m_SendBuffer[c], m_State'[c])
    BY <2>2 DEF AllFit
  <2> QED BY <1>0, <2>1, <2>2, <2>3, FitsAfterPass
<1>10. CASE UNCHANGED vars
  BY <1>10 DEF vars, dialogueVars, tcpVars, AllFit
<1>11. CASE Restart
  BY <1>11 DEF Restart, ForgetClients, CloseAll, AllFit, Fits
<1> QED BY <1>1, <1>2, <1>4, <1>5, <1>7, <1>8, <1>9, <1>10, <1>11 DEF Next

(* Whatever queries and sockets fail, at most one reply is queued for a      *)
(* client, and it is one of the state the client is in: no error answer is   *)
(* left over when a login has succeeded, no proof is queued before.          *)
THEOREM RepliesAreInOrder == Spec => [](OneReplyQueued /\ RepliesFitState)
<1>1. Init => TypeOK /\ AllFit
  BY IInvInit DEF IInv, Init, TcpInit, AllFit, Fits
<1>2. AllFit => OneReplyQueued /\ RepliesFitState
  BY DEF AllFit, Fits, OneReplyQueued, RepliesFitState
<1> QED BY <1>1, <1>2, TypeOKStep, AllFitStep, PTL DEF Spec

-----------------------------------------------------------------------------
(* The refinement of LoginService: where lookups answer and SetData stores   *)
(* what it is given, every step of the connection manager is one of the      *)
(* service, or none.  What the table says of the accounts comes first.       *)

(* The account of a name is its one row. *)
LEMMA AccountIsRow ==
  ASSUME NEW t \in Table, Unique(t), NEW n, NEW i \in RowsOf(t, n)
  PROVE  AccountOf(t, n) = [password |-> t[i].password, country |-> t[i].country]
<1> DEFINE chosen == CHOOSE k \in RowsOf(t, n) : TRUE
<1>1. chosen \in RowsOf(t, n)
  OBVIOUS
<1> HIDE DEF chosen
<1>2. chosen = i
  BY <1>1 DEF RowsOf, Unique
<1>3. AccountOf(t, n) = [password |-> t[chosen].password, country |-> t[chosen].country]
  BY DEF AccountOf, chosen
<1> QED BY <1>2, <1>3

(* A name without a row has no account, and an account is not that. *)
LEMMA AccountIsSome ==
  ASSUME NEW t \in Table, Unique(t), NEW n
  PROVE  AccountOf(t, n) = Empty <=> RowsOf(t, n) = {}
<1>1. ASSUME NEW i \in RowsOf(t, n) PROVE AccountOf(t, n) # Empty
  <2>1. t[i] \in Row
    BY DEF RowsOf, Table
  <2>2. [password |-> t[i].password, country |-> t[i].country]
          \in [password : PasswordText, country : Text]
    BY <2>1 DEF Row
  <2> QED BY <2>2, AccountIsRow, NoneAssumption
<1> QED BY <1>1 DEF AccountOf

(* A new row is a new account. *)
LEMMA AppendCreates ==
  ASSUME NEW t \in Table, Unique(t), NEW row \in Row, RowsOf(t, row.name) = {}
  PROVE  [n \in Name |-> AccountOf(Append(t, row), n)] =
           [[n \in Name |-> AccountOf(t, n)] EXCEPT
              ![row.name] = [password |-> row.password, country |-> row.country]]
<1> DEFINE u == Append(t, row)
<1>1. /\ Len(t) \in Nat /\ DOMAIN t = 1 .. Len(t) /\ DOMAIN u = 1 .. Len(t) + 1
      /\ \A i \in 1 .. Len(t) : u[i] = t[i]
      /\ u[Len(t) + 1] = row
  BY DEF Table
<1>2. u \in Table /\ Unique(u)
  BY AppendKeeps DEF Table
<1> HIDE DEF u
<1>3. AccountOf(u, row.name) = [password |-> row.password, country |-> row.country]
  <2>1. Len(t) + 1 \in RowsOf(u, row.name)
    BY <1>1 DEF RowsOf
  <2> QED BY <1>1, <1>2, <2>1, AccountIsRow
<1>4. ASSUME NEW n \in Name, n # row.name PROVE AccountOf(u, n) = AccountOf(t, n)
  <2>1. RowsOf(u, n) = RowsOf(t, n)
    BY <1>1, <1>4 DEF RowsOf
  <2>2. ASSUME NEW i \in RowsOf(t, n) PROVE AccountOf(u, n) = AccountOf(t, n)
    <3>1. u[i] = t[i]
      BY <1>1 DEF RowsOf
    <3> QED BY <1>2, <2>1, <3>1, AccountIsRow
  <2> QED BY <2>1, <2>2 DEF AccountOf
<1> QED BY <1>3, <1>4 DEF u

(* What updatepro and logout write. *)
LEMMA SetDataChooses ==
  ASSUME QueriesAsMeant, LookupsAnswer, Backend = "mysql", NEW t \in Table, Unique(t),
         NEW n \in Name, RowsOf(t, n) # {}, NEW given \in GivenData,
         given.password = Empty, NEW u \in SetData(t, n, given), u # t
  PROVE  /\ \A m \in Name \ {n} : AccountOf(u, m) = AccountOf(t, m)
         /\ given.country = Empty => AccountOf(u, n) = AccountOf(t, n)
         /\ given.country # Empty =>
              AccountOf(u, n) = [AccountOf(t, n) EXCEPT !.country = given.country]
<1>1. PICK i \in RowsOf(t, n) : TRUE
  OBVIOUS
<1>2. /\ DOMAIN u = DOMAIN t
      /\ u[i] = UpdateValues(t[i], given, t[i])
      /\ \A j \in DOMAIN t \ {i} : u[j] = t[j]
  BY ReliableUpdate DEF Rewritten
<1>3. u \in Table /\ Unique(u) /\ i \in RowsOf(u, n)
  <2>1. u \in Table
    BY SetDataType
  <2>2. KeepsAccounts(t, u) /\ Len(u) = Len(t)
    BY ReliableSetData
  <2>3. i \in RowsOf(u, n)
    BY <2>1, <2>2, KeepsRows
  <2> QED BY <2>1, <2>2, <2>3 DEF KeepsAccounts, Unique, Table
<1>4. /\ u[i].password = t[i].password
      /\ u[i].country = IF given.country = Empty THEN t[i].country ELSE given.country
  <2>1. t[i] \in Row
    BY DEF RowsOf, Table
  <2> QED BY <1>2, <2>1 DEF UpdateValues, Given, Row
<1>5. /\ AccountOf(u, n) = [password |-> u[i].password, country |-> u[i].country]
      /\ AccountOf(t, n) = [password |-> t[i].password, country |-> t[i].country]
  BY <1>3, AccountIsRow
<1>6. ASSUME NEW m \in Name, m # n PROVE AccountOf(u, m) = AccountOf(t, m)
  <2>0. i \in DOMAIN t /\ t[i].name = n /\ u[i].name = n
    BY <1>3 DEF RowsOf
  <2>1. RowsOf(u, m) = RowsOf(t, m)
    BY <1>2, <1>6, <2>0 DEF RowsOf
  <2>2. ASSUME NEW j \in RowsOf(t, m) PROVE AccountOf(u, m) = AccountOf(t, m)
    <3>1. u[j] = t[j]
      BY <1>2, <1>6, <2>0 DEF RowsOf
    <3> QED BY <1>3, <2>1, <3>1, AccountIsRow
  <2> QED BY <2>1, <2>2 DEF AccountOf
<1>7. CASE given.country = Empty
  BY <1>4, <1>5, <1>6, <1>7
<1>8. CASE given.country # Empty
  BY <1>4, <1>5, <1>6, <1>8
<1> QED BY <1>7, <1>8

-----------------------------------------------------------------------------
(* The sessions. *)

(* A session has an account. *)
LEMMA SessionHasAccount ==
  ASSUME TypeOK, UniqueNames, LoggedInProved, NEW c \in Client, LoggedIn(c)
  PROVE  /\ m_Name[c] \in Name /\ RowsOf(users, m_Name[c]) # {}
         /\ Accounts[m_Name[c]] # Empty
<1>1. PICK i \in RowsOf(users, m_Name[c]) : TRUE
  BY DEF LoggedInProved
<1>2. users \in Table /\ Unique(users)
  BY DEF TypeOK, UniqueNames, Unique
<1>3. m_Name[c] \in Name
  <2>1. users[i] \in Row /\ users[i].name = m_Name[c]
    BY <1>1, <1>2 DEF RowsOf, Table
  <2> QED BY <2>1 DEF Row
<1> QED BY <1>1, <1>2, <1>3, AccountIsSome DEF Accounts

(* A step that leaves name and state of every client as they are, or moves   *)
(* them outside the session, is none of the service.                         *)
LEMMA SessionsKept ==
  ASSUME \A d \in Client : \/ m_State'[d] = m_State[d] /\ m_Name'[d] = m_Name[d]
                           \/ m_State[d] \notin {2, 3} /\ m_State'[d] \notin {2, 3}
  PROVE  Sessions' = Sessions
BY DEF Sessions, SessionOf

(* Of one client only. *)
LEMMA SessionsOfOne ==
  ASSUME NEW c \in Client,
         \A d \in Client \ {c} : m_State'[d] = m_State[d] /\ m_Name'[d] = m_Name[d]
  PROVE  Sessions' = [Sessions EXCEPT ![c] = SessionOf(c)']
BY DEF Sessions, SessionOf

(* What a client is in the service, and that it is something. *)
LEMMA SessionIsSome ==
  ASSUME NEW c \in Client, m_State[c] \in {2, 3}, m_Name[c] \in Name
  PROVE  /\ Sessions[c] = [name |-> m_Name[c], fresh |-> m_State[c] = 2]
         /\ Sessions[c] # Empty
<1>1. Sessions[c] = [name |-> m_Name[c], fresh |-> m_State[c] = 2]
  BY DEF Sessions, SessionOf
<1>2. [name |-> m_Name[c], fresh |-> m_State[c] = 2] \in [name : Name, fresh : BOOLEAN]
  OBVIOUS
<1> QED BY <1>1, <1>2, NoneAssumption

LEMMA SessionIsNone ==
  ASSUME NEW c \in Client, m_State[c] \notin {2, 3}
  PROVE  Sessions[c] = Empty
BY DEF Sessions, SessionOf

(* Steps outside of sessions that leave the accounts alone. *)
LEMMA StutterStep ==
  ASSUME TypeOK, NEW c \in Client,
         \/ Accept(c) \/ SendServerChallenge(c) \/ KeepAlive(c) \/ IdlePass(c)
         \/ RetrieveProfile(c)
         \/ \E n \in Name : NewUserTaken(c, n)
         \/ \E n \in Name, cc \in ClientChallenge : \E response \in Responses(n, cc) :
              LoginUnknown(c, n, cc, response) \/ LoginRejected(c, n, cc, response)
  PROVE  Accounts' = Accounts /\ Sessions' = Sessions
<1>1. users' = users
  BY DEF Accept, SendServerChallenge, KeepAlive, IdlePass, RetrieveProfile, NewUserTaken,
         LoginUnknown, LoginRejected, TakeLogin
<1>2. \A d \in Client : \/ m_State'[d] = m_State[d] /\ m_Name'[d] = m_Name[d]
                        \/ m_State[d] \notin {2, 3} /\ m_State'[d] \notin {2, 3}
  <2>1. CASE Accept(c) \/ KeepAlive(c) \/ IdlePass(c) \/ RetrieveProfile(c)
    BY <2>1 DEF Accept, dialogueVars, KeepAlive, IdlePass, RetrieveProfile, KeepDialogue
  <2>2. CASE SendServerChallenge(c)
    BY <2>2 DEF SendServerChallenge, Serving, Goto, TypeOK
  <2>3. ASSUME NEW n \in Name, NewUserTaken(c, n)
        PROVE  /\ m_State' = m_State /\ m_State[c] = 1
               /\ m_Name' = [m_Name EXCEPT ![c] = n]
    BY <2>3 DEF NewUserTaken, TakeNewUser, Reading, Serving
  <2>4. ASSUME NEW n \in Name, NEW cc \in ClientChallenge, NEW response \in Responses(n, cc),
               LoginUnknown(c, n, cc, response) \/ LoginRejected(c, n, cc, response)
        PROVE  /\ m_State' = m_State /\ m_State[c] = 1
               /\ m_Name' = [m_Name EXCEPT ![c] = n]
    BY <2>4 DEF LoginUnknown, LoginRejected, TakeLogin, Reading, Serving
  <2>5. ASSUME NEW n \in Name, m_State' = m_State, m_State[c] = 1,
               m_Name' = [m_Name EXCEPT ![c] = n]
        PROVE  \A d \in Client : \/ m_State'[d] = m_State[d] /\ m_Name'[d] = m_Name[d]
                                 \/ m_State[d] \notin {2, 3} /\ m_State'[d] \notin {2, 3}
    BY <2>5 DEF TypeOK
  <2> QED BY <2>1, <2>2, <2>3, <2>4, <2>5
<1> QED BY <1>1, <1>2, SessionsKept DEF Accounts

(* The step that a login, a request of a session or an end is. *)
LEMMA BeginStep ==
  ASSUME QueriesAsMeant, TypeOK, UniqueNames, NEW c \in Client, NEW n \in Name,
         NEW cc \in ClientChallenge, NEW response, LoginAccepted(c, n, cc, response)
  PROVE  Service!Begin(c, n)
<1>1. /\ m_State[c] = 1 /\ m_State' = [m_State EXCEPT ![c] = 2]
      /\ m_Name' = [m_Name EXCEPT ![c] = n] /\ users' = users
  BY DEF LoginAccepted, TakeLogin, Reading, Serving, Goto
<1>2. PICK row \in GetData(users, n) \ {NoData} : TRUE
  BY DEF LoginAccepted
<1>3. users \in Table /\ Unique(users)
  BY DEF TypeOK, UniqueNames, Unique
<1>4. RowsOf(users, n) # {}
  <2>1. AsMeant({n})
    BY TextsAsMeant
  <2> QED BY <1>2, <1>3, <2>1, GetDataType
<1>5. Accounts[n] # Empty /\ Accounts' = Accounts
  BY <1>1, <1>3, <1>4, AccountIsSome DEF Accounts
<1>6. Sessions[c] = Empty
  BY <1>1, SessionIsNone
<1>7. Sessions' = [Sessions EXCEPT ![c] = [name |-> n, fresh |-> TRUE]]
  <2>1. SessionOf(c)' = [name |-> n, fresh |-> TRUE]
    BY <1>1 DEF SessionOf, TypeOK
  <2>2. \A d \in Client \ {c} : m_State'[d] = m_State[d] /\ m_Name'[d] = m_Name[d]
    BY <1>1 DEF TypeOK
  <2> QED BY <2>1, <2>2, SessionsOfOne
<1> QED BY <1>5, <1>6, <1>7 DEF Service!Begin

LEMMA EndStep ==
  ASSUME TypeOK, NEW c \in Client, m_State[c] \in {2, 3}, m_Name[c] \in Name,
         m_State'[c] \notin {2, 3}, Accounts' = Accounts,
         \A d \in Client \ {c} : m_State'[d] = m_State[d] /\ m_Name'[d] = m_Name[d]
  PROVE  Service!End(c)
<1>1. SessionOf(c)' = Empty
  BY DEF SessionOf
<1>2. Sessions' = [Sessions EXCEPT ![c] = Empty]
  BY <1>1, SessionsOfOne
<1>3. Sessions[c] # Empty
  BY SessionIsSome
<1> QED BY <1>2, <1>3 DEF Service!End

LEMMA UnfreshStep ==
  ASSUME TypeOK, NEW c \in Client, m_State[c] = 2, m_Name[c] \in Name,
         m_State' = [m_State EXCEPT ![c] = 3], m_Name' = m_Name
  PROVE  /\ Sessions[c] = [name |-> m_Name[c], fresh |-> TRUE]
         /\ Sessions[c] # Empty
         /\ Sessions' = [Sessions EXCEPT ![c].fresh = FALSE]
<1>1. Sessions[c] = [name |-> m_Name[c], fresh |-> TRUE] /\ Sessions[c] # Empty
  BY SessionIsSome
<1>2. SessionOf(c)' = [name |-> m_Name[c], fresh |-> FALSE]
  <2>1. m_State'[c] = 3 /\ m_Name'[c] = m_Name[c]
    BY DEF TypeOK
  <2>2. (m_State'[c] = 2) = FALSE
    BY <2>1
  <2>3. SessionOf(c)' = [name |-> m_Name'[c], fresh |-> m_State'[c] = 2]
    BY <2>1 DEF SessionOf
  <2> QED BY <2>1, <2>2, <2>3
<1>3. Sessions' = [Sessions EXCEPT ![c] = SessionOf(c)']
  <2>1. \A d \in Client \ {c} : m_State'[d] = m_State[d] /\ m_Name'[d] = m_Name[d]
    BY DEF TypeOK
  <2> QED BY <2>1, SessionsOfOne
<1>4. SessionOf(c)' = [Sessions[c] EXCEPT !.fresh = FALSE]
  <2> DEFINE old == TRUE
             new == FALSE
  <2> HIDE DEF old, new
  <2>1. [[name |-> m_Name[c], fresh |-> old] EXCEPT !.fresh = new]
          = [name |-> m_Name[c], fresh |-> new]
    OBVIOUS
  <2>2. /\ Sessions[c] = [name |-> m_Name[c], fresh |-> old]
        /\ SessionOf(c)' = [name |-> m_Name[c], fresh |-> new]
    BY <1>1, <1>2 DEF old, new
  <2>3. SessionOf(c)' = [Sessions[c] EXCEPT !.fresh = new]
    BY <2>1, <2>2
  <2> QED BY <2>3 DEF new
<1> QED BY <1>1, <1>3, <1>4

(* What a row of newuser is in the service. *)
LEMMA CreatedStep ==
  ASSUME TypeOK, UniqueNames, NEW n \in Name,
         NEW wire \in WirePassword, NEW e \in Email, RowsOf(users, n) = {},
         users' = Append(users, NewRow(n, Decoded[wire], e, DefaultCountry))
  PROVE  Service!Created(n, Decoded[wire])
<1> DEFINE row == NewRow(n, Decoded[wire], e, DefaultCountry)
<1>1. /\ row \in Row /\ row.name = n /\ row.password = Decoded[wire]
      /\ row.country = DefaultCountry
  BY DecodedAssumption, CountryAssumption DEF NewRow, Row, Text
<1>2. users \in Table /\ Unique(users)
  BY DEF TypeOK, UniqueNames, Unique
<1> HIDE DEF row
<1>3. users' = Append(users, row)
  BY DEF row
<1>4. Accounts' = [Accounts EXCEPT ![n] =
                     [password |-> Decoded[wire], country |-> DefaultCountry]]
  BY <1>1, <1>2, <1>3, AppendCreates DEF Accounts
<1>5. Accounts[n] = Empty
  BY <1>2, AccountIsSome DEF Accounts
<1> QED BY <1>4, <1>5 DEF Service!Created

(* What newuser does to the table. *)
LEMMA NewUserCreates ==
  ASSUME QueriesAsMeant, LookupsAnswer, NEW n \in Name, NEW wire \in WirePassword,
         NEW e \in Email,
         users' \in CreateUser(users, n, Decoded[wire], e, DefaultCountry)
  PROVE  \/ users' = users
         \/ /\ RowsOf(users, n) = {}
            /\ users' = Append(users, NewRow(n, Decoded[wire], e, DefaultCountry))
<1>1. UserExists(users, n) = {RowsOf(users, n) # {}}
  BY ReliableUserExists DEF LookupsAnswer
<1>2. /\ users' = users \/ RowsOf(users, n) = {}
      /\ users' \in {users} \cup Insert(users, NewRow(n, Decoded[wire], e, DefaultCountry))
  BY <1>1 DEF CreateUser
<1>3. AsMeant({n, Decoded[wire], e, DefaultCountry})
  BY InsertTexts, DecodedAssumption, CountryAssumption DEF NewRow
<1> QED BY <1>2, <1>3 DEF Insert, Answers, NewRow

(* What updatepro and logout write is a choice of the account, or nothing. *)
LEMMA ChosenAccounts ==
  ASSUME QueriesAsMeant, LookupsAnswer, Backend = "mysql", TypeOK, UniqueNames, LoggedInProved,
         NEW c \in Client, LoggedIn(c)
  PROVE  /\ \A country \in Country :
              users' \in SetData(users, m_Name[c], [NothingGiven EXCEPT !.country = country])
                => \/ Accounts' = Accounts
                   \/ Accounts' = [Accounts EXCEPT ![m_Name[c]].country = country]
         /\ users' \in SetData(users, m_Name[c], [NothingGiven EXCEPT !.session = 0])
              => Accounts' = Accounts
<1>1. users \in Table /\ Unique(users)
  BY DEF TypeOK, UniqueNames, Unique
<1>2. m_Name[c] \in Name /\ RowsOf(users, m_Name[c]) # {}
  BY SessionHasAccount
<1>0. users' = users => Accounts' = Accounts
  BY DEF Accounts
<1>3. ASSUME NEW country \in Country, users' # users,
             users' \in SetData(users, m_Name[c], [NothingGiven EXCEPT !.country = country])
      PROVE  Accounts' = [Accounts EXCEPT ![m_Name[c]].country = country]
  <2> DEFINE given == [NothingGiven EXCEPT !.country = country]
  <2>1. /\ given \in GivenData /\ given.password = Empty
        /\ given.country = country /\ country # Empty
    BY GivenType, EmptyAssumption DEF NothingGiven
  <2> HIDE DEF given
  <2>2. users' \in SetData(users, m_Name[c], given)
    BY <1>3 DEF given
  <2>3. /\ \A m \in Name \ {m_Name[c]} : AccountOf(users', m) = AccountOf(users, m)
        /\ AccountOf(users', m_Name[c])
             = [AccountOf(users, m_Name[c]) EXCEPT !.country = country]
    BY <1>1, <1>2, <1>3, <2>1, <2>2, SetDataChooses
  <2> QED BY <1>2, <2>3 DEF Accounts
<1>4. ASSUME users' # users,
             users' \in SetData(users, m_Name[c], [NothingGiven EXCEPT !.session = 0])
      PROVE  Accounts' = Accounts
  <2> DEFINE given == [NothingGiven EXCEPT !.session = 0]
  <2>1. given \in GivenData /\ given.password = Empty /\ given.country = Empty
    BY GivenType DEF NothingGiven
  <2> HIDE DEF given
  <2>2. users' \in SetData(users, m_Name[c], given)
    BY <1>4 DEF given
  <2>3. \A m \in Name : AccountOf(users', m) = AccountOf(users, m)
    BY <1>1, <1>2, <1>4, <2>1, <2>2, SetDataChooses
  <2> QED BY <2>3 DEF Accounts
<1> QED BY <1>0, <1>3, <1>4

(* A restart may have granted one last request. *)
LEMMA RestartStep ==
  ASSUME QueriesAsMeant, LookupsAnswer, Backend = "mysql", TypeOK, UniqueNames, LoggedInProved, Restart
  PROVE  Service!Restart
<1>1. Sessions' = [c \in Client |-> Empty]
  BY DEF Restart, ForgetClients, Sessions, SessionOf
<1>2. CASE users' = users
  <2>1. Accounts' = Accounts
    BY <1>2 DEF Accounts
  <2> QED BY <1>1, <2>1 DEF Service!Restart
<1>3. ASSUME NEW c \in Client, Unanswered(c) PROVE Service!Restart
  <2>1. ASSUME NEW n \in Name, NEW wire \in WirePassword, NEW e \in Email,
               users' \in CreateUser(users, n, Decoded[wire], e, DefaultCountry)
        PROVE  Service!Restart
    <3>1. CASE RowsOf(users, n) = {}
                 /\ users' = Append(users, NewRow(n, Decoded[wire], e, DefaultCountry))
      <4>1. Service!Created(n, Decoded[wire]) /\ Decoded[wire] \in PasswordText
        BY <3>1, CreatedStep, DecodedAssumption
      <4> QED BY <1>1, <4>1 DEF Service!Restart
    <3> QED BY <1>2, <2>1, <3>1, NewUserCreates
  <2>2. ASSUME NEW country \in Country, m_State[c] = 2, c \in m_Clients,
               users' \in SetData(users, m_Name[c], [NothingGiven EXCEPT !.country = country])
        PROVE  Service!Restart
    <3>1. LoggedIn(c)
      BY <2>2 DEF LoggedIn
    <3>2. \/ Accounts' = Accounts
          \/ Accounts' = [Accounts EXCEPT ![m_Name[c]].country = country]
      BY <2>2, <3>1, ChosenAccounts
    <3>3. /\ Sessions[c] = [name |-> m_Name[c], fresh |-> TRUE] /\ Sessions[c] # Empty
      BY <2>2, <3>1, SessionHasAccount, SessionIsSome
    <3>4. Accounts' = Accounts \/ Service!Chosen(c, country)
      BY <3>2, <3>3 DEF Service!Chosen
    <3> QED BY <1>1, <3>4 DEF Service!Restart
  <2>3. ASSUME m_State[c] = 3, c \in m_Clients,
               users' \in SetData(users, m_Name[c], [NothingGiven EXCEPT !.session = 0])
        PROVE  Service!Restart
    <3>1. Accounts' = Accounts
      BY <2>3, ChosenAccounts DEF LoggedIn
    <3> QED BY <1>1, <3>1 DEF Service!Restart
  <2> QED BY <1>3, <2>1, <2>2, <2>3 DEF Unanswered, Reading, Serving
<1> QED BY <1>2, <1>3 DEF Restart

(* A request of a session. *)
LEMMA SessionStep ==
  ASSUME QueriesAsMeant, LookupsAnswer, Backend = "mysql", TypeOK, UniqueNames, LoggedInProved,
         NEW c \in Client, Session(c)
  PROVE  \/ Service!ReadProfile(c) \/ Service!End(c)
         \/ \E country \in Country : Service!ChooseCountry(c, country)
         \/ Accounts' = Accounts /\ Sessions' = Sessions
<1>1. LoggedIn(c) /\ m_Name' = m_Name /\ m_Name[c] \in Name
  <2>1. (Serving(c, 2) \/ Serving(c, 3)) /\ KeepDialogue
    BY DEF Session, GetProfile, UpdateProfile, RetrieveProfile, Logout, Reading
  <2>2. LoggedIn(c) /\ m_Name' = m_Name
    BY <2>1 DEF Serving, KeepDialogue, LoggedIn
  <2> QED BY <2>2, SessionHasAccount
<1>2. CASE GetProfile(c)
  <2>1. /\ m_State[c] = 2 /\ m_State' = [m_State EXCEPT ![c] = 3] /\ users' = users
    BY <1>2 DEF GetProfile, Reading, Serving, Goto
  <2>2. Accounts' = Accounts
    BY <2>1 DEF Accounts
  <2>3. Sessions[c] # Empty /\ Sessions' = [Sessions EXCEPT ![c].fresh = FALSE]
    BY <1>1, <2>1, UnfreshStep
  <2> QED BY <2>2, <2>3 DEF Service!ReadProfile
<1>3. ASSUME NEW country \in Country, UpdateProfile(c, country)
      PROVE  Service!ChooseCountry(c, country) \/ Service!ReadProfile(c)
  <2>1. /\ m_State[c] = 2 /\ m_State' = [m_State EXCEPT ![c] = 3]
        /\ users' \in SetData(users, m_Name[c], [NothingGiven EXCEPT !.country = country])
    BY <1>3 DEF UpdateProfile, Reading, Serving, Goto
  <2>2. \/ Accounts' = Accounts
        \/ Accounts' = [Accounts EXCEPT ![m_Name[c]].country = country]
    BY <1>1, <2>1, ChosenAccounts
  <2>3. /\ Sessions[c] = [name |-> m_Name[c], fresh |-> TRUE]
        /\ Sessions[c] # Empty
        /\ Sessions' = [Sessions EXCEPT ![c].fresh = FALSE]
    BY <1>1, <2>1, UnfreshStep
  <2>4. Accounts' = Accounts \/ Service!Chosen(c, country)
    BY <2>2, <2>3 DEF Service!Chosen
  <2> QED BY <2>3, <2>4 DEF Service!ChooseCountry, Service!ReadProfile
<1>4. CASE RetrieveProfile(c)
  BY <1>4, StutterStep
<1>5. CASE Logout(c)
  <2>1. /\ m_State[c] = 3 /\ m_State' = [m_State EXCEPT ![c] = 4]
        /\ users' \in SetData(users, m_Name[c], [NothingGiven EXCEPT !.session = 0])
    BY <1>5 DEF Logout, Reading, Serving, Goto
  <2>2. Accounts' = Accounts
    BY <1>1, <2>1, ChosenAccounts
  <2>3. m_State'[c] = 4 /\ \A d \in Client \ {c} : m_State'[d] = m_State[d]
    BY <2>1 DEF TypeOK
  <2> QED BY <1>1, <2>1, <2>2, <2>3, EndStep
<1> QED BY <1>2, <1>3, <1>4, <1>5 DEF Session

(* The step simulation. *)
LEMMA ServiceStep ==
  ASSUME QueriesAsMeant, LookupsAnswer, Backend = "mysql", IInv, [Next]_vars
  PROVE  [Service!Next]_<<Accounts, Sessions>>
<1> DEFINE Simulated == Service!Next \/ (Accounts' = Accounts /\ Sessions' = Sessions)
<1>0. TypeOK /\ UniqueNames /\ LoggedInProved
  BY DEF IInv
<1>1. ASSUME NEW c \in Client,
             Accept(c) \/ SendServerChallenge(c) \/ KeepAlive(c) \/ IdlePass(c)
      PROVE  Simulated
  BY <1>0, <1>1, StutterStep
<1>2. ASSUME NEW c \in Client, Delete(c) PROVE Simulated
  <2>1. /\ m_State'[c] = 0 /\ users' = users
        /\ \A d \in Client \ {c} : m_State'[d] = m_State[d] /\ m_Name'[d] = m_Name[d]
    BY <1>0, <1>2 DEF Delete, Goto, TypeOK
  <2>2. Accounts' = Accounts
    BY <2>1 DEF Accounts
  <2>3. CASE m_State[c] \in {2, 3}
    <3>1. LoggedIn(c)
      BY <1>2, <2>3 DEF Delete, LoggedIn
    <3>2. Service!End(c)
      BY <1>0, <2>1, <2>2, <2>3, <3>1, SessionHasAccount, EndStep
    <3> QED BY <3>2 DEF Service!Next
  <2>4. CASE m_State[c] \notin {2, 3}
    BY <2>1, <2>2, <2>4, SessionsKept
  <2> QED BY <2>3, <2>4
<1>3. ASSUME NEW c \in Client, Login(c) PROVE Simulated
  <2>1. PICK n \in Name, cc \in ClientChallenge : \E response \in Responses(n, cc) :
          \/ LoginUnknown(c, n, cc, response)
          \/ LoginRejected(c, n, cc, response)
          \/ LoginAccepted(c, n, cc, response)
    BY <1>3 DEF Login
  <2>2. PICK response \in Responses(n, cc) :
          \/ LoginUnknown(c, n, cc, response)
          \/ LoginRejected(c, n, cc, response)
          \/ LoginAccepted(c, n, cc, response)
    BY <2>1
  <2>3. CASE LoginAccepted(c, n, cc, response)
    <3>1. Service!Begin(c, n)
      BY <1>0, <2>3, BeginStep
    <3> QED BY <3>1 DEF Service!Next
  <2> QED BY <1>0, <2>2, <2>3, StutterStep
<1>4. ASSUME NEW c \in Client, NewUser(c) PROVE Simulated
  <2>1. ASSUME NEW n \in Name, NewUserTaken(c, n) PROVE Simulated
    BY <1>0, <2>1, StutterStep
  <2>2. ASSUME NEW n \in Name, NEW wire \in WirePassword, NEW e \in Email,
               NewUserCreated(c, n, wire, e)
        PROVE  Simulated
    <3>1. /\ FALSE \in UserExists(users, n)
          /\ users' \in CreateUser(users, n, Decoded[wire], e, DefaultCountry)
          /\ m_State' = m_State /\ m_State[c] = 1
          /\ m_Name' = [m_Name EXCEPT ![c] = n]
      BY <2>2 DEF NewUserCreated, TakeNewUser, Reading, Serving
    <3>2. \/ users' = users
          \/ /\ RowsOf(users, n) = {}
             /\ users' = Append(users, NewRow(n, Decoded[wire], e, DefaultCountry))
      BY <3>1, NewUserCreates
    <3>3. users' = users => Accounts' = Accounts
      BY DEF Accounts
    <3>4. \/ Accounts' = Accounts
          \/ Service!Created(n, Decoded[wire]) /\ Decoded[wire] \in PasswordText
      BY <1>0, <3>2, <3>3, CreatedStep, DecodedAssumption
    <3>5. Sessions' = Sessions
      <4>1. \A d \in Client \ {c} : m_Name'[d] = m_Name[d]
        BY <1>0, <3>1 DEF TypeOK
      <4> QED BY <3>1, <4>1, SessionsKept
    <3> QED BY <3>4, <3>5 DEF Service!Next, Service!Register
  <2> QED BY <1>4, <2>1, <2>2 DEF NewUser
<1>5. ASSUME NEW c \in Client, Session(c) PROVE Simulated
  BY <1>0, <1>5, SessionStep DEF Service!Next
<1>6. CASE Restart
  <2>1. Service!Restart
    BY <1>0, <1>6, RestartStep
  <2> QED BY <2>1 DEF Service!Next
<1>7. CASE UNCHANGED vars
  BY <1>7 DEF vars, dialogueVars, Accounts, Sessions, SessionOf
<1>8. Simulated
  BY <1>1, <1>2, <1>3, <1>4, <1>5, <1>6, <1>7 DEF Next
<1> QED BY <1>8

(* On MySQL, where SetData stores what it is given, as long as lookups       *)
(* answer and all texts are plain (others may become any query), the login   *)
(* port is the service its players are promised: each account is created     *)
(* once and keeps its password, each session is of an account that exists,   *)
(* its country is chosen by its owner only, and no restart undoes any of it. *)
(* A write that fails is a step the service need not take.                   *)
THEOREM ServiceImplemented ==
  ASSUME QueriesAsMeant, LookupsAnswer, Backend = "mysql"
  PROVE  Spec => ImplementsService
<1>1. Init => Service!Init
  <2> SUFFICES ASSUME Init PROVE Service!Init
    OBVIOUS
  <2>1. \A n : RowsOf(users, n) = {}
    BY DEF Init, RowsOf
  <2>2. Accounts = [n \in Name |-> Empty]
    BY <2>1 DEF Accounts, AccountOf
  <2>3. Sessions = [c \in Client |-> Empty]
    BY DEF Init, Sessions, SessionOf
  <2> QED BY <2>2, <2>3 DEF Service!Init
<1>2. IInv /\ [Next]_vars => [Service!Next]_<<Accounts, Sessions>>
  BY ServiceStep
<1>3. Init => IInv
  BY IInvInit
<1>4. IInv /\ [Next]_vars => IInv'
  BY IInvStep
<1> QED BY <1>1, <1>2, <1>3, <1>4, PTL
     DEF Spec, ImplementsService, Service!Spec, Service!serviceVars

-----------------------------------------------------------------------------
(* Who changes a row, and to what.                                           *)

(* Of the rows that are there, SetData of a session writes its own only. *)
LEMMA OwnRowWritten ==
  ASSUME QueriesAsMeant, LookupsAnswer, IInv, NEW c \in Client, LoggedIn(c), NEW given \in GivenData,
         users' \in SetData(users, m_Name[c], given),
         NEW i \in DOMAIN users, users'[i] # users[i]
  PROVE  m_Name[c] = users[i].name
<1>1. users \in Table /\ Unique(users) /\ TypeOK /\ UniqueNames /\ LoggedInProved
  BY DEF IInv, TypeOK, UniqueNames, Unique
<1>0. m_Name[c] \in Name \cup {Empty}
  BY <1>1, SessionHasAccount
<1>2. PICK k \in RowsOf(users, m_Name[c]) : TRUE
  BY <1>1, SessionHasAccount
<1>3. \A j \in DOMAIN users \ {k} : users'[j] = users[j]
  BY <1>0, <1>1, ReliableUpdate DEF Rewritten
<1>4. i = k
  BY <1>3
<1> QED BY <1>4 DEF RowsOf

(* What a step that changes a row is. *)
LEMMA RowStep ==
  ASSUME QueriesAsMeant, LookupsAnswer, IInv, [Next]_vars,
         NEW i \in DOMAIN users, users'[i] # users[i]
  PROVE  \E c \in Client : LoggedIn(c) /\ m_Name[c] = users[i].name
                           /\ m_State'[c] # m_State[c]
<1>0. users \in Table /\ TypeOK
  BY DEF IInv, TypeOK
<1>1. ASSUME NEW n, NEW p, NEW e, NEW k, users' \in CreateUser(users, n, p, e, k)
      PROVE  FALSE
  BY <1>0, <1>1, CreateUserNames
<1>2. ASSUME NEW c \in Client, NEW country \in Country, m_State[c] = 2, c \in m_Clients,
             users' \in SetData(users, m_Name[c], [NothingGiven EXCEPT !.country = country])
      PROVE  LoggedIn(c) /\ m_Name[c] = users[i].name
  <2>1. LoggedIn(c)
    BY <1>2 DEF LoggedIn
  <2> QED BY <1>2, <2>1, GivenType, OwnRowWritten
<1>3. ASSUME NEW c \in Client, m_State[c] = 3, c \in m_Clients,
             users' \in SetData(users, m_Name[c], [NothingGiven EXCEPT !.session = 0])
      PROVE  LoggedIn(c) /\ m_Name[c] = users[i].name
  <2>1. LoggedIn(c)
    BY <1>3 DEF LoggedIn
  <2> QED BY <1>3, <2>1, GivenType, OwnRowWritten
<1>4. ASSUME NEW c \in Client, NEW country \in Country, UpdateProfile(c, country)
      PROVE  LoggedIn(c) /\ m_Name[c] = users[i].name /\ m_State'[c] # m_State[c]
  <2>1. m_State'[c] = 3 /\ m_State[c] = 2
    BY <1>0, <1>4 DEF UpdateProfile, Goto, Reading, Serving, TypeOK
  <2> QED BY <1>2, <1>4, <2>1 DEF UpdateProfile, Reading, Serving
<1>5. ASSUME NEW c \in Client, Logout(c)
      PROVE  LoggedIn(c) /\ m_Name[c] = users[i].name /\ m_State'[c] # m_State[c]
  <2>1. m_State'[c] = 4 /\ m_State[c] = 3
    BY <1>0, <1>5 DEF Logout, Goto, Reading, Serving, TypeOK
  <2> QED BY <1>3, <1>5, <2>1 DEF Logout, Reading, Serving
<1>6. ASSUME NEW c \in Client, NEW n \in Name, NEW wire \in WirePassword, NEW e \in Email,
             NewUserCreated(c, n, wire, e)
      PROVE  FALSE
  BY <1>1, <1>6 DEF NewUserCreated
<1>7. CASE Restart
  <2>1. PICK c \in Client : Unanswered(c)
    BY <1>7 DEF Restart
  <2>2. /\ m_State[c] \in {2, 3} /\ c \in m_Clients
        /\ \/ /\ m_State[c] = 2
              /\ \E country \in Country :
                   users' \in SetData(users, m_Name[c],
                                     [NothingGiven EXCEPT !.country = country])
           \/ /\ m_State[c] = 3
              /\ users' \in SetData(users, m_Name[c], [NothingGiven EXCEPT !.session = 0])
    <3>1. CASE \E n \in Name, wire \in WirePassword, e \in Email :
                 users' \in CreateUser(users, n, Decoded[wire], e, DefaultCountry)
      BY <1>1, <3>1
    <3> QED BY <2>1, <3>1 DEF Unanswered, Reading, Serving
  <2>3. LoggedIn(c) /\ m_Name[c] = users[i].name
    BY <1>2, <1>3, <2>2
  <2>4. m_State'[c] = 0
    BY <1>7 DEF Restart, ForgetClients
  <2> QED BY <2>2, <2>3, <2>4
<1> QED BY <1>0, <1>4, <1>5, <1>6, <1>7, TableUntouched

(* Where lookups answer and every query is the one that is meant (on MySQL:  *)
(* all texts are plain; others may write any row), a row never goes away,    *)
(* keeps its name and password, and its other columns are written by the     *)
(* session of its owner only, a request that a restart cuts off included.    *)
THEOREM RowsAreOfOwners ==
  ASSUME QueriesAsMeant, LookupsAnswer
  PROVE  Spec => AccountsChangeOnlyByOwner
<1>1. ASSUME IInv, [Next]_vars, NEW i \in DOMAIN users
      PROVE  /\ i \in DOMAIN users'
             /\ users'[i] # users[i] =>
                  /\ users'[i].name = users[i].name
                  /\ users'[i].password = users[i].password
                  /\ \E c \in Client : LoggedIn(c) /\ m_Name[c] = users[i].name
                                       /\ m_State'[c] # m_State[c]
  <2>1. KeepsAccounts(users, users') /\ users \in Table /\ users' \in Table
    BY <1>1, AccountsStep, TypeOKStep DEF IInv, TypeOK
  <2>2. /\ i \in DOMAIN users' /\ users'[i].name = users[i].name
        /\ users'[i].password = users[i].password
    BY <2>1 DEF KeepsAccounts, Table
  <2> QED BY <1>1, <2>2, RowStep
<1>2. IInv /\ [Next]_vars =>
        [\A i \in DOMAIN users :
           /\ i \in DOMAIN users'
           /\ users'[i] # users[i] =>
                /\ users'[i].name = users[i].name
                /\ users'[i].password = users[i].password
                /\ \E c \in Client : LoggedIn(c) /\ m_Name[c] = users[i].name
                                     /\ m_State'[c] # m_State[c]]_vars
  BY <1>1
<1>3. Init => IInv
  BY IInvInit
<1>4. IInv /\ [Next]_vars => IInv'
  BY IInvStep
<1> QED BY <1>2, <1>3, <1>4, PTL DEF Spec, AccountsChangeOnlyByOwner

(* On MySQL, as long as all texts are plain and neither the UPDATE nor the    *)
(* count before it fails, the country a player chooses is that of its         *)
(* account, whatever other sessions have written and whatever else fails.     *)
THEOREM CountryIsStored ==
  ASSUME QueriesAsMeant, "count" \notin FaultyQueries, "update" \notin FaultyQueries,
         Backend = "mysql"
  PROVE  Spec => CountryStored
<1>1. ASSUME TypeOK, NEW c \in Client, NEW country \in Country, UpdateProfile(c, country),
             NEW i \in RowsOf(users', m_Name[c])
      PROVE  users'[i].country = country
  <2> DEFINE given == [NothingGiven EXCEPT !.country = country]
  <2>1. /\ given \in GivenData /\ given.country = country /\ country # Empty
    BY GivenType, EmptyAssumption DEF NothingGiven
  <2> HIDE DEF given
  <2>2. /\ users' \in SetData(users, m_Name[c], given) /\ users \in Table
        /\ m_Name[c] \in Name \cup {Empty}
    BY <1>1 DEF UpdateProfile, TypeOK, given
  <2> QED BY <1>1, <2>1, <2>2, CountryIsGiven
<1>2. TypeOK /\ [Next]_vars =>
        [\A c \in Client, country \in Country : UpdateProfile(c, country) =>
           \A i \in RowsOf(users', m_Name[c]) : users'[i].country = country]_vars
  BY <1>1
<1> QED BY <1>2, TypeCorrect, PTL DEF Spec, CountryStored

-----------------------------------------------------------------------------
(* Failed sockets.  An error comes from a recv or a send, so never before    *)
(* the challenge, and never together with a closed connection.               *)
FailedInDialogue == \A c \in Client : m_HasError[c] => m_Connected[c] /\ m_State[c] # 0

Heard(c) == <<m_State[c], m_Name[c], m_Response[c]>>

(* What the end of a pass does to the flags. *)
LEMMA FlagsAfterPass ==
  ASSUME TypeOK, FailedInDialogue, NEW c \in Client,
         NEW socket \in RecvNothing(c) \cup {Flags(c)}, NEW buffer,
         EndPass(c, socket, buffer)
  PROVE  /\ m_HasError'[c] => m_Connected'[c]
         /\ m_HasError[c] => m_HasError'[c]
         /\ \A d \in Client \ {c} : m_HasError'[d] = m_HasError[d]
                                    /\ m_Connected'[d] = m_Connected[d]
<1>0. m_Connected \in [Client -> BOOLEAN] /\ m_HasError \in [Client -> BOOLEAN]
  BY DEF TypeOK, TcpTypeOK
<1>1. PICK sent \in DoSend(socket.connected, socket.hasError, buffer) :
        /\ m_Connected' = [m_Connected EXCEPT ![c] = socket.connected]
        /\ m_HasError' = [m_HasError EXCEPT ![c] = sent.hasError]
  BY DEF EndPass
<1>2. \/ sent.hasError = socket.hasError
      \/ socket.connected /\ ~socket.hasError
  BY <1>1 DEF DoSend
<1>3. /\ socket.hasError => socket.connected
      /\ m_HasError[c] => socket.hasError
  <2>1. socket = Flags(c) => socket.connected = m_Connected[c] /\ socket.hasError = m_HasError[c]
    BY DEF Flags
  <2>2. CASE socket = Flags(c)
    BY <2>1, <2>2 DEF FailedInDialogue
  <2>3. CASE socket # Flags(c)
    <3>1. CanRecv(c)
      BY <2>3 DEF RecvNothing
    <3>2. \/ socket = [connected |-> FALSE, hasError |-> FALSE]
          \/ socket = [connected |-> TRUE, hasError |-> TRUE]
      BY <2>3 DEF RecvNothing
    <3> QED BY <3>1, <3>2 DEF CanRecv
  <2> QED BY <2>2, <2>3
<1>4. m_Connected'[c] = socket.connected /\ m_HasError'[c] = sent.hasError
  BY <1>0, <1>1
<1>5. \A d \in Client \ {c} : m_HasError'[d] = m_HasError[d]
                              /\ m_Connected'[d] = m_Connected[d]
  BY <1>0, <1>1
<1> QED BY <1>2, <1>3, <1>4, <1>5

(* What a pass over a client does: without a request, little. *)
LEMMA PassEffect ==
  ASSUME TypeOK, NEW c \in Client,
         SendServerChallenge(c) \/ Login(c) \/ NewUser(c) \/ Session(c)
         \/ KeepAlive(c) \/ IdlePass(c)
  PROVE  /\ m_Clients' = m_Clients /\ m_State'[c] # 0
         /\ \E socket \in RecvNothing(c) \cup {Flags(c)} : \E buffer :
              EndPass(c, socket, buffer)
         /\ m_State[c] = 0 \/ CanRecv(c) \/ Heard(c)' = Heard(c)
         /\ \A d \in Client \ {c} : Heard(d)' = Heard(d)
<1>1. CASE SendServerChallenge(c)
  BY <1>1 DEF SendServerChallenge, Serving, Goto, TypeOK, Heard
<1>2. ASSUME NEW n, m_Clients' = m_Clients, CanRecv(c), m_State[c] = 1,
             m_State' = m_State \/ m_State' = [m_State EXCEPT ![c] = 2],
             m_Name' = [m_Name EXCEPT ![c] = n],
             m_Response' = m_Response
               \/ \E response : m_Response' = [m_Response EXCEPT ![c] = response]
      PROVE  /\ m_State'[c] # 0
             /\ \A d \in Client \ {c} : Heard(d)' = Heard(d)
  BY <1>2 DEF TypeOK, Heard
<1>3. CASE Login(c)
  <2>1. PICK n \in Name, cc \in ClientChallenge : \E response \in Responses(n, cc) :
          \/ LoginUnknown(c, n, cc, response)
          \/ LoginRejected(c, n, cc, response)
          \/ LoginAccepted(c, n, cc, response)
    BY <1>3 DEF Login
  <2>2. PICK response \in Responses(n, cc) :
          \/ LoginUnknown(c, n, cc, response)
          \/ LoginRejected(c, n, cc, response)
          \/ LoginAccepted(c, n, cc, response)
    BY <2>1
  <2>3. /\ TakeLogin(c, n, cc, response)
        /\ m_State' = m_State \/ m_State' = [m_State EXCEPT ![c] = 2]
        /\ \E buffer : EndPass(c, Flags(c), buffer)
    BY <2>2 DEF LoginUnknown, LoginRejected, LoginAccepted, Goto
  <2> QED BY <1>2, <2>3 DEF TakeLogin, Reading, Serving
<1>4. CASE NewUser(c)
  <2>1. PICK n \in Name : TakeNewUser(c, n) /\ \E buffer : EndPass(c, Flags(c), buffer)
    BY <1>4 DEF NewUser, NewUserTaken, NewUserCreated
  <2> QED BY <1>2, <2>1 DEF TakeNewUser, Reading, Serving
<1>5. CASE Session(c)
  <2>1. /\ CanRecv(c) /\ KeepDialogue /\ m_State[c] \in {2, 3}
        /\ \E buffer : EndPass(c, Flags(c), buffer)
        /\ \/ m_State' = m_State
           \/ m_State' = [m_State EXCEPT ![c] = 3]
           \/ m_State' = [m_State EXCEPT ![c] = 4]
    <3>1. CASE GetProfile(c) \/ RetrieveProfile(c)
      BY <3>1 DEF GetProfile, RetrieveProfile, Reading, Serving, Goto
    <3>2. ASSUME NEW country \in Country, UpdateProfile(c, country)
          PROVE  /\ CanRecv(c) /\ KeepDialogue /\ m_State[c] = 2
                 /\ EndPass(c, Flags(c), m_SendBuffer[c])
                 /\ m_State' = [m_State EXCEPT ![c] = 3]
      BY <3>2 DEF UpdateProfile, Reading, Serving, Goto
    <3>3. CASE Logout(c)
      BY <3>3 DEF Logout, Reading, Serving, Goto
    <3> QED BY <1>5, <3>1, <3>2, <3>3 DEF Session
  <2> QED BY <2>1 DEF KeepDialogue, TypeOK, Heard
<1>6. CASE KeepAlive(c) \/ IdlePass(c)
  <2>1. /\ KeepDialogue /\ m_State' = m_State /\ m_State[c] \in 1 .. 3
        /\ \E socket \in RecvNothing(c) : \E buffer : EndPass(c, socket, buffer)
    BY <1>6 DEF KeepAlive, IdlePass, Serving
  <2> QED BY <2>1 DEF KeepDialogue, Heard
<1> QED BY <1>1, <1>3, <1>4, <1>5, <1>6

(* The two parts of the property, for every step but a restart. *)
LEMMA FailedStep ==
  ASSUME TypeOK, FailedInDialogue, [Next]_vars
  PROVE  /\ FailedInDialogue'
         /\ ~Restart => \A d \in m_Clients : m_HasError[d] /\ m_State[d] < 4 =>
              d \in m_Clients' /\ m_HasError'[d] /\ Heard(d)' = Heard(d)
<1> DEFINE Frozen == \A d \in m_Clients : m_HasError[d] /\ m_State[d] < 4 =>
                       d \in m_Clients' /\ m_HasError'[d] /\ Heard(d)' = Heard(d)
<1>0. /\ m_Connected \in [Client -> BOOLEAN] /\ m_HasError \in [Client -> BOOLEAN]
      /\ m_State \in [Client -> 0 .. 4] /\ m_Clients \subseteq Client
  BY DEF TypeOK, TcpTypeOK
<1>1. ASSUME NEW c \in Client, Accept(c) PROVE FailedInDialogue' /\ Frozen
  BY <1>0, <1>1 DEF Accept, Open, dialogueVars, FailedInDialogue, Heard
<1>2. ASSUME NEW c \in Client, Delete(c) PROVE FailedInDialogue' /\ Frozen
  <2>1. /\ m_HasError' = [m_HasError EXCEPT ![c] = FALSE]
        /\ m_Connected' = [m_Connected EXCEPT ![c] = FALSE]
        /\ m_State' = [m_State EXCEPT ![c] = 0]
        /\ m_Name' = [m_Name EXCEPT ![c] = Empty]
        /\ m_Response' = [m_Response EXCEPT ![c] = Empty]
        /\ m_Clients' = m_Clients \ {c}
        /\ ~m_Connected[c] \/ m_State[c] = 4
    BY <1>2 DEF Delete, Close, Goto
  <2>2. FailedInDialogue'
    BY <1>0, <2>1 DEF FailedInDialogue
  <2>3. ASSUME NEW d \in m_Clients, m_HasError[d], m_State[d] < 4
        PROVE  d \in m_Clients' /\ m_HasError'[d] /\ Heard(d)' = Heard(d)
    <3>1. d # c
      BY <1>0, <2>1, <2>3 DEF FailedInDialogue
    <3> QED BY <1>0, <2>1, <2>3, <3>1 DEF Heard, TypeOK
  <2> QED BY <2>2, <2>3
<1>3. ASSUME NEW c \in Client,
             SendServerChallenge(c) \/ Login(c) \/ NewUser(c) \/ Session(c)
             \/ KeepAlive(c) \/ IdlePass(c)
      PROVE  FailedInDialogue' /\ Frozen
  <2>1. /\ m_Clients' = m_Clients /\ m_State'[c] # 0
        /\ m_State[c] = 0 \/ CanRecv(c) \/ Heard(c)' = Heard(c)
        /\ \A d \in Client \ {c} : Heard(d)' = Heard(d)
    BY <1>3, PassEffect
  <2>2. /\ m_HasError'[c] => m_Connected'[c]
        /\ m_HasError[c] => m_HasError'[c]
        /\ \A d \in Client \ {c} : m_HasError'[d] = m_HasError[d]
                                   /\ m_Connected'[d] = m_Connected[d]
    <3>1. PICK socket \in RecvNothing(c) \cup {Flags(c)} : \E buffer :
            EndPass(c, socket, buffer)
      BY <1>3, PassEffect
    <3>2. PICK buffer : EndPass(c, socket, buffer)
      BY <3>1
    <3> QED BY <3>2, FlagsAfterPass
  <2>3. FailedInDialogue'
    BY <2>1, <2>2 DEF FailedInDialogue, Heard
  <2>4. m_HasError[c] => Heard(c)' = Heard(c)
    BY <2>1 DEF FailedInDialogue, CanRecv
  <2> QED BY <1>0, <2>1, <2>2, <2>3, <2>4
<1>4. CASE UNCHANGED vars
  BY <1>4 DEF vars, tcpVars, dialogueVars, FailedInDialogue, Heard
<1>5. CASE Restart
  BY <1>5 DEF Restart, ForgetClients, CloseAll, FailedInDialogue
<1> QED BY <1>1, <1>2, <1>3, <1>4, <1>5 DEF Next

(* Only a client whose socket works has a request acted on. *)
LEMMA HandledWorks ==
  ASSUME NEW c \in Client, Handled(c) \/ Unanswered(c)
  PROVE  c \in m_Clients /\ ~m_HasError[c]
<1>1. \E state : Reading(c, state)
  <2>1. CASE Login(c)
    BY <2>1 DEF Login, LoginUnknown, LoginRejected, LoginAccepted, TakeLogin
  <2>2. CASE NewUser(c)
    BY <2>2 DEF NewUser, NewUserTaken, NewUserCreated, TakeNewUser
  <2>3. CASE Session(c)
    BY <2>3 DEF Session, GetProfile, UpdateProfile, RetrieveProfile, Logout
  <2>4. CASE Unanswered(c)
    BY <2>4 DEF Unanswered
  <2> QED BY <2>1, <2>2, <2>3, <2>4 DEF Handled
<1> QED BY <1>1 DEF Reading, Serving, CanRecv

(* The buffers after a pass over a client: those of the others are left, and *)
(* for a failed socket nothing is sent, nor queued but a keep-alive message. *)
LEMMA BuffersAfterPass ==
  ASSUME TypeOK, FailedInDialogue, NEW c \in Client,
         SendServerChallenge(c) \/ Handled(c) \/ KeepAlive(c) \/ IdlePass(c)
  PROVE  /\ m_HasError[c] => \/ m_SendBuffer'[c] = m_SendBuffer[c]
                             \/ m_State[c] = 3 /\ KeepAliveQueued(c)
         /\ \A d \in Client \ {c} : m_SendBuffer'[d] = m_SendBuffer[d]
<1>0. m_SendBuffer \in [Client -> Seq(Piece)]
  BY DEF TypeOK, TcpTypeOK
<1>1. \A d \in Client \ {c} : m_SendBuffer'[d] = m_SendBuffer[d]
  <2>1. PICK socket \in RecvNothing(c) \cup {Flags(c)} : \E buffer : EndPass(c, socket, buffer)
    BY PassEffect DEF Handled
  <2>2. \E buffer : m_SendBuffer' = [m_SendBuffer EXCEPT ![c] = buffer]
    BY <2>1 DEF EndPass
  <2> QED BY <1>0, <2>2
<1>2. ASSUME m_HasError[c], NEW buffer, NEW socket \in RecvNothing(c),
             EndPass(c, socket, buffer)
      PROVE  m_SendBuffer'[c] = buffer
  <2>1. socket.hasError
    <3>1. socket = Flags(c)
      BY <1>2 DEF RecvNothing, CanRecv
    <3> QED BY <1>2, <3>1 DEF Flags
  <2>2. PICK sent \in DoSend(socket.connected, socket.hasError, buffer) :
          m_SendBuffer' = [m_SendBuffer EXCEPT ![c] = sent.buffer]
    BY <1>2 DEF EndPass
  <2>3. sent = [hasError |-> socket.hasError, buffer |-> buffer]
    BY <2>1, <2>2 DEF DoSend
  <2>4. sent.buffer = buffer
    BY <2>3
  <2> QED BY <1>0, <2>2, <2>4
<1>3. ASSUME m_HasError[c], KeepAlive(c)
      PROVE  m_State[c] = 3 /\ KeepAliveQueued(c)
  <2>1. PICK socket \in RecvNothing(c) :
          EndPass(c, socket, ClearAndPut(m_SendBuffer[c],
                               IF keepAlives = 2 THEN "ticket" ELSE "keep-alive"))
    BY <1>3 DEF KeepAlive
  <2>2. m_SendBuffer'[c] = ClearAndPut(m_SendBuffer[c],
                             IF keepAlives = 2 THEN "ticket" ELSE "keep-alive")
    BY <1>2, <1>3, <2>1
  <2> QED BY <1>3, <2>2 DEF KeepAlive, KeepAliveDue, KeepAliveQueued, ClearAndPut
<1>4. ASSUME m_HasError[c], IdlePass(c)
      PROVE  m_SendBuffer'[c] = m_SendBuffer[c]
  BY <1>2, <1>4 DEF IdlePass
<1>5. m_HasError[c] => KeepAlive(c) \/ IdlePass(c)
  BY HandledWorks DEF SendServerChallenge, Serving, FailedInDialogue
<1> QED BY <1>1, <1>3, <1>4, <1>5

(* The buffer of a failed client, for every step but a restart. *)
LEMMA FailedBuffer ==
  ASSUME TypeOK, FailedInDialogue, [Next]_vars, ~Restart,
         NEW d \in m_Clients, m_HasError[d], m_State[d] < 4
  PROVE  m_SendBuffer'[d] = m_SendBuffer[d] \/ (m_State[d] = 3 /\ KeepAliveQueued(d))
<1>0. m_SendBuffer \in [Client -> Seq(Piece)] /\ d \in Client
  BY DEF TypeOK, TcpTypeOK
<1>1. ASSUME NEW c \in Client, Accept(c) PROVE m_SendBuffer'[d] = m_SendBuffer[d]
  BY <1>0, <1>1 DEF Accept, Open
<1>2. ASSUME NEW c \in Client, Delete(c) PROVE m_SendBuffer'[d] = m_SendBuffer[d]
  <2>1. c # d
    BY <1>0, <1>2 DEF Delete, FailedInDialogue, TypeOK
  <2> QED BY <1>0, <1>2, <2>1 DEF Delete, Close
<1>3. ASSUME NEW c \in Client,
             SendServerChallenge(c) \/ Handled(c) \/ KeepAlive(c) \/ IdlePass(c)
      PROVE  m_SendBuffer'[d] = m_SendBuffer[d] \/ (m_State[d] = 3 /\ KeepAliveQueued(d))
  BY <1>0, <1>3, BuffersAfterPass
<1>4. CASE UNCHANGED vars
  BY <1>4 DEF vars, tcpVars
<1> QED BY <1>1, <1>2, <1>3, <1>4 DEF Next, Handled

(* Who changes the table. *)
LEMMA TableNeedsWorkingSocket ==
  ASSUME TypeOK, [Next]_vars, users' # users
  PROVE  \E c \in m_Clients : ~m_HasError[c] /\ (Handled(c) \/ Restart)
<1>1. CASE Restart
  <2>1. PICK c \in Client : Unanswered(c)
    BY <1>1 DEF Restart
  <2> QED BY <1>1, <2>1, HandledWorks
<1>2. CASE ~Restart
  <2>1. PICK c \in Client : Handled(c)
    BY <1>2, TableUntouched DEF Handled, NewUser, Session
  <2> QED BY <2>1, HandledWorks
<1> QED BY <1>1, <1>2

(* Whatever fails, a client whose socket has failed has no request acted on  *)
(* any more; what is queued for it stays, or gives way to a keep-alive       *)
(* message; nothing but the end of the process sets it free, unless it had   *)
(* logged out; and the table is changed for clients with a working socket    *)
(* only.                                                                     *)
THEOREM FailedStaysFrozen == Spec => FailedIsFrozen
<1>1. Init => TypeOK /\ FailedInDialogue
  BY IInvInit DEF IInv, Init, TcpInit, FailedInDialogue
<1>2. TypeOK /\ FailedInDialogue /\ [Next]_vars => FailedInDialogue'
  BY FailedStep
<1> DEFINE Step ==
      /\ \A c \in m_Clients : m_HasError[c] /\ m_State[c] < 4 /\ ~Restart =>
           /\ ~Handled(c)
           /\ c \in m_Clients' /\ m_HasError'[c]
           /\ <<m_State'[c], m_Name'[c], m_Response'[c]>>
                = <<m_State[c], m_Name[c], m_Response[c]>>
           /\ m_SendBuffer'[c] = m_SendBuffer[c] \/ (m_State[c] = 3 /\ KeepAliveQueued(c))
      /\ users' # users =>
           \E c \in m_Clients : ~m_HasError[c] /\ (Handled(c) \/ Restart)
<1>3. ASSUME TypeOK, FailedInDialogue, [Next]_vars PROVE Step
  <2>1. ASSUME NEW c \in m_Clients, m_HasError[c], m_State[c] < 4, ~Restart
        PROVE  /\ ~Handled(c)
               /\ c \in m_Clients' /\ m_HasError'[c]
               /\ <<m_State'[c], m_Name'[c], m_Response'[c]>>
                    = <<m_State[c], m_Name[c], m_Response[c]>>
               /\ m_SendBuffer'[c] = m_SendBuffer[c] \/ (m_State[c] = 3 /\ KeepAliveQueued(c))
    <3>1. c \in Client
      BY <1>3 DEF TypeOK
    <3>2. ~Handled(c)
      BY <2>1, <3>1, HandledWorks
    <3>3. c \in m_Clients' /\ m_HasError'[c] /\ Heard(c)' = Heard(c)
      BY <1>3, <2>1, FailedStep
    <3>4. m_SendBuffer'[c] = m_SendBuffer[c] \/ (m_State[c] = 3 /\ KeepAliveQueued(c))
      BY <1>3, <2>1, FailedBuffer
    <3> QED BY <3>2, <3>3, <3>4 DEF Heard
  <2>2. users' # users =>
          \E c \in m_Clients : ~m_HasError[c] /\ (Handled(c) \/ Restart)
    BY <1>3, TableNeedsWorkingSocket
  <2> QED BY <2>1, <2>2
<1>4. TypeOK /\ FailedInDialogue /\ [Next]_vars => [Step]_vars
  BY <1>3
<1> QED BY <1>1, <1>2, <1>4, TypeOKStep, PTL DEF Spec, FailedIsFrozen

=============================================================================
