----------------------------- MODULE GpspProofs -----------------------------
(* Proofs about Gpsp, for any clients, names, passwords and faults. *)
EXTENDS Gpsp, SharedProofs, TLAPS

(* The reply PutBytes appends is behind all that was queued. *)
LEMMA PutBytesType ==
  ASSUME NEW buffer \in Seq(Piece), NEW reply \in Reply
  PROVE  /\ PutBytes(buffer, reply) \in Seq(Piece)
         /\ Len(PutBytes(buffer, reply)) = Len(buffer) + 1
         /\ \A k \in 1 .. Len(buffer) : PutBytes(buffer, reply)[k] = buffer[k]
         /\ PutBytes(buffer, reply)[Len(buffer) + 1].reply = reply
<1>1. [reply |-> reply, cut |-> FALSE] \in Piece
  BY DEF Piece
<1> QED BY <1>1 DEF PutBytes

(* The lookups of nicks are what they mean. *)
NicksAsMeant == AsMeant(Email \cup Password)

(* The rows of a login are then rows of the table. *)
LEMMA LoginRow ==
  ASSUME NEW t \in Table, NEW e \in Email, NEW p \in Password,
         NEW row \in GetDataByLogin(t, e, p) \ {NoData}
  PROVE  row.name \in Name /\ (NicksAsMeant => RowsOf(t, row.name) # {})
<1>1. CASE AsMeant({e, p})
  <2>1. PICK i \in DOMAIN t : row = t[i]
    BY <1>1 DEF GetDataByLogin, Select, FirstOf
  <2>2. t[i] \in Row /\ i \in RowsOf(t, row.name)
    BY <2>1 DEF Table, RowsOf
  <2> QED BY <2>1, <2>2 DEF Row
<1>2. CASE ~AsMeant({e, p})
  BY <1>2 DEF GetDataByLogin, Select, AnyRow, NicksAsMeant, AsMeant
<1> QED BY <1>1, <1>2

-----------------------------------------------------------------------------
(* QueueShape, of one queue. *)
Shape(queue, state) ==
  /\ Len(queue) <= IF state = 0 THEN 1 ELSE 2
  /\ \A k \in DOMAIN queue : queue[k].reply # "none" => state > 0 /\ k = Len(queue)
  /\ Len(queue) = 2 => queue[1].reply = "none" /\ queue[2].reply # "none"

LEMMA ShapeOfAll == QueueShape <=> \A c \in Client : Shape(m_SendBuffer[c], m_State[c])
BY DEF QueueShape, Shape

(* What DoSend leaves has the shape still. *)
LEMMA ShapeLeft ==
  ASSUME NEW buffer \in Seq(Piece), NEW state \in 0 .. 2, Shape(buffer, state),
         NEW left \in {<< >>, buffer} \cup Tails(buffer)
  PROVE  Shape(left, state)
<1>1. CASE left = << >>
  BY <1>1 DEF Shape
<1>2. CASE left = buffer
  BY <1>2
<1>3. CASE left \in Tails(buffer)
  <2>1. /\ left \in Seq(Piece) /\ Len(left) <= Len(buffer)
        /\ \A i \in DOMAIN left :
             /\ i + (Len(buffer) - Len(left)) \in DOMAIN buffer
             /\ left[i].reply = buffer[i + (Len(buffer) - Len(left))].reply
    BY <1>3, TailsOfBuffer
  <2>2. Len(left) <= IF state = 0 THEN 1 ELSE 2
    BY <2>1 DEF Shape
  <2>3. ASSUME NEW k \in DOMAIN left, left[k].reply # "none"
        PROVE  state > 0 /\ k = Len(left)
    <3>1. state > 0 /\ k + (Len(buffer) - Len(left)) = Len(buffer)
      BY <2>1, <2>3 DEF Shape
    <3> QED BY <2>1, <3>1
  <2>4. ASSUME Len(left) = 2
        PROVE  left[1].reply = "none" /\ left[2].reply # "none"
    <3>1. Len(buffer) = 2 /\ 1 \in DOMAIN left /\ 2 \in DOMAIN left
      BY <2>1, <2>4 DEF Shape
    <3>2. left[1].reply = buffer[1].reply /\ left[2].reply = buffer[2].reply
      BY <2>1, <2>4, <3>1
    <3> QED BY <3>1, <3>2 DEF Shape
  <2> QED BY <2>2, <2>3, <2>4 DEF Shape
<1> QED BY <1>1, <1>2, <1>3

(* An answer that is appended comes last. *)
LEMMA ShapeAnswered ==
  ASSUME NEW buffer \in Seq(Piece), Shape(buffer, 0), NEW reply \in Reply, reply # "none"
  PROVE  Shape(PutBytes(buffer, reply), 1)
<1> DEFINE queue == PutBytes(buffer, reply)
           n == Len(buffer)
<1>1. /\ Len(queue) = n + 1 /\ n \in Nat /\ n <= 1
      /\ DOMAIN queue = 1 .. n + 1
      /\ \A k \in 1 .. n : queue[k].reply = "none"
      /\ queue[n + 1].reply = reply
  <2>1. /\ queue \in Seq(Piece) /\ Len(queue) = n + 1
        /\ \A k \in 1 .. n : queue[k] = buffer[k]
        /\ queue[n + 1].reply = reply
    BY PutBytesType
  <2>2. n \in Nat /\ n <= 1 /\ \A k \in 1 .. n : buffer[k].reply = "none"
    BY DEF Shape
  <2> HIDE DEF queue, n
  <2>3. DOMAIN queue = 1 .. n + 1
    BY <2>1
  <2> QED BY <2>1, <2>2, <2>3
<1> HIDE DEF queue, n
<1>2. CASE n = 0
  BY <1>1, <1>2 DEF Shape, queue
<1>3. CASE n = 1
  BY <1>1, <1>3 DEF Shape, queue
<1> QED BY <1>1, <1>2, <1>3

HasNick(queue) == \E k \in DOMAIN queue : queue[k].reply = "nick"

LEMMA NickLeft ==
  ASSUME NEW buffer \in Seq(Piece), NEW left \in {<< >>, buffer} \cup Tails(buffer),
         HasNick(left)
  PROVE  HasNick(buffer)
<1>1. CASE left \in Tails(buffer)
  BY <1>1, TailsOfBuffer DEF HasNick
<1> QED BY <1>1 DEF HasNick

LEMMA NoNickPut ==
  ASSUME NEW buffer \in Seq(Piece), Shape(buffer, 0),
         NEW reply \in Reply, reply \notin {"none", "nick"}
  PROVE  ~ HasNick(PutBytes(buffer, reply))
<1> DEFINE queue == PutBytes(buffer, reply)
           n == Len(buffer)
<1>1. /\ queue \in Seq(Piece) /\ Len(queue) = n + 1
      /\ \A k \in 1 .. n : queue[k] = buffer[k]
      /\ queue[n + 1].reply = reply
  BY PutBytesType
<1>2. n \in Nat /\ \A k \in 1 .. n : buffer[k].reply = "none"
  BY DEF Shape
<1> HIDE DEF queue, n
<1>3. DOMAIN queue = 1 .. n + 1
  BY <1>1
<1>4. ASSUME NEW k \in 1 .. n + 1 PROVE queue[k].reply # "nick"
  <2>1. k \in 1 .. n \/ k = n + 1
    BY <1>2
  <2> QED BY <1>1, <1>2, <2>1
<1> QED BY <1>3, <1>4 DEF HasNick, queue

-----------------------------------------------------------------------------
(* The inductive invariant needs nothing but the properties themselves, of   *)
(* which one needs its lookups to be what they mean.                         *)
IInv == TypeOK /\ QueueShape /\ (NicksAsMeant => NickIsAccount)

(* A pass that leaves the client in this state, with this queue before it is *)
(* sent: the shape is kept, and a nick, if there is one now, was there to be *)
(* sent.                                                                     *)
LEMMA PassKeeps ==
  ASSUME IInv, NEW c \in Client, NEW socket \in Socket, NEW buffer \in Seq(Piece),
         NEW state \in 0 .. 2, NEW name \in Name \cup {Empty},
         EndPass(c, socket, buffer),
         m_State' = [m_State EXCEPT ![c] = state],
         m_Name' = [m_Name EXCEPT ![c] = name],
         Shape(buffer, state),
         NicksAsMeant /\ HasNick(buffer) => RowsOf(users, name) # {},
         UNCHANGED <<m_Clients, users>>
  PROVE  IInv'
<1>1. /\ TcpTypeOK'
      /\ m_SendBuffer'[c] \in {<< >>, buffer} \cup Tails(buffer)
      /\ \A d \in Client \ {c} : m_SendBuffer'[d] = m_SendBuffer[d]
  BY EndPassType DEF IInv, TypeOK
<1>2. TypeOK'
  BY <1>1 DEF IInv, TypeOK
<1>3. Shape(m_SendBuffer'[c], state)
  BY <1>1, ShapeLeft
<1>4. /\ m_State'[c] = state /\ m_Name'[c] = name
      /\ \A d \in Client \ {c} : m_State'[d] = m_State[d] /\ m_Name'[d] = m_Name[d]
  BY DEF IInv, TypeOK
<1>5. \A d \in Client : Shape(m_SendBuffer'[d], m_State'[d])
  BY <1>1, <1>3, <1>4, ShapeOfAll DEF IInv
<1>6. QueueShape'
  BY <1>5 DEF QueueShape, Shape
<1>7. NicksAsMeant /\ HasNick(m_SendBuffer'[c]) => RowsOf(users, name) # {}
  BY <1>1, NickLeft
<1>8. NicksAsMeant => NickIsAccount'
  BY <1>1, <1>4, <1>7 DEF IInv, NickIsAccount, HasNick
<1> QED BY <1>2, <1>6, <1>8 DEF IInv

(* What the invariant says of one client. *)
LEMMA OfClient ==
  ASSUME IInv, NEW c \in Client
  PROVE  /\ m_SendBuffer[c] \in Seq(Piece) /\ Len(m_SendBuffer[c]) \in Nat
         /\ m_State[c] \in 0 .. 2 /\ m_Name[c] \in Name \cup {Empty}
         /\ Shape(m_SendBuffer[c], m_State[c])
         /\ NicksAsMeant /\ HasNick(m_SendBuffer[c]) => RowsOf(users, m_Name[c]) # {}
         /\ m_State = [m_State EXCEPT ![c] = m_State[c]]
         /\ m_Name = [m_Name EXCEPT ![c] = m_Name[c]]
         /\ Flags(c) \in Socket /\ RecvNothing(c) \subseteq Socket
<1>1. /\ m_SendBuffer[c] \in Seq(Piece)
      /\ m_State[c] \in 0 .. 2 /\ m_Name[c] \in Name \cup {Empty}
      /\ m_State = [m_State EXCEPT ![c] = m_State[c]]
      /\ m_Name = [m_Name EXCEPT ![c] = m_Name[c]]
  BY DEF IInv, TypeOK, TcpTypeOK
<1>2. Len(m_SendBuffer[c]) \in Nat
  BY <1>1
<1>3. Shape(m_SendBuffer[c], m_State[c])
  BY ShapeOfAll DEF IInv
<1>4. NicksAsMeant /\ HasNick(m_SendBuffer[c]) => RowsOf(users, m_Name[c]) # {}
  BY DEF IInv, NickIsAccount, HasNick
<1>5. Flags(c) \in Socket /\ RecvNothing(c) \subseteq Socket
  BY RecvNothingType DEF IInv, TypeOK
<1> QED BY <1>1, <1>2, <1>3, <1>4, <1>5

LEMMA IInvStep == IInv /\ [Next]_vars => IInv'
<1> SUFFICES ASSUME IInv, [Next]_vars PROVE IInv'
  OBVIOUS
<1>0. TypeOK /\ TcpTypeOK /\ users \in Table
  BY DEF IInv, TypeOK
<1>1. {"none", "nick", "profile id"} \subseteq Reply
  BY ReplyAssumption
<1>2. ASSUME NEW c \in Client, Accept(c) \/ Delete(c) PROVE IInv'
  <2>1. /\ m_SendBuffer' = [m_SendBuffer EXCEPT ![c] = << >>]
        /\ m_Connected' \in [Client -> BOOLEAN] /\ m_HasError' \in [Client -> BOOLEAN]
        /\ m_Clients' \subseteq Client /\ users' = users
        /\ \A d \in Client \ {c} : m_State'[d] = m_State[d] /\ m_Name'[d] = m_Name[d]
    BY <1>0, <1>2 DEF Accept, Delete, Open, Close, TypeOK, TcpTypeOK
  <2>2. m_State' \in [Client -> 0 .. 2] /\ m_Name' \in [Client -> Name \cup {Empty}]
    BY <1>0, <1>2 DEF Accept, Delete, TypeOK
  <2>3. /\ m_SendBuffer'[c] = << >>
        /\ \A d \in Client \ {c} : m_SendBuffer'[d] = m_SendBuffer[d]
        /\ m_SendBuffer' \in [Client -> Seq(Piece)]
    BY <1>0, <2>1 DEF TcpTypeOK
  <2>4. TypeOK'
    BY <1>0, <2>1, <2>2, <2>3 DEF TypeOK, TcpTypeOK
  <2>5. \A d \in Client : Shape(m_SendBuffer'[d], m_State'[d])
    <3>1. Shape(<< >>, m_State'[c])
      BY DEF Shape
    <3>2. \A d \in Client : Shape(m_SendBuffer[d], m_State[d])
      BY OfClient
    <3> QED BY <2>1, <2>3, <3>1, <3>2
  <2>6. QueueShape'
    BY <2>5 DEF QueueShape, Shape
  <2>7. NicksAsMeant => NickIsAccount'
    <3> SUFFICES ASSUME NicksAsMeant PROVE NickIsAccount'
      OBVIOUS
    <3>1. \A d \in Client : \A k \in DOMAIN m_SendBuffer[d] :
            m_SendBuffer[d][k].reply = "nick" => RowsOf(users, m_Name[d]) # {}
      BY DEF IInv, NickIsAccount
    <3> QED BY <2>1, <2>3, <3>1 DEF NickIsAccount
  <2> QED BY <2>4, <2>6, <2>7 DEF IInv
<1>3. ASSUME NEW c \in Client, NEW e \in Email, NEW p \in Password, NicksNone(c, e, p)
      PROVE  IInv'
  <2> DEFINE buffer == ClearAndPut(m_SendBuffer[c], "none")
  <2>1. buffer = <<[reply |-> "none", cut |-> FALSE]>> /\ buffer \in Seq(Piece)
    BY <1>1, ClearAndPutType
  <2>2. EndPass(c, Flags(c), buffer) /\ m_State[c] = 0
        /\ UNCHANGED <<m_Clients, m_State, m_Name, users>>
    BY <1>3 DEF NicksNone, Reading, Serving
  <2> HIDE DEF buffer
  <2>3. Shape(buffer, 0) /\ ~ HasNick(buffer)
    BY <2>1 DEF Shape, HasNick
  <2>4. /\ m_State' = [m_State EXCEPT ![c] = 0]
        /\ m_Name' = [m_Name EXCEPT ![c] = m_Name[c]]
        /\ Flags(c) \in Socket /\ 0 \in 0 .. 2 /\ m_Name[c] \in Name \cup {Empty}
    BY <2>2, OfClient
  <2> QED BY <2>1, <2>2, <2>3, <2>4, PassKeeps
<1>4. ASSUME NEW c \in Client, NEW e \in Email, NEW p \in Password, NicksFound(c, e, p)
      PROVE  IInv'
  <2> DEFINE buffer == PutBytes(m_SendBuffer[c], "nick")
  <2>1. PICK row \in GetDataByLogin(users, e, p) \ {NoData} :
          m_Name' = [m_Name EXCEPT ![c] = row.name]
    BY <1>4 DEF NicksFound
  <2>2. row.name \in Name /\ (NicksAsMeant => RowsOf(users, row.name) # {})
    BY <1>0, LoginRow
  <2>3. m_State[c] = 0 /\ m_State' = [m_State EXCEPT ![c] = 1]
        /\ EndPass(c, Flags(c), buffer) /\ UNCHANGED <<m_Clients, users>>
    BY <1>4 DEF NicksFound, Reading, Serving
  <2>5. buffer \in Seq(Piece)
    BY <1>1, OfClient, PutBytesType
  <2>6. Shape(buffer, 1)
    BY <1>1, <2>3, OfClient, ShapeAnswered
  <2> HIDE DEF buffer
  <2>7. Flags(c) \in Socket /\ 1 \in 0 .. 2 /\ row.name \in Name \cup {Empty}
    BY <2>2, OfClient
  <2> QED BY <2>1, <2>2, <2>3, <2>5, <2>6, <2>7, PassKeeps
<1>5. ASSUME NEW c \in Client, NEW n \in Name, Check(c, n) PROVE IInv'
  <2> DEFINE buffer == PutBytes(m_SendBuffer[c], "profile id")
  <2>1. m_State[c] = 0 /\ m_State' = [m_State EXCEPT ![c] = 1]
        /\ m_Name' = [m_Name EXCEPT ![c] = n]
        /\ EndPass(c, Flags(c), buffer) /\ UNCHANGED <<m_Clients, users>>
    BY <1>5 DEF Check, Reading, Serving
  <2>3. buffer \in Seq(Piece)
    BY <1>1, OfClient, PutBytesType
  <2>4. Shape(buffer, 1)
    BY <1>1, <2>1, OfClient, ShapeAnswered
  <2>5. ~ HasNick(buffer)
    BY <1>1, <2>1, OfClient, NoNickPut
  <2> HIDE DEF buffer
  <2>6. Flags(c) \in Socket /\ 1 \in 0 .. 2 /\ n \in Name \cup {Empty}
    BY OfClient
  <2> QED BY <2>1, <2>3, <2>4, <2>5, <2>6, PassKeeps
<1>6. ASSUME NEW c \in Client, IdlePass(c) PROVE IInv'
  <2>1. PICK socket \in RecvNothing(c) : EndPass(c, socket, m_SendBuffer[c])
    BY <1>6 DEF IdlePass
  <2>2. UNCHANGED <<m_Clients, m_State, m_Name, users>>
    BY <1>6 DEF IdlePass
  <2>3. socket \in Socket
    BY <2>1, OfClient
  <2> QED BY <2>1, <2>2, <2>3, OfClient, PassKeeps
<1>7. ASSUME NEW c \in Client, LastPass(c) PROVE IInv'
  <2>1. m_State[c] = 1 /\ m_State' = [m_State EXCEPT ![c] = 2]
        /\ EndPass(c, Flags(c), m_SendBuffer[c]) /\ UNCHANGED <<m_Clients, m_Name, users>>
    BY <1>7 DEF LastPass, Serving
  <2>3. Shape(m_SendBuffer[c], 2)
    BY <2>1, OfClient DEF Shape
  <2>4. 2 \in 0 .. 2
    OBVIOUS
  <2> QED BY <2>1, <2>3, <2>4, OfClient, PassKeeps
<1>8. ASSUME NEW n \in Name, NEW p \in Password, NEW e \in Email, NewUser(n, p, e)
      PROVE  IInv'
  <2>1. users' \in CreateUser(users, n, p, e, DefaultCountry)
        /\ UNCHANGED <<tcpVars, m_Clients, m_State, m_Name>>
    BY <1>8 DEF NewUser
  <2>2. users' \in Table
    BY <1>0, <2>1, CreateUserType, CountryAssumption DEF PasswordText
  <2>3. \A m : RowsOf(users, m) # {} => RowsOf(users', m) # {}
    BY <1>0, <2>1, CreateUserNames DEF RowsOf
  <2> QED BY <1>0, <2>1, <2>2, <2>3
          DEF IInv, TypeOK, TcpTypeOK, tcpVars, QueueShape, NickIsAccount
<1>9. CASE UNCHANGED vars
  BY <1>0, <1>9 DEF IInv, vars, tcpVars, TypeOK, TcpTypeOK, QueueShape, NickIsAccount
<1> QED BY <1>2, <1>3, <1>4, <1>5, <1>6, <1>7, <1>8, <1>9 DEF Next

LEMMA IInvInit == Init => IInv
<1> SUFFICES ASSUME Init PROVE IInv
  OBVIOUS
<1>1. TypeOK
  <2>1. m_SendBuffer \in [Client -> Seq(Piece)]
    BY DEF Init, TcpInit
  <2> QED BY <2>1 DEF Init, TcpInit, TypeOK, TcpTypeOK, Table
<1>2. \A c \in Client : m_SendBuffer[c] = << >>
  BY DEF Init, TcpInit
<1> QED BY <1>1, <1>2 DEF IInv, QueueShape, NickIsAccount

LEMMA IInvAlways == Spec => []IInv
BY IInvInit, IInvStep, PTL DEF Spec

(* The variables of CClientSP keep their types. *)
THEOREM SearchTypes == Spec => []TypeOK
<1>1. IInv => TypeOK
  BY DEF IInv
<1> QED BY <1>1, IInvAlways, PTL

(* Whatever the network does, an answer of the search port is the last thing *)
(* in the queue, behind at most one failed query's.                          *)
THEOREM AnswerComesLast == Spec => []QueueShape
<1>1. IInv => QueueShape
  BY DEF IInv
<1> QED BY <1>1, IInvAlways, PTL

(* A nick that is sent is that of an account, also where queries fail, as    *)
(* long as e-mail address and password are texts the lookup carries as they  *)
(* are, which on SQLite is every text.                                       *)
THEOREM NicksAreReal ==
  ASSUME AsMeant(Email \cup Password)
  PROVE  Spec => []NickIsAccount
<1>1. IInv => NickIsAccount
  BY DEF IInv, NicksAsMeant
<1> QED BY <1>1, IInvAlways, PTL

=============================================================================
