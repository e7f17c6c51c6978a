--------------------------- MODULE GsServerProofs ---------------------------
(***************************************************************************)
(* Proofs about GsServer, for any number of connections and descriptors.   *)
(***************************************************************************)
EXTENDS GsServer, WellFoundedInduction, TLAPS

(* Erasing moves what is behind one place forward. *)
LEMMA Erased ==
  ASSUME NEW T, NEW s \in Seq(T), NEW i \in 1 .. Len(s)
  PROVE  /\ RemoveAt(s, i) \in Seq(T)
         /\ Len(RemoveAt(s, i)) = Len(s) - 1
         /\ \A j \in 1 .. Len(s) - 1 :
              RemoveAt(s, i)[j] = IF j < i THEN s[j] ELSE s[j + 1]
<1> DEFINE front == SubSeq(s, 1, i - 1)
           back == SubSeq(s, i + 1, Len(s))
<1>1. /\ front \in Seq(T) /\ Len(front) = i - 1
      /\ \A j \in 1 .. i - 1 : front[j] = s[j]
  OBVIOUS
<1>2. /\ back \in Seq(T) /\ Len(back) = Len(s) - i
      /\ \A j \in 1 .. Len(s) - i : back[j] = s[j + i]
  OBVIOUS
<1>3. RemoveAt(s, i) = front \o back
  BY DEF RemoveAt
<1> HIDE DEF front, back
<1>4. front \o back \in Seq(T) /\ Len(front \o back) = Len(s) - 1
  BY <1>1, <1>2
<1>5. ASSUME NEW j \in 1 .. Len(s) - 1
      PROVE  (front \o back)[j] = IF j < i THEN s[j] ELSE s[j + 1]
  <2>1. CASE j < i
    <3>1. j \in 1 .. i - 1 /\ (front \o back)[j] = front[j]
      BY <1>1, <1>2, <2>1
    <3> QED BY <1>1, <2>1, <3>1
  <2>2. CASE ~ (j < i)
    <3>1. j - (i - 1) \in 1 .. Len(s) - i /\ j - (i - 1) + i = j + 1
      BY <2>2
    <3>2. (front \o back)[j] = back[j - (i - 1)]
      BY <1>1, <1>2, <2>2
    <3> QED BY <1>2, <2>2, <3>1, <3>2
  <2> QED BY <2>1, <2>2
<1> QED BY <1>3, <1>4, <1>5

(* There is a lowest one of the free descriptors. *)
LEMMA LowestIsOne ==
  ASSUME NEW ds \in SUBSET Nat, ds # {}
  PROVE  Lowest(ds) \in ds
<1> DEFINE less == {p \in Nat \X Nat : p[1] < p[2]}
<1>1. IsWellFoundedOn(less, Nat)
  BY NatLessThanWellFounded, Zenon DEF OpToRel
<1> HIDE DEF less
<1>2. PICK d \in ds : \A e \in ds : ~ (<<e, d>> \in less)
  BY <1>1, WFMin, Zenon
<1>3. ASSUME NEW e \in ds PROVE d <= e
  <2>1. <<e, d>> \in Nat \X Nat /\ <<e, d>>[1] = e /\ <<e, d>>[2] = d
    OBVIOUS
  <2>2. ~ (e < d)
    BY <1>2, <2>1, Zenon DEF less
  <2>3. e \in Nat /\ d \in Nat
    OBVIOUS
  <2> QED BY <2>2, <2>3
<1> QED BY <1>3 DEF Lowest

-----------------------------------------------------------------------------
(* What an action that erases or appends a client does to the vectors. *)
LEMMA DeleteEffect ==
  ASSUME TypeOK, NEW s \in Service, DeleteClient(s)
  PROVE  /\ next \in 1 .. Len(m_Clients[s])
         /\ m_Clients' \in [Service -> Seq(Connection)]
         /\ \A t \in Service \ {s} : m_Clients'[t] = m_Clients[t]
         /\ Len(m_Clients'[s]) = Len(m_Clients[s]) - 1
         /\ \A j \in 1 .. Len(m_Clients[s]) - 1 :
              m_Clients'[s][j] = IF j < next THEN m_Clients[s][j] ELSE m_Clients[s][j + 1]
<1>1. m_Clients[s] \in Seq(Connection) /\ next \in 1 .. Len(m_Clients[s])
  BY DEF TypeOK, DeleteClient
<1>2. m_Clients' = [m_Clients EXCEPT ![s] = RemoveAt(m_Clients[s], next)]
  BY DEF DeleteClient
<1>3. /\ RemoveAt(m_Clients[s], next) \in Seq(Connection)
      /\ Len(RemoveAt(m_Clients[s], next)) = Len(m_Clients[s]) - 1
      /\ \A j \in 1 .. Len(m_Clients[s]) - 1 :
           RemoveAt(m_Clients[s], next)[j]
             = IF j < next THEN m_Clients[s][j] ELSE m_Clients[s][j + 1]
  BY <1>1, Erased
<1>4. /\ m_Clients'[s] = RemoveAt(m_Clients[s], next)
      /\ \A t \in Service \ {s} : m_Clients'[t] = m_Clients[t]
      /\ m_Clients' \in [Service -> Seq(Connection)]
  BY <1>2, <1>3 DEF TypeOK
<1> QED BY <1>1, <1>3, <1>4

LEMMA AcceptEffect ==
  ASSUME TypeOK, NEW s \in Service, AcceptOne(s)
  PROVE  /\ waiting[s] # << >> /\ waiting[s] \in Seq(Connection)
         /\ waiting[s][1] \in Connection
         /\ Lowest(Unused) \in Descriptor /\ owner[Lowest(Unused)] = Free
         /\ owner' = [owner EXCEPT ![Lowest(Unused)] = waiting[s][1]]
         /\ m_Clients' \in [Service -> Seq(Connection)]
         /\ waiting' \in [Service -> Seq(Connection)]
         /\ \A t \in Service \ {s} :
              m_Clients'[t] = m_Clients[t] /\ waiting'[t] = waiting[t]
         /\ Len(m_Clients'[s]) = Len(m_Clients[s]) + 1
         /\ m_Clients'[s][Len(m_Clients[s]) + 1] = waiting[s][1]
         /\ \A j \in 1 .. Len(m_Clients[s]) : m_Clients'[s][j] = m_Clients[s][j]
         /\ Len(waiting'[s]) = Len(waiting[s]) - 1
         /\ \A j \in 1 .. Len(waiting[s]) - 1 : waiting'[s][j] = waiting[s][j + 1]
<1>1. /\ m_Clients[s] \in Seq(Connection)
      /\ waiting[s] \in Seq(Connection) /\ waiting[s] # << >>
      /\ waiting[s][1] \in Connection
  BY DEF TypeOK, AcceptOne, Accepts
<1>2. Lowest(Unused) \in Unused
  <2>1. Unused \in SUBSET Nat /\ Unused # {}
    BY DescriptorAssumption DEF AcceptOne, Accepts, Unused, Descriptor
  <2> QED BY <2>1, LowestIsOne
<1>3. /\ owner' = [owner EXCEPT ![Lowest(Unused)] = waiting[s][1]]
      /\ m_Clients' = [m_Clients EXCEPT ![s] = Append(m_Clients[s], waiting[s][1])]
      /\ waiting' = [waiting EXCEPT ![s] = Tail(waiting[s])]
  BY <1>1 DEF AcceptOne
<1>4. /\ m_Clients'[s] = Append(m_Clients[s], waiting[s][1])
      /\ waiting'[s] = Tail(waiting[s])
      /\ \A t \in Service \ {s} : m_Clients'[t] = m_Clients[t] /\ waiting'[t] = waiting[t]
  BY <1>3 DEF TypeOK
<1>5. m_Clients'[s] \in Seq(Connection) /\ waiting'[s] \in Seq(Connection)
  BY <1>1, <1>4
<1>6. /\ m_Clients' \in [Service -> Seq(Connection)]
      /\ waiting' \in [Service -> Seq(Connection)]
  BY <1>3, <1>4, <1>5 DEF TypeOK
<1>7. /\ Len(m_Clients'[s]) = Len(m_Clients[s]) + 1
      /\ m_Clients'[s][Len(m_Clients[s]) + 1] = waiting[s][1]
      /\ \A j \in 1 .. Len(m_Clients[s]) : m_Clients'[s][j] = m_Clients[s][j]
  BY <1>1, <1>4
<1>8. /\ Len(waiting'[s]) = Len(waiting[s]) - 1
      /\ \A j \in 1 .. Len(waiting[s]) - 1 : waiting'[s][j] = waiting[s][j + 1]
  BY <1>1, <1>4
<1> QED BY <1>1, <1>2, <1>3, <1>4, <1>6, <1>7, <1>8 DEF Unused

(* Who is a client, by the places in the vectors. *)
LEMMA ClientPlaces ==
  ASSUME m_Clients \in [Service -> Seq(Connection)], NEW c
  PROVE  c \in AllClients <=> \E s \in Service : \E i \in 1 .. Len(m_Clients[s]) :
                                m_Clients[s][i] = c
<1>1. \A s \in Service : DOMAIN m_Clients[s] = 1 .. Len(m_Clients[s])
  OBVIOUS
<1> QED BY <1>1 DEF AllClients, ClientsOf, ToSet

LEMMA ClientsAreConnections ==
  ASSUME m_Clients \in [Service -> Seq(Connection)]
  PROVE  AllClients \subseteq Connection
<1>1. \A s \in Service : \A i \in 1 .. Len(m_Clients[s]) : m_Clients[s][i] \in Connection
  OBVIOUS
<1> QED BY <1>1, ClientPlaces

LEMMA NextClientPlaces ==
  ASSUME m_Clients' \in [Service -> Seq(Connection)], NEW c
  PROVE  c \in AllClients' <=> \E s \in Service : \E i \in 1 .. Len(m_Clients'[s]) :
                                 m_Clients'[s][i] = c
<1>1. \A s \in Service : DOMAIN m_Clients'[s] = 1 .. Len(m_Clients'[s])
  OBVIOUS
<1> QED BY <1>1 DEF AllClients, ClientsOf, ToSet

-----------------------------------------------------------------------------
(* Every step keeps the types. *)
LEMMA TypeOKStep == TypeOK /\ [Next]_vars => TypeOK'
<1> SUFFICES ASSUME TypeOK, [Next]_vars PROVE TypeOK'
  OBVIOUS
<1> USE DEF TypeOK
<1>0. /\ Service \subseteq Listener /\ First \in Service /\ Second \in Service
      /\ Available \in Listener /\ {1, 2, 3} \subseteq Descriptor
  BY ServiceAssumption, DescriptorAssumption DEF Listener, Descriptor
<1>1. NoOwner \in [Descriptor -> Connection \cup Listener \cup {Free}]
  BY DEF NoOwner
<1>2. ASSUME NEW o, Close(o)
      PROVE  owner' \in [Descriptor -> Connection \cup Listener \cup {Free}]
  BY <1>2 DEF Close
<1>3. CASE Start \/ StartWithoutDatabase
  BY <1>0, <1>1, <1>3 DEF Start, StartWithoutDatabase, Bindings
<1>4. CASE Exit \/ Signal
  <2>1. Gone
    BY <1>4 DEF Exit, Signal
  <2>2. [s \in Service |-> << >>] \in [Service -> Seq(Connection)]
    OBVIOUS
  <2>3. /\ m_Clients' \in [Service -> Seq(Connection)]
        /\ waiting' \in [Service -> Seq(Connection)]
    BY <2>1, <2>2 DEF Gone
  <2> QED BY <1>1, <2>1, <2>3 DEF Gone
<1>5. CASE Select
  <2>1. AllClients \subseteq Connection
    BY ClientPlaces
  <2> QED BY <1>0, <1>5, <2>1 DEF Select
<1>6. CASE Answer
  BY <1>1, <1>6 DEF Answer, EndOfLoop
<1>7. CASE Reset
  BY <1>1, <1>2, <1>7 DEF Reset, EndOfLoop
<1>8. ASSUME NEW s \in Service, KeepClient(s) PROVE TypeOK'
  <2>1. m_Clients[s][next] \in Connection
    BY <1>8 DEF KeepClient
  <2> QED BY <1>8, <2>1 DEF KeepClient
<1>9. ASSUME NEW s \in Service, DeleteClient(s) PROVE TypeOK'
  <2>1. m_Clients' \in [Service -> Seq(Connection)]
    BY <1>9, DeleteEffect
  <2>2. owner' \in [Descriptor -> Connection \cup Listener \cup {Free}]
    BY <1>2, <1>9 DEF DeleteClient
  <2> QED BY <1>9, <2>1, <2>2 DEF DeleteClient
<1>10. ASSUME NEW s \in Service, AcceptOne(s) PROVE TypeOK'
  <2>1. /\ m_Clients' \in [Service -> Seq(Connection)]
        /\ waiting' \in [Service -> Seq(Connection)]
        /\ owner' \in [Descriptor -> Connection \cup Listener \cup {Free}]
    BY <1>10, AcceptEffect
  <2> QED BY <1>0, <1>10, <2>1 DEF AcceptOne, EndOfPass
<1>11. ASSUME NEW s \in Service, AcceptNone(s) PROVE TypeOK'
  BY <1>0, <1>11 DEF AcceptNone, EndOfPass
<1>12. ASSUME NEW s \in Service, NEW c \in Connection, Connect(s, c) PROVE TypeOK'
  BY <1>12 DEF Connect
<1>13. CASE UNCHANGED vars
  BY <1>13 DEF vars
<1> QED BY <1>3, <1>4, <1>5, <1>6, <1>7, <1>8, <1>9, <1>10, <1>11, <1>12, <1>13
        DEF Next, Run, Pass

-----------------------------------------------------------------------------
(* The inductive invariant.  Who waits is no client and waits once; before   *)
(* the start nothing is there; the loop goes on only if every socket was     *)
(* bound, and all of them still are but a UDP socket that was reset; a       *)
(* client still to be passed over has the descriptor it had when the sets    *)
(* were filled.                                                              *)
WaitsOnce ==
  \A s, t \in Service :
    \A i \in 1 .. Len(waiting[s]), j \in 1 .. Len(waiting[t]) :
      waiting[s][i] = waiting[t][j] => s = t /\ i = j

WaitsOutside ==
  \A s, t \in Service :
    \A i \in 1 .. Len(m_Clients[s]), j \in 1 .. Len(waiting[t]) :
      m_Clients[s][i] # waiting[t][j]

NothingYet ==
  at = "start" =>
    owner = NoOwner /\ ~reset /\ \A s \in Service : m_Clients[s] = << >>

HasSocket == \E d \in Descriptor : owner[d] = Available

LoopsWhole ==
  /\ at \in Listener => ~m_Exiting
  /\ at \in Listener \cup {"loop"} /\ ~m_Exiting =>
       /\ Service \subseteq listening
       /\ Available \in listening <=> ~reset
       /\ Available \in listening <=> HasSocket

SameBit ==
  \A c \in Coming : \A d \in Descriptor : owner[d] = c => snapshot[d] = c

Placed == InOneVector /\ WaitsOnce /\ WaitsOutside

IInv ==
  /\ TypeOK
  /\ Placed
  /\ NoneLeaked /\ NoneLost /\ OneEach
  /\ NothingYet
  /\ LoopsWhole
  /\ EveryClientPassed
  /\ SameBit

(* The socket of no service is a client's, and places are numbers. *)
LEMMA Names ==
  /\ First \in Service /\ Second \in Service /\ First # Second
  /\ Service = {First, Second}
  /\ Service \subseteq Listener /\ Available \in Listener /\ Available \notin Service
  /\ {"start", "loop", "exit"} \cap Listener = {}
  /\ Connection \cap Listener = {} /\ Free \notin Connection \cup Listener
  /\ {1, 2, 3} \subseteq Descriptor
BY ServiceAssumption, OwnerAssumption, DescriptorAssumption DEF Listener, Descriptor

(* Nobody is in two places, among the clients or among those that wait. *)
LEMMA PlacedStep == TypeOK /\ Placed /\ [Next]_vars => Placed'
<1> SUFFICES ASSUME TypeOK, Placed, [Next]_vars PROVE Placed'
  OBVIOUS
<1>0. /\ m_Clients \in [Service -> Seq(Connection)]
      /\ waiting \in [Service -> Seq(Connection)]
  BY DEF TypeOK
<1>1. CASE UNCHANGED <<m_Clients, waiting>>
  BY <1>1 DEF Placed, InOneVector, WaitsOnce, WaitsOutside
<1>2. CASE Gone
  BY <1>2 DEF Gone, Placed, InOneVector, WaitsOnce, WaitsOutside
<1>3. ASSUME NEW s \in Service, DeleteClient(s) PROVE Placed'
  <2>1. waiting' = waiting
    BY <1>3 DEF DeleteClient
  <2>2. \A t \in Service : \A j \in 1 .. Len(m_Clients'[t]) :
          \E i \in 1 .. Len(m_Clients[t]) :
            /\ m_Clients'[t][j] = m_Clients[t][i]
            /\ i = IF t = s /\ j >= next THEN j + 1 ELSE j
    <3>1. ASSUME NEW j \in 1 .. Len(m_Clients'[s])
          PROVE  \E i \in 1 .. Len(m_Clients[s]) :
                   /\ m_Clients'[s][j] = m_Clients[s][i]
                   /\ i = IF j >= next THEN j + 1 ELSE j
      BY <1>0, <1>3, DeleteEffect
    <3> QED BY <1>3, <3>1, DeleteEffect
  <2>3. WaitsOutside'
    BY <2>1, <2>2 DEF Placed, WaitsOutside
  <2>4. InOneVector'
    <3> SUFFICES ASSUME NEW t \in Service, NEW u \in Service,
                        NEW i \in 1 .. Len(m_Clients'[t]), NEW j \in 1 .. Len(m_Clients'[u]),
                        m_Clients'[t][i] = m_Clients'[u][j]
                 PROVE  t = u /\ i = j
      <4>1. m_Clients' \in [Service -> Seq(Connection)]
        BY <1>3, DeleteEffect
      <4> QED BY <4>1 DEF InOneVector
    <3>1. PICK k \in 1 .. Len(m_Clients[t]) :
            /\ m_Clients'[t][i] = m_Clients[t][k]
            /\ k = IF t = s /\ i >= next THEN i + 1 ELSE i
      BY <2>2
    <3>2. PICK l \in 1 .. Len(m_Clients[u]) :
            /\ m_Clients'[u][j] = m_Clients[u][l]
            /\ l = IF u = s /\ j >= next THEN j + 1 ELSE j
      BY <2>2
    <3>3. m_Clients[t][k] = m_Clients[u][l]
      BY <3>1, <3>2
    <3>4. k \in DOMAIN m_Clients[t] /\ l \in DOMAIN m_Clients[u]
      BY <1>0
    <3>5. t = u /\ k = l
      BY <3>3, <3>4, Zenon DEF Placed, InOneVector
    <3> QED BY <3>1, <3>2, <3>5 DEF TypeOK
  <2> QED BY <2>1, <2>3, <2>4 DEF Placed, WaitsOnce
<1>4. ASSUME NEW s \in Service, AcceptOne(s) PROVE Placed'
  <2> DEFINE head == waiting[s][1]
             new == Len(m_Clients[s]) + 1
  <2>1. \A t \in Service : \A j \in 1 .. Len(m_Clients'[t]) :
          \/ j \in 1 .. Len(m_Clients[t]) /\ m_Clients'[t][j] = m_Clients[t][j]
          \/ t = s /\ j = new /\ m_Clients'[t][j] = head
    BY <1>0, <1>4, AcceptEffect
  <2>2. \A t \in Service : \A j \in 1 .. Len(waiting'[t]) :
          \E i \in 1 .. Len(waiting[t]) :
            /\ waiting'[t][j] = waiting[t][i]
            /\ i = IF t = s THEN j + 1 ELSE j
    <3>1. ASSUME NEW j \in 1 .. Len(waiting'[s])
          PROVE  j + 1 \in 1 .. Len(waiting[s]) /\ waiting'[s][j] = waiting[s][j + 1]
      BY <1>0, <1>4, AcceptEffect
    <3> QED BY <1>4, <3>1, AcceptEffect
  <2>3. 1 \in 1 .. Len(waiting[s])
    BY <1>0, <1>4, AcceptEffect
  <2>4. \A t \in Service : \A i \in 1 .. Len(m_Clients[t]) : m_Clients[t][i] # head
    BY <2>3 DEF Placed, WaitsOutside
  <2>5. \A t \in Service : \A j \in 1 .. Len(waiting'[t]) : waiting'[t][j] # head
    <3> SUFFICES ASSUME NEW t \in Service, NEW j \in 1 .. Len(waiting'[t]),
                        waiting'[t][j] = head
                 PROVE  FALSE
      OBVIOUS
    <3>1. PICK i \in 1 .. Len(waiting[t]) :
            waiting'[t][j] = waiting[t][i] /\ i = IF t = s THEN j + 1 ELSE j
      BY <2>2
    <3>2. t = s /\ i = 1
      <4>1. waiting[t][i] = waiting[s][1]
        BY <3>1
      <4> QED BY <2>3, <4>1, Zenon DEF Placed, WaitsOnce
    <3> QED BY <3>1, <3>2
  <2> HIDE DEF head
  <2>6. InOneVector'
    <3>1. \A t \in Service : DOMAIN m_Clients'[t] = 1 .. Len(m_Clients'[t])
                             /\ DOMAIN m_Clients[t] = 1 .. Len(m_Clients[t])
      BY <1>0, <1>4, AcceptEffect
    <3> SUFFICES ASSUME NEW t \in Service, NEW u \in Service,
                        NEW i \in 1 .. Len(m_Clients'[t]), NEW j \in 1 .. Len(m_Clients'[u]),
                        m_Clients'[t][i] = m_Clients'[u][j]
                 PROVE  t = u /\ i = j
      BY <3>1 DEF InOneVector
    <3>2. CASE i \in 1 .. Len(m_Clients[t]) /\ j \in 1 .. Len(m_Clients[u])
      <4>1. m_Clients[t][i] = m_Clients[u][j]
        BY <1>0, <1>4, <3>2, AcceptEffect
      <4> QED BY <3>1, <3>2, <4>1 DEF Placed, InOneVector
    <3>3. CASE i \in 1 .. Len(m_Clients[t]) /\ j \notin 1 .. Len(m_Clients[u])
      <4>1. m_Clients'[t][i] = m_Clients[t][i] /\ m_Clients'[u][j] = head
        BY <1>0, <1>4, <2>1, <3>3, AcceptEffect
      <4> QED BY <2>4, <3>3, <4>1
    <3>4. CASE i \notin 1 .. Len(m_Clients[t])
      <4>1. t = s /\ i = new /\ m_Clients'[u][j] = head
        BY <2>1, <3>4
      <4>2. j \notin 1 .. Len(m_Clients[u])
        <5>1. j \in 1 .. Len(m_Clients[u]) => m_Clients'[u][j] = m_Clients[u][j]
          BY <1>0, <1>4, AcceptEffect
        <5> QED BY <2>4, <4>1, <5>1
      <4> QED BY <2>1, <4>1, <4>2
    <3> QED BY <3>2, <3>3, <3>4
  <2>7. WaitsOnce'
    <3> SUFFICES ASSUME NEW t \in Service, NEW u \in Service,
                        NEW i \in 1 .. Len(waiting'[t]), NEW j \in 1 .. Len(waiting'[u]),
                        waiting'[t][i] = waiting'[u][j]
                 PROVE  t = u /\ i = j
      BY DEF WaitsOnce
    <3>1. PICK k \in 1 .. Len(waiting[t]) :
            waiting'[t][i] = waiting[t][k] /\ k = IF t = s THEN i + 1 ELSE i
      BY <2>2
    <3>2. PICK l \in 1 .. Len(waiting[u]) :
            waiting'[u][j] = waiting[u][l] /\ l = IF u = s THEN j + 1 ELSE j
      BY <2>2
    <3>3. t = u /\ k = l
      <4>1. waiting[t][k] = waiting[u][l]
        BY <3>1, <3>2
      <4> QED BY <4>1 DEF Placed, WaitsOnce
    <3> QED BY <1>0, <3>1, <3>2, <3>3
  <2>8. WaitsOutside'
    <3> SUFFICES ASSUME NEW t \in Service, NEW u \in Service,
                        NEW i \in 1 .. Len(m_Clients'[t]), NEW j \in 1 .. Len(waiting'[u])
                 PROVE  m_Clients'[t][i] # waiting'[u][j]
      BY DEF WaitsOutside
    <3>1. PICK k \in 1 .. Len(waiting[u]) : waiting'[u][j] = waiting[u][k]
      BY <2>2
    <3> QED BY <2>1, <2>5, <3>1 DEF Placed, WaitsOutside
  <2> QED BY <2>6, <2>7, <2>8 DEF Placed
<1>5. ASSUME NEW s \in Service, NEW c \in Connection, Connect(s, c) PROVE Placed'
  <2>1. /\ m_Clients' = m_Clients
        /\ waiting' = [waiting EXCEPT ![s] = Append(waiting[s], c)]
        /\ c \notin AllClients /\ \A t \in Service : c \notin ToSet(waiting[t])
    BY <1>5 DEF Connect
  <2>2. \A t \in Service : \A i \in 1 .. Len(m_Clients[t]) : m_Clients[t][i] # c
    BY <1>0, <2>1, ClientPlaces
  <2>3. \A t \in Service : \A i \in 1 .. Len(waiting[t]) : waiting[t][i] # c
    BY <1>0, <2>1 DEF ToSet
  <2>4. \A t \in Service : \A i \in 1 .. Len(waiting'[t]) :
          \/ i \in 1 .. Len(waiting[t]) /\ waiting'[t][i] = waiting[t][i]
          \/ t = s /\ i = Len(waiting[s]) + 1 /\ waiting'[t][i] = c
    BY <1>0, <2>1
  <2>5. WaitsOnce'
    BY <2>3, <2>4 DEF Placed, WaitsOnce
  <2>6. WaitsOutside'
    BY <2>1, <2>2, <2>4 DEF Placed, WaitsOutside
  <2> QED BY <2>1, <2>5, <2>6 DEF Placed, InOneVector
<1>6. CASE Start \/ StartWithoutDatabase \/ Exit \/ Signal \/ Select \/ Answer \/ Reset
  BY <1>1, <1>2, <1>6 DEF Start, StartWithoutDatabase, Exit, Signal, Select, Answer,
                          Reset, EndOfLoop
<1>7. ASSUME NEW s \in Service, KeepClient(s) \/ AcceptNone(s) PROVE Placed'
  BY <1>1, <1>7 DEF KeepClient, AcceptNone
<1>8. CASE UNCHANGED vars
  BY <1>1, <1>8 DEF vars
<1> QED BY <1>3, <1>4, <1>5, <1>6, <1>7, <1>8 DEF Next, Run, Pass

(* What erasing and accepting do to the set of the clients. *)
LEMMA ClientsAfterDelete ==
  ASSUME TypeOK, Placed, NEW s \in Service, DeleteClient(s)
  PROVE  /\ m_Clients[s][next] \in Connection
         /\ AllClients' = AllClients \ {m_Clients[s][next]}
<1> DEFINE gone == m_Clients[s][next]
<1>0. /\ m_Clients \in [Service -> Seq(Connection)] /\ next \in 1 .. Len(m_Clients[s])
      /\ m_Clients' \in [Service -> Seq(Connection)]
  BY DeleteEffect DEF TypeOK
<1>1. gone \in Connection
  BY <1>0
<1>2. ASSUME NEW c \in AllClients' PROVE c \in AllClients /\ c # gone
  <2>0. PICK t \in Service : \E j \in 1 .. Len(m_Clients'[t]) : m_Clients'[t][j] = c
    BY <1>0, NextClientPlaces
  <2>1. PICK j \in 1 .. Len(m_Clients'[t]) : m_Clients'[t][j] = c
    BY <2>0
  <2> DEFINE i == IF t = s /\ j >= next THEN j + 1 ELSE j
  <2>2. i \in 1 .. Len(m_Clients[t]) /\ m_Clients[t][i] = c /\ (t = s => i # next)
    BY <1>0, <2>1, DeleteEffect
  <2>3. c \in AllClients
    BY <1>0, <2>2, ClientPlaces
  <2>4. c # gone
    <3>1. i \in DOMAIN m_Clients[t] /\ next \in DOMAIN m_Clients[s]
      BY <1>0, <2>2
    <3> HIDE DEF i
    <3> QED BY <2>2, <3>1 DEF Placed, InOneVector
  <2> QED BY <2>3, <2>4
<1>3. ASSUME NEW c \in AllClients, c # gone PROVE c \in AllClients'
  <2>0. PICK t \in Service : \E i \in 1 .. Len(m_Clients[t]) : m_Clients[t][i] = c
    BY <1>0, ClientPlaces
  <2>1. PICK i \in 1 .. Len(m_Clients[t]) : m_Clients[t][i] = c
    BY <2>0
  <2> DEFINE j == IF t = s /\ i >= next THEN i - 1 ELSE i
  <2>2. t = s => i # next
    BY <1>3, <2>1
  <2>3. j \in 1 .. Len(m_Clients'[t]) /\ m_Clients'[t][j] = c
    <3>1. CASE t # s
      BY <2>1, <3>1, DeleteEffect
    <3>2. CASE t = s /\ i < next
      BY <1>0, <2>1, <3>2, DeleteEffect
    <3>3. CASE t = s /\ ~ (i < next)
      <4>1. i > next /\ j = i - 1 /\ j \in 1 .. Len(m_Clients[s]) - 1 /\ ~ (j < next)
        BY <1>0, <2>1, <2>2, <3>3
      <4>2. m_Clients'[s][j] = m_Clients[s][j + 1] /\ Len(m_Clients'[s]) = Len(m_Clients[s]) - 1
        BY <4>1, DeleteEffect
      <4>3. j + 1 = i
        BY <1>0, <4>1
      <4> QED BY <2>1, <3>3, <4>1, <4>2, <4>3
    <3> QED BY <3>1, <3>2, <3>3
  <2> QED BY <1>0, <2>3, NextClientPlaces
<1> QED BY <1>1, <1>2, <1>3

LEMMA ClientsAfterAccept ==
  ASSUME TypeOK, Placed, NEW s \in Service, AcceptOne(s)
  PROVE  /\ waiting[s][1] \in Connection /\ waiting[s][1] \notin AllClients
         /\ AllClients' = AllClients \cup {waiting[s][1]}
<1>0. /\ m_Clients \in [Service -> Seq(Connection)]
      /\ m_Clients' \in [Service -> Seq(Connection)]
      /\ 1 \in 1 .. Len(waiting[s])
  BY AcceptEffect DEF TypeOK
<1>1. waiting[s][1] \notin AllClients
  <2>1. \A t \in Service : \A i \in 1 .. Len(m_Clients[t]) :
          m_Clients[t][i] # waiting[s][1]
    BY <1>0 DEF Placed, WaitsOutside
  <2> QED BY <1>0, <2>1, ClientPlaces
<1>2. ASSUME NEW t \in Service, NEW j \in 1 .. Len(m_Clients'[t])
      PROVE  \/ j \in 1 .. Len(m_Clients[t]) /\ m_Clients'[t][j] = m_Clients[t][j]
             \/ m_Clients'[t][j] = waiting[s][1]
  <2>1. CASE t = s
    BY <1>0, <2>1, AcceptEffect
  <2>2. CASE t # s
    BY <2>2, AcceptEffect
  <2> QED BY <2>1, <2>2
<1>3. ASSUME NEW t \in Service, NEW j \in 1 .. Len(m_Clients[t])
      PROVE  j \in 1 .. Len(m_Clients'[t]) /\ m_Clients'[t][j] = m_Clients[t][j]
  <2>1. CASE t = s
    BY <1>0, <2>1, AcceptEffect
  <2>2. CASE t # s
    BY <2>2, AcceptEffect
  <2> QED BY <2>1, <2>2
<1>4. ASSUME NEW c \in AllClients' PROVE c \in AllClients \cup {waiting[s][1]}
  <2>0. PICK t \in Service : \E j \in 1 .. Len(m_Clients'[t]) : m_Clients'[t][j] = c
    BY <1>0, NextClientPlaces
  <2>1. PICK j \in 1 .. Len(m_Clients'[t]) : m_Clients'[t][j] = c
    BY <2>0
  <2> QED BY <1>0, <1>2, <2>1, ClientPlaces
<1>5. ASSUME NEW c \in AllClients PROVE c \in AllClients'
  <2>0. PICK t \in Service : \E j \in 1 .. Len(m_Clients[t]) : m_Clients[t][j] = c
    BY <1>0, ClientPlaces
  <2>1. PICK j \in 1 .. Len(m_Clients[t]) : m_Clients[t][j] = c
    BY <2>0
  <2> QED BY <1>0, <1>3, <2>1, NextClientPlaces
<1>6. waiting[s][1] \in AllClients'
  <2>1. /\ Len(m_Clients[s]) + 1 \in 1 .. Len(m_Clients'[s])
        /\ m_Clients'[s][Len(m_Clients[s]) + 1] = waiting[s][1]
    BY <1>0, AcceptEffect
  <2> QED BY <1>0, <2>1, NextClientPlaces
<1>7. waiting[s][1] \in Connection
  BY AcceptEffect
<1> QED BY <1>1, <1>4, <1>5, <1>6, <1>7

(* No step leaks a descriptor, closes one under its owner, or shares one. *)
LEMMA OwnersStep ==
  ASSUME TypeOK, Placed, NoneLeaked, NoneLost, OneEach, NothingYet, [Next]_vars
  PROVE  NoneLeaked' /\ NoneLost' /\ OneEach'
<1>0. owner \in [Descriptor -> Connection \cup Listener \cup {Free}]
  BY DEF TypeOK
<1>1. CASE UNCHANGED <<m_Clients, owner>>
  <2>1. AllClients' = AllClients
    BY <1>1 DEF AllClients, ClientsOf
  <2> QED BY <1>1, <2>1 DEF NoneLeaked, NoneLost, OneEach
<1>2. CASE Gone
  <2>1. AllClients' = {}
    BY <1>2 DEF Gone, AllClients, ClientsOf, ToSet
  <2>2. \A d \in Descriptor : owner'[d] = Free
    BY <1>2 DEF Gone, NoOwner
  <2> QED BY <2>1, <2>2, Names DEF NoneLeaked, NoneLost, OneEach
<1>3. CASE Start
  <2>1. AllClients' = {}
    BY <1>3 DEF Start, NothingYet, AllClients, ClientsOf, ToSet
  <2>2. \A d \in Descriptor :
          owner'[d] = IF d = 1 THEN First ELSE IF d = 2 THEN Second
                      ELSE IF d = 3 THEN Available ELSE Free
    BY <1>3 DEF Start, NoOwner, Descriptor
  <2>3. First # Second /\ First # Available /\ Second # Available
        /\ {First, Second, Available, Free} \cap Connection = {}
        /\ Free \notin {First, Second, Available}
    BY Names
  <2> QED BY <2>1, <2>2, <2>3 DEF NoneLeaked, NoneLost, OneEach
<1>4. ASSUME NEW s \in Service, DeleteClient(s) PROVE NoneLeaked' /\ NoneLost' /\ OneEach'
  <2> DEFINE gone == m_Clients[s][next]
  <2>1. gone \in Connection /\ AllClients' = AllClients \ {gone}
    BY <1>4, ClientsAfterDelete
  <2>2. \A d \in Descriptor : owner'[d] = IF owner[d] = gone THEN Free ELSE owner[d]
    BY <1>4 DEF DeleteClient, Close
  <2> HIDE DEF gone
  <2> QED BY <2>1, <2>2, Names DEF NoneLeaked, NoneLost, OneEach
<1>5. ASSUME NEW s \in Service, AcceptOne(s) PROVE NoneLeaked' /\ NoneLost' /\ OneEach'
  <2> DEFINE head == waiting[s][1]
             low == Lowest(Unused)
  <2>1. head \in Connection /\ head \notin AllClients /\ AllClients' = AllClients \cup {head}
    BY <1>5, ClientsAfterAccept
  <2>2. /\ low \in Descriptor /\ owner[low] = Free
        /\ owner' = [owner EXCEPT ![low] = head]
    BY <1>5, AcceptEffect
  <2> HIDE DEF head, low
  <2>3. owner'[low] = head /\ \A d \in Descriptor \ {low} : owner'[d] = owner[d]
    BY <1>0, <2>2
  <2>4. \A d \in Descriptor : owner[d] # head
    BY <2>1 DEF NoneLeaked
  <2>5. NoneLeaked'
    BY <2>1, <2>3 DEF NoneLeaked
  <2>6. NoneLost'
    <3>1. ASSUME NEW c \in AllClients PROVE \E d \in Descriptor : owner'[d] = c
      <4>1. PICK d \in Descriptor : owner[d] = c
        BY DEF NoneLost
      <4>2. c \in Connection
        BY ClientsAreConnections DEF TypeOK
      <4> QED BY <2>2, <2>3, <4>1, <4>2, Names
    <3> QED BY <2>1, <2>2, <2>3, <3>1 DEF NoneLost
  <2>7. OneEach'
    BY <2>3, <2>4 DEF OneEach
  <2> QED BY <2>5, <2>6, <2>7
<1>6. CASE Reset
  <2>1. AllClients' = AllClients
    BY <1>6 DEF Reset, EndOfLoop, AllClients, ClientsOf
  <2>2. \A d \in Descriptor : owner'[d] = IF owner[d] = Available THEN Free ELSE owner[d]
    BY <1>6 DEF Reset, Close
  <2>3. AllClients \subseteq Connection
    BY ClientsAreConnections DEF TypeOK
  <2> QED BY <2>1, <2>2, <2>3, Names DEF NoneLeaked, NoneLost, OneEach
<1>7. CASE StartWithoutDatabase \/ Exit \/ Signal \/ Select \/ Answer
  BY <1>1, <1>2, <1>7 DEF StartWithoutDatabase, Exit, Signal, Select, Answer, EndOfLoop
<1>8. ASSUME NEW s \in Service, KeepClient(s) \/ AcceptNone(s) \/ \E c \in Connection : Connect(s, c)
      PROVE  NoneLeaked' /\ NoneLost' /\ OneEach'
  BY <1>1, <1>8 DEF KeepClient, AcceptNone, Connect
<1>9. CASE UNCHANGED vars
  BY <1>1, <1>9 DEF vars
<1> QED BY <1>3, <1>4, <1>5, <1>6, <1>7, <1>8, <1>9 DEF Next, Run, Pass

(* A pass leaves the UDP socket its descriptor. *)
LEMMA SocketKept ==
  ASSUME TypeOK, NEW s \in Service, Pass(s)
  PROVE  HasSocket' = HasSocket
<1>0. \A c \in Connection \cup {Free} : c # Available
  BY Names
<1>1. CASE KeepClient(s) \/ AcceptNone(s)
  BY <1>1 DEF KeepClient, AcceptNone, HasSocket
<1>2. CASE DeleteClient(s)
  <2>1. m_Clients[s][next] # Available /\ Free # Available
    <3>1. m_Clients[s][next] \in Connection
      BY <1>2 DEF DeleteClient, TypeOK
    <3> QED BY <1>0, <3>1
  <2>2. \A d \in Descriptor : owner'[d] = Available <=> owner[d] = Available
    BY <1>2, <2>1 DEF DeleteClient, Close
  <2> QED BY <2>2 DEF HasSocket
<1>3. CASE AcceptOne(s)
  <2> DEFINE low == Lowest(Unused)
  <2>1. /\ owner[low] = Free /\ waiting[s][1] \in Connection
        /\ owner' = [owner EXCEPT ![low] = waiting[s][1]]
    BY <1>3, AcceptEffect
  <2>2. \A d \in Descriptor : owner'[d] = Available <=> owner[d] = Available
    BY <1>0, <2>1 DEF TypeOK
  <2> QED BY <2>2 DEF HasSocket
<1> QED BY <1>1, <1>2, <1>3 DEF Pass

(* Nothing is there before the start, and only a whole server loops. *)
LEMMA StartStep ==
  ASSUME TypeOK, NothingYet, LoopsWhole, [Next]_vars
  PROVE  NothingYet' /\ LoopsWhole'
<1>1. CASE Start
  <2>1. HasSocket'
    <3>1. 3 \in Descriptor /\ owner'[3] = Available
      BY <1>1, DescriptorAssumption DEF Start, NoOwner, Descriptor
    <3> QED BY <3>1 DEF HasSocket
  <2>2. /\ at' = "loop" /\ ~reset' /\ m_Exiting' = (listening' # Listener)
        /\ Service \subseteq Listener /\ Available \in Listener
    BY <1>1, Names DEF Start, NothingYet
  <2> QED BY <2>1, <2>2, Names DEF NothingYet, LoopsWhole
<1>2. CASE StartWithoutDatabase \/ Exit \/ Signal
  BY <1>2, Names DEF StartWithoutDatabase, Exit, Signal, Gone, NothingYet, LoopsWhole
<1>3. CASE Select
  BY <1>3, Names DEF Select, NothingYet, LoopsWhole, HasSocket
<1>4. CASE Answer
  BY <1>4, Names DEF Answer, EndOfLoop, NothingYet, LoopsWhole, HasSocket
<1>5. CASE Reset
  <2>1. ~HasSocket'
    <3>1. \A d \in Descriptor : owner'[d] # Available
      BY <1>5, Names DEF Reset, Close
    <3> QED BY <3>1 DEF HasSocket
  <2>2. /\ at = Available /\ at' = "loop" /\ m_Exiting' = m_Exiting
        /\ reset' = TRUE /\ listening' = listening \ {Available}
    BY <1>5 DEF Reset, EndOfLoop
  <2>3. ~m_Exiting => Service \subseteq listening' /\ Available \notin listening'
    BY <2>2, Names DEF LoopsWhole
  <2>4. /\ ~m_Exiting => (Available \in listening' <=> ~reset')
        /\ ~m_Exiting => (Available \in listening' <=> HasSocket')
    BY <2>1, <2>2, <2>3
  <2> QED BY <2>2, <2>3, <2>4, Names DEF NothingYet, LoopsWhole
<1>6. ASSUME NEW s \in Service, Pass(s) PROVE NothingYet' /\ LoopsWhole'
  <2>1. /\ at = s /\ at' \in Listener /\ UNCHANGED <<m_Exiting, listening, reset>>
    BY <1>6, Names DEF Pass, KeepClient, DeleteClient, AcceptOne, AcceptNone, EndOfPass
  <2>2. HasSocket' = HasSocket
    BY <1>6, SocketKept
  <2> QED BY <2>1, <2>2, Names DEF NothingYet, LoopsWhole
<1>7. ASSUME NEW s \in Service, NEW c \in Connection, Connect(s, c)
      PROVE  NothingYet' /\ LoopsWhole'
  BY <1>7 DEF Connect, NothingYet, LoopsWhole, HasSocket
<1>8. CASE UNCHANGED vars
  BY <1>8 DEF vars, NothingYet, LoopsWhole, HasSocket
<1> QED BY <1>1, <1>2, <1>3, <1>4, <1>5, <1>6, <1>7, <1>8 DEF Next, Run

-----------------------------------------------------------------------------
(* The pass.  Who is still to be passed over, by the places in the vectors:  *)
(* behind the iterator, or at the second service while the first has its     *)
(* turn.                                                                     *)
Ahead(t, i) == (at = t /\ i >= next) \/ (at = First /\ t = Second)

LEMMA ComingPlaces ==
  ASSUME TypeOK, NEW c
  PROVE  c \in Coming <=> \E t \in Service : \E i \in 1 .. Len(m_Clients[t]) :
                            m_Clients[t][i] = c /\ Ahead(t, i)
<1>0. /\ m_Clients \in [Service -> Seq(Connection)] /\ next \in Nat \ {0}
      /\ \A s \in Service : DOMAIN m_Clients[s] = 1 .. Len(m_Clients[s])
  BY DEF TypeOK
<1>1. \A t \in Service : c \in ComingOf(t) <=>
        \E i \in 1 .. Len(m_Clients[t]) : m_Clients[t][i] = c /\ Ahead(t, i)
  <2> SUFFICES ASSUME NEW t \in Service
               PROVE  c \in ComingOf(t) <=>
                        \E i \in 1 .. Len(m_Clients[t]) : m_Clients[t][i] = c /\ Ahead(t, i)
    OBVIOUS
  <2>1. CASE at = t
    <3>1. ComingOf(t) = {m_Clients[t][i] : i \in next .. Len(m_Clients[t])}
      BY <2>1 DEF ComingOf
    <3>2. \A i \in 1 .. Len(m_Clients[t]) : Ahead(t, i) <=> i \in next .. Len(m_Clients[t])
      BY <1>0, <2>1, Names DEF Ahead
    <3>3. next .. Len(m_Clients[t]) \subseteq 1 .. Len(m_Clients[t])
      BY <1>0
    <3> QED BY <3>1, <3>2, <3>3
  <2>2. CASE at # t /\ at = First
    <3>1. t = Second /\ ComingOf(t) = ClientsOf(t)
      BY <2>2, Names DEF ComingOf
    <3> QED BY <1>0, <2>2, <3>1 DEF Ahead, ClientsOf, ToSet
  <2>3. CASE at # t /\ at # First
    BY <2>3 DEF ComingOf, Ahead
  <2> QED BY <2>1, <2>2, <2>3
<1> QED BY <1>1 DEF Coming

LEMMA NextComingPlaces ==
  ASSUME TypeOK', NEW c
  PROVE  c \in Coming' <=> \E t \in Service : \E i \in 1 .. Len(m_Clients'[t]) :
            /\ m_Clients'[t][i] = c
            /\ (at' = t /\ i >= next') \/ (at' = First /\ t = Second)
<1>0. /\ m_Clients' \in [Service -> Seq(Connection)] /\ next' \in Nat \ {0}
      /\ \A s \in Service : DOMAIN m_Clients'[s] = 1 .. Len(m_Clients'[s])
  BY DEF TypeOK
<1>1. ASSUME NEW t \in Service
      PROVE  c \in ComingOf(t)' <=> \E i \in 1 .. Len(m_Clients'[t]) :
               /\ m_Clients'[t][i] = c
               /\ (at' = t /\ i >= next') \/ (at' = First /\ t = Second)
  <2>1. CASE at' = t
    <3>1. ComingOf(t)' = {m_Clients'[t][i] : i \in next' .. Len(m_Clients'[t])}
      BY <2>1 DEF ComingOf
    <3>2. \A i \in 1 .. Len(m_Clients'[t]) :
            (at' = t /\ i >= next') \/ (at' = First /\ t = Second)
              <=> i \in next' .. Len(m_Clients'[t])
      BY <1>0, <2>1, Names
    <3>3. next' .. Len(m_Clients'[t]) \subseteq 1 .. Len(m_Clients'[t])
      BY <1>0
    <3> QED BY <3>1, <3>2, <3>3
  <2>2. CASE at' # t /\ at' = First
    <3>1. t = Second /\ ComingOf(t)' = ClientsOf(t)'
      BY <2>2, Names DEF ComingOf
    <3> QED BY <1>0, <2>2, <3>1 DEF ClientsOf, ToSet
  <2>3. CASE at' # t /\ at' # First
    BY <2>3 DEF ComingOf
  <2> QED BY <2>1, <2>2, <2>3
<1>2. Coming' = UNION {ComingOf(t)' : t \in Service}
  BY DEF Coming
<1> QED BY <1>1, <1>2

(* What a step of the vectors does to the clients still to be passed over. *)
LEMMA ComingAfterPass ==
  ASSUME TypeOK, TypeOK', Placed, NEW s \in Service, KeepClient(s) \/ DeleteClient(s)
  PROVE  Coming' = Coming \ {m_Clients[s][next]} /\ due' = due \ {m_Clients[s][next]}
<1> DEFINE passed == m_Clients[s][next]
<1>0. /\ m_Clients \in [Service -> Seq(Connection)] /\ next \in 1 .. Len(m_Clients[s])
      /\ at = s /\ at' = s
  BY DEF TypeOK, KeepClient, DeleteClient
<1>1. \A c : c \in Coming' <=> \E t \in Service : \E i \in 1 .. Len(m_Clients'[t]) :
               m_Clients'[t][i] = c /\ ((s = t /\ i >= next') \/ (s = First /\ t = Second))
  BY <1>0, NextComingPlaces
<1>2. \A c : c \in Coming <=> \E t \in Service : \E i \in 1 .. Len(m_Clients[t]) :
               m_Clients[t][i] = c /\ ((s = t /\ i >= next) \/ (s = First /\ t = Second))
  BY <1>0, ComingPlaces DEF Ahead
<1>3. \A t \in Service : \A i \in 1 .. Len(m_Clients[t]) :
        m_Clients[t][i] = passed => t = s /\ i = next
  BY <1>0 DEF Placed, InOneVector
<1>4. CASE KeepClient(s)
  <2>1. m_Clients' = m_Clients /\ next' = next + 1
    BY <1>4 DEF KeepClient
  <2>2. \A t \in Service : \A i \in 1 .. Len(m_Clients[t]) :
          (s = t /\ i >= next + 1) \/ (s = First /\ t = Second)
            <=> ((s = t /\ i >= next) \/ (s = First /\ t = Second))
                /\ m_Clients[t][i] # passed
    BY <1>0, <1>3, Names
  <2>3. Coming' = Coming \ {passed}
    BY <1>1, <1>2, <2>1, <2>2
  <2> QED BY <1>4, <2>3 DEF KeepClient
<1>5. CASE DeleteClient(s)
  <2>0. next' = next /\ due' = due \ {passed}
    BY <1>5 DEF DeleteClient
  <2>1. ASSUME NEW c \in Coming' PROVE c \in Coming \ {passed}
    <3>1. PICK t \in Service : \E j \in 1 .. Len(m_Clients'[t]) :
            m_Clients'[t][j] = c /\ ((s = t /\ j >= next) \/ (s = First /\ t = Second))
      BY <1>1, <2>0
    <3>2. PICK j \in 1 .. Len(m_Clients'[t]) :
            m_Clients'[t][j] = c /\ ((s = t /\ j >= next) \/ (s = First /\ t = Second))
      BY <3>1
    <3> DEFINE i == IF t = s THEN j + 1 ELSE j
    <3>3. /\ i \in 1 .. Len(m_Clients[t]) /\ m_Clients[t][i] = c
          /\ (s = t /\ i >= next) \/ (s = First /\ t = Second)
          /\ ~ (t = s /\ i = next)
      <4>1. CASE t = s
        <5>1. j \in 1 .. Len(m_Clients[s]) - 1 /\ j >= next /\ i = j + 1
          BY <1>0, <1>5, <3>2, <4>1, DeleteEffect, Names
        <5>2. m_Clients'[s][j] = m_Clients[s][j + 1]
          BY <1>0, <1>5, <5>1, DeleteEffect
        <5> HIDE DEF i
        <5>3. m_Clients[t][i] = c
          BY <3>2, <4>1, <5>1, <5>2
        <5> QED BY <1>0, <4>1, <5>1, <5>3
      <4>2. CASE t # s
        <5>1. m_Clients'[t] = m_Clients[t] /\ i = j
          BY <1>5, <4>2, DeleteEffect
        <5> QED BY <3>2, <4>2, <5>1
      <4> QED BY <4>1, <4>2
    <3> HIDE DEF i
    <3> QED BY <1>2, <1>3, <3>3
  <2>2. ASSUME NEW c \in Coming, c # passed PROVE c \in Coming'
    <3>1. PICK t \in Service : \E i \in 1 .. Len(m_Clients[t]) :
            m_Clients[t][i] = c /\ ((s = t /\ i >= next) \/ (s = First /\ t = Second))
      BY <1>2
    <3>2. PICK i \in 1 .. Len(m_Clients[t]) :
            m_Clients[t][i] = c /\ ((s = t /\ i >= next) \/ (s = First /\ t = Second))
      BY <3>1
    <3>3. CASE t = s
      <4>1. i > next /\ i - 1 \in 1 .. Len(m_Clients[s]) - 1 /\ i - 1 >= next
        BY <1>0, <2>2, <3>2, <3>3, Names
      <4>2. m_Clients'[s][i - 1] = m_Clients[s][i] /\ i - 1 \in 1 .. Len(m_Clients'[s])
        BY <1>0, <1>5, <4>1, DeleteEffect
      <4> QED BY <1>1, <2>0, <3>2, <3>3, <4>1, <4>2
    <3>4. CASE t # s
      <4>1. m_Clients'[t] = m_Clients[t]
        BY <1>5, <3>4, DeleteEffect
      <4> QED BY <1>1, <3>2, <3>4, <4>1
    <3> QED BY <3>3, <3>4
  <2>3. passed \notin Coming'
    BY <2>1
  <2> QED BY <2>0, <2>1, <2>2, <2>3
<1> QED BY <1>4, <1>5

(* Outside of the passes nobody is still to be passed over. *)
LEMMA NoneComing ==
  ASSUME TypeOK, at \notin Service
  PROVE  Coming = {}
<1>1. \A t \in Service : ComingOf(t) = {}
  BY Names DEF ComingOf
<1> QED BY <1>1 DEF Coming

LEMMA NextNoneComing ==
  ASSUME at' \notin Service
  PROVE  Coming' = {}
<1>1. \A t \in Service : ComingOf(t)' = {}
  BY Names DEF ComingOf
<1>2. Coming' = UNION {ComingOf(t)' : t \in Service}
  BY DEF Coming
<1> QED BY <1>1, <1>2

(* The pass of the first service ends where that of the second begins. *)
LEMMA ComingAfterEnd ==
  ASSUME TypeOK, TypeOK', NEW s \in Service, EndOfPass(s),
         \A t \in Service \ {s} : m_Clients'[t] = m_Clients[t]
  PROVE  Coming' = Coming
<1>0. /\ \A t \in Service : Len(m_Clients[t]) \in Nat /\ Len(m_Clients'[t]) \in Nat
      /\ next \in Nat /\ next > Len(m_Clients[s])
      /\ at = s /\ at' = (IF s = First THEN Second ELSE Available) /\ next' = 1
  BY DEF TypeOK, EndOfPass
<1>1. CASE s = First
  <2>1. at' = Second /\ at = First /\ m_Clients'[Second] = m_Clients[Second]
    BY <1>0, <1>1, Names
  <2>2. ASSUME NEW c
        PROVE  c \in Coming <=> \E i \in 1 .. Len(m_Clients[Second]) : m_Clients[Second][i] = c
    <3>1. \A t \in Service : \A i \in 1 .. Len(m_Clients[t]) : Ahead(t, i) <=> t = Second
      BY <1>0, <1>1, <2>1, Names DEF Ahead
    <3> QED BY <3>1, ComingPlaces, Names
  <2>3. ASSUME NEW c
        PROVE  c \in Coming' <=> \E i \in 1 .. Len(m_Clients[Second]) : m_Clients[Second][i] = c
    <3>1. \A t \in Service : \A i \in 1 .. Len(m_Clients'[t]) :
            (at' = t /\ i >= next') \/ (at' = First /\ t = Second) <=> t = Second
      BY <1>0, <2>1, Names
    <3>2. c \in Coming' <=> \E t \in Service : \E i \in 1 .. Len(m_Clients'[t]) :
            m_Clients'[t][i] = c /\ t = Second
      BY <3>1, NextComingPlaces
    <3> QED BY <2>1, <3>2, Names
  <2> QED BY <2>2, <2>3
<1>2. CASE s # First
  <2>1. s = Second /\ at' = Available
    BY <1>0, <1>2, Names
  <2>2. Coming' = {}
    BY <2>1, NextNoneComing, Names
  <2>3. \A t \in Service : \A i \in 1 .. Len(m_Clients[t]) : ~ Ahead(t, i)
    BY <1>0, <1>2, Names DEF Ahead
  <2>4. \A c : c \notin Coming
    BY <2>3, ComingPlaces
  <2> QED BY <2>2, <2>4
<1> QED BY <1>1, <1>2

(* Every step passes over the clients of the loop one at a time, and none of *)
(* them has got another descriptor.                                          *)
LEMMA PassStep ==
  ASSUME IInv, TypeOK', [Next]_vars
  PROVE  EveryClientPassed' /\ SameBit'
<1>0. /\ TypeOK /\ Placed /\ EveryClientPassed /\ SameBit
      /\ due = Coming
      /\ owner \in [Descriptor -> Connection \cup Listener \cup {Free}]
      /\ m_Clients \in [Service -> Seq(Connection)]
  BY DEF IInv, EveryClientPassed, TypeOK
<1>1. Coming \subseteq AllClients /\ AllClients \subseteq Connection
  BY <1>0, ComingPlaces, ClientPlaces
<1>2. CASE /\ due' = due /\ Coming' = Coming /\ snapshot' = snapshot
           /\ \A c \in Coming, d \in Descriptor : owner'[d] = c => owner[d] = c
  BY <1>0, <1>2 DEF EveryClientPassed, SameBit
<1>3. CASE due' = {} /\ Coming' = {}
  BY <1>3 DEF EveryClientPassed, SameBit
<1>4. CASE UNCHANGED <<at, m_Clients, next, due, owner, snapshot>>
  <2>1. Coming' = Coming
    BY <1>4 DEF Coming, ComingOf, ClientsOf
  <2> QED BY <1>2, <1>4, <2>1
<1>5. CASE at \notin Service /\ at' \notin Service /\ due' = due
  <2>1. Coming = {} /\ Coming' = {}
    BY <1>0, <1>5, NoneComing, NextNoneComing
  <2> QED BY <1>0, <1>3, <1>5, <2>1
<1>6. CASE Start \/ StartWithoutDatabase \/ Answer \/ Reset
  <2>1. at \notin Service /\ at' \notin Service /\ due' = due
    BY <1>6, Names DEF Start, StartWithoutDatabase, Answer, Reset, EndOfLoop
  <2> QED BY <1>5, <2>1
<1>7. CASE Exit \/ Signal
  <2>1. at' \notin Service /\ due' = {}
    BY <1>7, Names DEF Exit, Signal, Gone
  <2> QED BY <1>3, <2>1, NextNoneComing
<1>8. CASE Select
  <2>1. at' = First /\ next' = 1 /\ m_Clients' = m_Clients /\ due' = AllClients
        /\ snapshot' = owner /\ owner' = owner
    BY <1>8 DEF Select
  <2>2. ASSUME NEW c PROVE c \in Coming' <=> c \in AllClients
    <3>1. \A t \in Service : \A i \in 1 .. Len(m_Clients'[t]) :
            (at' = t /\ i >= next') \/ (at' = First /\ t = Second)
      BY <1>0, <2>1, Names
    <3>2. c \in Coming' <=> \E t \in Service : \E i \in 1 .. Len(m_Clients'[t]) :
            m_Clients'[t][i] = c
      BY <3>1, NextComingPlaces
    <3> QED BY <1>0, <2>1, <3>2, ClientPlaces
  <2>3. Coming' = AllClients
    BY <2>2
  <2> QED BY <2>1, <2>3 DEF EveryClientPassed, SameBit
<1>9. ASSUME NEW s \in Service, KeepClient(s) \/ DeleteClient(s)
      PROVE  EveryClientPassed' /\ SameBit'
  <2>1. /\ Coming' = Coming \ {m_Clients[s][next]}
        /\ due' = due \ {m_Clients[s][next]}
    BY <1>0, <1>9, ComingAfterPass
  <2>2. snapshot' = snapshot
    BY <1>9 DEF KeepClient, DeleteClient
  <2>3. \A c \in Coming, d \in Descriptor : owner'[d] = c => owner[d] = c
    <3>1. \A d \in Descriptor : owner'[d] = owner[d] \/ owner'[d] = Free
      BY <1>9 DEF KeepClient, DeleteClient, Close
    <3> QED BY <1>1, <3>1, Names
  <2> QED BY <1>0, <2>1, <2>2, <2>3 DEF EveryClientPassed, SameBit
<1>10. ASSUME NEW s \in Service, AcceptOne(s) PROVE EveryClientPassed' /\ SameBit'
  <2>1. EndOfPass(s) /\ due' = due /\ snapshot' = snapshot
    BY <1>10 DEF AcceptOne, EndOfPass
  <2>2. \A t \in Service \ {s} : m_Clients'[t] = m_Clients[t]
    BY <1>0, <1>10, AcceptEffect
  <2>3. Coming' = Coming
    BY <1>0, <2>1, <2>2, ComingAfterEnd
  <2>4. \A c \in Coming, d \in Descriptor : owner'[d] = c => owner[d] = c
    <3>1. waiting[s][1] \notin AllClients
      BY <1>0, <1>10, ClientsAfterAccept
    <3>2. owner' = [owner EXCEPT ![Lowest(Unused)] = waiting[s][1]]
      BY <1>0, <1>10, AcceptEffect
    <3>3. \A d \in Descriptor : owner'[d] = owner[d] \/ owner'[d] = waiting[s][1]
      BY <1>0, <3>2
    <3> QED BY <1>1, <3>1, <3>3
  <2> QED BY <1>2, <2>1, <2>3, <2>4
<1>11. ASSUME NEW s \in Service, AcceptNone(s) PROVE EveryClientPassed' /\ SameBit'
  <2>1. EndOfPass(s) /\ due' = due /\ snapshot' = snapshot
        /\ m_Clients' = m_Clients /\ owner' = owner
    BY <1>11 DEF AcceptNone, EndOfPass
  <2>2. Coming' = Coming
    BY <1>0, <2>1, ComingAfterEnd
  <2> QED BY <1>2, <2>1, <2>2
<1>12. ASSUME NEW s \in Service, NEW c \in Connection, Connect(s, c)
       PROVE  EveryClientPassed' /\ SameBit'
  BY <1>4, <1>12 DEF Connect
<1>13. CASE UNCHANGED vars
  BY <1>4, <1>13 DEF vars
<1> QED BY <1>6, <1>7, <1>8, <1>9, <1>10, <1>11, <1>12, <1>13 DEF Next, Run, Pass

-----------------------------------------------------------------------------
LEMMA IInvInit == Init => IInv
<1> SUFFICES ASSUME Init PROVE IInv
  OBVIOUS
<1>1. TypeOK
  <2>1. [s \in Service |-> << >>] \in [Service -> Seq(Connection)]
    OBVIOUS
  <2>2. NoOwner \in [Descriptor -> Connection \cup Listener \cup {Free}]
    BY DEF NoOwner
  <2>3. /\ m_Clients \in [Service -> Seq(Connection)]
        /\ waiting \in [Service -> Seq(Connection)]
    BY <2>1 DEF Init
  <2>4. /\ at = "start" /\ m_Exiting = FALSE /\ reset = FALSE /\ next = 1
        /\ ready = {} /\ ended = {} /\ due = {} /\ listening = {}
    BY DEF Init
  <2>5. owner = NoOwner /\ snapshot = NoOwner
    BY DEF Init
  <2>6. next \in Nat \ {0}
    BY <2>4
  <2>7. /\ m_Exiting \in BOOLEAN /\ reset \in BOOLEAN
        /\ at \in {"start", "loop", "exit"} \cup Listener
    BY <2>4
  <2>8. ready \subseteq Descriptor /\ ended \subseteq Connection
        /\ due \subseteq Connection /\ listening \subseteq Listener
    BY <2>4, Zenon
  <2> QED BY <2>2, <2>3, <2>5, <2>6, <2>7, <2>8 DEF TypeOK
<1>2. Placed /\ AllClients = {}
  BY DEF Init, Placed, InOneVector, WaitsOnce, WaitsOutside, AllClients, ClientsOf, ToSet
<1>3. Coming = {}
  BY <1>1, NoneComing, Names DEF Init
<1>4. NoneLeaked /\ NoneLost /\ OneEach
  BY <1>2, Names DEF Init, NoOwner, NoneLeaked, NoneLost, OneEach
<1>5. NothingYet /\ LoopsWhole
  BY Names DEF Init, NothingYet, LoopsWhole
<1> QED BY <1>1, <1>2, <1>3, <1>4, <1>5 DEF IInv, Init, EveryClientPassed, SameBit

LEMMA IInvStep == IInv /\ [Next]_vars => IInv'
<1> SUFFICES ASSUME IInv, [Next]_vars PROVE IInv'
  OBVIOUS
<1>1. TypeOK'
  BY TypeOKStep DEF IInv
<1>2. Placed'
  BY PlacedStep DEF IInv
<1>3. NoneLeaked' /\ NoneLost' /\ OneEach'
  BY OwnersStep DEF IInv
<1>4. NothingYet' /\ LoopsWhole'
  BY StartStep DEF IInv
<1>5. EveryClientPassed' /\ SameBit'
  BY <1>1, PassStep
<1> QED BY <1>1, <1>2, <1>3, <1>4, <1>5 DEF IInv

LEMMA IInvAlways == Spec => []IInv
BY IInvInit, IInvStep, PTL DEF Spec

(* The variables of CGSServer keep their types. *)
THEOREM ServerTypes == Spec => []TypeOK
<1>1. IInv => TypeOK
  BY DEF IInv
<1> QED BY <1>1, IInvAlways, PTL

(* Update passes over every client once, though it erases from the vector it *)
(* iterates over.                                                            *)
THEOREM PassIsComplete == Spec => []EveryClientPassed
<1>1. IInv => EveryClientPassed
  BY DEF IInv
<1> QED BY <1>1, IInvAlways, PTL

(* The bit of fd a client's Update looks at is its own, however many         *)
(* descriptors were closed and given out again in the pass.                  *)
THEOREM BitsAreFresh == Spec => []NoStaleBit
<1>1. IInv => NoStaleBit
  <2> SUFFICES ASSUME IInv, NEW c \in Coming PROVE snapshot[DescriptorOf(c)] = c
    BY DEF NoStaleBit
  <2>1. c \in AllClients
    BY ComingPlaces, ClientPlaces DEF IInv, TypeOK
  <2>2. \E d \in Descriptor : owner[d] = c
    BY <2>1 DEF IInv, NoneLost
  <2>3. DescriptorOf(c) \in Descriptor /\ owner[DescriptorOf(c)] = c
    BY <2>2 DEF DescriptorOf
  <2> QED BY <2>3 DEF IInv, SameBit
<1> QED BY <1>1, IInvAlways, PTL

(* No descriptor is leaked, shared, or closed under the client that has it.  *)
THEOREM DescriptorsKept == Spec => []DescriptorsOwned
<1>1. IInv => DescriptorsOwned
  BY DEF IInv, Placed, DescriptorsOwned
<1> QED BY <1>1, IInvAlways, PTL

(* The main loop passes over its services only if all three were bound, and  *)
(* all of them still are, but a UDP socket that has been reset since.        *)
THEOREM LoopRunsWhole == Spec => []StartedWhole
<1>1. IInv => StartedWhole
  BY DEF IInv, LoopsWhole, HasSocket, StartedWhole
<1> QED BY <1>1, IInvAlways, PTL

=============================================================================
