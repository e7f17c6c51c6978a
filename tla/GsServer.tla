------------------------------ MODULE GsServer ------------------------------
(***************************************************************************)
(* The server (gs_server.cpp): startup, and the main loop that selects     *)
(* over all sockets and then passes over the clients of both TCP services  *)
(* in the order of their vectors, accepts one connection per service, and  *)
(* serves the UDP socket.  What the clients say to each other is left to   *)
(* Gpcm and Gpsp; here a client is open or ended, ended when its next      *)
(* Update returns true.                                                    *)
(*                                                                         *)
(* The sets select fills are used for the whole pass, in which descriptors *)
(* are closed and handed out again; the operating system gives out the     *)
(* lowest number that is free.                                             *)
(***************************************************************************)
EXTENDS Naturals, Sequences, SequencesExt

CONSTANTS Connection,      \* what peers connect with, again and again
          Service,         \* the TCP services, which own a vector of clients
          First, Second,   \* the order of their passes: GPCM, GPSP
          Available,       \* the UDP service
          Free,            \* the owner of a descriptor that is not in use
          MaxDescriptor    \* bound on the descriptors of the process

ASSUME ServiceAssumption ==
  /\ First # Second /\ Service = {First, Second} /\ Available \notin Service
  /\ {"start", "loop", "exit"} \cap (Service \cup {Available}) = {}
ASSUME OwnerAssumption ==
  /\ Connection \cap (Service \cup {Available, Free}) = {}
  /\ Free \notin Service \cup {Available}
\* The three sockets of the services have descriptors; clients get the others.
ASSUME DescriptorAssumption == MaxDescriptor \in Nat /\ MaxDescriptor >= 3

Descriptor == 1 .. MaxDescriptor
Listener == Service \cup {Available}

VARIABLES
  at,           \* where the program is: "start", "loop", a service, "exit"
  m_Exiting,
  listening,    \* the services whose socket is bound
  reset,        \* history: the UDP socket has been closed by Reset
  owner,        \* what each descriptor belongs to
  m_Clients,    \* the vector of each TCP service
  next,         \* the iterator of the pass, as an index
  ready,        \* the set fd, as select has left it
  ended,        \* the clients that are to be deleted
  waiting,      \* the backlog of each TCP service, first come first
  snapshot,     \* history: owner at the time of SetFD
  due           \* history: the clients of that time not yet passed

vars == <<at, m_Exiting, listening, reset, owner, m_Clients, next, ready, ended,
          waiting, snapshot, due>>

ClientsOf(s) == ToSet(m_Clients[s])
AllClients == UNION {ClientsOf(s) : s \in Service}

TypeOK ==
  /\ at \in {"start", "loop", "exit"} \cup Listener
  /\ m_Exiting \in BOOLEAN
  /\ listening \subseteq Listener
  /\ reset \in BOOLEAN
  /\ owner \in [Descriptor -> Connection \cup Listener \cup {Free}]
  /\ m_Clients \in [Service -> Seq(Connection)]
  /\ next \in Nat \ {0}
  /\ ready \subseteq Descriptor
  /\ ended \subseteq Connection
  /\ waiting \in [Service -> Seq(Connection)]
  /\ snapshot \in [Descriptor -> Connection \cup Listener \cup {Free}]
  /\ due \subseteq Connection

NoOwner == [d \in Descriptor |-> Free]

Init ==
  /\ at = "start"
  /\ m_Exiting = FALSE
  /\ listening = {}
  /\ reset = FALSE
  /\ owner = NoOwner
  /\ m_Clients = [s \in Service |-> << >>]
  /\ next = 1
  /\ ready = {}
  /\ ended = {}
  /\ waiting = [s \in Service |-> << >>]
  /\ snapshot = NoOwner
  /\ due = {}

-----------------------------------------------------------------------------
DescriptorOf(o) == CHOOSE d \in Descriptor : owner[d] = o
Unused == {d \in Descriptor : owner[d] = Free}
Lowest(ds) == CHOOSE d \in ds : \A e \in ds : d <= e

(* Variant: the descriptor is not closed. *)
CloseNothing(o) == UNCHANGED owner

Close(o) == owner' = [d \in Descriptor |-> IF owner[d] = o THEN Free ELSE owner[d]]

(* CGSServer with a database that can not be opened: no service is made.     *)
StartWithoutDatabase ==
  /\ at = "start"
  /\ m_Exiting' = TRUE
  /\ at' = "loop"
  /\ UNCHANGED <<listening, reset, owner, m_Clients, next, ready, ended,
                 waiting, snapshot, due>>

(* Listen and Bind succeed or fail for each service on its own. *)
Bindings == SUBSET Listener

(* Variant: CBF2Available does not ask the server to exit. *)
StartWithoutAvailable ==
  /\ at = "start"
  /\ listening' \in Bindings
  /\ m_Exiting' = ~(Service \subseteq listening')
  /\ owner' = [NoOwner EXCEPT ![1] = First, ![2] = Second, ![3] = Available]
  /\ at' = "loop"
  /\ UNCHANGED <<reset, m_Clients, next, ready, ended, waiting, snapshot, due>>

(* Each service makes its socket; one that can not be bound asks the server  *)
(* to exit, and keeps its descriptor until then.                             *)
Start ==
  /\ at = "start"
  /\ listening' \in Bindings
  /\ m_Exiting' = (listening' # Listener)
  /\ owner' = [NoOwner EXCEPT ![1] = First, ![2] = Second, ![3] = Available]
  /\ at' = "loop"
  /\ UNCHANGED <<reset, m_Clients, next, ready, ended, waiting, snapshot, due>>

Gone ==
  /\ at' = "exit"
  /\ listening' = {}
  /\ owner' = NoOwner
  /\ m_Clients' = [s \in Service |-> << >>]
  /\ ended' = {}
  /\ waiting' = [s \in Service |-> << >>]
  /\ due' = {}
  /\ UNCHANGED <<m_Exiting, reset, next, ready, snapshot>>

(* Update returns true at once, and main deletes the server.  If the         *)
(* database could not be opened the destructor deletes pointers that were    *)
(* never set; whatever comes of that, the process ends.                      *)
Exit == at = "loop" /\ m_Exiting /\ Gone

(* SignalCatcher ends the process wherever it is. *)
Signal == at # "exit" /\ Gone

(* SetFD of every socket, and select.  A listener with a connection waiting  *)
(* is ready; of the other sockets any may be, all of them if select fails.   *)
Select ==
  /\ at = "loop"
  /\ ~m_Exiting
  /\ ready' \in SUBSET {d \in Descriptor : owner[d] # Free}
  /\ \A s \in Service : waiting[s] # << >> => DescriptorOf(s) \in ready'
  /\ snapshot' = owner
  /\ due' = AllClients
  /\ at' = First
  /\ next' = 1
  /\ UNCHANGED <<m_Exiting, listening, reset, owner, m_Clients, ended,
                 waiting>>

(* The pass over a client whose Update returns false.  It may be the last    *)
(* one: the peer has closed, or the dialogue has come to its end.            *)
KeepClient(s) ==
  /\ at = s
  /\ next <= Len(m_Clients[s])
  /\ m_Clients[s][next] \notin ended
  /\ ended' \in {ended, ended \cup {m_Clients[s][next]}}
  /\ due' = due \ {m_Clients[s][next]}
  /\ next' = next + 1
  /\ UNCHANGED <<at, m_Exiting, listening, reset, owner, m_Clients, ready,
                 waiting, snapshot>>

(* Variant: the iterator moves on after an erase. *)
DeleteClientAndSkip(s) ==
  /\ at = s
  /\ next <= Len(m_Clients[s])
  /\ m_Clients[s][next] \in ended
  /\ m_Clients' = [m_Clients EXCEPT ![s] = RemoveAt(@, next)]
  /\ Close(m_Clients[s][next])
  /\ ended' = ended \ {m_Clients[s][next]}
  /\ due' = due \ {m_Clients[s][next]}
  /\ next' = next + 1
  /\ UNCHANGED <<at, m_Exiting, listening, reset, ready, waiting, snapshot>>

(* Variant: the client is deleted and not erased. *)
DeleteClientKept(s) ==
  /\ at = s
  /\ next <= Len(m_Clients[s])
  /\ m_Clients[s][next] \in ended
  /\ Close(m_Clients[s][next])
  /\ ended' = ended \ {m_Clients[s][next]}
  /\ due' = due \ {m_Clients[s][next]}
  /\ next' = next + 1
  /\ UNCHANGED <<at, m_Exiting, listening, reset, m_Clients, ready,
                 waiting, snapshot>>

(* Variant: the iterator goes back, for a loop that increments it.           *)
DeleteClientAndBack(s) ==
  /\ at = s
  /\ next <= Len(m_Clients[s])
  /\ m_Clients[s][next] \in ended
  /\ m_Clients' = [m_Clients EXCEPT ![s] = RemoveAt(@, next)]
  /\ Close(m_Clients[s][next])
  /\ ended' = ended \ {m_Clients[s][next]}
  /\ due' = due \ {m_Clients[s][next]}
  /\ next' = next - 1
  /\ UNCHANGED <<at, m_Exiting, listening, reset, ready, waiting, snapshot>>

(* Its Update returns true: the client is deleted and erased, and the        *)
(* iterator is then at the one behind it.                                    *)
DeleteClient(s) ==
  /\ at = s
  /\ next <= Len(m_Clients[s])
  /\ m_Clients[s][next] \in ended
  /\ m_Clients' = [m_Clients EXCEPT ![s] = RemoveAt(@, next)]
  /\ Close(m_Clients[s][next])
  /\ ended' = ended \ {m_Clients[s][next]}
  /\ due' = due \ {m_Clients[s][next]}
  /\ UNCHANGED <<at, m_Exiting, listening, reset, next, ready, waiting,
                 snapshot>>

Accepts(s) ==
  DescriptorOf(s) \in ready /\ waiting[s] # << >> /\ Unused # {}

(* Variant: the search port has no pass. *)
EndOfPassAndLoop(s) ==
  /\ at = s
  /\ next > Len(m_Clients[s])
  /\ at' = Available
  /\ next' = 1
  /\ UNCHANGED <<m_Exiting, listening, reset, ready, ended, snapshot, due>>

EndOfPass(s) ==
  /\ at = s
  /\ next > Len(m_Clients[s])
  /\ at' = IF s = First THEN Second ELSE Available
  /\ next' = 1
  /\ UNCHANGED <<m_Exiting, listening, reset, ready, ended, snapshot, due>>

(* Variant: the connection is accepted before the clients are passed over.   *)
AcceptBefore(s) ==
  /\ at = s
  /\ next = 1
  /\ Accepts(s)
  /\ owner' = [owner EXCEPT ![Lowest(Unused)] = Head(waiting[s])]
  /\ m_Clients' = [m_Clients EXCEPT ![s] = Append(@, Head(waiting[s]))]
  /\ waiting' = [waiting EXCEPT ![s] = Tail(@)]
  /\ due' = due \cup {Head(waiting[s])}
  /\ UNCHANGED <<at, m_Exiting, listening, reset, next, ready, ended,
                 snapshot>>

(* After its clients each service accepts one connection.                    *)
AcceptOne(s) ==
  /\ EndOfPass(s)
  /\ Accepts(s)
  /\ owner' = [owner EXCEPT ![Lowest(Unused)] = Head(waiting[s])]
  /\ m_Clients' = [m_Clients EXCEPT ![s] = Append(@, Head(waiting[s]))]
  /\ waiting' = [waiting EXCEPT ![s] = Tail(@)]

(* None is waiting, or accept finds no descriptor and that is ignored. *)
AcceptNone(s) ==
  /\ EndOfPass(s)
  /\ ~Accepts(s)
  /\ UNCHANGED <<owner, m_Clients, waiting>>

(* The sets of descriptors are local to Update. *)
EndOfLoop ==
  /\ at = Available
  /\ at' = "loop"
  /\ ready' = {}
  /\ snapshot' = NoOwner
  /\ UNCHANGED <<m_Exiting, m_Clients, next, ended, waiting, due>>

(* CBF2Available: a datagram is answered or not; nothing of it is kept.      *)
Answer == EndOfLoop /\ UNCHANGED <<listening, reset, owner>>

(* recvfrom fails.  Reset closes the socket, and CUDPServer, unlike          *)
(* CTCPSocket, does not make a new one.                                      *)
Reset ==
  /\ Available \in listening
  /\ DescriptorOf(Available) \in ready
  /\ listening' = listening \ {Available}
  /\ reset' = TRUE
  /\ Close(Available)
  /\ EndOfLoop

-----------------------------------------------------------------------------
(* A peer that is not connected connects to a port that is bound.            *)
Connect(s, c) ==
  /\ at # "exit"
  /\ s \in listening
  /\ c \notin AllClients
  /\ \A t \in Service : c \notin ToSet(waiting[t])
  /\ waiting' = [waiting EXCEPT ![s] = Append(@, c)]
  /\ UNCHANGED <<at, m_Exiting, listening, reset, owner, m_Clients, next,
                 ready, ended, snapshot, due>>

Pass(s) == KeepClient(s) \/ DeleteClient(s) \/ AcceptOne(s) \/ AcceptNone(s)

Run ==
  \/ Start \/ StartWithoutDatabase \/ Exit
  \/ Select \/ Answer \/ Reset
  \/ \E s \in Service : Pass(s)

Next ==
  \/ Run
  \/ Signal
  \/ \E s \in Service, c \in Connection : Connect(s, c)

(* main calls Update for ever; nothing in it blocks for longer than a time.  *)
Fairness == WF_vars(Run)

Spec == Init /\ [][Next]_vars
FairSpec == Spec /\ Fairness

-----------------------------------------------------------------------------
(* Properties.                                                             *)

(* The clients that are still to be passed over in this loop.                *)
ComingOf(s) ==
  IF at = s THEN {m_Clients[s][i] : i \in next .. Len(m_Clients[s])}
  ELSE IF at = First THEN ClientsOf(s) ELSE {}

Coming == UNION {ComingOf(s) : s \in Service}

(* Every client that was there when the loop began gets exactly one pass in  *)
(* it, however many are erased from under the iterator, and one that was     *)
(* accepted since gets none.                                                 *)
EveryClientPassed == due = Coming

(* A descriptor closed in this loop may belong to another client by now, but *)
(* no client that is still to be passed over reads by the bit of another.    *)
NoStaleBit == \A c \in Coming : snapshot[DescriptorOf(c)] = c

InOneVector ==
  \A s, t \in Service :
    \A i \in DOMAIN m_Clients[s], j \in DOMAIN m_Clients[t] :
      m_Clients[s][i] = m_Clients[t][j] => s = t /\ i = j

NoneLeaked == \A d \in Descriptor : owner[d] \in Connection => owner[d] \in AllClients

NoneLost == \A c \in AllClients : \E d \in Descriptor : owner[d] = c

OneEach ==
  \A d, e \in Descriptor : owner[d] = owner[e] => d = e \/ owner[d] = Free

(* The clients are in one vector once each, and they and the sockets of the  *)
(* services have the descriptors in use, one each: none leaks and none is    *)
(* closed under its owner, also when they run out.                           *)
DescriptorsOwned == InOneVector /\ NoneLeaked /\ NoneLost /\ OneEach

(* A server that could bind only some of its sockets serves nobody: whenever *)
(* it passes over its services each of the three is bound.  What may be gone *)
(* is the availability service, and only since an error of recvfrom has had  *)
(* its socket reset; its descriptor is then free or somebody else's.         *)
StartedWhole ==
  at \in Listener =>
    /\ Service \subseteq listening
    /\ Available \in listening <=> ~reset
    /\ Available \in listening <=> \E d \in Descriptor : owner[d] = Available

(* Every ended client is deleted, and with enough descriptors every waiting  *)
(* connection is accepted, at both services, whatever the other clients do,  *)
(* unless the process ends.                                                  *)
EndedClientIsDeleted ==
  \A c \in Connection : c \in ended ~> c \notin AllClients

WaitingIsAccepted ==
  \A s \in Service, c \in Connection :
    c \in ToSet(waiting[s]) ~> c \notin ToSet(waiting[s])

=============================================================================
