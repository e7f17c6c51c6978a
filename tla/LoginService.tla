---------------------------- MODULE LoginService ----------------------------
(***************************************************************************)
(* What the connection manager promises its players, without sockets,      *)
(* challenges or queries: a directory of accounts that anyone may add to,  *)
(* and sessions, each of one connection with one existing account, whose   *)
(* owner may choose a country once, before it has read its profile.        *)
(***************************************************************************)
CONSTANTS Client, Name, Password, Country, DefaultCountry, None

VARIABLES account,   \* the account of each name, or None
          session    \* the session of each connection, or None

serviceVars == <<account, session>>

Account == [password : Password, country : Country]
Session == [name : Name, fresh : BOOLEAN]

Init ==
  /\ account = [n \in Name |-> None]
  /\ session = [c \in Client |-> None]

(* An account is created once and keeps its password for good. *)
Created(n, p) ==
  /\ account[n] = None
  /\ account' = [account EXCEPT ![n] = [password |-> p, country |-> DefaultCountry]]

Register(n, p) == Created(n, p) /\ UNCHANGED session

Begin(c, n) ==
  /\ session[c] = None
  /\ account[n] # None
  /\ session' = [session EXCEPT ![c] = [name |-> n, fresh |-> TRUE]]
  /\ UNCHANGED account

ReadProfile(c) ==
  /\ session[c] # None
  /\ session' = [session EXCEPT ![c].fresh = FALSE]
  /\ UNCHANGED account

Chosen(c, country) ==
  /\ session[c] # None
  /\ session[c].fresh
  /\ account' = [account EXCEPT ![session[c].name].country = country]

ChooseCountry(c, country) ==
  /\ Chosen(c, country)
  /\ session' = [session EXCEPT ![c].fresh = FALSE]

End(c) ==
  /\ session[c] # None
  /\ session' = [session EXCEPT ![c] = None]
  /\ UNCHANGED account

(* The sessions are lost and the accounts are not; one last wish may have    *)
(* been granted without anybody having been told.                            *)
Restart ==
  /\ session' = [c \in Client |-> None]
  /\ \/ UNCHANGED account
     \/ \E n \in Name, p \in Password : Created(n, p)
     \/ \E c \in Client, country \in Country : Chosen(c, country)

Next ==
  \/ Restart
  \/ \E n \in Name, p \in Password : Register(n, p)
  \/ \E c \in Client :
       \/ \E n \in Name : Begin(c, n)
       \/ ReadProfile(c)
       \/ \E country \in Country : ChooseCountry(c, country)
       \/ End(c)

Spec == Init /\ [][Next]_serviceVars
=============================================================================
