# A TLA+ model of the GameSpy login emulator

`src/GS_Login_Emulator` is a stand-in for GameSpy's login servers for
Battlefield 2: players create an account, log in with a challenge-response
exchange, read and change their profile, and look up names.  `src/scripts`
holds the script that starts the game on a player's machine and redirects it to
such a server.  This directory models the protocol handlers, the sockets and
the framing of requests, the account table, the main loop, the codings, the
configuration file and the start script in TLA+, checks them with TLC on small
instances and proves the main safety properties with TLAPS for instances of any
size.

Paths without a directory are relative to `src/GS_Login_Emulator/`.

## 1. Inventory

One process, one thread.  `main` builds a `CGSServer` and calls its `Update`
until it returns true.  Every call does one `select` over all sockets and then
one *pass* over each of the three services; a pass over a TCP service runs
`Update` and `DoSend` of each of its clients and accepts at most one new
connection.  Handlers call the database synchronously.  There are no threads,
callbacks or locks: concurrency is the interleaving of the passes over
different clients, with the network, the database and the signals that end the
process as the things that fail.

| component | state | operations | what is hard | what makes it correct |
|---|---|---|---|---|
| Account database (`database.cpp`: `CDB`, `CMySQL`, `CSQLite3`) | table `users` | `UserExists`, `GetData` (by name; by e-mail and password), `CreateUser`, `SetData` | each function is several queries, a failing one is only logged and reads as "nothing there"; no UNIQUE key; MySQL's queries carry texts unescaped; the backends differ; the table outlives the process | names unique; passwords kept; what is given is stored |
| TCP connection (`socket.cpp`: `CTCPSocket`) | `m_Connected`, `m_HasError`, receive and send buffer | `DoRecv`, `DoSend`, `PutBytes`, `Clear…Buffer` | blocked and partial sends, errors that do not clear `m_Connected`, peers that close; a `recv` brings parts of requests or several | replies in order and whole; failed sockets inert; what is acted on is one request |
| Login port, 29900 (`gpcm.cpp`, `CClientCM` in `client.cpp`) | vector of clients; per client state 0..4, name, response, two challenges, BF2 1.5 flag; a function-static keep-alive counter shared by all | challenge, login, newuser, getprofile, updatepro, logout, keep-alive, accept, delete | several requests on one connection overwrite its members; several connections work on one account | a session only with a proof of the right password, and always of the same player; ended connections erased |
| Search port, 29901 (`gpsp.cpp`, `CClientSP` in `client.cpp`) | vector of clients; state 0..2, name | nicks, check, close after the answer | answers appended to unsent ones; the login port adds accounts in between; close races the send | one final answer, of an existing account, queued last |
| Availability service, UDP 27900 (`bf2.available.cpp`, `CUDPServer`) | socket flags | answer one fixed datagram | a receive error resets the socket without binding it again | – |
| Server and main loop (`gs_server.cpp`) | `m_Exiting`, the services | startup, `Update` | startup that fails half way; a descriptor closed and reused in one loop; a snapshot of `select` used for the whole loop | every client is served in every loop; a failed start exits |
| Password coding (`client.cpp`: `gslame`, `gspassenc`, base64) | – | decode the password of `newuser` | signed arithmetic that overflows; C strings, so a zero byte cuts the text | decodes what the game encoded |
| MD5 (`md5.cpp`) | digest context | `update`, `finalize`, `transform` | block buffering, padding at the block boundary | the digest of the concatenation |
| Configuration (`config.cpp`) | map of strings | parse, `GetString`, `GetInt` | the key ends at the first blank and not at the `=` | the values written |
| Start scripts (`src/scripts`: `BF2_Starter.js`, `index.php`) | the file `hosts.ics`, its attribute | enter the server, run the game, remove the entries | can be stopped between any two calls; other programs write the same file | the game runs only when redirected; nobody else's lines are lost; nothing is left behind |
| Log (`log.h`) | – | copy `cout` to a file | – | – |

The MySQL and SQLite headers and the SQL schema are no program of the server.
`PROJECT.json` lists every component with its status and every hazard with its
line.

## 2. Modules

```
UserTable ──┐                      LoginService (abstract)
            ├── Gpcm ── MCGpcm          ▲
TcpSocket ──┤     │                     │ refinement (Gpcm!ImplementsService)
            │     └─────────────────────┘
            └── Gpsp ── MCGpsp

Requests ── MCRequests      (finds in the bytes what Gpcm takes as its inputs)
GsServer ── MCGsServer      (the loop that drives Gpcm and Gpsp)
Starter  ── MCStarter       (on the player's machine)
GsPassword, Md5Stream, Config ── MCCoding

proofs: GpcmProofs and GpspProofs (with SharedProofs, about UserTable and
        TcpSocket), GsServerProofs, RequestsProofs, StarterProofs, Md5Proofs,
        CodingProofs (about GsPassword and Config)
```

**UserTable** — the database functions.  The server is single threaded and
never keeps a transaction open, so a database function is one step; each is an
operator that returns the *set* of results it may have.  `FaultyQueries` names
the queries (`count`, `select`, `insert`, `update`) that may fail, each
occurrence independently: `SetData` makes two counts and a select before its
update, and each may fail alone.  Both backends are there (`Backend`), with
SQLite's own parameter binding in `UpdateValues`.  A row's id is its position;
`userid` and `profileid`, which are computed from it, are left out.  `MaxUsers`
bounds the table.

SQLite binds every text of a query as a parameter.  MySQL splices them into its
queries between quotes and unescaped (database.cpp:81, 137, 198-203, 213,
244-248), cuts them to the width of their column or refuses them
(`mysql_create_tables.sql`), and compares them by the collation of the column.
`Plain` is the set of texts its queries carry as they are: no quote or
backslash, no longer than their column, equal to no other text.  A query is the
one that was meant (`AsMeant`) on SQLite, or if all of its texts are plain;
those of `SetData` are partly read back from the table (`UpdateTexts`).  A query
that was not meant may do whatever one statement of its kind can (the
connection is not opened for several): a count may answer either way, a select may
return any row or none (`Select`), an insertion may append any rows or fail, but
has no way to touch those that are there (`Insert`: its columns are fixed, and
none of them is a key), and an update may fail or rewrite any rows, but neither
adds nor removes one (`Update`).  The session column of such rows stays 0
(`AnyRow`), as nothing reads it.

**TcpSocket** — `CTCPSocket` as the clients use it.  The send buffer is a
sequence of *pieces*, a reply or the tail of one, so that partial sends can be
told from whole ones; `NetworkFaults` says whether a send may be blocked,
partial, or fail.  The receive buffer is cleared before every `DoRecv`, so a
request is an input of a pass and no state.

**Gpcm** — the login port.  A pass over a client (`CClientCM::Update`, then
`DoSend` or `delete`) is one action, named for what `Update` did:

| action | code |
|---|---|
| `Accept`, `Delete` | `CGPCM::Update`, gpcm.cpp:56-79 |
| `SendServerChallenge` | state 0 |
| `LoginUnknown`, `LoginRejected`, `LoginAccepted` | state 1, login in its four lengths, and `SendProof` |
| `NewUserTaken`, `NewUserCreated` | state 1, `HandleNewUser` |
| `GetProfile`, `UpdateProfile` | state 2 |
| `RetrieveProfile`, `Logout` | state 3 |
| `KeepAlive` | state 3, Battlefield 2 1.5, no request known |
| `IdlePass` | states 1-3 without a request they know |
| `Restart` | `SignalCatcher`, and the constructor of the backend, which keeps the table it finds |

Every such action contains the `DoSend` that follows (`EndPass`), with all its
outcomes.  `Restart` loses every connection and the keep-alive counter and keeps
the table; the process may have ended in a pass that had written the table and
not yet answered (`Unanswered`), so an account may exist, or a country have been
chosen, of which nobody has been told.  `registered` is a history variable: the
accounts newuser has acknowledged with `\nur\`.  Not modelled: the position in
the vector (any client may have the next pass, which includes the code's order);
`m_Password` and `m_Session`, which are written before they are read in every
pass; the reads of `SendProfile` and of the acknowledgement, whose results only
fill in the text of a reply.  The members of a connection that is not in the
vector have the values of the constructor.

`GenerateResponseValue` is a tuple of the four texts md5 is computed of, i.e.
the hash is taken to be injective on them; `Garbled` is a response that is the
hash of nothing.  What base64 and `gspassenc` make of a password on the wire is
a constant function `Decoded`, about which nothing is assumed: it need not be
injective and may return the empty text (`GsPassword` says what it is).  A
player answers with any password for any challenge of the model, so replayed
challenges are included.  `FailedIsFrozen` is about the whole of a client and
about the table: no request of a client whose socket has failed is acted on,
its members stay and its buffer is neither sent nor filled, except that a
keep-alive, which needs no request, may still be put; and the table changes only
by the request of a client whose socket works, also when a restart cuts the
request off.

**Requests** — the framing, which Gpcm leaves out.  TCP keeps the order of the
bytes and not their division into requests; `CClientCM::Update` clears the
receive buffer, receives once, splits what came at the backslashes, and looks at
the number of fields and the first of them.  Here every byte carries the request
and the field it is of, a field is two bytes so that it can be cut, and a pass
receives any beginning of what has been sent.  What is found this way is what
the actions of Gpcm are given as input.  One thing it found is that a login of
24 fields, cut after the 22nd, is taken for the login of 22: name, challenge and
response are right, and the Battlefield 2 1.5 flag is not set.  Where a response
is read from a position of another length it is a text that no player computed:
Gpcm's `Garbled`.

**Gpsp** — the search port, with the accounts the login port adds in between
(`NewUser`).  The third branch of `CClientSP::Update` (client.cpp:706, twelve
fields) is never reached because the first takes ten fields and more; it is
therefore no action.

**LoginService** — the abstract specification: a directory of accounts, created
once, with a password for good and a country; sessions, each with an existing
account, whose owner may choose a country once, before the profile is read; and
restarts, which end every session and no account.  `Gpcm` implements it under
the mapping at its end: `account[n]` is the row of `n`, `session[c]` the state
and name of a client in state 2 or 3.

**GsServer** — startup and main loop, with what the clients say left out: a
client is open or ended, ended when its next `Update` returns true.  Here the
order is modelled that Gpcm and Gpsp leave open: the vectors, the iterator
(`next`), the pass over the login port, the search port and the UDP socket in
turn, the one connection accepted after each pass.  Descriptors are numbers, the
system hands out the lowest free one, and they may run out (`accept` then fails
and is ignored, the only failure of it that is modelled).  `ready` is the set
`select` has left; any set of sockets may be ready, all of them too, as after a
failing `select`, but a listener with a connection waiting is.  `snapshot` and
`due` are history variables: the owners of the descriptors and the clients at
the time of `SetFD`; `reset` is one, too: whether the UDP socket has been closed
by `Reset` since the start.  The start may fail at the database or at any of the three
sockets; a signal may end the process anywhere.  The availability service keeps
nothing but its socket: `Answer`, or `Reset` after a receive error, which closes
the socket for good, since `CUDPServer` does not override `CSocket::Reset`.
`GsServer` is what justifies the fairness of Gpcm and Gpsp: its runs show that
every client has its pass in every loop.

**Starter** — `BF2_Starter.js`, one action per call of the scripting host that
touches the file: `SetHostsFile` (`Start`, `Append`, `Appended`), `CleanUpHosts`
(`Read`, `Truncate`, `Rewrite`, `SetAttributes`), and the game (`Run`,
`GameEnds`).  `index.php` runs the same functions from a page; its `OnExit` is
assigned to `window.unload`, which calls nothing, so leaving the page is a
`Stop`.  `Stop` may come between any two steps, an exception included, which is
also what a file that can not be opened amounts to; the next run finds what is
left.  `added` (the foreign lines other programs have written since the last
`Read`) and `lost` are history variables: a line is excused from being kept only
if it was added between `Read` and `Rewrite`, or was still to be written back
when a `Stop` left the file empty.  A line that `CleanUpHosts` itself drops is
never excused.  A file that was read-only is never redirected: `CleanUpHosts` restores the
attribute before `SetHostsFile` appends, and the append then fails.

**GsPassword** — `gslame` with its multiplication in two halves and its repair
of the sign, `gspassenc`, both base64 functions, and the C strings they pass to
each other.  The arithmetic of `gslame` overflows an `int`, which is undefined;
the Makefile compiles without optimisation, where it wraps, and so the model
does.  The key stream is the same in every call, so it is kept in a variable and
grows by a byte with every byte typed (`NextKeyByte`, a turn of the loop).  `Xor`
is written out bit by bit; MCCoding has TLC compare it with the operator of the
library on all pairs of bytes (`XorIsBitwise`).

**Md5Stream** — `init`, `update` and `finalize`: which bytes reach `transform`,
in which order, with which padding and length, for a text of any length, which
the server gives to `update` in one piece.

**Config** — the constructor of `CConfig`, a line at a time, by its characters
(the blank, `=`, `#`, the carriage return, and words), and `GetString`; `find`
and `find_first_not_of` are those of `std::string`.  `meant` is a history
variable, the settings that an independent reading of the lines asks for: an
option, its sign and its value, with nothing but blanks between them (`Says`).
The code reads more than that: of `db_type foo = x`, too, it takes `x` for the
value of `db_type`.  No document says what such a line means, so the history
variable `unclear` has the options of which the latest line that counts is of that kind (`Mixed`),
and `LastSettingCounts` is about the others.

**MC modules** — constants and symmetry sets for TLC; MCCoding runs the three
modules without a system around them together, one moving while the others have
not begun.  **Proof modules** hold the theorems.  Operators introduced by the
word *Variant* are deliberate mistakes that show that the properties can fail;
no specification uses them.

## 3. What is checked

Times are for two workers.

| run | instance | states | properties | shows |
|---|---|---|---|---|
| GpcmPlayers | 2 clients, 1 name, 2 passwords, updates may fail, sends may block, restarts, SQLite | 171,037 (20 s) | `TypeOK`, `LoggedInProved`, `UniqueNames`, `OwnsRightPassword` | two connections contend for one name in all interleavings of newuser, login, profile change, logout and restarts |
| GpcmReplies | MySQL, 1 client, 2 challenges, every query may fail, and one with another text than a name may become another, blocked, partial and failing sends, restarts, fairness | 54,938 (22 s) | `OneReplyQueued`, `RepliesFitState`, `LoginNeedsProof`, `FailedIsFrozen`, `EndedIsDeleted`, `ChallengeComes` | what is left in a send buffer belongs to the client's present state; failing queries give nobody a session it has not proved; of a client with a failed socket nothing is acted on, queued or written; every ended connection is erased and every new one gets its challenge |
| GpcmService | MySQL with plain texts, 2 clients, 2 names, 2 countries, insertions may fail, restarts | 193,437 (106 s) | `IdentityFrozen`, `ImplementsService`, `CountryStored`, `AccountsChangeOnlyByOwner` | a session stays that of one player; refinement; a row is changed by its owner's session only |
| GpspAnswers | MySQL, 2 clients, 2 names that are not plain, failing queries, all network faults, fairness | 39,092 (13 s) | `TypeOK`, `QueueShape`, `NickIsAccount`, `AnsweredIsDeleted` | at most one negative answer and then the final one is queued; a nick is that of an account; answered connections are erased, failed sockets included |
| GsServerLoop | 3 connections, 2 descriptors for them | 191,234 (7 s) | `TypeOK`, `EveryClientPassed`, `NoStaleBit`, `DescriptorsOwned`, `StartedWhole` | one pass per client and loop while clients are erased; no client reads on a bit of `select` that was another's; descriptors neither leak nor are shared; the loop begins with all three services bound, and only a UDP socket that was reset is missing later |
| GsServerServes | 2 connections, 2 descriptors, fairness | 52,446 (12 s) | `EndedClientIsDeleted`, `WaitingIsAccepted` | the loop reaches everyone |
| Requests | 3 requests of any kind, cut and joined at any byte | 61,251 (41 s) | `HandledInOrder`, `OneRequestActed`, `WholeRequestHandled` | what is acted on are whole fields of one request, in order, once; the first request that arrives undamaged is handled |
| Starter | 2 servers, 2 foreign lines, any number of runs | 6,980 (1 s) | `TypeOK`, `PlayingIsRedirected`, `OwnLinesKept`, `AttributesRestored`, `EndedIsClean` | the game runs only when redirected to one server, whatever stopped runs have left; a foreign line is lost only if it was added between reading and writing back, or the script was stopped with the file empty |
| Coding | passwords of up to 9 characters, texts of up to 190 bytes, lines of up to 5 characters | 300,695 (37 s) | `KeyIsParkMiller`, `CutAtKeyByte`, `HashedWhole`, `LastSettingCounts` | the codings and the file against independent definitions |

Three runs end in a violation; each states what the repository says of the
program, and the code does something else:

- `GpcmWrongPassword`: client.h:16-18 says a wrong response closes the
  connection.  `SendProof` (client.cpp:462) answers with the error and leaves
  the client in state 1, where it may try again with the same challenge: in the
  counterexample it does, and logs in.
- `GpcmPartialReply`: `DoSend` keeps the unsent part of a reply
  (socket.cpp:290), but every handler starts with `ClearSendBuffer`
  (client.cpp:478 and others), which drops it: the peer reads the beginning of
  one reply and then another.
- `GpcmSqliteCountry`: `CSQLite3::SetData` binds the password it was given,
  which is empty for updatepro, as the new country (database.cpp:447).  The
  default backend thus loses the country of every player that sets one.

What the runs that pass tell about the code, beside their properties:

- `UniqueNames` needs that the count of `UserExists` does not fail: a failing one
  reads as "no such name", and `newuser` then adds a second row of it.  Nothing
  else that fails can add one.
- `OwnsRightPassword` needs that insertions do not fail, which are acknowledged
  all the same, and that the selects do not.  `SetData` does not ask
  whether its inner `GetData` (database.cpp:421) returned anything: if only that
  query fails, the next updatepro or logout overwrites password, e-mail and
  country with nothing.
- What the table holds is as the properties say only for texts that MySQL's
  queries carry as they are.  With `Plain = {}` and MySQL, TLC finds
  counterexamples to `UniqueNames`, `LoggedInProved`, `OwnsRightPassword`,
  `LoginNeedsProof`, `ImplementsService`, `AccountsChangeOnlyByOwner`,
  `CountryStored` and Gpsp's `NickIsAccount`: a name, an e-mail address or a
  country with a quote in it ends its literal in the query.  The default backend,
  which binds its texts, is not concerned.
- A password is cut at the first character that equals the key byte of its
  place (`CutAtKeyByte`), since the decoded zero byte ends the C string.  The key
  bytes that can be typed are few: `+` as the fifth character, `y` as the ninth,
  `~` as the eleventh, `3` as the thirteenth.  Both sides of such an account
  disagree about its password.
- In `gs_server.cfg`, `db_type=mysql` without blanks is no setting at all (the
  key is the text up to the first blank), so SQLite is opened; and
  `db_type = sqlite3` with a blank behind it opens MySQL (`LastSettingCounts`
  says which lines count); `db_type foo = mysql` is taken for a setting.

### Bounds

Two connections are what the contention properties need: they relate one
client to one other that writes the table between two of its steps.  One name
makes them contend; two names (GpcmService) let them not.
`MaxUsers = 2` bounds the table in the guard of `NewUserCreated`; in GpcmPlayers
it is more than correct runs need (they create one row), and room for a
duplicate where the count may fail.  Two passwords tell right from wrong; two
challenges (GpcmReplies) an old one from the present one.  The e-mail address is
never looked at by the login port.  In GpcmReplies one client is enough since
the buffers of different clients never meet, and the fairness is that of each
client alone; it comes back after each disconnection.  In GpcmReplies and
GpspAnswers one row is enough, as it may become any other, and so is one text
for all columns but the name, the other text being the empty one.  That no
client keeps the loop from another is what GsServerServes checks.  In GsServerLoop three
connections and two descriptors make one service's deleted client hand its
descriptor to a new one within the loop, and make them run out.

`MaxSent = 3` in Requests: a rest of a damaged request, the request that it is
joined to, and one that arrives whole after it.  A login of 20 fields is left
out of the instance, being a login of 18 with the flag; the proofs have it.  In
Starter two addresses tell this run's entries from those of an earlier one, and
two lines one that is lost from one that is kept.  In Coding the characters are
two that equal their key byte somewhere in nine places and one that never does;
190 bytes are three blocks with all their boundaries; five characters are a key,
blanks around `=` and a value, each a class, with one to spare.

In the runs of GsServer the process may end (a failed start, a signal), in
Requests a player may have sent its last and logged out, and in Coding an input
has been read: there deadlock is not checked.  It is in all other runs.
Symmetry is used in runs of safety properties only.

### Fairness

`CGSServer::Update` is called for ever (`GsServer` asks weak fairness of the
program as a whole, `Run`, and nothing of peers) and passes over every client in
the vector, so whatever a pass does *without anything from the peer* happens:
weak fairness on `Delete`, on `SendServerChallenge` and, at the search port, on
`LastPass`.  Nothing is assumed of peers (they may stay silent for ever), of the
network, or of requests.  The sleep at the end of a loop (gs_server.cpp:155) is
finite and does not touch this.

## 4. What is proved

For any sets of clients, names, passwords, connections, requests and lines, any
`Decoded` and any network faults, and, where the table does not say otherwise,
either backend, any failing queries and any texts.  `LookupsAnswer` says that no
count and no select fails; insertions and updates still may.  `QueriesAsMeant`
says that the backend is SQLite or all names, passwords, e-mail addresses and
countries are plain; `AsMeant(S)` says it of the texts in `S` only.

| theorem | assumes | states |
|---|---|---|
| `GpcmProofs!TypeCorrect` | – | `Spec => []TypeOK` |
| `GpcmProofs!IdentityIsFrozen` | – | `Spec => IdentityFrozen` |
| `GpcmProofs!LoginIsProved` | `AsMeant(Name)` | `Spec => LoginNeedsProof` |
| `GpcmProofs!RepliesAreInOrder` | – | `Spec => [](OneReplyQueued /\ RepliesFitState)` |
| `GpcmProofs!SessionsAreProved` | `QueriesAsMeant`, `LookupsAnswer` | `Spec => []LoggedInProved` |
| `GpcmProofs!NamesStayUnique` | `QueriesAsMeant`, counts do not fail | `Spec => []UniqueNames` |
| `GpcmProofs!AccountsAreKept` | `QueriesAsMeant`, only updates fail | `Spec => []OwnsRightPassword` |
| `GpcmProofs!FailedStaysFrozen` | – | `Spec => FailedIsFrozen` |
| `GpcmProofs!RowsAreOfOwners` | `QueriesAsMeant`, `LookupsAnswer` | `Spec => AccountsChangeOnlyByOwner` |
| `GpcmProofs!ServiceImplemented` | `QueriesAsMeant`, `LookupsAnswer`, MySQL | `Spec => ImplementsService`: `Gpcm` implements `LoginService` |
| `GpcmProofs!CountryIsStored` | `QueriesAsMeant`, counts and updates do not fail, MySQL | `Spec => CountryStored` |
| `GpspProofs!SearchTypes`, `AnswerComesLast` | – | `TypeOK`, `QueueShape` |
| `GpspProofs!NicksAreReal` | `AsMeant(Email \cup Password)` | `NickIsAccount` |
| `GsServerProofs!ServerTypes`, `PassIsComplete`, `BitsAreFresh`, `DescriptorsKept`, `LoopRunsWhole` | – | `TypeOK`, `EveryClientPassed`, `NoStaleBit`, `DescriptorsOwned`, `StartedWhole` |
| `RequestsProofs!RequestsInOrder`, `FieldsOfOneRequest`, `WholeRequestsHandled` | – | `HandledInOrder`, `OneRequestActed`, `WholeRequestHandled` |
| `StarterProofs!ScriptTypes`, `GameIsRedirected`, `ScriptCleansUp`, `AttributeIsRestored`, `OthersAreKept` | – | `TypeOK`, `PlayingIsRedirected`, `EndedIsClean`, `AttributesRestored`, `OwnLinesKept` |
| `Md5Proofs!TextsAreHashedWhole` | – | `HashedWhole`, for texts of every length |
| `CodingProofs!KeyStreamIsRight`, `PasswordIsCut` | – | `KeyIsParkMiller`, `CutAtKeyByte`, for passwords of any bytes and any length |
| `CodingProofs!TransportIsFaithful` | – | `base64_decode(base64_encode(data)) = data`, for any sequence of bytes |
| `CodingProofs!SettingsCount` | – | `LastSettingCounts`, for any lines |

**Gpcm.**  The theorems about accounts and sessions need that some queries do not
fail and are the ones that were meant, and no assumption in the table can be
dropped: with `FaultyQueries` set to any one of the queries it excludes, TLC
finds a counterexample in the instance of the run that checks the property, and
with `Plain = {}` and MySQL it finds one to each of them, too (for
`AccountsChangeOnlyByOwner` and `CountryStored` with one client and one row).  The invariant of most of them is

    IInv == TypeOK /\ UnusedAtStart /\ UniqueNames /\ LoggedInProved

`UniqueNames` needs nothing but types and the count of `UserExists`
(`NamesStep`).  `LoggedInProved` is not inductive alone: it speaks of the password
the account has *now*, so it needs that a row keeps its name and password
(`KeepsAccounts`).  `SetData` writes the old password back, and it finds that
password through the name; with two rows of one name it could write the password
of the first into the second (`ReliableSetData`), so keeping passwords needs
`UniqueNames`, and that the select finds the row there is.  An update that fails
leaves the table as it was (`ReliableUpdate`) and an insertion that fails adds no
row, so neither is excluded.  A new connection is not logged in because of
`UnusedAtStart`: connections outside the vector are in state 0.  `AccountsStep`
handles the table (a restart writes it like the request it interrupts),
`DialogueStep` the clients, `IInvStep` combines them.  `OwnsRightPassword` is
added on top of it (`OwnedStep`): what newuser acknowledges was inserted, and
`KeepsAccounts` does the rest.  `CountryIsStored` needs types only: the rows that
have the name after the update are those that were given the country
(`CountryIsGiven`), and it does not matter what `SetData` has read back.

The replies need a different strengthening (`AllFit`): a buffer is empty or one
piece that fits the state.  It is preserved since the state of a client never
goes back while it is in the vector (`StateGrows`), and what `DoSend` leaves of
one piece is at most that piece (`LeftFits`).  `IdentityIsFrozen` follows from
`DialogueStep` and `StateGrows`, `LoginIsProved` from `DialogueStep`; both
are action properties and hold for failing queries too.

`ServiceImplemented` is a simulation under `IInv`.  First the table: `AccountOf`
is a row of the name, and the only one if names are unique (`AccountIsRow`), so
a new row is one new account (`AppendCreates`) and `SetData` changes at most the
country of one (`SetDataChooses`).  Then the sessions: whoever is in one has an
account (`SessionHasAccount`, from `LoggedInProved`).  Each action of Gpcm then
maps to a step of the service (`BeginStep`, `EndStep`, `UnfreshStep`,
`CreatedStep`, `RestartStep`) or to none (`StutterStep`); `ServiceStep` combines
them.  It needs MySQL since SQLite stores another country than the one chosen,
and that is what `GpcmSqliteCountry` shows.  `RowsAreOfOwners` uses the same
lemmas row by row (`RowStep`), on either backend, for MySQL with plain texts.

`FailedIsFrozen` needs to know what a failed socket looks like: still connected
in the server's eyes (an error does not clear `m_Connected`, so `Update` does not
return true), and past the challenge, which would be sent without reading.  This
is `FailedInDialogue`, and it is inductive.  That nothing is queued follows from
what a pass without a request puts (`BuffersAfterPass`, `FailedBuffer`), and that
the table is left alone from the pass that writes it, which has received
(`TableNeedsWorkingSocket`).

**GsServer.**  `EveryClientPassed` speaks of one point of the loop; the invariant
says where every client that is due stands at any point of it: behind the
iterator in the vector of the pass, in the vector of the service to come, or
passed.  Erasing an element shifts the ones behind it, which is right because
the iterator is not advanced then.  `NoStaleBit` needs that a client whose pass
is to come still has the descriptor it had at `SetFD` (`SameBit`), which holds
as a descriptor is closed only in the pass of its owner, and that descriptors
have one owner each.  `StartedWhole` needs that descriptors keep their owner
through accepting and closing connections (`SocketKept`).

**Gpsp.**  `QueueShape` and `NickIsAccount` with `TypeOK` are inductive: rows are
only added, so a nick that was told stays one.

**Requests.**  The invariant (`Stream`) says that the bytes not yet received are in
the order they were sent (`InOrder`), that the rest of a request of which a byte
is among them is there too (`Whole`), and that all that is handled lies before
them (`HandledIsPast`).  Where the fields of a handler come from
(`FieldsOfRequest`) is then the arithmetic of `SplitString`: the first field,
whole and at position 1, fixes the positions of all others up to the end of its
request.  A handler reads no position past the shortest form of the requests of
its verb, so what it reads lies within that end and before the last field
received, the only one that may be cut.  `WholeRequestsHandled` adds that a
request that is received whole and alone is found with its own verb and length
(`WholeIsRequest`), and that a pass which finds one its state knows acts on it.

**Starter.**  The invariant adds which entries the file may hold at each step
(`EntriesOfRun`) and what the script remembers of the attribute
(`AttributeKept`); for `OwnLinesKept`, that while the file is to be written back
every foreign line not yet lost is in the file, was added since it was read, or is
among those read (`LinesSafe`).

**Md5.**  The invariant says that what was transformed and what is buffered make
up what was given (`Buffered`), and in `finalize` how much of the padding is
there (`Padding`).

**Codings.**  `gslame` adds by folding the carry in, which is addition up to a
multiple of `MaxInt` (`FoldedSumIsModular`); so it multiplies with 16807 up to such
a multiple (`GslameIsModular`), as Schrage's formula does (`SchrageIsModular`), and
two numbers from 1 to `MaxInt - 1` that differ by a multiple of `MaxInt` are one.
That the number never comes to 0 is where the factors count: Schrage's difference
is 0 only where `16807 * r = 2836 * d`, and those have no common factor.  The
invariant (`PasswordInv`) is that range and that there is a byte of the key for
every byte typed.  `PasswordIsCut` then follows the password through the code:
combined (`XorTwice`, `XorIsZero`, from the bits), transported
(`TransportIsFaithful`, by the place of a byte in its group of three), cut at its
first 0 (`CStringEnds`), combined again, and not cut once more, since what was
typed has no 0.
For the configuration the invariant (`ConfigInv`) says that `m_CFG` and `meant`
agree on every option that is not `unclear` (`SameOf`), and the step
(`ReadLineStep`) is that one line changes both alike (`LineIsRead`): where `Parse`
finds its positions the line says what it reads, or is of the unclear kind
(`ReadIsSaid`), and a line that says something has its positions there and nowhere
else (`SaidIsRead`).

The proofs rest on the named assumptions of the modules (`NoData` is no row,
`Empty` is no text, and so on), which TLC evaluates in every run.

Only model-checked: the liveness properties (`EndedIsDeleted`, `ChallengeComes`,
`AnsweredIsDeleted`, `EndedClientIsDeleted`, `WaitingIsAccepted`), which are
outside the prover's reach, and the assumption `XorIsBitwise`, since the library
defines its operator by recursion.  Every safety property of every passing run is
a theorem.

## 5. Not modelled, and why

- *`transform` of MD5*: arithmetic without a state; the dialogue takes the digest
  to be injective.
- *Log*, and the texts of replies and messages.
- *What MySQL makes of a query that was not meant*, beyond the kind of its
  statement: see UserTable.  The properties of the table are for plain texts.
- *Base64 text of a length that is no multiple of 4.*  `base64_decode`
  (client.cpp:164) sizes its buffer for whole groups and can write past it for
  others, which is undefined; the model decodes what `base64_encode` makes, as the
  game sends it.
- *Vendored headers*: about 20,000 of the repository's 24,000 lines of code are
  headers of MySQL and SQLite, without a line of this program in them.  The
  project maps most of what is left.
- *The pages of `src/scripts`*: markup, and a download that hands out a file.
- *Two starters at once*: the script waits for its game, and the game does not
  run twice on a machine.
- *Errors of a listening socket.*  A running listener never gets an error flag
  (only `Listen` sets it, and then the server exits), so the `Reset` of a TCP
  listener in gpcm.cpp:78 and gpsp.cpp:79 does not happen.
- *Descriptors beyond `FD_SETSIZE`, and the pointers the destructor deletes when
  the database could not be opened* (gs_server.cpp:96): undefined behaviour.  In
  the second case the process ends anyway, and that is what `Exit` does.
- *Functions nobody calls*: broadcast and the other forms of `SendTo` of
  `CUDPSocket`, `Disconnect` and `SetNoDelay` of `CTCPSocket`, `Exists` and `Set`
  of `CConfig`.  `GetInt` is `GetString` and `atoi`, for the port of MySQL.
- *Answers the search port loses on a slow network*: it closes two passes after
  its answer whether that could be sent or not (client.cpp:725), and promises
  nothing else.
- *Session keys*: `SendProof` puts the session in a local map and never stores
  it; the column stays 0 and nobody reads it.
- *`userid` and `profileid`*, which are a constant minus the row's id in 32 bits.
- *Time*: the unit of the sleep in gs_server.cpp:155 (microseconds given to a
  macro that takes milliseconds) makes the pause longer and stays finite.

## 6. Plan

Done: all components with state of their own, restarts, framing, the start
script and the codings, theorems for every safety property of the runs, and the
refinement.  What is left, the most important
first:

1. Framing of the search port.  Its requests are found like those of the login
   port, and Gpsp takes them as they come; as it reads the fields 3 and 5 of at
   least ten, the argument of `FieldsOfRequest` is expected to carry over.
2. Two starters at once, if the scripts are ever run without waiting for the
   game.
