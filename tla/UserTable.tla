----------------------------- MODULE UserTable -----------------------------
(***************************************************************************)
(* The account database behind CDB (database.h): the table "users" and the *)
(* member functions of CMySQL and CSQLite3 that read and write it.  The    *)
(* login emulator is single threaded and never holds a transaction open,   *)
(* so a member function is one step: the module has no variables, and each *)
(* function is the SET of results it may return for a table.               *)
(*                                                                         *)
(* A query that fails (SQLITE_BUSY, a lost MySQL connection) is only       *)
(* logged; the function goes on with an empty answer.  FaultyQueries says  *)
(* which queries may do so.                                                *)
(*                                                                         *)
(* CSQLite3 binds every text as a parameter.  CMySQL splices them into its *)
(* queries between quotes, unescaped: unless every text of a query is      *)
(* Plain, what MySQL makes of the query is not determined here, beyond     *)
(* what a single statement of its kind can do.                             *)
(***************************************************************************)
EXTENDS Integers, Sequences, FiniteSets

CONSTANTS
  Name, Password, Email, Country,  \* the texts the columns hold
  DefaultCountry,    \* the "00" every new account gets
  Empty,             \* the empty string
  NoData,            \* the empty map GetData returns
  Backend,           \* CDBType of gs_server.cfg: "sqlite3" or "mysql"
  FaultyQueries,     \* the queries that may fail
  Plain,             \* the texts CMySQL's queries carry as they are: without
                     \* a quote or backslash, no longer than their column
                     \* and, by its collation, equal to no other text
  MaxUsers           \* bound on the rows of the table

ASSUME BackendAssumption == Backend \in {"sqlite3", "mysql"}
ASSUME FaultAssumption ==
  FaultyQueries \subseteq {"count", "select", "insert", "update"}
ASSUME MaxUsersAssumption == MaxUsers \in Nat
ASSUME CountryAssumption == DefaultCountry \in Country
\* SplitString drops empty fields, so no request carries an empty text.
ASSUME EmptyAssumption ==
  Empty \notin Name \cup Password \cup Email \cup Country \cup Nat

PasswordText == Password \cup {Empty}
Text == Password \cup Email \cup Country \cup {Empty}

(* A row; its id (AUTO_INCREMENT, nothing is ever deleted) is its position. *)
Row == [name : Name, password : PasswordText, email : Text, country : Text,
        session : Nat]

ASSUME NoDataAssumption == NoData \notin Row

Table == Seq(Row)

RowsOf(t, n) == {i \in DOMAIN t : t[i].name = n}

(* Whether a query that carries these texts is the one that was meant. *)
AsMeant(texts) == Backend = "sqlite3" \/ texts \subseteq Plain \cup {Empty}

(* What a query that was not meant may read or write in place of a row.  The *)
(* session stays 0: nothing reads it.                                        *)
AnyRow == [name : Name, password : PasswordText, email : Text, country : Text,
           session : {0}]

(* What a query may answer: the right result, or its failure value. *)
Answers(query, result, failure) ==
  {result} \cup (IF query \in FaultyQueries THEN {failure} ELSE {})

(* Variant: a count of one is taken for none. *)
UserExistsOffByOne(t, n) ==
  IF AsMeant({n})
  THEN Answers("count", Cardinality(RowsOf(t, n)) > 1, FALSE)
  ELSE BOOLEAN

(* A failing count is reported as "no such user". *)
UserExists(t, n) ==
  IF AsMeant({n}) THEN Answers("count", RowsOf(t, n) # {}, FALSE) ELSE BOOLEAN

(* A select of which the first row is taken: any row that qualifies, or, if  *)
(* the texts make it another select, any row at all.                         *)
FirstOf(rows) ==
  IF rows = {} \/ "select" \in FaultyQueries THEN rows \cup {NoData} ELSE rows

Select(texts, rows) == IF AsMeant(texts) THEN FirstOf(rows) ELSE AnyRow \cup {NoData}

GetData(t, n) ==
  UNION {IF exists THEN Select({n}, {t[i] : i \in RowsOf(t, n)}) ELSE {NoData} :
           exists \in UserExists(t, n)}

(* The lookup of the search port, which does not ask UserExists first. *)
GetDataByLogin(t, e, p) ==
  Select({e, p}, {t[i] : i \in {j \in DOMAIN t : t[j].email = e /\ t[j].password = p}})

NewRow(n, p, e, k) ==
  [name |-> n, password |-> p, email |-> e, country |-> k, session |-> 0]

(* An insertion appends its row; one that was not meant may fail, or append *)
(* any rows, but has no way to touch those that are there.                  *)
Insert(t, row) ==
  IF AsMeant({row.name, row.password, row.email, row.country})
  THEN Answers("insert", Append(t, row), t)
  ELSE {t \o more : more \in UNION {[1 .. k -> AnyRow] : k \in 0 .. MaxUsers - Len(t)}}

CreateUser(t, n, p, e, k) ==
  UNION {IF exists THEN {t} ELSE Insert(t, NewRow(n, p, e, k)) :
           exists \in UserExists(t, n)}

(* The map a caller passes to SetData; an absent key reads as "". *)
NothingGiven ==
  [password |-> Empty, email |-> Empty, country |-> Empty, session |-> Empty]

(* The old values when the inner GetData came back empty. *)
Blank == [password |-> Empty, email |-> Empty, country |-> Empty, session |-> 0]

OldValues(row) == IF row = NoData THEN Blank ELSE row

(* Variants: the old value is never, or always, written back. *)
GivenNew(new, old) == new
GivenOld(new, old) == old

Given(new, old) == IF new = Empty THEN old ELSE new

(* CMySQL writes what the caller gave.  CSQLite3 binds the PASSWORD of the   *)
(* caller's map where it should bind the e-mail and the country, and takes a *)
(* session of 0 for "none given".                                            *)
UpdateValues(row, given, old) ==
  IF Backend = "mysql"
  THEN [row EXCEPT !.password = Given(given.password, old.password),
                   !.email    = Given(given.email, old.email),
                   !.country  = Given(given.country, old.country),
                   !.session  = Given(given.session, old.session)]
  ELSE [row EXCEPT
          !.password = Given(given.password, old.password),
          !.email    = IF given.email = Empty THEN old.email ELSE given.password,
          !.country  = IF given.country = Empty THEN old.country
                                                ELSE given.password,
          !.session  = IF given.session \in {Empty, 0} THEN old.session
                                                       ELSE given.session]

(* Variant: the UPDATE without its WHERE clause. *)
UpdateAllRows(t, n, given, old) ==
  [i \in DOMAIN t |-> UpdateValues(t[i], given, old)]

UpdateRows(t, n, given, old) ==
  [i \in DOMAIN t |-> IF t[i].name = n THEN UpdateValues(t[i], given, old)
                                       ELSE t[i]]

(* The texts CMySQL's UPDATE carries, of which some were read back from the  *)
(* table.                                                                    *)
UpdateTexts(n, given, old) ==
  {n, Given(given.password, old.password), Given(given.email, old.email),
   Given(given.country, old.country)}

(* An UPDATE that was not meant may fail, or rewrite any rows; it neither    *)
(* adds nor removes any.                                                     *)
Update(t, n, given, old) ==
  IF AsMeant(UpdateTexts(n, given, old))
  THEN Answers("update", UpdateRows(t, n, given, old), t)
  ELSE {t} \cup [DOMAIN t -> AnyRow]

SetData(t, n, given) ==
  UNION {IF exists THEN UNION {Update(t, n, given, OldValues(row)) : row \in GetData(t, n)}
                   ELSE {t} : exists \in UserExists(t, n)}

=============================================================================
