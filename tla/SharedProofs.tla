----------------------------- MODULE SharedProofs -----------------------------
(***************************************************************************)
(* What the operators of UserTable and TcpSocket return and keep, for any  *)
(* table, clients and replies: the lemmas that the proofs about both ports *)
(* rest on.                                                                *)
(***************************************************************************)
EXTENDS UserTable, TcpSocket, TLAPS

-----------------------------------------------------------------------------
(* The table. *)

(* The rows of a name are rows of the table with that name. *)
LEMMA RowsOfType ==
  ASSUME NEW t \in Table, NEW n, NEW i \in RowsOf(t, n)
  PROVE  i \in 1 .. Len(t) /\ t[i] \in Row /\ t[i].name = n
BY DEF RowsOf, Table

(* Every query is the one the code means: on SQLite, which binds its texts, *)
(* and on MySQL as long as the texts are plain ones.                        *)
QueriesAsMeant == AsMeant(Name \cup Text)

LEMMA TextsAsMeant ==
  ASSUME QueriesAsMeant, NEW texts \in SUBSET (Name \cup Text)
  PROVE  AsMeant(texts)
BY DEF QueriesAsMeant, AsMeant

(* Whatever MySQL makes of a select, GetData returns a row, or nothing. *)
LEMMA GetDataRow ==
  ASSUME NEW t \in Table, NEW n, NEW row \in GetData(t, n)
  PROVE  row = NoData \/ row \in Row
<1>1. \/ row = NoData
      \/ row \in FirstOf({t[i] : i \in RowsOf(t, n)})
      \/ row \in AnyRow
  BY DEF GetData, Select
<1>2. FirstOf({t[i] : i \in RowsOf(t, n)}) \subseteq {t[i] : i \in RowsOf(t, n)} \cup {NoData}
  BY DEF FirstOf
<1>3. AnyRow \subseteq Row
  BY DEF AnyRow, Row
<1> QED BY <1>1, <1>2, <1>3, RowsOfType

(* It returns rows of the name it is asked for, if that is what it asks. *)
LEMMA GetDataType ==
  ASSUME NEW t \in Table, NEW n, AsMeant({n}), NEW row \in GetData(t, n)
  PROVE  row = NoData \/ \E i \in RowsOf(t, n) : row = t[i]
<1>1. \/ row = NoData
      \/ row \in FirstOf({t[i] : i \in RowsOf(t, n)})
  BY DEF GetData, Select
<1>2. FirstOf({t[i] : i \in RowsOf(t, n)}) \subseteq {t[i] : i \in RowsOf(t, n)} \cup {NoData}
  BY DEF FirstOf
<1> QED BY <1>1, <1>2

(* The texts of newuser. *)
LEMMA InsertTexts ==
  ASSUME QueriesAsMeant, NEW n \in Name, NEW p \in PasswordText, NEW e \in Email,
         NEW k \in Country
  PROVE  LET row == NewRow(n, p, e, k)
         IN  AsMeant({row.name, row.password, row.email, row.country})
<1>1. {n, p, e, k} \in SUBSET (Name \cup Text)
  BY DEF PasswordText, Text
<1> QED BY <1>1, TextsAsMeant DEF NewRow

(* CreateUser appends one row or leaves the table as it is. *)
LEMMA CreateUserResult ==
  ASSUME QueriesAsMeant, NEW t, NEW n \in Name, NEW p \in PasswordText, NEW e \in Email,
         NEW k \in Country, NEW u \in CreateUser(t, n, p, e, k)
  PROVE  u = t \/ u = Append(t, NewRow(n, p, e, k))
<1> DEFINE row == NewRow(n, p, e, k)
<1>1. AsMeant({row.name, row.password, row.email, row.country})
  BY InsertTexts
<1>2. u = t \/ u \in Insert(t, row)
  BY DEF CreateUser
<1> HIDE DEF row
<1>3. u = t \/ u = Append(t, row)
  BY <1>1, <1>2 DEF Insert, Answers
<1> QED BY <1>3 DEF row

(* SetData does the UPDATE with some old row, or nothing. *)
LEMMA SetDataResult ==
  ASSUME NEW t, NEW n, NEW given, NEW u \in SetData(t, n, given)
  PROVE  u = t \/ \E row \in GetData(t, n) : u \in Update(t, n, given, OldValues(row))
BY DEF SetData

GivenData ==
  [password : PasswordText, email : Text, country : Text, session : Nat \cup {Empty}]

(* The old values SetData falls back on are texts of their columns. *)
LEMMA OldValuesType ==
  ASSUME NEW t \in Table, NEW n, NEW row \in GetData(t, n)
  PROVE  /\ OldValues(row).password \in PasswordText
         /\ OldValues(row).email \in Text
         /\ OldValues(row).country \in Text
         /\ OldValues(row).session \in Nat
<1>1. CASE row = NoData
  BY <1>1 DEF OldValues, Blank, PasswordText, Text
<1>2. CASE row # NoData
  <2>1. row \in Row
    BY <1>2, GetDataRow
  <2> QED BY <1>2, <2>1 DEF OldValues, Row
<1> QED BY <1>1, <1>2

(* The UPDATE of either backend makes a row of a row, of the same name. *)
LEMMA UpdateValuesType ==
  ASSUME NEW row \in Row, NEW given \in GivenData, NEW old,
         old.password \in PasswordText, old.email \in Text,
         old.country \in Text, old.session \in Nat
  PROVE  /\ UpdateValues(row, given, old) \in Row
         /\ UpdateValues(row, given, old).name = row.name
         /\ UpdateValues(row, given, old).password = Given(given.password, old.password)
<1>1. /\ Given(given.password, old.password) \in PasswordText
      /\ Given(given.email, old.email) \in Text
      /\ Given(given.country, old.country) \in Text
      /\ Given(given.session, old.session) \in Nat
  BY DEF Given, GivenData
<1>2. given.password \in Text
  BY DEF GivenData, PasswordText, Text
<1>3. given.session \notin {Empty, 0} => given.session \in Nat
  BY DEF GivenData
<1>4. CASE Backend = "mysql"
  BY <1>1, <1>4 DEF UpdateValues, Row
<1>5. CASE Backend # "mysql"
  BY <1>1, <1>2, <1>3, <1>5 DEF UpdateValues, Row
<1> QED BY <1>4, <1>5

(* The UPDATE leaves a table of the same length. *)
LEMMA UpdateRowsType ==
  ASSUME NEW t \in Table, NEW n, NEW given \in GivenData, NEW old,
         old.password \in PasswordText, old.email \in Text,
         old.country \in Text, old.session \in Nat
  PROVE  /\ UpdateRows(t, n, given, old) \in Table
         /\ Len(UpdateRows(t, n, given, old)) = Len(t)
         /\ \A i \in 1 .. Len(t) :
              UpdateRows(t, n, given, old)[i] =
                IF t[i].name = n THEN UpdateValues(t[i], given, old) ELSE t[i]
<1> DEFINE u == UpdateRows(t, n, given, old)
<1>1. /\ Len(t) \in Nat /\ DOMAIN t = 1 .. Len(t)
      /\ \A i \in 1 .. Len(t) : t[i] \in Row
  BY DEF Table
<1>2. \A i \in 1 .. Len(t) : UpdateValues(t[i], given, old) \in Row
  BY <1>1, UpdateValuesType
<1>3. u = [i \in 1 .. Len(t) |->
            IF t[i].name = n THEN UpdateValues(t[i], given, old) ELSE t[i]]
  BY <1>1 DEF UpdateRows
<1> HIDE DEF u
<1>4. u \in [1 .. Len(t) -> Row]
  BY <1>1, <1>2, <1>3
<1>5. u \in Seq(Row) /\ Len(u) = Len(t)
  BY <1>1, <1>4
<1> QED BY <1>3, <1>5 DEF u, Table

(* SetData leaves a table, whatever MySQL makes of its queries. *)
LEMMA SetDataType ==
  ASSUME NEW t \in Table, NEW n, NEW given \in GivenData, NEW u \in SetData(t, n, given)
  PROVE  u \in Table
<1>1. CASE u = t
  BY <1>1
<1>2. CASE u \in [DOMAIN t -> AnyRow]
  <2>1. DOMAIN t = 1 .. Len(t) /\ Len(t) \in Nat
    BY DEF Table
  <2>2. AnyRow \subseteq Row
    BY DEF AnyRow, Row
  <2>3. u \in [1 .. Len(t) -> Row]
    BY <1>2, <2>1, <2>2
  <2> QED BY <2>1, <2>3 DEF Table
<1>3. ASSUME NEW row \in GetData(t, n), u = UpdateRows(t, n, given, OldValues(row))
      PROVE  u \in Table
  <2> DEFINE old == OldValues(row)
  <2>1. /\ old.password \in PasswordText /\ old.email \in Text
        /\ old.country \in Text /\ old.session \in Nat
    BY OldValuesType
  <2> HIDE DEF old
  <2>2. UpdateRows(t, n, given, old) \in Table
    BY <2>1, UpdateRowsType
  <2> QED BY <1>3, <2>2 DEF old
<1> QED BY <1>1, <1>2, <1>3, SetDataResult DEF Update, Answers

(* An UPDATE from what was read back is the one it means. *)
LEMMA UpdateAsMeant ==
  ASSUME QueriesAsMeant, NEW t \in Table, NEW n \in Name \cup {Empty},
         NEW given \in GivenData, NEW row \in GetData(t, n),
         NEW u \in Update(t, n, given, OldValues(row))
  PROVE  \/ u = UpdateRows(t, n, given, OldValues(row))
         \/ "update" \in FaultyQueries /\ u = t
<1> DEFINE old == OldValues(row)
<1>1. old.password \in PasswordText /\ old.email \in Text /\ old.country \in Text
  BY OldValuesType
<1> HIDE DEF old
<1>2. UpdateTexts(n, given, old) \in SUBSET (Name \cup Text)
  BY <1>1 DEF UpdateTexts, Given, GivenData, PasswordText, Text
<1>3. AsMeant(UpdateTexts(n, given, old))
  BY <1>2, TextsAsMeant
<1>4. u = UpdateRows(t, n, given, old) \/ ("update" \in FaultyQueries /\ u = t)
  BY <1>3 DEF Update, Answers, old
<1> QED BY <1>4 DEF old

(* Where its queries are what they mean, it rewrites the rows of the name. *)
LEMMA SetDataRewrites ==
  ASSUME QueriesAsMeant, NEW t \in Table, NEW n \in Name \cup {Empty},
         NEW given \in GivenData, NEW u \in SetData(t, n, given)
  PROVE  \/ u = t
         \/ \E row \in GetData(t, n) : u = UpdateRows(t, n, given, OldValues(row))
BY SetDataResult, UpdateAsMeant

(* It renames no row, whichever queries fail. *)
LEMMA SetDataNames ==
  ASSUME QueriesAsMeant, NEW t \in Table, NEW n \in Name \cup {Empty},
         NEW given \in GivenData, NEW u \in SetData(t, n, given)
  PROVE  DOMAIN u = DOMAIN t /\ \A i \in DOMAIN t : u[i].name = t[i].name
<1>1. CASE u = t
  BY <1>1
<1>2. ASSUME NEW row \in GetData(t, n), u = UpdateRows(t, n, given, OldValues(row))
      PROVE  DOMAIN u = DOMAIN t /\ \A i \in DOMAIN t : u[i].name = t[i].name
  <2> DEFINE old == OldValues(row)
  <2>1. /\ old.password \in PasswordText /\ old.email \in Text
        /\ old.country \in Text /\ old.session \in Nat
    BY OldValuesType
  <2> HIDE DEF old
  <2>2. \A i \in DOMAIN t : t[i] \in Row
    BY DEF Table
  <2>3. \A i \in DOMAIN t : UpdateValues(t[i], given, old).name = t[i].name
    BY <2>1, <2>2, UpdateValuesType
  <2>4. u = [i \in DOMAIN t |-> IF t[i].name = n THEN UpdateValues(t[i], given, old) ELSE t[i]]
    BY <1>2 DEF old, UpdateRows
  <2> QED BY <2>3, <2>4
<1> QED BY <1>1, <1>2, SetDataRewrites

(* CreateUser leaves a table, whatever MySQL makes of its queries. *)
LEMMA CreateUserType ==
  ASSUME NEW t \in Table, NEW n \in Name, NEW p \in PasswordText, NEW e \in Email,
         NEW k \in Country, NEW u \in CreateUser(t, n, p, e, k)
  PROVE  u \in Table
<1>1. NewRow(n, p, e, k) \in Row
  BY DEF NewRow, Row, Text
<1>2. u = t \/ u \in Insert(t, NewRow(n, p, e, k))
  BY DEF CreateUser
<1>3. ASSUME NEW m \in Nat, NEW more \in [1 .. m -> AnyRow], u = t \o more
      PROVE  u \in Table
  <2>1. AnyRow \subseteq Row
    BY DEF AnyRow, Row
  <2>2. more \in Seq(Row)
    BY <2>1
  <2> QED BY <1>3, <2>2 DEF Table
<1>4. 0 .. MaxUsers - Len(t) \subseteq Nat
  BY MaxUsersAssumption DEF Table
<1>5. \/ u = t \/ u = Append(t, NewRow(n, p, e, k))
      \/ \E m \in 0 .. MaxUsers - Len(t) : \E more \in [1 .. m -> AnyRow] : u = t \o more
  BY <1>2 DEF Insert, Answers
<1>6. Append(t, NewRow(n, p, e, k)) \in Table
  BY <1>1 DEF Table
<1> QED BY <1>3, <1>4, <1>5, <1>6

(* It removes no row and renames none, either. *)
LEMMA CreateUserNames ==
  ASSUME NEW t \in Table, NEW n, NEW p, NEW e, NEW k, NEW u \in CreateUser(t, n, p, e, k),
         NEW i \in DOMAIN t
  PROVE  i \in DOMAIN u /\ u[i] = t[i]
<1>1. Len(t) \in Nat /\ DOMAIN t = 1 .. Len(t)
  BY DEF Table
<1>2. ASSUME NEW m \in Nat, NEW more \in [1 .. m -> AnyRow], u = t \o more
      PROVE  i \in DOMAIN u /\ u[i] = t[i]
  <2>1. more \in Seq(AnyRow) /\ Len(more) = m
    OBVIOUS
  <2> QED BY <1>1, <1>2, <2>1
<1>3. 0 .. MaxUsers - Len(t) \subseteq Nat
  BY <1>1, MaxUsersAssumption
<1>4. \/ u = t \/ u = Append(t, NewRow(n, p, e, k))
      \/ \E m \in 0 .. MaxUsers - Len(t) : \E more \in [1 .. m -> AnyRow] : u = t \o more
  BY DEF CreateUser, Insert, Answers
<1>5. CASE u = Append(t, NewRow(n, p, e, k))
  BY <1>1, <1>5
<1> QED BY <1>2, <1>3, <1>4, <1>5

(* The two maps the login port passes to SetData. *)
LEMMA GivenType ==
  /\ \A country \in Country : [NothingGiven EXCEPT !.country = country] \in GivenData
  /\ [NothingGiven EXCEPT !.session = 0] \in GivenData
BY DEF NothingGiven, GivenData, PasswordText, Text


-----------------------------------------------------------------------------
Unique(t) == \A i, j \in DOMAIN t : t[i].name = t[j].name => i = j

(* Every row of t is in u, with its name and its password. *)
KeepsAccounts(t, u) ==
  /\ Len(t) <= Len(u)
  /\ \A i \in 1 .. Len(t) : u[i].name = t[i].name /\ u[i].password = t[i].password

(* A database that can be read, whether or not it can be written: full disks, *)
(* read-only files and locks held by readers fail insertions and updates.     *)
LookupsAnswer == FaultyQueries \subseteq {"insert", "update"}

(* There, a user exists exactly if its name has a row. *)
LEMMA ReliableUserExists ==
  ASSUME QueriesAsMeant, "count" \notin FaultyQueries, NEW t, NEW n \in Name \cup {Empty}
  PROVE  UserExists(t, n) = {RowsOf(t, n) # {}}
<1>1. AsMeant({n})
  BY TextsAsMeant DEF Text
<1> QED BY <1>1 DEF UserExists, Answers

(* There, GetData finds a row exactly if the name has one. *)
LEMMA ReliableGetData ==
  ASSUME QueriesAsMeant, LookupsAnswer, NEW t \in Table, NEW n \in Name \cup {Empty},
         NEW row \in GetData(t, n)
  PROVE  \/ RowsOf(t, n) = {} /\ row = NoData
         \/ \E i \in RowsOf(t, n) : row = t[i]
<1>0. "count" \notin FaultyQueries /\ "select" \notin FaultyQueries
  BY DEF LookupsAnswer
<1>1. UserExists(t, n) = {RowsOf(t, n) # {}}
  BY <1>0, ReliableUserExists
<1>2. CASE RowsOf(t, n) = {}
  BY <1>1, <1>2 DEF GetData
<1>3. CASE RowsOf(t, n) # {}
  <2>1. row \in FirstOf({t[i] : i \in RowsOf(t, n)})
    <3>1. AsMeant({n})
      BY TextsAsMeant DEF Text
    <3> QED BY <1>1, <1>3, <3>1 DEF GetData, Select
  <2>2. {t[i] : i \in RowsOf(t, n)} # {}
    BY <1>3
  <2> QED BY <1>0, <2>1, <2>2 DEF FirstOf
<1> QED BY <1>2, <1>3

(* The heart of the argument: SetData reads the old password back through    *)
(* the name, so a profile change keeps it because names are unique.          *)
LEMMA ReliableSetData ==
  ASSUME QueriesAsMeant, LookupsAnswer, NEW t \in Table, Unique(t),
         NEW n \in Name \cup {Empty}, NEW given \in GivenData, given.password = Empty,
         NEW u \in SetData(t, n, given)
  PROVE  KeepsAccounts(t, u) /\ Len(u) = Len(t)
<1>0. Len(t) \in Nat /\ DOMAIN t = 1 .. Len(t)
  BY DEF Table
<1>1. CASE u = t
  BY <1>0, <1>1 DEF KeepsAccounts
<1>2. ASSUME NEW row \in GetData(t, n), u = UpdateRows(t, n, given, OldValues(row))
      PROVE  KeepsAccounts(t, u) /\ Len(u) = Len(t)
  <2> DEFINE old == OldValues(row)
  <2>1. /\ old.password \in PasswordText /\ old.email \in Text
        /\ old.country \in Text /\ old.session \in Nat
    BY OldValuesType
  <2>2. ASSUME NEW i \in 1 .. Len(t), t[i].name = n PROVE old = t[i]
    <3>1. i \in RowsOf(t, n)
      BY <1>0, <2>2 DEF RowsOf
    <3>2. PICK j \in RowsOf(t, n) : row = t[j]
      BY <3>1, ReliableGetData
    <3>3. j = i /\ t[j] \in Row
      BY <1>0, <2>2, <3>2, RowsOfType DEF Unique
    <3> QED BY <3>2, <3>3, NoDataAssumption DEF OldValues
  <2> HIDE DEF old
  <2>3. /\ Len(u) = Len(t)
        /\ \A i \in 1 .. Len(t) :
             u[i] = IF t[i].name = n THEN UpdateValues(t[i], given, old) ELSE t[i]
    BY <1>2, <2>1, UpdateRowsType DEF old
  <2>4. ASSUME NEW i \in 1 .. Len(t), t[i].name = n
        PROVE  u[i].name = t[i].name /\ u[i].password = t[i].password
    <3>1. t[i] \in Row
      BY <1>0 DEF Table
    <3>2. /\ UpdateValues(t[i], given, old).name = t[i].name
          /\ UpdateValues(t[i], given, old).password = Given(Empty, old.password)
      BY <2>1, <3>1, UpdateValuesType
    <3> QED BY <2>2, <2>3, <2>4, <3>2 DEF Given
  <2>5. ASSUME NEW i \in 1 .. Len(t), t[i].name # n PROVE u[i] = t[i]
    BY <2>3, <2>5
  <2> QED BY <1>0, <2>3, <2>4, <2>5 DEF KeepsAccounts
<1> QED BY <1>1, <1>2, SetDataRewrites

(* A row of a new name keeps accounts and uniqueness. *)
LEMMA AppendKeeps ==
  ASSUME NEW t \in Table, NEW row \in Row
  PROVE  /\ KeepsAccounts(t, Append(t, row))
         /\ Unique(t) /\ RowsOf(t, row.name) = {} => Unique(Append(t, row))
<1>1. /\ Len(t) \in Nat /\ DOMAIN t = 1 .. Len(t)
      /\ DOMAIN Append(t, row) = 1 .. Len(t) + 1
      /\ Len(Append(t, row)) = Len(t) + 1
      /\ \A i \in 1 .. Len(t) : Append(t, row)[i] = t[i]
      /\ Append(t, row)[Len(t) + 1] = row
  BY DEF Table
<1>2. KeepsAccounts(t, Append(t, row))
  BY <1>1 DEF KeepsAccounts
<1>3. ASSUME Unique(t), RowsOf(t, row.name) = {} PROVE Unique(Append(t, row))
  <2>1. \A i \in 1 .. Len(t) : t[i].name # row.name
    BY <1>1, <1>3 DEF RowsOf
  <2> QED BY <1>1, <1>3, <2>1 DEF Unique
<1> QED BY <1>2, <1>3

(* CreateUser keeps accounts and uniqueness, whether or not the name is new:  *)
(* this rests on the count only.                                              *)
LEMMA CreateUserKeeps ==
  ASSUME QueriesAsMeant, "count" \notin FaultyQueries, NEW t \in Table, Unique(t),
         NEW n \in Name, NEW p \in PasswordText, NEW e \in Email, NEW k \in Country,
         NEW u \in CreateUser(t, n, p, e, k)
  PROVE  KeepsAccounts(t, u) /\ Unique(u)
<1> DEFINE row == NewRow(n, p, e, k)
<1>1. row \in Row /\ row.name = n
  BY DEF NewRow, Row, Text
<1>2. u = t \/ (RowsOf(t, n) = {} /\ u = Append(t, row))
  <2>1. UserExists(t, n) = {RowsOf(t, n) # {}}
    BY ReliableUserExists
  <2>2. u = t \/ RowsOf(t, n) = {}
    BY <2>1 DEF CreateUser
  <2> QED BY <2>2, CreateUserResult
<1> HIDE DEF row
<1>3. CASE u = t
  BY <1>3 DEF KeepsAccounts, Table
<1>4. CASE RowsOf(t, n) = {} /\ u = Append(t, row)
  BY <1>1, <1>4, AppendKeeps
<1> QED BY <1>2, <1>3, <1>4

(* A table that keeps the accounts of another still has its rows. *)
LEMMA KeepsRows ==
  ASSUME NEW t \in Table, NEW u \in Table, KeepsAccounts(t, u), NEW n,
         NEW i \in RowsOf(t, n)
  PROVE  i \in RowsOf(u, n) /\ u[i].password = t[i].password
BY DEF KeepsAccounts, RowsOf, Table

(* Where the name has a row, SetData does the UPDATE, or the UPDATE fails. *)
LEMMA SetDataDone ==
  ASSUME QueriesAsMeant, "count" \notin FaultyQueries, NEW t \in Table,
         NEW n \in Name \cup {Empty}, RowsOf(t, n) # {},
         NEW given \in GivenData, NEW u \in SetData(t, n, given)
  PROVE  \/ "update" \in FaultyQueries /\ u = t
         \/ \E row \in GetData(t, n) : u = UpdateRows(t, n, given, OldValues(row))
<1>1. UserExists(t, n) = {TRUE}
  BY ReliableUserExists
<1>2. PICK row \in GetData(t, n) : u \in Update(t, n, given, OldValues(row))
  BY <1>1 DEF SetData
<1> QED BY <1>2, UpdateAsMeant

(* u is t with the row i rewritten from that row itself. *)
Rewritten(t, u, i, given) ==
  /\ DOMAIN u = DOMAIN t
  /\ u[i] = UpdateValues(t[i], given, t[i])
  /\ \A j \in DOMAIN t \ {i} : u[j] = t[j]

(* SetData rewrites the one row of the name, unless the UPDATE fails. *)
LEMMA ReliableUpdate ==
  ASSUME QueriesAsMeant, LookupsAnswer, NEW t \in Table, Unique(t),
         NEW n \in Name \cup {Empty}, NEW i \in RowsOf(t, n),
         NEW given \in GivenData, NEW u \in SetData(t, n, given)
  PROVE  Rewritten(t, u, i, given) \/ ("update" \in FaultyQueries /\ u = t)
<1> SUFFICES ASSUME ~("update" \in FaultyQueries /\ u = t)
             PROVE  Rewritten(t, u, i, given)
  OBVIOUS
<1>1. RowsOf(t, n) # {} /\ "count" \notin FaultyQueries
  BY DEF LookupsAnswer
<1>2. PICK row \in GetData(t, n) : u = UpdateRows(t, n, given, OldValues(row))
  BY <1>1, SetDataDone
<1>3. u = UpdateRows(t, n, given, OldValues(row))
  BY <1>2
<1>4. PICK j \in RowsOf(t, n) : row = t[j]
  BY <1>1, ReliableGetData
<1>5. i \in DOMAIN t /\ t[i].name = n /\ j = i
  BY DEF RowsOf, Unique
<1>6. OldValues(row) = t[i]
  <2>1. t[i] \in Row
    BY <1>5 DEF Table
  <2> QED BY <1>4, <1>5, <2>1, NoDataAssumption DEF OldValues
<1>7. u = UpdateRows(t, n, given, t[i])
  BY <1>3, <1>6
<1>8. \A k \in DOMAIN t : t[k].name = n <=> k = i
  BY <1>5 DEF Unique
<1> QED BY <1>5, <1>7, <1>8 DEF UpdateRows, Rewritten

(* Where the UPDATE and the count before it do not fail, MySQL stores the     *)
(* country it is given in every row of the name, whatever SetData reads back. *)
LEMMA CountryIsGiven ==
  ASSUME QueriesAsMeant, "count" \notin FaultyQueries, "update" \notin FaultyQueries,
         Backend = "mysql", NEW t \in Table, NEW n \in Name \cup {Empty},
         NEW given \in GivenData, given.country # Empty,
         NEW u \in SetData(t, n, given), NEW i \in RowsOf(u, n)
  PROVE  u[i].country = given.country
<1>1. Len(t) \in Nat /\ DOMAIN t = 1 .. Len(t) /\ \A j \in DOMAIN t : t[j] \in Row
  BY DEF Table
<1>2. CASE RowsOf(t, n) = {}
  <2>1. u = t
    BY <1>2, ReliableUserExists DEF SetData
  <2> QED BY <1>2, <2>1
<1>3. CASE RowsOf(t, n) # {}
  <2>1. PICK row \in GetData(t, n) : u = UpdateRows(t, n, given, OldValues(row))
    BY <1>3, SetDataDone
  <2> DEFINE old == OldValues(row)
  <2>2. /\ old.password \in PasswordText /\ old.email \in Text
        /\ old.country \in Text /\ old.session \in Nat
    BY OldValuesType
  <2> HIDE DEF old
  <2>3. /\ DOMAIN u = DOMAIN t
        /\ \A j \in DOMAIN t :
             u[j] = IF t[j].name = n THEN UpdateValues(t[j], given, old) ELSE t[j]
    BY <2>1 DEF UpdateRows, old
  <2>4. i \in DOMAIN t /\ u[i].name = n
    BY <2>3 DEF RowsOf
  <2>5. t[i].name = n
    BY <2>3, <2>4
  <2>6. u[i] = UpdateValues(t[i], given, old) /\ t[i] \in Row
    BY <1>1, <2>3, <2>4, <2>5
  <2> QED BY <2>6 DEF UpdateValues, Given, Row
<1> QED BY <1>2, <1>3

-----------------------------------------------------------------------------
(* The sockets. *)

(* A tail of a buffer is a sequence of pieces, not longer than the buffer,  *)
(* and each of its pieces is of the reply as far from the end of it.        *)
LEMMA TailsOfBuffer ==
  ASSUME NEW buffer \in Seq(Piece), NEW tail \in Tails(buffer)
  PROVE  /\ tail \in Seq(Piece)
         /\ Len(tail) <= Len(buffer)
         /\ \A i \in DOMAIN tail :
              /\ i + (Len(buffer) - Len(tail)) \in DOMAIN buffer
              /\ tail[i].reply = buffer[i + (Len(buffer) - Len(tail))].reply
         /\ \A k \in DOMAIN tail : \E j \in DOMAIN buffer :
              tail[k].reply = buffer[j].reply
<1>1. PICK k \in 1 .. Len(buffer), cut \in BOOLEAN : tail = Unsent(buffer, k, cut)
  <2>1. CASE tail \in {Unsent(buffer, k, TRUE) : k \in 1 .. Len(buffer)}
    <3>1. PICK k \in 1 .. Len(buffer) : tail = Unsent(buffer, k, TRUE)
      BY <2>1
    <3> QED BY <3>1
  <2>2. CASE tail \in {Unsent(buffer, k, FALSE) : k \in 2 .. Len(buffer)}
    <3>1. PICK k \in 2 .. Len(buffer) : tail = Unsent(buffer, k, FALSE)
      BY <2>2
    <3>2. k \in 1 .. Len(buffer)
      OBVIOUS
    <3> QED BY <3>1, <3>2
  <2> QED BY <2>1, <2>2 DEF Tails
<1>2. \A i \in 1 .. Len(buffer) : buffer[i].reply \in Reply /\ buffer[i].cut \in BOOLEAN
  <2>1. \A i \in 1 .. Len(buffer) : buffer[i] \in Piece
    OBVIOUS
  <2> QED BY <2>1 DEF Piece
<1>3. tail = [i \in 1 .. Len(buffer) - k + 1 |->
               [reply |-> buffer[k + i - 1].reply,
                cut |-> buffer[k + i - 1].cut \/ (i = 1 /\ cut)]]
  BY <1>1 DEF Unsent
<1>4. \A i \in 1 .. Len(buffer) - k + 1 :
        /\ tail[i] \in Piece
        /\ tail[i].reply = buffer[k + i - 1].reply
  BY <1>2, <1>3 DEF Piece
<1>5. tail \in Seq(Piece) /\ Len(tail) = Len(buffer) - k + 1
  <2>1. Len(buffer) - k + 1 \in Nat
    OBVIOUS
  <2>2. tail \in [1 .. Len(buffer) - k + 1 -> Piece]
    BY <1>3, <1>4
  <2> QED BY <2>1, <2>2
<1>6. ASSUME NEW i \in DOMAIN tail
      PROVE  /\ i + (Len(buffer) - Len(tail)) \in DOMAIN buffer
             /\ tail[i].reply = buffer[i + (Len(buffer) - Len(tail))].reply
  <2>0. DOMAIN tail = 1 .. Len(buffer) - k + 1 /\ Len(buffer) \in Nat
    BY <1>3, <1>5
  <2>1. i \in 1 .. Len(buffer) - k + 1 /\ i + (Len(buffer) - Len(tail)) = k + i - 1
    BY <1>5, <2>0
  <2>2. k + i - 1 \in DOMAIN buffer
    BY <2>1
  <2> QED BY <1>4, <2>1, <2>2
<1>7. \A j \in DOMAIN tail : \E l \in DOMAIN buffer : tail[j].reply = buffer[l].reply
  BY <1>6
<1> QED BY <1>5, <1>6, <1>7

(* What DoSend leaves of a well-formed buffer is well formed. *)
LEMMA LeftType ==
  ASSUME NEW buffer \in Seq(Piece),
         NEW left \in {<< >>, buffer} \cup Tails(buffer)
  PROVE  left \in Seq(Piece)
<1>1. CASE left \in Tails(buffer)
  BY <1>1, TailsOfBuffer
<1>2. CASE left = << >>
  BY <1>2
<1>3. CASE left = buffer
  BY <1>3
<1> QED BY <1>1, <1>2, <1>3

(* DoSend leaves nothing, everything, or a tail. *)
LEMMA DoSendLeaves ==
  ASSUME NEW connected \in BOOLEAN, NEW hasError \in BOOLEAN,
         NEW buffer \in Seq(Piece), NEW sent \in DoSend(connected, hasError, buffer)
  PROVE  /\ sent.hasError \in BOOLEAN
         /\ sent.buffer \in {<< >>, buffer} \cup Tails(buffer)
<1>1. ASSUME NEW e \in BOOLEAN, NEW b, sent = [hasError |-> e, buffer |-> b],
             b \in {<< >>, buffer} \cup Tails(buffer)
      PROVE  /\ sent.hasError \in BOOLEAN
             /\ sent.buffer \in {<< >>, buffer} \cup Tails(buffer)
  BY <1>1
<1>2. CASE sent = [hasError |-> hasError, buffer |-> buffer]
  BY <1>1, <1>2
<1>3. CASE sent \in SendOutcomes(buffer)
  <2>1. \/ sent = [hasError |-> FALSE, buffer |-> << >>]
        \/ sent = [hasError |-> FALSE, buffer |-> buffer]
        \/ sent = [hasError |-> TRUE, buffer |-> buffer]
        \/ \E b \in Tails(buffer) : sent = [hasError |-> FALSE, buffer |-> b]
    BY <1>3 DEF SendOutcomes
  <2> QED BY <1>1, <2>1
<1> QED BY <1>2, <1>3 DEF DoSend

Socket == [connected : BOOLEAN, hasError : BOOLEAN]

(* What the end of a pass does to the sockets. *)
LEMMA EndPassType ==
  ASSUME TcpTypeOK, NEW c \in Client, NEW socket \in Socket,
         NEW buffer \in Seq(Piece), EndPass(c, socket, buffer)
  PROVE  /\ TcpTypeOK'
         /\ m_Connected' = [m_Connected EXCEPT ![c] = socket.connected]
         /\ m_SendBuffer'[c] \in {<< >>, buffer} \cup Tails(buffer)
         /\ \A d \in Client \ {c} : m_SendBuffer'[d] = m_SendBuffer[d]
<1>1. socket.connected \in BOOLEAN /\ socket.hasError \in BOOLEAN
  BY DEF Socket
<1>2. PICK sent \in DoSend(socket.connected, socket.hasError, buffer) :
        /\ m_Connected' = [m_Connected EXCEPT ![c] = socket.connected]
        /\ m_HasError' = [m_HasError EXCEPT ![c] = sent.hasError]
        /\ m_SendBuffer' = [m_SendBuffer EXCEPT ![c] = sent.buffer]
  BY DEF EndPass
<1>3. /\ sent.hasError \in BOOLEAN
      /\ sent.buffer \in {<< >>, buffer} \cup Tails(buffer)
  BY <1>1, DoSendLeaves
<1>4. sent.buffer \in Seq(Piece)
  BY <1>3, LeftType
<1> QED BY <1>1, <1>2, <1>3, <1>4 DEF TcpTypeOK

(* A DoRecv that brings no data leaves two flags. *)
LEMMA RecvNothingType ==
  ASSUME TcpTypeOK, NEW c \in Client
  PROVE  RecvNothing(c) \subseteq Socket /\ Flags(c) \in Socket
<1>1. Flags(c) \in Socket
  BY DEF TcpTypeOK, Flags, Socket
<1>2. /\ [connected |-> FALSE, hasError |-> FALSE] \in Socket
      /\ [connected |-> TRUE, hasError |-> TRUE] \in Socket
  BY DEF Socket
<1>3. ASSUME NEW socket \in RecvNothing(c) PROVE socket \in Socket
  <2>1. \/ socket = Flags(c)
        \/ socket = [connected |-> FALSE, hasError |-> FALSE]
        \/ socket = [connected |-> TRUE, hasError |-> TRUE]
    BY DEF RecvNothing
  <2> QED BY <1>1, <1>2, <2>1
<1> QED BY <1>1, <1>3

(* ClearSendBuffer and PutBytes leave one whole reply. *)
LEMMA ClearAndPutType ==
  ASSUME NEW buffer, NEW reply \in Reply
  PROVE  /\ ClearAndPut(buffer, reply) = <<[reply |-> reply, cut |-> FALSE]>>
         /\ ClearAndPut(buffer, reply) \in Seq(Piece)
BY DEF ClearAndPut, PutBytes, Piece

(* The ways a pass of the login port ends: with a new reply,                 *)
(* with the old buffer, or with a new reply after a DoRecv without data.     *)
LEMMA PassType ==
  ASSUME TcpTypeOK, NEW c \in Client, NEW reply \in Reply,
         NEW socket \in RecvNothing(c) \cup {Flags(c)},
         \/ EndPass(c, socket, ClearAndPut(m_SendBuffer[c], reply))
         \/ EndPass(c, socket, m_SendBuffer[c])
  PROVE  TcpTypeOK'
<1>1. socket \in Socket
  BY RecvNothingType
<1>2. m_SendBuffer[c] \in Seq(Piece)
  BY DEF TcpTypeOK
<1>3. ClearAndPut(m_SendBuffer[c], reply) \in Seq(Piece)
  BY ClearAndPutType
<1> QED BY <1>1, <1>2, <1>3, EndPassType

=============================================================================
