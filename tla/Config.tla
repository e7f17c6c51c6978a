------------------------------- MODULE Config -------------------------------
(***************************************************************************)
(* How CConfig (config.cpp) reads gs_server.cfg, line by line.  A line is  *)
(* a sequence of characters: the blank, "=", "#", the carriage return of   *)
(* files from Windows, and words, each of which stands for a run of other  *)
(* characters.  Of m_CFG only the options are kept that CGSServer asks for.*)
(***************************************************************************)
EXTENDS Integers, Sequences

CONSTANTS Option,     \* words the server asks for
          Value,      \* other words
          MaxLine     \* bound on the characters of a line

Blank == " "
Equals == "="
Comment == "#"
Return == "\r"

Sign == {Blank, Equals, Comment, Return}
Character == Sign \cup Option \cup Value

ASSUME WordAssumption ==
  Option \cap Value = {} /\ (Option \cup Value) \cap Sign = {} /\ MaxLine \in Nat

VARIABLES
  line,     \* what has been written of the present line
  m_CFG,    \* the options that have a value, with it
  meant,    \* history: the same, as the lines of the file give it
  unclear   \* history: the options whose last line is no clear setting

EmptyFile == line = << >> /\ m_CFG = << >> /\ meant = << >> /\ unclear = {}

-----------------------------------------------------------------------------
Without(chars, char) == SelectSeq(chars, LAMBDA x : x # char)

Assigned(map, key, value) ==
  [k \in DOMAIN map \cup {key} |-> IF k = key THEN value ELSE map[k]]

(* find and find_first_not_of: the first position from which on is the       *)
(* character, or another; one past the end stands for npos.                  *)
First(positions, npos) ==
  IF positions = {} THEN npos ELSE CHOOSE k \in positions : \A l \in positions : k <= l

find(chars, char, from) ==
  First({k \in from .. Len(chars) : chars[k] = char}, Len(chars) + 1)

find_first_not_of(chars, char, from) ==
  First({k \in from .. Len(chars) : chars[k] # char}, Len(chars) + 1)

(* Variant: the carriage return stays. *)
ErasedNothing(chars) == chars

Erased(chars) == Without(chars, Return)

(* A line that has "=" and something after it assigns to what comes before   *)
(* its first blank.                                                          *)
Parse(map, raw) ==
  LET chars == Erased(raw)
      npos == Len(chars) + 1
      split == find(chars, Equals, 1)
      keyStart == find_first_not_of(chars, Blank, 1)
      keyEnd == find(chars, Blank, keyStart)
      valueStart == find_first_not_of(chars, Blank, split + 1)
      key == SubSeq(chars, keyStart, keyEnd - 1)
      value == SubSeq(chars, valueStart, Len(chars))
  IN  IF raw = << >> \/ raw[1] = Comment \/ split = npos \/ valueStart >= npos
         \/ \A o \in Option : key # <<o>>
      THEN map
      ELSE Assigned(map, key[1], value)

(* A line begins with the option, a blank behind it, and has its first "="   *)
(* further on.                                                               *)
Opens(chars, o, k, e) ==
  /\ k + 1 < e
  /\ \A i \in 1 .. k - 1 : chars[i] = Blank
  /\ chars[k] = o /\ chars[k + 1] = Blank
  /\ \A i \in k .. e - 1 : chars[i] # Equals
  /\ chars[e] = Equals

(* What a line says, as gs_server.cfg writes it: blanks, the option, a blank *)
(* at least, and no more than blanks, "=", blanks, the value with the blanks *)
(* behind it.                                                                *)
Says(chars, o, value) ==
  \E k \in DOMAIN chars, e \in DOMAIN chars, v \in DOMAIN chars :
    /\ Opens(chars, o, k, e)
    /\ \A i \in k + 1 .. e - 1 : chars[i] = Blank
    /\ e < v
    /\ \A i \in e + 1 .. v - 1 : chars[i] = Blank
    /\ chars[v] # Blank
    /\ value = SubSeq(chars, v, Len(chars))

(* Something else stands between the option and the "=": Parse takes such a  *)
(* line for a setting, too; what it is meant to say is anyone's guess.       *)
Mixed(chars, o) ==
  \E k \in DOMAIN chars, e \in DOMAIN chars :
    /\ Opens(chars, o, k, e)
    /\ \E i \in k + 1 .. e - 1 : chars[i] # Blank
    /\ \E v \in e + 1 .. Len(chars) : chars[v] # Blank

Said(raw) ==
  LET chars == Without(raw, Return)
      Tails == {SubSeq(chars, v, Len(chars)) : v \in DOMAIN chars}
  IN  IF raw[1] = Comment THEN {} ELSE {s \in Option \X Tails : Says(chars, s[1], s[2])}

MixedOf(raw) ==
  IF raw[1] = Comment THEN {} ELSE {o \in Option : Mixed(Without(raw, Return), o)}

Meant(raw) ==
  IF Said(raw) = {} THEN [o \in DOMAIN meant \ MixedOf(raw) |-> meant[o]]
  ELSE LET s == CHOOSE s \in Said(raw) : TRUE IN Assigned(meant, s[1], s[2])

Unclear(raw) == (unclear \cup MixedOf(raw)) \ {s[1] : s \in Said(raw)}

(* The file is anyone's to edit. *)
WriteChar(char) ==
  /\ Len(line) < MaxLine
  /\ line' = Append(line, char)
  /\ UNCHANGED <<m_CFG, meant, unclear>>

ReadLine ==
  /\ line # << >>
  /\ m_CFG' = Parse(m_CFG, line)
  /\ meant' = Meant(line)
  /\ unclear' = Unclear(line)
  /\ line' = << >>

Edit == (\E char \in Character : WriteChar(char)) \/ ReadLine

FileSpec == EmptyFile /\ [][Edit]_<<line, m_CFG, meant, unclear>>

(* GetString, which chooses the backend: db_type is "sqlite3" or MySQL is    *)
(* opened.                                                                   *)
GetString(key, default) == IF key \in DOMAIN m_CFG THEN m_CFG[key] ELSE default

-----------------------------------------------------------------------------
(* The server gets for each option what the last line in the form of         *)
(* gs_server.cfg says of it, whichever system wrote the file, and its own    *)
(* default where there is none: no comment counts, and no line without a     *)
(* value, or with the option elsewhere than in front, or no blank behind it. *)
(* Of an option whose last line has other words before the "=" nothing is    *)
(* said.                                                                     *)
LastSettingCounts ==
  \A o \in Option \ unclear :
    GetString(o, << >>) = IF o \in DOMAIN meant THEN meant[o] ELSE << >>

=============================================================================
