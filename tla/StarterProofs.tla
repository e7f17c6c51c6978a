---------------------------- MODULE StarterProofs ----------------------------
(* Proofs about the start script, for any lines and any addresses. *)
EXTENDS Starter, TLAPS

(* What an interrupted run has left is gone from the moment the lines have   *)
(* been written back; from then on the entries are those of this run, and    *)
(* all of them when the game is started.                                     *)
EntriesOfRun ==
  /\ at = "attributes" => Entries = {}
  /\ at = "append" => Entries \subseteq {ip} \X HostName
  /\ at \in {"run", "play"} => Entries = {ip} \X HostName
  /\ at = "ended" => Entries = {}

(* Until the attribute is given back, gAttrs holds what was found. *)
AttributeKept ==
  /\ ~exists => ~readOnly /\ ~Running
  /\ Running => ((gAttrs = TRUE) <=> found)
  /\ at \in {"append", "run", "play"} => readOnly = found

(* Until the lines have been written back, those that were read and those    *)
(* that have been added since are all there are; once the file is empty, it  *)
(* holds what has been added since.                                          *)
LinesSafe ==
  /\ at \in {"truncate", "rewrite"} => written \ lost \subseteq content \cup added
  /\ at = "rewrite" => added \subseteq hosts
  /\ at # "rewrite" => written \ lost \subseteq hosts

-----------------------------------------------------------------------------
(* Types.                                                                  *)

LEMMA InitTypes == Init => TypeOK
BY AddressAssumption DEF Init, TypeOK, Step

LEMMA NextTypes == TypeOK /\ [Next]_vars => TypeOK'
<1> SUFFICES ASSUME TypeOK, [Next]_vars PROVE TypeOK'
    OBVIOUS
<1> USE AddressAssumption DEF TypeOK, Step, Goto
<1>1. ASSUME NEW address \in Address \cup {Null}, Start(address) PROVE TypeOK'
  <2>1. AddressOr(address) \in Address
      BY DEF AddressOr
  <2>2. readOnly' \in BOOLEAN /\ gAttrs' \in BOOLEAN \cup {Null}
      BY <1>1 DEF Start, TakeAttributes
  <2> QED BY <1>1, <2>1, <2>2 DEF Start
<1>2. CASE Read
    BY <1>2 DEF Read, file, history
<1>3. CASE Truncate
    BY <1>3 DEF Truncate
<1>4. CASE Rewrite
    BY <1>4 DEF Rewrite
<1>5. CASE SetAttributes
    BY <1>5 DEF SetAttributes, history
<1>6. ASSUME NEW name \in HostName, Append(name) PROVE TypeOK'
    BY <1>6 DEF Append, script, history, Entry
<1>7. CASE Appended
    BY <1>7 DEF Appended, file, history
<1>8. CASE Run
    BY <1>8 DEF Run, file, history
<1>9. CASE GameEnds
    BY <1>9 DEF GameEnds, file, history
<1>10. CASE Stop
    BY <1>10 DEF Stop, file
<1>11. ASSUME NEW line \in Own, Write(line) PROVE TypeOK'
    BY <1>11 DEF Write, script
<1>12. CASE Protect
    BY <1>12 DEF Protect, script, history
<1>13. CASE UNCHANGED vars
    BY <1>13 DEF vars, file, script, history
<1> QED BY <1>1, <1>2, <1>3, <1>4, <1>5, <1>6, <1>7, <1>8, <1>9, <1>10, <1>11,
           <1>12, <1>13 DEF Next

(* Every variable keeps its type; an address that is not given is replaced   *)
(* before it is entered.                                                     *)
THEOREM ScriptTypes == Spec => []TypeOK
BY InitTypes, NextTypes, PTL DEF Spec

-----------------------------------------------------------------------------
(* The entries.                                                            *)

LEMMA NextEntries == TypeOK /\ EntriesOfRun /\ [Next]_vars => EntriesOfRun'
<1> SUFFICES ASSUME TypeOK, EntriesOfRun, [Next]_vars PROVE EntriesOfRun'
    OBVIOUS
<1> USE OwnAssumption DEF TypeOK, Goto, EntriesOfRun, Entries
<1>1. ASSUME NEW address \in Address \cup {Null}, Start(address)
      PROVE  EntriesOfRun'
    BY <1>1 DEF Start
<1>2. CASE Read
    BY <1>2 DEF Read, file
<1>3. CASE Truncate
    BY <1>3 DEF Truncate
<1>4. CASE Rewrite
    BY <1>4 DEF Rewrite
<1>5. CASE SetAttributes
    BY <1>5 DEF SetAttributes
<1>6. ASSUME NEW name \in HostName, Append(name) PROVE EntriesOfRun'
    BY <1>6 DEF Append, script
<1>7. CASE Appended
  <2>1. Entries \subseteq {ip} \X HostName /\ {ip} \X HostName \subseteq hosts
      BY <1>7 DEF Appended
  <2>2. {ip} \X HostName \subseteq Entry
      BY DEF Entry
  <2> QED BY <1>7, <2>1, <2>2 DEF Appended, file
<1>8. CASE Run
    BY <1>8 DEF Run, file
<1>9. CASE GameEnds
    BY <1>9 DEF GameEnds, file
<1>10. CASE Stop
    BY <1>10 DEF Stop, file
<1>11. ASSUME NEW line \in Own, Write(line) PROVE EntriesOfRun'
  <2>1. Entries' = Entries
      BY <1>11 DEF Write
  <2> QED BY <1>11, <2>1 DEF Write, script
<1>12. CASE Protect
    BY <1>12 DEF Protect, script
<1>13. CASE UNCHANGED vars
    BY <1>13 DEF vars, file, script
<1> QED BY <1>1, <1>2, <1>3, <1>4, <1>5, <1>6, <1>7, <1>8, <1>9, <1>10, <1>11,
           <1>12, <1>13 DEF Next

(* While the game runs, its servers are found at the address of this run and *)
(* nowhere else, whatever earlier runs have left behind.                     *)
THEOREM GameIsRedirected == Spec => []PlayingIsRedirected
<1>1. Init => TypeOK /\ EntriesOfRun
    BY InitTypes, OwnAssumption DEF Init, EntriesOfRun, Entries
<1>2. TypeOK /\ EntriesOfRun /\ [Next]_vars => TypeOK' /\ EntriesOfRun'
    BY NextTypes, NextEntries
<1>3. EntriesOfRun => PlayingIsRedirected
    BY DEF EntriesOfRun, PlayingIsRedirected
<1> QED BY <1>1, <1>2, <1>3, PTL DEF Spec

(* No entry is left by a script that ends by itself. *)
THEOREM ScriptCleansUp == Spec => []EndedIsClean
<1>1. Init => TypeOK /\ EntriesOfRun
    BY InitTypes, OwnAssumption DEF Init, EntriesOfRun, Entries
<1>2. TypeOK /\ EntriesOfRun /\ [Next]_vars => TypeOK' /\ EntriesOfRun'
    BY NextTypes, NextEntries
<1>3. EntriesOfRun => EndedIsClean
    BY DEF EntriesOfRun, EndedIsClean
<1> QED BY <1>1, <1>2, <1>3, PTL DEF Spec

-----------------------------------------------------------------------------
(* The attribute and the lines of others.                                  *)

LEMMA NextAttribute == TypeOK /\ AttributeKept /\ [Next]_vars => AttributeKept'
<1> SUFFICES ASSUME TypeOK, AttributeKept, [Next]_vars PROVE AttributeKept'
    OBVIOUS
<1> USE AddressAssumption DEF TypeOK, Goto, AttributeKept, Running
<1>1. ASSUME NEW address \in Address \cup {Null}, Start(address)
      PROVE  AttributeKept'
  <2>1. CASE exists
      BY <1>1, <2>1 DEF Start, TakeAttributes
  <2>2. CASE ~exists
      BY <1>1, <2>2 DEF Start
  <2> QED BY <2>1, <2>2
<1>2. CASE Read
    BY <1>2 DEF Read, file, history
<1>3. CASE Truncate
    BY <1>3 DEF Truncate
<1>4. CASE Rewrite
    BY <1>4 DEF Rewrite
<1>5. CASE SetAttributes
    BY <1>5 DEF SetAttributes, history
<1>6. ASSUME NEW name \in HostName, Append(name) PROVE AttributeKept'
    BY <1>6 DEF Append, script, history
<1>7. CASE Appended
    BY <1>7 DEF Appended, file, history
<1>8. CASE Run
    BY <1>8 DEF Run, file, history
<1>9. CASE GameEnds
    BY <1>9 DEF GameEnds, file, history
<1>10. CASE Stop
    BY <1>10 DEF Stop, file
<1>11. ASSUME NEW line \in Own, Write(line) PROVE AttributeKept'
    BY <1>11 DEF Write, script
<1>12. CASE Protect
    BY <1>12 DEF Protect, script, history
<1>13. CASE UNCHANGED vars
    BY <1>13 DEF vars, file, script, history
<1> QED BY <1>1, <1>2, <1>3, <1>4, <1>5, <1>6, <1>7, <1>8, <1>9, <1>10, <1>11,
           <1>12, <1>13 DEF Next

(* The attribute of the file is as it was found, once CleanUpHosts is done.  *)
THEOREM AttributeIsRestored == Spec => []AttributesRestored
<1>1. Init => TypeOK /\ AttributeKept
    BY InitTypes DEF Init, AttributeKept, Running
<1>2. TypeOK /\ AttributeKept /\ [Next]_vars => TypeOK' /\ AttributeKept'
    BY NextTypes, NextAttribute
<1>3. AttributeKept => AttributesRestored
    BY DEF AttributeKept, AttributesRestored
<1> QED BY <1>1, <1>2, <1>3, PTL DEF Spec

LEMMA NextOwnLines == TypeOK /\ LinesSafe /\ [Next]_vars => LinesSafe'
<1> SUFFICES ASSUME TypeOK, LinesSafe, [Next]_vars PROVE LinesSafe'
    OBVIOUS
<1> USE OwnAssumption DEF TypeOK, Goto, LinesSafe
<1>1. ASSUME NEW address \in Address \cup {Null}, Start(address)
      PROVE  LinesSafe'
    BY <1>1 DEF Start, Running
<1>2. CASE Read
    BY <1>2 DEF Read, file, history
<1>3. CASE Truncate
    BY <1>3 DEF Truncate
<1>4. CASE Rewrite
    BY <1>4 DEF Rewrite
<1>5. CASE SetAttributes
    BY <1>5 DEF SetAttributes, history
<1>6. ASSUME NEW name \in HostName, Append(name) PROVE LinesSafe'
    BY <1>6 DEF Append, script, history
<1>7. CASE Appended
    BY <1>7 DEF Appended, file, history
<1>8. CASE Run
    BY <1>8 DEF Run, file, history
<1>9. CASE GameEnds
    BY <1>9 DEF GameEnds, file, history
<1>10. CASE Stop
    BY <1>10 DEF Stop, file
<1>11. ASSUME NEW line \in Own, Write(line) PROVE LinesSafe'
    BY <1>11 DEF Write, script
<1>12. CASE Protect
    BY <1>12 DEF Protect, script, history
<1>13. CASE UNCHANGED vars
    BY <1>13 DEF vars, file, script, history
<1> QED BY <1>1, <1>2, <1>3, <1>4, <1>5, <1>6, <1>7, <1>8, <1>9, <1>10, <1>11,
           <1>12, <1>13 DEF Next

(* No line of somebody else is lost except in the gap of CleanUpHosts: added  *)
(* after the lines had been read, or about to be written back when the script *)
(* was stopped.                                                               *)
THEOREM OthersAreKept == Spec => []OwnLinesKept
<1>1. Init => TypeOK /\ LinesSafe
    BY InitTypes DEF Init, LinesSafe
<1>2. TypeOK /\ LinesSafe /\ [Next]_vars => TypeOK' /\ LinesSafe'
    BY NextTypes, NextOwnLines
<1>3. LinesSafe => OwnLinesKept
    BY DEF LinesSafe, OwnLinesKept
<1> QED BY <1>1, <1>2, <1>3, PTL DEF Spec

=============================================================================
