------------------------------ MODULE Starter ------------------------------
(***************************************************************************)
(* The script that starts the game on a player's machine (BF2_Starter.js;  *)
(* StartBF2_WEB of index.php runs the same steps).  It enters the address  *)
(* of the login server in the file hosts.ics, waits for the game, and      *)
(* removes the entries.  It keeps nothing but the file: it can be stopped  *)
(* between any two calls of the scripting host, by an exception or with    *)
(* the machine, and other programs write the same file.                    *)
(*                                                                         *)
(* One starter runs at a time.  The file is the set of its lines: those of *)
(* the player, and entries, which carry the mark of the script.            *)
(***************************************************************************)
CONSTANTS
  Own,         \* lines of the player and of other programs
  Address,     \* addresses of login servers
  Localhost,   \* "127.0.0.1"
  Null         \* no address given, or no attributes read

HostName == {"bf2web", "gpcm", "gpsp", "available"}
Entry == Address \X HostName

ASSUME OwnAssumption == Own \cap Entry = {}
ASSUME AddressAssumption ==
  Localhost \in Address /\ Null \notin Address /\ Null \notin BOOLEAN

VARIABLES
  exists, hosts, readOnly,   \* the file, its lines, its attribute
  at,          \* the next step of the script, "ended", or "stopped" before that
  returnTo,    \* where CleanUpHosts returns to: "append" or "end"
  ip, gAttrs, content,       \* the variables of the script
  written,     \* history: every own line ever written
  added,       \* history: those written since the script has read the file
  lost,        \* history: those the gap of CleanUpHosts has destroyed
  found        \* history: the attribute the script found

file == <<exists, hosts, readOnly>>
script == <<at, returnTo, ip, gAttrs, content>>
history == <<written, added, lost, found>>
vars == <<file, script, history>>

Step == {"read", "truncate", "rewrite", "attributes", "append", "run", "play",
         "ended", "stopped"}
Running == at \notin {"ended", "stopped"}

TypeOK ==
  /\ exists \in BOOLEAN /\ hosts \subseteq Own \cup Entry /\ readOnly \in BOOLEAN
  /\ at \in Step /\ returnTo \in {"append", "end"}
  /\ ip \in Address /\ gAttrs \in BOOLEAN \cup {Null} /\ content \subseteq Own
  /\ written \subseteq Own /\ added \subseteq Own /\ lost \subseteq Own
  /\ found \in BOOLEAN

Init ==
  /\ exists = FALSE /\ hosts = {} /\ readOnly = FALSE
  /\ at = "ended" /\ returnTo = "append"
  /\ ip = Localhost /\ gAttrs = Null /\ content = {}
  /\ written = {} /\ added = {} /\ lost = {} /\ found = FALSE

-----------------------------------------------------------------------------
Goto(step) == at' = step

(* Variant: the default is forgotten. *)
AddressGiven(address) == address

(* ( ip == null ) ? "127.0.0.1" : ip *)
AddressOr(address) == IF address = Null THEN Localhost ELSE address

(* Variant: the attributes are read when they have been cleared. *)
TakeAttributesLate ==
  /\ readOnly' = FALSE
  /\ gAttrs' = FALSE

TakeAttributes ==
  /\ readOnly' = FALSE
  /\ gAttrs' = readOnly

(* Variant: what an earlier run has left is not removed first. *)
StartUncleaned(address) ==
  /\ ~Running
  /\ ip' = AddressOr(address)
  /\ IF exists THEN TakeAttributes ELSE gAttrs' = Null /\ UNCHANGED readOnly
  /\ exists' = TRUE
  /\ found' = readOnly
  /\ returnTo' = "append"
  /\ Goto("attributes")
  /\ UNCHANGED <<hosts, content, written, added, lost>>

(* SetHostsFile: the file is created, or made writable and its attributes    *)
(* kept; CleanUpHosts follows.  gAttrs is not set for a new file.            *)
Start(address) ==
  /\ ~Running
  /\ ip' = AddressOr(address)
  /\ IF exists THEN TakeAttributes ELSE gAttrs' = Null /\ UNCHANGED readOnly
  /\ exists' = TRUE
  /\ found' = readOnly
  /\ returnTo' = "append"
  /\ Goto("read")
  /\ UNCHANGED <<hosts, content, written, added, lost>>

(* Variant: the reading ends with the first line that has the mark. *)
ReadUpToMark ==
  /\ at = "read"
  /\ IF hosts \cap Entry = {} THEN content' = hosts
                             ELSE content' \in SUBSET (hosts \ Entry)
  /\ added' = {}
  /\ Goto("truncate")
  /\ UNCHANGED <<file, returnTo, ip, gAttrs, written, lost, found>>

(* CleanUpHosts reads the lines without the mark ... *)
Read ==
  /\ at = "read"
  /\ content' = hosts \ Entry
  /\ added' = {}
  /\ Goto("truncate")
  /\ UNCHANGED <<file, returnTo, ip, gAttrs, written, lost, found>>

(* ... opens the file for writing, which empties it, ... *)
Truncate ==
  /\ at = "truncate" /\ ~readOnly
  /\ hosts' = {}
  /\ lost' = lost \cup added
  /\ added' = {}
  /\ Goto("rewrite")
  /\ UNCHANGED <<exists, readOnly, returnTo, ip, gAttrs, content, written, found>>

(* ... writes them back ... *)
Rewrite ==
  /\ at = "rewrite"
  /\ hosts' = content
  /\ lost' = lost \cup added
  /\ added' = {}
  /\ Goto("attributes")
  /\ UNCHANGED <<exists, readOnly, returnTo, ip, gAttrs, content, written, found>>

(* ... and gives the file its attributes back, be it before the entries are  *)
(* appended or at the end.  The undefined gAttrs counts as none.             *)
SetAttributes ==
  /\ at = "attributes"
  /\ readOnly' = (gAttrs = TRUE)
  /\ Goto(IF returnTo = "append" THEN "append" ELSE "ended")
  /\ UNCHANGED <<exists, hosts, returnTo, ip, gAttrs, content, history>>

(* The entries are appended one by one; a read-only file can not be opened.  *)
Append(name) ==
  /\ at = "append" /\ ~readOnly
  /\ <<ip, name>> \notin hosts
  /\ hosts' = hosts \cup {<<ip, name>>}
  /\ UNCHANGED <<exists, readOnly, script, history>>

Appended ==
  /\ at = "append" /\ ~readOnly
  /\ {ip} \X HostName \subseteq hosts
  /\ Goto("run")
  /\ UNCHANGED <<file, returnTo, ip, gAttrs, content, history>>

(* shell.Run starts the game and waits for its end. *)
Run ==
  /\ at = "run"
  /\ Goto("play")
  /\ UNCHANGED <<file, returnTo, ip, gAttrs, content, history>>

(* Variant: the script does not wait for the game to clean up after it. *)
GameEndsUncleaned ==
  /\ at = "play"
  /\ returnTo' = "end"
  /\ Goto("ended")
  /\ UNCHANGED <<file, ip, gAttrs, content, history>>

(* CleanUpHosts once more. *)
GameEnds ==
  /\ at = "play"
  /\ returnTo' = "end"
  /\ Goto("read")
  /\ UNCHANGED <<file, ip, gAttrs, content, history>>

(* An exception, of which every step is capable, ends the script without     *)
(* undoing anything; so does the end of the machine.  The page's OnExit is   *)
(* assigned to window.unload, which calls nothing.                           *)
Stop ==
  /\ Running
  /\ Goto("stopped")
  /\ lost' = IF at = "rewrite" THEN lost \cup content ELSE lost
  /\ UNCHANGED <<file, returnTo, ip, gAttrs, content, written, added, found>>

(* The player or another program (the connection sharing of Windows, whose   *)
(* file it is) adds a line.                                                  *)
Write(line) ==
  /\ ~readOnly
  /\ line \notin written
  /\ exists' = TRUE
  /\ hosts' = hosts \cup {line}
  /\ written' = written \cup {line}
  /\ added' = added \cup {line}
  /\ UNCHANGED <<readOnly, script, lost, found>>

(* The player protects its file.                                             *)
Protect ==
  /\ ~Running
  /\ exists' = TRUE
  /\ readOnly' = TRUE
  /\ UNCHANGED <<hosts, script, history>>

Next ==
  \/ \E address \in Address \cup {Null} : Start(address)
  \/ Read \/ Truncate \/ Rewrite \/ SetAttributes
  \/ \E name \in HostName : Append(name)
  \/ Appended \/ Run \/ GameEnds \/ Stop
  \/ \E line \in Own : Write(line)
  \/ Protect

Spec == Init /\ [][Next]_vars

-----------------------------------------------------------------------------
(* Properties.                                                             *)

Entries == hosts \cap Entry

(* While the game runs, all its servers are found at the address of this     *)
(* run and at no other, whatever earlier runs, stopped halfway, have left.   *)
PlayingIsRedirected == at = "play" => Entries = {ip} \X HostName

(* A line of somebody else is in the file, or about to be written back, if   *)
(* it was not lost in the gap of CleanUpHosts: it was added after the lines  *)
(* had been read and before they were written back, or it was one of those   *)
(* to be written back when the script was stopped with the file empty.       *)
OwnLinesKept ==
  \A line \in written \ lost :
    line \in hosts \/ (at = "rewrite" /\ line \in content)

(* Where the script is past CleanUpHosts, the attribute is as it was found.  *)
AttributesRestored ==
  at \in {"append", "run", "play"} => readOnly = found

(* index.php:110: "Besides it will start Battlefield 2 and delete the        *)
(* appended entries afterwards."  They are gone when the script ends by      *)
(* itself.                                                                   *)
EndedIsClean == at = "ended" => Entries = {}

=============================================================================
