----------------------------- MODULE RecentClients -----------------------------
(***************************************************************************)
(* Starting the program, its loop of preview sessions and the list of      *)
(* recent clients in settings.ini (main.cpp, DesktopStartup, ClientStartup,*)
(* RecentClients).  Several instances of the program may run, and each     *)
(* writes the list beside the old one, under the same name, before it is   *)
(* moved over it.  A session is only its result here; ClientSession has    *)
(* the rest of it.                                                         *)
(*                                                                         *)
(* Windows: a file an instance has open for writing can be opened and cut  *)
(* by another, but neither moved nor removed by it.                        *)
(***************************************************************************)
EXTENDS Naturals, SequencesExt

CONSTANTS
  Instances,        (* processes of the program                              *)
  Roots,            (* directories a user may name as a client               *)
  MaximumEntries,   (* ten                                                   *)
  None,
  Half,             (* what a file holds that is neither empty nor a list    *)
  MaxStarts,        (* bound: how often the program is started               *)
  MaxVanished       (* bound: clients that disappear                         *)

ASSUME RecentAssumption ==
  /\ MaximumEntries \in Nat \ {0} /\ MaxStarts \in Nat /\ MaxVanished \in Nat
  /\ None \notin Roots

VARIABLES
  valid,      (* roots that hold maps                                        *)
  settings,   (* settings.ini: a list, Half, or None                         *)
  temporary,  (* settings.ini.tmp: a list, Half, or None                     *)
  open,       (* instances that have it open                                 *)
  clash,      (* whether two instances were ever saving at once              *)
  starts,     (* starts so far                                               *)
  pc,         (* instance -> where it is                                     *)
  entries,    (* instance -> its list of recent clients                      *)
  client      (* instance -> the client chosen                               *)

fileVars == <<settings, temporary, open, clash>>
recentVars == <<valid, fileVars, starts, pc, entries, client>>

(* The lists a file can be read as: load drops duplicates and what is      *)
(* beyond the last entry, whoever wrote it.                                *)
Distinct(s) == \A i, j \in DOMAIN s : s[i] = s[j] => i = j
Lists == {s \in UNION {[1 .. n -> Roots] : n \in 0 .. MaximumEntries} : Distinct(s)}

RecentInit ==
  /\ valid = Roots
  /\ settings = None /\ temporary = None /\ open = {} /\ clash = FALSE
  /\ starts = 0
  /\ pc = [i \in Instances |-> "off"] /\ entries = [i \in Instances |-> <<>>]
  /\ client = [i \in Instances |-> None]

Goes(i, to) == pc' = [pc EXCEPT ![i] = to]

(* Someone moves or deletes a client.                                      *)
Vanish(c) ==
  /\ c \in valid /\ Cardinality(Roots \ valid) < MaxVanished
  /\ valid' = valid \ {c}
  /\ UNCHANGED <<fileVars, starts, pc, entries, client>>

(* Malformed settings are no list at all; what is neither empty nor as it  *)
(* was written may still parse as one.                                     *)
Read(content) ==
  CASE content = None -> {<<>>}
    [] content = Half -> Lists
    [] OTHER -> {content}

Start(i) ==
  /\ pc[i] = "off" /\ starts < MaxStarts
  /\ \E list \in Read(settings) : entries' = [entries EXCEPT ![i] = list]
  /\ starts' = starts + 1
  /\ Goes(i, "choose")
  /\ UNCHANGED <<valid, fileVars, client>>

(* The desktop opens the first client of the list that is still there, and *)
(* else asks until a valid one is named; a command line names one.         *)
FirstValid(list) ==
  LET there == {k \in DOMAIN list : list[k] \in valid}
  IN  IF there = {} THEN None ELSE list[CHOOSE k \in there : \A j \in there : k <= j]
Choose(i, c) ==
  /\ pc[i] = "choose" /\ c \in valid
  /\ client' = [client EXCEPT ![i] = c]
  /\ Goes(i, "promote")
  /\ UNCHANGED <<valid, fileVars, starts, entries>>
ChooseRecent(i) == Choose(i, FirstValid(entries[i]))
ChooseOther(i, c) == Choose(i, c)

Ends(i) ==
  /\ Goes(i, "off")
  /\ entries' = [entries EXCEPT ![i] = <<>>] /\ client' = [client EXCEPT ![i] = None]

ChooseNone(i) ==
  /\ pc[i] = "choose" /\ FirstValid(entries[i]) = None
  /\ Ends(i)
  /\ UNCHANGED <<valid, fileVars, starts>>

(* promote: erase_if finds one entry at most, as a list has none twice.    *)
Erased(list, c) ==
  IF c \in ToSet(list) THEN RemoveAt(list, CHOOSE k \in DOMAIN list : list[k] = c) ELSE list
Promoted(list, c) ==
  LET others == Erased(list, c)
      kept == IF Len(others) < MaximumEntries THEN Len(others) ELSE MaximumEntries - 1
  IN  <<c>> \o SubSeq(others, 1, kept)
Promote(i) ==
  /\ pc[i] = "promote"
  /\ entries' = [entries EXCEPT ![i] = Promoted(@, client[i])]
  /\ Goes(i, "save")
  /\ UNCHANGED <<valid, fileVars, starts, client>>

Saving(i) == pc[i] \in {"write", "move"}

(* Mutant of OpenTemporary: the settings themselves are written.           *)
OpenInPlace(i) ==
  /\ pc[i] = "save"
  /\ settings' = <<>> /\ temporary' = entries[i]
  /\ Goes(i, "move")
  /\ UNCHANGED <<valid, open, clash, starts, entries, client>>

(* save: the temporary file is cut, written, closed and moved.             *)
OpenTemporary(i) ==
  /\ pc[i] = "save"
  /\ temporary' = <<>> /\ open' = open \cup {i}
  /\ clash' = (clash \/ \E j \in Instances \ {i} : Saving(j))
  /\ Goes(i, "write")
  /\ UNCHANGED <<valid, settings, starts, entries, client>>

(* Over what another instance has written, the end of a longer list stays. *)
WriteTemporary(i) ==
  /\ pc[i] = "write"
  /\ temporary' \in {entries[i]} \cup (IF temporary = <<>> THEN {} ELSE {Half})
  /\ open' = open \ {i}
  /\ Goes(i, "move")
  /\ UNCHANGED <<valid, settings, clash, starts, entries, client>>

(* replace_file                                                            *)
Move(i) ==
  /\ pc[i] = "move"
  /\ temporary # None /\ open = {}
  /\ settings' = temporary /\ temporary' = None
  /\ Goes(i, "preview")
  /\ UNCHANGED <<valid, open, clash, starts, entries, client>>

(* A failure at any point removes the temporary file, if it can.           *)
GiveUpSaving(i) ==
  /\ pc[i] \in {"save", "write", "move"}
  /\ open' = open \ {i}
  /\ temporary' = IF open' = {} THEN None ELSE temporary
  /\ Goes(i, "preview")
  /\ UNCHANGED <<valid, settings, clash, starts, entries, client>>

(* The end of a session: another client, or none.                          *)
Switch(i, c) ==
  /\ client' = [client EXCEPT ![i] = c]
  /\ Goes(i, "promote")
  /\ UNCHANGED <<valid, fileVars, starts, entries>>
Leave(i) ==
  /\ Ends(i)
  /\ UNCHANGED <<valid, fileVars, starts>>

(* The process is ended from outside, at any point: of a write then only   *)
(* a part is in the file.                                                  *)
Crash(i) ==
  /\ pc[i] # "off"
  /\ open' = open \ {i}
  /\ temporary' \in {temporary} \cup (IF pc[i] = "write" THEN {Half} ELSE {})
  /\ Ends(i)
  /\ UNCHANGED <<valid, settings, clash, starts>>

(* What an instance does before and between its sessions.                  *)
Works(i) ==
  \/ ChooseRecent(i) \/ (\E c \in Roots : ChooseOther(i, c)) \/ ChooseNone(i)
  \/ Promote(i) \/ OpenTemporary(i) \/ WriteTemporary(i) \/ Move(i)
  \/ GiveUpSaving(i)

(* settings.ini is always a complete list some instance meant to save, or  *)
(* not there at all: whatever crashes, and wherever a save gives up.  Only *)
(* two instances that save at the same moment, into the same temporary     *)
(* file, may leave anything else.                                          *)
HistoryIsWhole == ~clash => settings \in {None} \cup (Lists \ {<<>>})
=============================================================================
