---------------------------- MODULE GeodataExport ----------------------------
(***************************************************************************)
(* The exporters of one region (Exporter::export_geodata), in any number   *)
(* of processes on the output directory they share: the build of the       *)
(* command line and of the window both write to `output`.  Each looks for  *)
(* older files, writes its streams into a staging directory of its own,    *)
(* and publishes them under their names by hard links, the L2J first.      *)
(*                                                                         *)
(* A name refers to a file, and two names may refer to one: what is        *)
(* written through one is seen through the other.  The file system makes   *)
(* a directory, makes a link and removes a name in one step each, and any  *)
(* of them may fail; a process may die anywhere.                           *)
(***************************************************************************)
EXTENDS Integers, FiniteSets

CONSTANTS
  Exports,       (* calls of export_geodata for the region, one per process  *)
  MaxAttempts,   (* candidate names of a staging directory: 32               *)
  None,
  Old            (* a file of an earlier build                               *)

AttemptsAssumption == MaxAttempts \in Nat \ {0}
ASSUME AttemptsAssumption

Stagings == 1 .. MaxAttempts
Kinds == {"l2j", "dat"}

NamesAssumption == None \notin Exports \cup {Old} /\ Old \notin Exports
ASSUME NamesAssumption

VARIABLES
  pc,          (* export -> where it is                                      *)
  clientDat,   (* export -> whether it was asked for the client DAT          *)
  attempt,     (* export -> the candidate it tries, then the one it has      *)
  reserved,    (* the staging directories there are                          *)
  staging,     (* candidate -> kind -> the file in it, or None; a file is    *)
               (* told by the export that made it, among those of its kind   *)
  writer,      (* kind -> file -> the export that opened it last             *)
  whole,       (* kind -> file -> it is all written and closed               *)
  output       (* kind -> what is under the name of the region: a file, Old  *)
               (* or None                                                    *)

exportVars == <<pc, clientDat, attempt, reserved, staging, writer, whole, output>>

Empty == [k \in Kinds |-> None]

Ended == {"done", "failed", "left", "died"}
Places == {"waiting", "stage", "open l2j", "write l2j", "open dat", "write dat",
           "link l2j", "link dat", "rollback", "clean done", "clean failed",
           "clean left"} \cup Ended

TypeOK ==
  /\ pc \in [Exports -> Places]
  /\ clientDat \in [Exports -> BOOLEAN]
  /\ attempt \in [Exports -> Stagings]
  /\ reserved \subseteq Stagings
  /\ staging \in [Stagings -> [Kinds -> Exports \cup {None}]]
  /\ writer \in [Kinds -> [Exports -> Exports \cup {None}]]
  /\ whole \in [Kinds -> [Exports -> BOOLEAN]]
  /\ output \in [Kinds -> Exports \cup {None, Old}]

(* The directory may hold an earlier pair, or an L2J without a client DAT. *)
ExportInit ==
  /\ pc = [e \in Exports |-> "waiting"]
  /\ clientDat \in [Exports -> BOOLEAN]
  /\ attempt = [e \in Exports |-> 1]
  /\ reserved = {}
  /\ staging = [n \in Stagings |-> Empty]
  /\ writer = [k \in Kinds |-> [e \in Exports |-> None]]
  /\ whole = [k \in Kinds |-> [e \in Exports |-> FALSE]]
  /\ output \in {Empty, [k \in Kinds |-> Old], [Empty EXCEPT !["l2j"] = Old]}

Opens == [l2j |-> "open l2j", dat |-> "open dat"]
Writes == [l2j |-> "write l2j", dat |-> "write dat"]

Active(e) == pc[e] \notin Ended \cup {"waiting"}
Goto(e, place) == pc' = [pc EXCEPT ![e] = place]
Staged(e, kind) == staging[attempt[e]][kind]

(* The look for older files, long before anything is published.            *)
Occupied(e) ==
  \/ output["l2j"] # None
  \/ clientDat[e] /\ output["dat"] # None
Check(e) ==
  /\ pc[e] = "waiting"
  /\ Goto(e, IF Occupied(e) THEN "failed" ELSE "stage")
  /\ UNCHANGED <<clientDat, attempt, reserved, staging, writer, whole, output>>

(* Mutant of Free: a directory that is there already will do.              *)
FreeOrTaken(n) == TRUE

(* StagingDirectory: a candidate is made, or found taken, in one step; two *)
(* processes may have the same time stamp and so the same candidates.      *)
Free(n) == n \notin reserved
Reserve(e) ==
  /\ pc[e] = "stage" /\ Free(attempt[e])
  /\ reserved' = reserved \cup {attempt[e]}
  /\ Goto(e, "open l2j")
  /\ UNCHANGED <<clientDat, attempt, staging, writer, whole, output>>
NextCandidate(e) ==
  /\ pc[e] = "stage" /\ ~Free(attempt[e]) /\ attempt[e] + 1 \in Stagings
  /\ attempt' = [attempt EXCEPT ![e] = @ + 1]
  /\ UNCHANGED <<pc, clientDat, reserved, staging, writer, whole, output>>
StageFails(e) ==
  /\ pc[e] = "stage"
  /\ Goto(e, "failed")
  /\ UNCHANGED <<clientDat, attempt, reserved, staging, writer, whole, output>>

(* write_staged_file: opening makes the file, or empties the one there.    *)
Open(e, kind) ==
  /\ pc[e] = Opens[kind]
  /\ LET file == IF Staged(e, kind) = None THEN e ELSE Staged(e, kind)
     IN /\ staging' = [staging EXCEPT ![attempt[e]][kind] = file]
        /\ writer' = [writer EXCEPT ![kind][file] = e]
        /\ whole' = [whole EXCEPT ![kind][file] = FALSE]
  /\ Goto(e, Writes[kind])
  /\ UNCHANGED <<clientDat, attempt, reserved, output>>

(* The writer fails when the cells cannot be represented, when the disk is *)
(* full, when closing fails.                                               *)
Written(e, kind) == IF kind = "l2j" /\ clientDat[e] THEN "open dat" ELSE "link l2j"
Write(e, kind) ==
  /\ pc[e] = Writes[kind]
  /\ whole' = [whole EXCEPT ![kind][Staged(e, kind)] = TRUE]
  /\ Goto(e, Written(e, kind))
  /\ UNCHANGED <<clientDat, attempt, reserved, staging, writer, output>>
WriteFails(e, kind) ==
  /\ pc[e] \in {Opens[kind], Writes[kind]}
  /\ Goto(e, "clean failed")
  /\ UNCHANGED <<clientDat, attempt, reserved, staging, writer, whole, output>>

(* Mutant of Linkable: the link takes the name over.                       *)
LinkableAnyway(kind) == TRUE

(* create_hard_link: exclusive.  It fails when the name is taken, and when *)
(* the file system says so.                                                *)
Linkable(kind) == output[kind] = None
Link(e, kind) ==
  /\ Linkable(kind)
  /\ output' = [output EXCEPT ![kind] = Staged(e, kind)]
  /\ UNCHANGED <<clientDat, attempt, reserved, staging, writer, whole>>
LinkL2J(e) ==
  /\ pc[e] = "link l2j" /\ Link(e, "l2j")
  /\ Goto(e, IF clientDat[e] THEN "link dat" ELSE "clean done")
LinkDat(e) ==
  /\ pc[e] = "link dat" /\ Link(e, "dat")
  /\ Goto(e, "clean done")
LinkL2JFails(e) ==
  /\ pc[e] = "link l2j"
  /\ Goto(e, "clean failed")
  /\ UNCHANGED <<clientDat, attempt, reserved, staging, writer, whole, output>>
LinkDatFails(e) ==
  /\ pc[e] = "link dat"
  /\ Goto(e, "rollback")
  /\ UNCHANGED <<clientDat, attempt, reserved, staging, writer, whole, output>>

(* Mutant of RolledBack: the name of the client DAT is removed.            *)
RolledBackWrongly == [output EXCEPT !["dat"] = None]

(* The L2J is withdrawn; an error of that is ignored, and it stays.        *)
RolledBack == [output EXCEPT !["l2j"] = None]
Rollback(e) ==
  /\ pc[e] = "rollback"
  /\ output' = RolledBack /\ Goto(e, "clean failed")
  /\ UNCHANGED <<clientDat, attempt, reserved, staging, writer, whole>>
RollbackFails(e) ==
  /\ pc[e] = "rollback"
  /\ Goto(e, "clean left")
  /\ UNCHANGED <<clientDat, attempt, reserved, staging, writer, whole, output>>

(* ~StagingDirectory: errors are ignored, and the directory may stay.  A   *)
(* published file keeps its other name.                                    *)
Cleaned == [place \in {"clean done", "clean failed", "clean left"} |->
              CASE place = "clean done" -> "done"
                [] place = "clean failed" -> "failed"
                [] place = "clean left" -> "left"]
Clean(e) ==
  /\ pc[e] \in DOMAIN Cleaned
  /\ \/ /\ reserved' = reserved \ {attempt[e]}
        /\ staging' = [staging EXCEPT ![attempt[e]] = Empty]
     \/ UNCHANGED <<reserved, staging>>
  /\ Goto(e, Cleaned[pc[e]])
  /\ UNCHANGED <<clientDat, attempt, writer, whole, output>>

(* The process is killed, or the machine stops.                            *)
Die(e) ==
  /\ Active(e)
  /\ Goto(e, "died")
  /\ UNCHANGED <<clientDat, attempt, reserved, staging, writer, whole, output>>

(* The user moves the files of the region aside, all of them, before a     *)
(* rebuild: never while an export is on.                                   *)
MoveAside ==
  /\ \A e \in Exports : ~Active(e)
  /\ output # Empty /\ output' = Empty
  /\ UNCHANGED <<pc, clientDat, attempt, reserved, staging, writer, whole>>

Steps(e) ==
  \/ Check(e) \/ Reserve(e) \/ NextCandidate(e) \/ StageFails(e)
  \/ \E kind \in Kinds : Open(e, kind) \/ Write(e, kind) \/ WriteFails(e, kind)
  \/ LinkL2J(e) \/ LinkDat(e) \/ LinkL2JFails(e) \/ LinkDatFails(e)
  \/ Rollback(e) \/ RollbackFails(e) \/ Clean(e) \/ Die(e)

ExportNext == MoveAside \/ \E e \in Exports : Steps(e)

ExportSpec == ExportInit /\ [][ExportNext]_exportVars

(***************************************************************************)
(* Properties.                                                             *)
(***************************************************************************)

Made(kind) == output[kind] \in Exports

(* A client DAT never stands beside the L2J of another build, or without   *)
(* one, and what stands under a name is whole and its maker's own bytes:   *)
(* the exclusive link of the L2J decides between exports that both found   *)
(* no older files (Exporter.cpp:107-133).                                  *)
PairIsOfOneBuild ==
  /\ output["dat"] # None => output["l2j"] = output["dat"]
  /\ \A kind \in Kinds : Made(kind) =>
       /\ whole[kind][output[kind]]
       /\ writer[kind][output[kind]] = output[kind]

(* An export that returns has published all it was asked for, and one that *)
(* throws has published nothing, unless withdrawing its L2J failed as well *)
(* (README.md:212: "A failed region export publishes neither file").       *)
AllOrNothing ==
  \A e \in Exports :
    /\ pc[e] = "clean done" =>
         /\ output["l2j"] = e
         /\ clientDat[e] => output["dat"] = e
    /\ pc[e] \in {"clean failed", "failed"} =>
         \A kind \in Kinds : output[kind] # e

(* Published files stay as they are (README.md:209-210: "Existing region   *)
(* outputs are never overwritten"): their bytes do not change, and a name  *)
(* is cleared only by the user or by the very export whose link it was.    *)
NothingIsOverwritten ==
  [][\A kind \in Kinds : output[kind] # None =>
       /\ output'[kind] # output[kind] =>
            /\ output'[kind] = None
            /\ \/ \A e \in Exports : ~Active(e)
               \/ \E e \in Exports : output[kind] = e /\ pc[e] = "rollback"
       /\ Made(kind) =>
            /\ writer'[kind][output[kind]] = writer[kind][output[kind]]
            /\ whole'[kind][output[kind]] = whole[kind][output[kind]]]_exportVars
=============================================================================
