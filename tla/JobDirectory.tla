---------------------------- MODULE JobDirectory ----------------------------
(***************************************************************************)
(* What a controller and a worker process share: the files of one job      *)
(* directory, and the process itself as the operating system shows it to   *)
(* the controller that owns it.  A directory is made fresh for every job,  *)
(* so the variables describe the newest one.  The controller owns one      *)
(* worker; a second one may be started on the same directory by hand.      *)
(*                                                                         *)
(* Every file is published under its name in one step, whole (an exclusive *)
(* or replacing rename, or a hard link): a reader sees the old file, the   *)
(* new one or none.                                                        *)
(***************************************************************************)
EXTENDS Integers, FiniteSets, Sequences, SequencesExt

CONSTANTS
  Jobs,          (* the requests a user may make                             *)
  CrashCodes,    (* exit codes of a worker that dies without returning       *)
  None           (* no file, no exit code, nothing shown                     *)

(* A request: how many maps, and the kinds of file to make of each, in the *)
(* order the worker makes them: those of a geodata build, and those of a   *)
(* territory render, whose checkpoint is the report of one map.            *)
Kinds == {"l2j", "dat", "navmesh", "metadata", "png", "checkpoint"}
Job == [maps : Nat \ {0}, kinds : Seq(Kinds)]

(* validate_job refuses an empty list of maps; of a build a client DAT     *)
(* needs L2J, metadata a navmesh, and one of the two is asked for.         *)
JobsAssumption ==
  /\ Jobs \subseteq Job
  /\ \A job \in Jobs : job.kinds # << >>
ASSUME JobsAssumption

CodesAssumption == CrashCodes \subseteq Int \ {0} /\ None \notin Int
ASSUME CodesAssumption

VARIABLES
  job,             (* request.json: the request, or None                      *)
  claimed,         (* who has created started.json: exclusive creation lets   *)
                   (* one in, and the set says whether it did                 *)
  cancelRequest,   (* cancel.request exists                                   *)
  statusFile,      (* status.json: [phase, index, files], or None             *)
  reportFile,      (* report.json: the phase it reports, or None              *)
  outputs,         (* the <<map, kind>> pairs whose file exists               *)
  process,         (* the owned process: none, running, stopping, exited      *)
  exitCode,        (* its exit code once it has exited                        *)
  at,              (* worker -> where in its program it is, "gone" if nowhere *)
  status           (* worker -> its own copy of the status                    *)

Owned == "owned"
Repeated == "repeated"
Workers == {Owned, Repeated}

files == <<job, claimed, cancelRequest, statusFile, reportFile, outputs>>
processVars == <<process, exitCode>>
programVars == <<at, status>>

(* Loading, rendering and saving are one phase here: nobody decides by     *)
(* which of them is on.                                                    *)
Phases == {"preparing", "working", "completed", "cancelled", "failed"}
TerminalPhases == {"completed", "cancelled", "failed"}

(* The files a complete job leaves, and what a status may say.             *)
OutputNames(request) == (1 .. request.maps) \X ToSet(request.kinds)
ReportName == <<0, "report">>
Statuses == [phase : Phases, index : Nat, files : SUBSET (Nat \X (Kinds \cup {"report"}))]
Preparing == [phase |-> "preparing", index |-> 0, files |-> {}]

(* None is none of the values it stands for.                               *)
NoneAssumption == None \notin Jobs /\ None \notin Phases /\ None \notin Statuses
ASSUME NoneAssumption

Alive == process \in {"running", "stopping"}

(* The exit code as the owner sees it.                                     *)
ExitCode == IF process = "exited" THEN exitCode ELSE None

(* TerminateJobObject returns before the process is gone, and one that has *)
(* exited keeps its own code.                                              *)
Terminated(p) == IF p = "running" THEN "stopping" ELSE p
TerminationCode == 130

-----------------------------------------------------------------------------

Running(w) == at[w] # "gone" /\ (w = Owned => Alive)

Goes(w, place) == at' = [at EXCEPT ![w] = place]

Exit(code) ==
  /\ process' = "exited"
  /\ exitCode' = code

(* The worker's process ends; nobody looks at the code of a repeated one.  *)
Leaves(w, code) ==
  /\ Goes(w, "gone")
  /\ IF w = Owned THEN Exit(code) ELSE UNCHANGED processVars

(* status.json is replaced in one step, by a rename over the old one.      *)
Publishes(s) == statusFile' = s

(* The operating system finishes what TerminateJobObject began.            *)
Dies ==
  /\ process = "stopping"
  /\ Exit(TerminationCode)
  /\ Goes(Owned, "gone")
  /\ UNCHANGED <<files, status>>

(* The worker is lost between two of its steps: out of memory, an access   *)
(* violation in a parser, the user's task manager.                         *)
Crashes ==
  /\ Alive
  /\ \E code \in CrashCodes : Exit(code)
  /\ Goes(Owned, "gone")
  /\ UNCHANGED <<files, status>>

(* Somebody runs the worker on the directory again.                        *)
RunAgain ==
  /\ job # None
  /\ at[Repeated] = "gone" /\ Repeated \notin claimed
  /\ Goes(Repeated, "claiming")
  /\ UNCHANGED <<files, processVars, status>>

=============================================================================
