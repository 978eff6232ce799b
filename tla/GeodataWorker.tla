--------------------------- MODULE GeodataWorker ---------------------------
(***************************************************************************)
(* The build worker, run_geodata_job_file: one run of the program over a   *)
(* job directory.  A step ends where the worker has touched a shared file. *)
(***************************************************************************)
EXTENDS JobDirectory

VARIABLE
  todo       (* worker -> the kinds of file still to make of this map         *)

workerVars == <<programVars, todo>>

(* In the try block whose handlers turn an exception into a result.        *)
Guarded(w) == at[w] \in {"starting", "nextMap", "building"}

(* Mutant of Claim: started.json is replaced like a status.               *)
ClaimByReplacing(w) ==
  /\ Running(w) /\ at[w] = "claiming"
  /\ claimed' = claimed \cup {w}
  /\ Goes(w, "starting")
  /\ status' = [status EXCEPT ![w] = Preparing]
  /\ UNCHANGED <<processVars, job, cancelRequest, statusFile, reportFile, outputs, todo>>

(* started.json is created exclusively, before the log is opened or the    *)
(* status is replaced: a second worker leaves with 2, as does one that     *)
(* cannot read the request or write.                                       *)
Claim(w) ==
  /\ Running(w) /\ at[w] = "claiming"
  /\ \/ /\ claimed = {}
        /\ claimed' = claimed \cup {w}
        /\ Goes(w, "starting")
        /\ status' = [status EXCEPT ![w] = Preparing]
        /\ UNCHANGED processVars
     \/ /\ Leaves(w, 2)
        /\ UNCHANGED <<claimed, status>>
  /\ UNCHANGED <<job, cancelRequest, statusFile, reportFile, outputs, todo>>

Start(w) ==
  /\ Running(w) /\ at[w] = "starting"
  /\ Publishes(status[w])
  /\ Goes(w, "nextMap")
  /\ UNCHANGED <<job, claimed, cancelRequest, reportFile, outputs, processVars, status, todo>>

NextMap(w) ==
  /\ Running(w) /\ at[w] = "nextMap"
  /\ ~ cancelRequest
  /\ status[w].index < job.maps
  /\ status' = [status EXCEPT ![w].phase = "working"]
  /\ Publishes(status'[w])
  /\ todo' = [todo EXCEPT ![w] = job.kinds]
  /\ Goes(w, "building")
  /\ UNCHANGED <<job, claimed, cancelRequest, reportFile, outputs, processVars>>

Finish(w) ==
  /\ Running(w) /\ at[w] = "nextMap"
  /\ ~ cancelRequest
  /\ status[w].index = job.maps
  /\ status' = [status EXCEPT ![w].phase = "completed"]
  /\ Goes(w, "reporting")
  /\ UNCHANGED <<files, processVars, todo>>

CurrentMap(w) == status[w].index + 1

(* One more file: no publication replaces a file that is there.  The       *)
(* client DAT follows its L2J with no look at cancel.request between.      *)
MakeOutput(w) ==
  /\ Running(w) /\ at[w] = "building" /\ todo[w] # << >>
  /\ Head(todo[w]) # "dat" => ~ cancelRequest
  /\ <<CurrentMap(w), Head(todo[w])>> \notin outputs
  /\ outputs' = outputs \cup {<<CurrentMap(w), Head(todo[w])>>}
  /\ todo' = [todo EXCEPT ![w] = Tail(@)]
  /\ UNCHANGED <<job, claimed, cancelRequest, statusFile, reportFile, processVars, at, status>>

FinishMap(w) ==
  /\ Running(w) /\ at[w] = "building" /\ todo[w] = << >>
  /\ status' = [status EXCEPT ![w].index = @ + 1]
  /\ Publishes(status'[w])
  /\ Goes(w, "nextMap")
  /\ UNCHANGED <<job, claimed, cancelRequest, reportFile, outputs, processVars, todo>>

(* check_cancel throws: before every map, before every file but the client *)
(* DAT, and once more before the job counts as complete.                   *)
StopForCancel(w) ==
  /\ Running(w)
  /\ cancelRequest
  /\ \/ at[w] = "nextMap"
     \/ at[w] = "building" /\ todo[w] # << >> /\ Head(todo[w]) # "dat"
  /\ status' = [status EXCEPT ![w].phase = "cancelled"]
  /\ Goes(w, "reporting")
  /\ UNCHANGED <<files, processVars, todo>>

(* Anything in the try block throws.  If it was the link of the client     *)
(* DAT, the L2J linked just before is taken back, unless that fails too.   *)
Throw(w) ==
  /\ Running(w) /\ Guarded(w)
  /\ status' = [status EXCEPT ![w].phase = "failed"]
  /\ Goes(w, "reporting")
  /\ \/ UNCHANGED outputs
     \/ /\ at[w] = "building" /\ todo[w] # << >> /\ Head(todo[w]) = "dat"
        /\ outputs' = outputs \ {<<CurrentMap(w), "l2j">>}
  /\ UNCHANGED <<job, claimed, cancelRequest, statusFile, reportFile, processVars, todo>>

(* report.json is created exclusively before the last status.              *)
Report(w) ==
  /\ Running(w) /\ at[w] = "reporting"
  /\ reportFile = None
  /\ reportFile' = status[w].phase
  /\ Goes(w, "closing")
  /\ UNCHANGED <<job, claimed, cancelRequest, statusFile, outputs, processVars, status, todo>>

Close(w) ==
  /\ Running(w) /\ at[w] = "closing"
  /\ Publishes(status[w])
  /\ Goes(w, "returning")
  /\ UNCHANGED <<job, claimed, cancelRequest, reportFile, outputs, processVars, status, todo>>

(* The log after the claim, the report or the last status cannot be        *)
(* written: code 2, and status.json is left at whatever it said.           *)
Abandon(w) ==
  /\ Running(w) /\ at[w] \in {"starting", "reporting", "closing"}
  /\ Leaves(w, 2)
  /\ UNCHANGED <<files, status, todo>>

CodeOf(phase) ==
  CASE phase = "completed" -> 0
    [] phase = "cancelled" -> 130
    [] phase = "failed"    -> 3

Return(w) ==
  /\ Running(w) /\ at[w] = "returning"
  /\ Leaves(w, CodeOf(status[w].phase))
  /\ UNCHANGED <<files, status, todo>>

WorkerStep(w) ==
  \/ Claim(w) \/ Start(w) \/ NextMap(w) \/ Finish(w)
  \/ MakeOutput(w) \/ FinishMap(w) \/ StopForCancel(w) \/ Throw(w)
  \/ Report(w) \/ Close(w) \/ Abandon(w) \/ Return(w)

=============================================================================
