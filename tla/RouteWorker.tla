---------------------------- MODULE RouteWorker ----------------------------
(***************************************************************************)
(* The pathfinding worker, run_pathfinding_job_file: one run of the        *)
(* program over a job directory.  It asks one navigation backend after the *)
(* other, each in a Java process it owns, and reports one result of each.  *)
(* A job's kinds are the backends of its route, in the order they are      *)
(* asked, and maps their number.  A step ends where the worker has looked  *)
(* at or touched something shared.                                         *)
(***************************************************************************)
EXTENDS JobDirectory

VARIABLES
  timeoutRequest,  (* timeout.request exists                                  *)
  inputs,          (* backend -> its navigation files: as the request hashed  *)
                   (* them (asked), replaced early enough for the worker's    *)
                   (* last look to see it, or replaced late                   *)
  results          (* worker -> the results it has so far, by backend         *)

workerVars == <<programVars, results>>

(* What is told apart of a RouteStatus: an executed query (reached, no     *)
(* path and the like), the user's cancellation, a limit, a backend that    *)
(* is not there or not for these endpoints, and anything else.             *)
RouteStatus == {"valid", "cancelled", "limit", "unavailable", "failed"}

(* A route may ask these, and has one result of each it has asked.         *)
RouteBackends == {"l2j", "navmesh"}
RouteResults == UNION {[asked -> RouteStatus] : asked \in SUBSET RouteBackends}
Reports == [results : RouteResults, code : Int]

RoutesAssumption ==
  /\ \A request \in Jobs :
       request.maps = Len(request.kinds) /\ ToSet(request.kinds) \subseteq RouteBackends
  /\ None \notin Reports
ASSUME RoutesAssumption

Backends == ToSet(job.kinds)
Backend(w) == job.kinds[status[w].index + 1]

(* Claimed exclusively; code 2 for a second worker, and for one that       *)
(* cannot read the request or write.                                       *)
Claim(w) ==
  /\ Running(w) /\ at[w] = "claiming"
  /\ \/ /\ claimed = {}
        /\ claimed' = claimed \cup {w}
        /\ Goes(w, "starting")
        /\ status' = [status EXCEPT ![w] = Preparing]
        /\ results' = [results EXCEPT ![w] = << >>]
        /\ UNCHANGED processVars
     \/ /\ Leaves(w, 2)
        /\ UNCHANGED <<claimed, status, results>>
  /\ UNCHANGED <<job, cancelRequest, statusFile, reportFile, outputs>>

Start(w) ==
  /\ Running(w) /\ at[w] = "starting"
  /\ Publishes(status[w])
  /\ Goes(w, "nextBackend")
  /\ UNCHANGED <<job, claimed, cancelRequest, reportFile, outputs, processVars, status, results>>

NextBackend(w) ==
  /\ Running(w) /\ at[w] = "nextBackend"
  /\ status[w].index < job.maps
  /\ status' = [status EXCEPT ![w].phase = "working"]
  /\ Publishes(status'[w])
  /\ Goes(w, "querying")
  /\ UNCHANGED <<job, claimed, cancelRequest, reportFile, outputs, processVars, results>>

(* The files are hashed and staged: what Java gets is hashed once more, so *)
(* a search runs on what was asked for or not at all.                      *)
Stage(w) ==
  /\ Running(w) /\ at[w] = "querying"
  /\ ~ timeoutRequest /\ ~ cancelRequest
  /\ inputs[Backend(w)] = "asked"
  /\ Goes(w, "searching")
  /\ UNCHANGED <<files, processVars, status, results>>

(* One backend's result: the others are asked whatever it is.              *)
With(found, b, result) == [c \in DOMAIN found \cup {b} |-> IF c = b THEN result ELSE found[c]]

Yields(w, result) ==
  /\ results' = [results EXCEPT ![w] = With(@, Backend(w), result)]
  /\ status' = [status EXCEPT ![w].index = @ + 1]
  /\ Goes(w, "nextBackend")
  /\ UNCHANGED <<files, processVars>>

(* After the search the requests to stop and the files are looked at again.*)
Answer(w) ==
  /\ Running(w) /\ at[w] = "searching"
  /\ ~ timeoutRequest /\ ~ cancelRequest
  /\ inputs[Backend(w)] = "asked"
  /\ \E result \in {"valid", "limit", "failed"} : Yields(w, result)

(* Any exception of the query: a backend that cannot be had, changed       *)
(* files, a Java process that fails or takes longer than its limit.        *)
Miss(w) ==
  /\ Running(w)
  /\ \/ at[w] = "querying" /\ Yields(w, "unavailable")
     \/ at[w] \in {"querying", "searching"} /\ \E result \in {"limit", "failed"} : Yields(w, result)

(* check(): the controller's limit is looked for before the user's wish.   *)
StopForTimeout(w) ==
  /\ Running(w) /\ at[w] \in {"querying", "searching"}
  /\ timeoutRequest
  /\ Yields(w, "limit")

StopForCancel(w) ==
  /\ Running(w) /\ at[w] \in {"querying", "searching"}
  /\ cancelRequest /\ ~ timeoutRequest
  /\ Yields(w, "cancelled")

Finish(w) ==
  /\ Running(w) /\ at[w] = "nextBackend"
  /\ status[w].index = job.maps
  /\ Goes(w, "verifying")
  /\ UNCHANGED <<files, processVars, status, results>>

(* Mutant of Surviving: only the files of the last backend are looked at   *)
(* again.                                                                  *)
SurvivingTheLast(w, b) ==
  IF results[w][b] \in {"valid", "limit", "failed"} /\ b = Last(job.kinds) /\ inputs[b] # "asked"
    THEN "failed" ELSE results[w][b]

(* No backend result can survive inputs changing during the request: all   *)
(* of them are hashed again, but for those no result was made of.  Each    *)
(* result depends on its own files alone, so one step stands for the loop. *)
Surviving(w, b) ==
  IF results[w][b] \in {"valid", "limit", "failed"} /\ inputs[b] # "asked"
    THEN "failed" ELSE results[w][b]

Verify(w) ==
  /\ Running(w) /\ at[w] = "verifying"
  /\ results' = [results EXCEPT ![w] = [b \in DOMAIN results[w] |-> Surviving(w, b)]]
  /\ Goes(w, "saving")
  /\ UNCHANGED <<files, processVars, status>>

(* Saving is one more "working" here.                                      *)
Save(w) ==
  /\ Running(w) /\ at[w] = "saving"
  /\ Publishes(status[w])
  /\ Goes(w, "reporting")
  /\ UNCHANGED <<job, claimed, cancelRequest, reportFile, outputs, processVars, status, results>>

(* One cancelled backend makes the job cancelled, one executed query makes *)
(* it a success otherwise.                                                 *)
PhaseOf(found) ==
  IF \E b \in DOMAIN found : found[b] = "cancelled" THEN "cancelled"
  ELSE IF \E b \in DOMAIN found : found[b] = "valid" THEN "completed"
  ELSE "failed"

CodeOf(phase) ==
  CASE phase = "completed" -> 0
    [] phase = "cancelled" -> 130
    [] phase = "failed"    -> 3

Report(w) ==
  /\ Running(w) /\ at[w] = "reporting"
  /\ reportFile = None
  /\ reportFile' = [results |-> results[w], code |-> CodeOf(PhaseOf(results[w]))]
  /\ status' = [status EXCEPT ![w].phase = PhaseOf(results[w])]
  /\ Goes(w, "closing")
  /\ UNCHANGED <<job, claimed, cancelRequest, statusFile, outputs, processVars, results>>

Close(w) ==
  /\ Running(w) /\ at[w] = "closing"
  /\ Publishes(status[w])
  /\ Goes(w, "returning")
  /\ UNCHANGED <<job, claimed, cancelRequest, reportFile, outputs, processVars, status, results>>

(* A status or the report cannot be written: code 2, and what is there     *)
(* stays.                                                                  *)
Abandon(w) ==
  /\ Running(w) /\ at[w] \in {"starting", "nextBackend", "saving", "reporting", "closing"}
  /\ Leaves(w, 2)
  /\ UNCHANGED <<files, status, results>>

Return(w) ==
  /\ Running(w) /\ at[w] = "returning"
  /\ Leaves(w, CodeOf(status[w].phase))
  /\ UNCHANGED <<files, status, results>>

WorkerStep(w) ==
  /\ \/ Claim(w) \/ Start(w) \/ NextBackend(w) \/ Stage(w) \/ Answer(w) \/ Miss(w)
     \/ StopForTimeout(w) \/ StopForCancel(w) \/ Finish(w) \/ Verify(w) \/ Save(w)
     \/ Report(w) \/ Close(w) \/ Abandon(w) \/ Return(w)
  /\ UNCHANGED <<timeoutRequest, inputs>>

=============================================================================
