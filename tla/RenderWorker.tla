---------------------------- MODULE RenderWorker ----------------------------
(***************************************************************************)
(* The territory worker, run_job_file and run_job: one run of the program  *)
(* over a job directory.  A job that renders makes an image of every map   *)
(* and a checkpoint, the report of that map; one that inspects makes the   *)
(* checkpoints alone.  A step ends where a shared file has been touched.   *)
(***************************************************************************)
EXTENDS JobDirectory

(* What there is to make of a map: with an image or without.               *)
RenderJobsAssumption ==
  \A request \in Jobs : ToSet(request.kinds) \in {{"checkpoint"}, {"png", "checkpoint"}}
ASSUME RenderJobsAssumption

(* In the try block whose handlers turn an exception into a result.        *)
Guarded(w) == at[w] \in {"starting", "nextMap", "drawing", "recording", "publishing"}

CurrentMap(w) == status[w].index + 1
Image(w) == <<CurrentMap(w), "png">>
Checkpoint(w) == <<CurrentMap(w), "checkpoint">>
Renders == "png" \in ToSet(job.kinds)

(* worker.log is created exclusively before anything else is done, and     *)
(* started.json before the status is replaced: a second worker leaves with *)
(* 2, as does one that cannot read the request or write.                   *)
Claim(w) ==
  /\ Running(w) /\ at[w] = "claiming"
  /\ \/ /\ claimed = {}
        /\ claimed' = claimed \cup {w}
        /\ Goes(w, "starting")
        /\ status' = [status EXCEPT ![w] = Preparing]
        /\ UNCHANGED processVars
     \/ /\ Leaves(w, 2)
        /\ \/ UNCHANGED claimed
           \/ claimed = {} /\ claimed' = {w}
        /\ UNCHANGED status
  /\ UNCHANGED <<job, cancelRequest, statusFile, reportFile, outputs>>

Start(w) ==
  /\ Running(w) /\ at[w] = "starting"
  /\ Publishes(status[w])
  /\ Goes(w, "nextMap")
  /\ UNCHANGED <<job, claimed, cancelRequest, reportFile, outputs, processVars, status>>

(* Loading, rendering and saving publish the same status again; tiles are  *)
(* not counted here.                                                       *)
NextMap(w) ==
  /\ Running(w) /\ at[w] = "nextMap"
  /\ ~ cancelRequest
  /\ status[w].index < job.maps
  /\ status' = [status EXCEPT ![w].phase = "working"]
  /\ Publishes(status'[w])
  /\ Goes(w, "drawing")
  /\ UNCHANGED <<job, claimed, cancelRequest, reportFile, outputs, processVars>>

(* PngOutput::finish: the image has been encoded under another name and    *)
(* read back; after a last look at cancel.request it is moved, whole, to   *)
(* its own, where nothing may be yet.                                      *)
PublishImage(w) ==
  /\ Running(w) /\ at[w] = "drawing"
  /\ Renders
  /\ ~ cancelRequest
  /\ Image(w) \notin outputs
  /\ outputs' = outputs \cup {Image(w)}
  /\ Goes(w, "recording")
  /\ UNCHANGED <<job, claimed, cancelRequest, statusFile, reportFile, processVars, status>>

Inspect(w) ==
  /\ Running(w) /\ at[w] = "drawing"
  /\ ~ Renders
  /\ ~ cancelRequest
  /\ Goes(w, "recording")
  /\ UNCHANGED <<files, processVars, status>>

(* The image is listed and the map counted; with the checkpoint written    *)
(* that is listed too.  Nothing of it is published yet.                    *)
Listing(w) == status[w].files \cup (IF Renders THEN {Image(w)} ELSE {})
Counted(w) == [status[w] EXCEPT !.index = @ + 1, !.files = Listing(w)]

RecordMap(w) ==
  /\ Running(w) /\ at[w] = "recording"
  /\ Checkpoint(w) \notin outputs
  /\ outputs' = outputs \cup {Checkpoint(w)}
  /\ status' = [status EXCEPT ![w] = [Counted(w) EXCEPT !.files = @ \cup {Checkpoint(w)}]]
  /\ Goes(w, "publishing")
  /\ UNCHANGED <<job, claimed, cancelRequest, statusFile, reportFile, processVars>>

PublishMap(w) ==
  /\ Running(w) /\ at[w] = "publishing"
  /\ Publishes(status[w])
  /\ Goes(w, "nextMap")
  /\ UNCHANGED <<job, claimed, cancelRequest, reportFile, outputs, processVars, status>>

Finish(w) ==
  /\ Running(w) /\ at[w] = "nextMap"
  /\ ~ cancelRequest
  /\ status[w].index = job.maps
  /\ status' = [status EXCEPT ![w].phase = "completed"]
  /\ Goes(w, "reporting")
  /\ UNCHANGED <<files, processVars>>

(* check_cancel throws: before every map, several times while it is loaded *)
(* and drawn, before its image is published, and once more at the end.     *)
(* Ctrl-C counts as well for a worker that has a console.                  *)
StopForCancel(w) ==
  /\ Running(w) /\ at[w] \in {"nextMap", "drawing"}
  /\ cancelRequest \/ w = Repeated
  /\ status' = [status EXCEPT ![w].phase = "cancelled"]
  /\ Goes(w, "reporting")
  /\ UNCHANGED <<files, processVars>>

(* Anything in the try block throws: also the check of an image after it   *)
(* was published, before it is listed, and the checkpoint of a map that    *)
(* has been counted already.                                               *)
Throw(w) ==
  /\ Running(w) /\ Guarded(w)
  /\ \E s \in {status[w]} \cup (IF at[w] = "recording" THEN {Counted(w)} ELSE {}) :
       status' = [status EXCEPT ![w] = [s EXCEPT !.phase = "failed"]]
  /\ Goes(w, "reporting")
  /\ UNCHANGED <<files, processVars>>

(* report.json is created exclusively before the last status.              *)
WriteReport(w) ==
  /\ Running(w) /\ at[w] = "reporting"
  /\ reportFile = None
  /\ reportFile' = status[w].phase
  /\ status' = [status EXCEPT ![w].files = @ \cup {ReportName}]
  /\ Goes(w, "closing")
  /\ UNCHANGED <<job, claimed, cancelRequest, statusFile, outputs, processVars>>

Close(w) ==
  /\ Running(w) /\ at[w] = "closing"
  /\ Publishes(status[w])
  /\ Goes(w, "returning")
  /\ UNCHANGED <<job, claimed, cancelRequest, reportFile, outputs, processVars, status>>

(* Mutant of Unpublished: a completed job stays completed.                 *)
UnpublishedAnyway(phase) == phase

(* A completed job whose report or last status cannot be written failed.   *)
Unpublished(phase) == IF phase = "completed" THEN "failed" ELSE phase

CannotClose(w) ==
  /\ Running(w) /\ at[w] \in {"reporting", "closing"}
  /\ status' = [status EXCEPT ![w].phase = Unpublished(@)]
  /\ Goes(w, "retrying")
  /\ UNCHANGED <<files, processVars>>

(* The status is published a second time, or that fails too and nobody is  *)
(* told.                                                                   *)
Retry(w) ==
  /\ Running(w) /\ at[w] = "retrying"
  /\ Publishes(status[w]) \/ UNCHANGED statusFile
  /\ Goes(w, "returning")
  /\ UNCHANGED <<job, claimed, cancelRequest, reportFile, outputs, processVars, status>>

CodeOf(phase) ==
  CASE phase = "completed" -> 0
    [] phase = "cancelled" -> 130
    [] phase = "failed"    -> 3

Return(w) ==
  /\ Running(w) /\ at[w] = "returning"
  /\ Leaves(w, CodeOf(status[w].phase))
  /\ UNCHANGED <<files, status>>

WorkerStep(w) ==
  \/ Claim(w) \/ Start(w) \/ NextMap(w) \/ PublishImage(w) \/ Inspect(w)
  \/ RecordMap(w) \/ PublishMap(w) \/ Finish(w) \/ StopForCancel(w) \/ Throw(w)
  \/ WriteReport(w) \/ Close(w) \/ CannotClose(w) \/ Retry(w) \/ Return(w)

=============================================================================
