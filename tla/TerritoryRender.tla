-------------------------- MODULE TerritoryRender --------------------------
(***************************************************************************)
(* The territory render of the preview: TerritoryRenderController, its     *)
(* worker process and the job directory between them.  poll() is called    *)
(* once a frame on the UI thread, start() and cancel() between two polls.  *)
(* One poll looks at the world up to three times, at the exit code, at     *)
(* status.json with the files it lists, and, once it has told the worker   *)
(* to stop, at the exit code again; the worker runs in between.            *)
(***************************************************************************)
EXTENDS RenderWorker

CONSTANTS
  MaxJobs,            (* bound: jobs started in one session                  *)
  MaxStopFailures,    (* bound: polls and cancels whose terminate_owned fails *)
  ReadsMayFail        (* status.json may be unreadable                       *)

BoundsAssumption == MaxJobs \in Nat \ {0} /\ MaxStopFailures \in Nat /\ ReadsMayFail \in BOOLEAN
ASSUME BoundsAssumption

(* A worker that is lost leaves another code than one that was cancelled.  *)
LossAssumption == TerminationCode \notin CrashCodes
ASSUME LossAssumption

VARIABLES
  made,            (* jobs started so far                                    *)
  running,         (* the job is active                                      *)
  broken,          (* fail() was called: status.json is not read any more    *)
  forced,          (* the worker was stopped after the deadline              *)
  deadline,        (* none, armed (ahead), passed                            *)
  shown,           (* status(), or None                                      *)
  error,           (* which message error() holds, none if it is empty       *)
  polling,         (* how far poll() has come: idle, status, decide, stop    *)
  code,            (* the exit code this poll has read                       *)
  stopFailures     (* polls and cancels in which terminate_owned has failed  *)

controllerVars == <<made, running, broken, forced, deadline, shown, error, polling, code, stopFailures>>
vars == <<files, processVars, programVars, controllerVars>>

Init ==
  /\ job = None /\ claimed = {} /\ cancelRequest = FALSE
  /\ statusFile = None /\ reportFile = None /\ outputs = {}
  /\ process = "none" /\ exitCode = None
  /\ at = [w \in Workers |-> "gone"]
  /\ status = [w \in Workers |-> Preparing]
  /\ made = 0
  /\ running = FALSE /\ broken = FALSE /\ forced = FALSE
  /\ deadline = "none" /\ shown = None /\ error = "none"
  /\ polling = "idle" /\ code = None
  /\ stopFailures = 0

(* fail(): the message is kept, and what is shown becomes failed.          *)
Failed(s) == IF s = None THEN None ELSE [s EXCEPT !.phase = "failed"]
Fails(message) ==
  /\ broken' = TRUE
  /\ error' = message
  /\ shown' = Failed(shown)

(* start(), up to its try block: nothing of the job before is left, and a  *)
(* new directory is empty.                                                 *)
StartsAnew ==
  /\ ~ running /\ polling = "idle"
  /\ made < MaxJobs
  /\ made' = made + 1
  /\ claimed' = {} /\ cancelRequest' = FALSE
  /\ reportFile' = None /\ outputs' = {}
  /\ status' = [w \in Workers |-> Preparing]
  /\ forced' = FALSE
  /\ deadline' = "none"
  /\ UNCHANGED <<polling, code, stopFailures>>

(* Request and status are on disk before the process is created, suspended *)
(* until it is in its job object.  The process object refuses to start     *)
(* while a process it has made still runs.                                 *)
StartJob ==
  /\ StartsAnew
  /\ ~ Alive
  /\ job' \in Jobs
  /\ statusFile' = Preparing
  /\ process' = "running" /\ exitCode' = None
  /\ at' = [w \in Workers |-> IF w = Owned THEN "claiming" ELSE "gone"]
  /\ running' = TRUE /\ broken' = FALSE
  /\ shown' = Preparing /\ error' = "none"

(* Something throws: the request is refused or no directory can be made,   *)
(* so there is nothing to show; or the first status cannot be written or   *)
(* the process cannot be started, and a failed status is shown.            *)
RefuseJob ==
  /\ StartsAnew
  /\ running' = FALSE /\ broken' = TRUE
  /\ error' = "refused"
  /\ at' = [w \in Workers |-> "gone"]
  /\ \/ /\ job' = None /\ statusFile' = None /\ shown' = None
        /\ UNCHANGED processVars
     \/ /\ job' \in Jobs
        /\ shown' = Failed(Preparing)
        /\ \/ statusFile' = None /\ UNCHANGED processVars
           \/ /\ statusFile' = Preparing
              /\ IF Alive THEN UNCHANGED processVars
                 ELSE process' = "none" /\ exitCode' = None

(* cancel(): once for a job; the worker then has five seconds.             *)
Cancel ==
  /\ polling = "idle"
  /\ running /\ deadline = "none"
  /\ cancelRequest' = TRUE
  /\ deadline' = "armed"
  /\ UNCHANGED <<job, claimed, statusFile, reportFile, outputs, processVars, programVars,
                 made, running, broken, forced, shown, error, polling, code, stopFailures>>

(* terminate_owned(), which may fail.                                      *)
Terminates == process' = Terminated(process) /\ UNCHANGED <<exitCode, stopFailures>>
CannotTerminate ==
  /\ stopFailures < MaxStopFailures
  /\ stopFailures' = stopFailures + 1
  /\ UNCHANGED processVars

(* cancel.request cannot be written: the worker is stopped at once, and no *)
(* deadline is set.  If that throws too, cancel() throws.                  *)
CannotCancel ==
  /\ polling = "idle"
  /\ running /\ deadline = "none"
  /\ Fails("cannot cancel")
  /\ Terminates \/ CannotTerminate
  /\ UNCHANGED <<files, programVars, made, running, forced, deadline, polling, code>>

DeadlinePasses ==
  /\ deadline = "armed"
  /\ deadline' = "passed"
  /\ UNCHANGED <<files, processVars, programVars, made, running, broken, forced,
                 shown, error, polling, code, stopFailures>>

(* poll(), its first look: the exit code, before the status that goes with *)
(* it.  A job that is broken or was forced has its status already.         *)
PollExitCode ==
  /\ polling = "idle" /\ running
  /\ code' = ExitCode
  /\ polling' = IF broken \/ forced THEN "decide" ELSE "status"
  /\ UNCHANGED <<files, processVars, programVars, made, running, broken, forced,
                 deadline, shown, error, stopFailures>>

(* validate_status: once the worker has exited every file it lists must be *)
(* there, and a completed one lists them all.                              *)
Published == outputs \cup (IF reportFile = None THEN {} ELSE {ReportName})
Valid(s) ==
  code # None =>
    /\ s.files \subseteq Published
    /\ s.phase = "completed" =>
         s.index = job.maps /\ s.files = OutputNames(job) \cup {ReportName}

(* Its second look: the newest status.json.                                *)
PollStatus ==
  /\ polling = "status"
  /\ statusFile # None /\ Valid(statusFile)
  /\ shown' = statusFile
  /\ polling' = "decide"
  /\ UNCHANGED <<files, processVars, programVars, made, running, broken, forced,
                 deadline, error, code, stopFailures>>

(* The catch block of poll(): fail, then try to stop the worker; the exit  *)
(* code is looked at again right after.                                    *)
PollUnreadable ==
  /\ polling = "status"
  /\ ReadsMayFail \/ statusFile = None \/ ~ Valid(statusFile)
  /\ broken' = TRUE
  /\ shown' = Failed(shown)
  /\ \/ Terminates /\ error' = "unreadable" /\ polling' = "stop"
     \/ CannotTerminate /\ error' = "cannot stop" /\ polling' = "idle"
  /\ UNCHANGED <<files, programVars, made, running, forced, deadline, code>>

(* Mutant of PollStopped: the job is ended with no look at the exit code.  *)
PollStoppedBlindly ==
  /\ polling = "stop"
  /\ running' = FALSE
  /\ shown' = IF forced THEN [shown EXCEPT !.phase = "cancelled"] ELSE shown
  /\ polling' = "idle"
  /\ UNCHANGED <<files, processVars, programVars, made, broken, forced, deadline,
                 error, code, stopFailures>>

(* The look after terminate_owned: a worker that is gone by then ends the  *)
(* job at once, as cancelled if it was the deadline that stopped it.       *)
PollStopped ==
  /\ polling = "stop"
  /\ running' = (ExitCode = None)
  /\ shown' = IF forced /\ ExitCode # None THEN [shown EXCEPT !.phase = "cancelled"] ELSE shown
  /\ polling' = "idle"
  /\ UNCHANGED <<files, processVars, programVars, made, broken, forced, deadline,
                 error, code, stopFailures>>

(* The worker is gone: the job ends here.                                  *)
EndsPoll ==
  /\ polling = "decide" /\ code # None
  /\ running' = FALSE
  /\ polling' = "idle"
  /\ UNCHANGED <<files, processVars, programVars, made, forced, deadline, code, stopFailures>>

EndBroken ==
  /\ EndsPoll
  /\ broken
  /\ UNCHANGED <<broken, shown, error>>

EndForced ==
  /\ EndsPoll
  /\ ~ broken /\ forced
  /\ shown' = [shown EXCEPT !.phase = "cancelled"]
  /\ UNCHANGED <<broken, error>>

(* The last status and the exit code must make one result.                 *)
Agree(s, c) ==
  \/ s.phase = "completed" /\ c = 0
  \/ s.phase = "failed" /\ c # 0
  \/ s.phase = "cancelled" /\ c = 130

EndAsReported ==
  /\ EndsPoll
  /\ ~ broken /\ ~ forced
  /\ Agree(shown, code)
  /\ error' = IF shown.phase = "failed" THEN "worker" ELSE error
  /\ UNCHANGED <<broken, shown>>

EndMismatched ==
  /\ EndsPoll
  /\ ~ broken /\ ~ forced
  /\ ~ Agree(shown, code)
  /\ Fails("mismatch")

(* The worker still runs: what it has called its last status is shown as   *)
(* saving, and once the deadline is over it is stopped.                    *)
ShownWhileRunning ==
  IF ~ broken /\ shown.phase \in TerminalPhases THEN [shown EXCEPT !.phase = "working"] ELSE shown

(* Mutant of StopsNow: a broken job no longer minds its deadline.          *)
StopsUnlessBroken == deadline = "passed" /\ ~ forced /\ ~ broken

StopsNow == deadline = "passed" /\ ~ forced

PollContinue ==
  /\ polling = "decide" /\ code = None
  /\ ~ StopsNow
  /\ shown' = ShownWhileRunning
  /\ polling' = "idle"
  /\ UNCHANGED <<files, processVars, programVars, made, running, broken, forced,
                 deadline, error, code, stopFailures>>

PollForce ==
  /\ polling = "decide" /\ code = None
  /\ StopsNow
  /\ Terminates
  /\ forced' = TRUE
  /\ shown' = ShownWhileRunning
  /\ polling' = "stop"
  /\ UNCHANGED <<files, programVars, made, running, broken, deadline, error, code>>

(* Terminating throws: the catch block fails the job and tries once more.  *)
PollCannotForce ==
  /\ polling = "decide" /\ code = None
  /\ StopsNow
  /\ stopFailures < MaxStopFailures
  /\ broken' = TRUE
  /\ shown' = Failed(shown)
  /\ stopFailures' = stopFailures + 1
  /\ \/ /\ process' = Terminated(process) /\ UNCHANGED exitCode
        /\ error' = "unstoppable" /\ polling' = "stop"
     \/ /\ error' = "cannot stop" /\ polling' = "idle"
        /\ UNCHANGED processVars
  /\ UNCHANGED <<files, programVars, made, running, forced, deadline, code>>

Poll ==
  \/ PollExitCode \/ PollStatus \/ PollUnreadable \/ PollStopped
  \/ EndBroken \/ EndForced \/ EndAsReported \/ EndMismatched
  \/ PollContinue \/ PollForce \/ PollCannotForce

OwnedWorkerStep == WorkerStep(Owned) /\ UNCHANGED controllerVars
RepeatedWorkerStep == WorkerStep(Repeated) /\ UNCHANGED controllerVars
OwnedWorkerLost == (Dies \/ Crashes) /\ UNCHANGED controllerVars
RunByHand == RunAgain /\ UNCHANGED controllerVars

Next ==
  \/ StartJob \/ RefuseJob \/ Cancel \/ CannotCancel
  \/ DeadlinePasses
  \/ Poll
  \/ OwnedWorkerStep \/ OwnedWorkerLost
  \/ RepeatedWorkerStep \/ RunByHand

Spec == Init /\ [][Next]_vars

(* The frame loop polls, the clock runs and the operating system ends what *)
(* it was told to end.  Nothing is assumed of the worker: it may hang.     *)
Terminating == Dies /\ UNCHANGED controllerVars
FairSpec ==
  /\ Spec
  /\ WF_vars(Poll)
  /\ WF_vars(DeadlinePasses)
  /\ WF_vars(Terminating)

-----------------------------------------------------------------------------

(* status.json never gets ahead of the directory, whatever throws, dies or *)
(* is run twice: a file it lists is there, each map it counts has its      *)
(* image, and a job it calls completed has every file and a report that    *)
(* says completed too.                                                     *)
StatusIsBacked ==
  statusFile # None =>
    /\ statusFile.files \subseteq Published
    /\ Renders => \A n \in 1 .. statusFile.index : <<n, "png">> \in outputs
    /\ statusFile.phase = "completed" =>
         reportFile = "completed" /\ OutputNames(job) \subseteq outputs

(* Whether everything the job was asked for is there, and what the windows *)
(* of the preview make of the controller's state.                          *)
Delivered == job # None /\ OutputNames(job) \subseteq outputs /\ reportFile # None
View ==
  IF made = 0 THEN "idle"
  ELSE IF running THEN "running"
  ELSE IF shown = None THEN "failed"
  ELSE shown.phase

(* The controller keeps the promise of JobPromise, although it ends a job  *)
(* in one place more than the build controller does, right after it told   *)
(* the worker to stop.                                                     *)
Promise == INSTANCE JobPromise WITH
  view <- View, alive <- Alive, asked <- cancelRequest, delivered <- Delivered
KeepsJobPromise == Promise!Spec

(* Once cancellation is asked the job comes to an end, whatever the worker *)
(* does, and even if the first attempt to stop it fails.                   *)
CancelEndsJob == deadline # "none" ~> ~ running

=============================================================================
