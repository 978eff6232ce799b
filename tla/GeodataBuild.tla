---------------------------- MODULE GeodataBuild ----------------------------
(***************************************************************************)
(* The geodata build of the preview: GeodataBuildController, its worker    *)
(* process and the job directory between them.  The controller lives on    *)
(* the UI thread, where poll() is called once a frame, and start() and     *)
(* cancel() between two polls.  One poll looks at the world three times:   *)
(* at the exit code, then at status.json, then, to decide, at the other    *)
(* files; the worker may take any number of steps between two of these.    *)
(***************************************************************************)
EXTENDS GeodataWorker

CONSTANTS
  MaxJobs,            (* bound: jobs started in one session                  *)
  MaxStopFailures,    (* bound: polls and cancels whose terminate_owned fails *)
  ReadsMayFail        (* status.json may be unreadable                       *)

BoundsAssumption == MaxJobs \in Nat \ {0} /\ MaxStopFailures \in Nat /\ ReadsMayFail \in BOOLEAN
ASSUME BoundsAssumption

VARIABLES
  made,            (* jobs started so far                                    *)
  running,         (* m_running                                              *)
  failed,          (* m_failed                                               *)
  forced,          (* m_forced                                               *)
  deadline,        (* m_cancel_deadline: none, armed (ahead), passed         *)
  shown,           (* m_status, or None                                      *)
  error,           (* which message m_error holds, none if it is empty       *)
  polling,         (* how far poll() has come: idle, status, decide, stop    *)
  code,            (* the exit code this poll has read                       *)
  stopFailures     (* polls and cancels in which terminate_owned has failed  *)

controllerVars == <<made, running, failed, forced, deadline, shown, error, polling, code, stopFailures>>
vars == <<files, processVars, workerVars, controllerVars>>

Init ==
  /\ job = None /\ claimed = {} /\ cancelRequest = FALSE
  /\ statusFile = None /\ reportFile = None /\ outputs = {}
  /\ process = "none" /\ exitCode = None
  /\ at = [w \in Workers |-> "gone"]
  /\ status = [w \in Workers |-> Preparing]
  /\ todo = [w \in Workers |-> << >>]
  /\ made = 0
  /\ running = FALSE /\ failed = FALSE /\ forced = FALSE
  /\ deadline = "none" /\ shown = None /\ error = "none"
  /\ polling = "idle" /\ code = None
  /\ stopFailures = 0

(* fail(): the message is kept, and what is shown becomes failed.          *)
Failed(s) == IF s = None THEN None ELSE [s EXCEPT !.phase = "failed"]
Fails(message) ==
  /\ failed' = TRUE
  /\ error' = message
  /\ shown' = Failed(shown)

(* start(), up to its try block: nothing of the job before is left, and a  *)
(* new directory is empty.                                                 *)
StartsAnew ==
  /\ ~ running /\ polling = "idle"
  /\ made < MaxJobs
  /\ made' = made + 1
  /\ claimed' = {} /\ cancelRequest' = FALSE
  /\ reportFile' = None /\ outputs' = {}
  /\ status' = [w \in Workers |-> Preparing]
  /\ todo' = [w \in Workers |-> << >>]
  /\ forced' = FALSE
  /\ deadline' = "none"
  /\ UNCHANGED <<polling, code, stopFailures>>

(* Request and status are on disk before the process is created, suspended *)
(* until it is in its job object.  The process object refuses to start     *)
(* while a process it has made still runs.                                 *)
StartJob ==
  /\ StartsAnew
  /\ ~ Alive
  /\ job' \in Jobs
  /\ statusFile' = Preparing
  /\ process' = "running" /\ exitCode' = None
  /\ at' = [w \in Workers |-> IF w = Owned THEN "claiming" ELSE "gone"]
  /\ running' = TRUE /\ failed' = FALSE
  /\ shown' = Preparing /\ error' = "none"

(* Something throws: the request is refused or no directory can be made,   *)
(* so there is nothing to show; or the first status cannot be written or   *)
(* the process cannot be started, and a failed status is shown.            *)
RefuseJob ==
  /\ StartsAnew
  /\ running' = FALSE /\ failed' = TRUE
  /\ error' = "refused"
  /\ at' = [w \in Workers |-> "gone"]
  /\ \/ /\ job' = None /\ statusFile' = None /\ shown' = None
        /\ UNCHANGED processVars
     \/ /\ job' \in Jobs
        /\ shown' = Failed(Preparing)
        /\ \/ statusFile' = None /\ UNCHANGED processVars
           \/ /\ statusFile' = Preparing
              /\ IF Alive THEN UNCHANGED processVars
                 ELSE process' = "none" /\ exitCode' = None

(* cancel(): once for a job; the worker then has five seconds.             *)
Cancel ==
  /\ polling = "idle"
  /\ running /\ deadline = "none"
  /\ cancelRequest' = TRUE
  /\ deadline' = "armed"
  /\ UNCHANGED <<job, claimed, statusFile, reportFile, outputs, processVars, workerVars,
                 made, running, failed, forced, shown, error, polling, code, stopFailures>>

(* terminate_owned(), which may fail.                                      *)
Terminates == process' = Terminated(process) /\ UNCHANGED <<exitCode, stopFailures>>
CannotTerminate ==
  /\ stopFailures < MaxStopFailures
  /\ stopFailures' = stopFailures + 1
  /\ UNCHANGED processVars

(* cancel.request cannot be written: the worker is stopped at once, and no *)
(* deadline is set.                                                        *)
CannotCancel ==
  /\ polling = "idle"
  /\ running /\ deadline = "none"
  /\ Fails("cannot cancel")
  /\ Terminates \/ CannotTerminate
  /\ UNCHANGED <<files, workerVars, made, running, forced, deadline, polling, code>>

DeadlinePasses ==
  /\ deadline = "armed"
  /\ deadline' = "passed"
  /\ UNCHANGED <<files, processVars, workerVars, made, running, failed, forced,
                 shown, error, polling, code, stopFailures>>

(* poll(), its first look: the exit code, before the status that goes with *)
(* it.  A job that has failed or been forced has its status already.       *)
PollExitCode ==
  /\ polling = "idle" /\ running
  /\ code' = ExitCode
  /\ polling' = IF failed \/ forced THEN "decide" ELSE "status"
  /\ UNCHANGED <<files, processVars, workerVars, made, running, failed, forced,
                 deadline, shown, error, stopFailures>>

(* Its second look: the newest status.json.                                *)
PollStatus ==
  /\ polling = "status"
  /\ statusFile # None
  /\ shown' = statusFile
  /\ polling' = "decide"
  /\ UNCHANGED <<files, processVars, workerVars, made, running, failed, forced,
                 deadline, error, code, stopFailures>>

(* The catch block of poll() while the job runs: fail, then try to stop    *)
(* the worker; the exit code is looked at again right after.               *)
FailAndStop(message) ==
  /\ failed' = TRUE
  /\ shown' = Failed(shown)
  /\ \/ Terminates /\ error' = message /\ polling' = "stop"
     \/ CannotTerminate /\ error' = "cannot stop" /\ polling' = "idle"
  /\ UNCHANGED <<files, workerVars, made, running, forced, deadline, code>>

(* status.json cannot be read, or is not of this job.                      *)
PollUnreadable ==
  /\ polling = "status"
  /\ ReadsMayFail \/ statusFile = None
  /\ FailAndStop("unreadable")

(* Mutant of PollStopped: the job is ended with no look at the exit code.  *)
PollStoppedBlindly ==
  /\ polling = "stop"
  /\ running' = FALSE
  /\ polling' = "idle"
  /\ UNCHANGED <<files, processVars, workerVars, made, failed, forced, deadline,
                 shown, error, code, stopFailures>>

PollStopped ==
  /\ polling = "stop"
  /\ running' = (ExitCode = None)
  /\ polling' = "idle"
  /\ UNCHANGED <<files, processVars, workerVars, made, failed, forced, deadline,
                 shown, error, code, stopFailures>>

(* Mutant of EndsPoll: the exit code is looked at after the status.        *)
EndsPollLate ==
  /\ polling = "decide" /\ ExitCode # None
  /\ running' = FALSE
  /\ polling' = "idle"
  /\ code' = ExitCode
  /\ UNCHANGED <<files, processVars, workerVars, made, forced, deadline, stopFailures>>

(* The worker is gone: the job ends here, before anything is verified.     *)
EndsPoll ==
  /\ polling = "decide" /\ code # None
  /\ running' = FALSE
  /\ polling' = "idle"
  /\ UNCHANGED <<files, processVars, workerVars, made, forced, deadline, code, stopFailures>>

EndFailed ==
  /\ EndsPoll
  /\ failed
  /\ UNCHANGED <<failed, shown, error>>

EndForced ==
  /\ EndsPoll
  /\ ~ failed /\ forced
  /\ shown' = [shown EXCEPT !.phase = "cancelled"]
  /\ error' = "stopped"
  /\ UNCHANGED failed

Complete == OutputNames(job) \subseteq outputs /\ reportFile # None

(* The worker says it is done: every map, every file and the report are    *)
(* looked for before that is believed.                                     *)
EndCompleted ==
  /\ EndsPoll
  /\ ~ failed /\ ~ forced
  /\ shown.phase = "completed" /\ code = 0
  /\ IF shown.index # job.maps THEN Fails("unfinished")
     ELSE IF ~ Complete THEN Fails("missing")
     ELSE UNCHANGED <<failed, shown, error>>

EndOtherwise ==
  /\ EndsPoll
  /\ ~ failed /\ ~ forced
  /\ ~ (shown.phase = "completed" /\ code = 0)
  /\ CASE shown.phase = "failed" /\ code # 0 ->
            error' = "worker" /\ UNCHANGED <<failed, shown>>
       [] shown.phase = "cancelled" /\ code = 130 ->
            UNCHANGED <<failed, shown, error>>
       [] OTHER -> Fails("mismatch")

(* The worker still runs: what it has called its last status is shown as   *)
(* saving, and once the deadline is over it is stopped.                    *)
ShownWhileRunning ==
  IF ~ failed /\ shown.phase \in TerminalPhases THEN [shown EXCEPT !.phase = "working"] ELSE shown

(* Mutant of StopsNow: a failed job no longer minds its deadline.          *)
StopsUnlessFailed == deadline = "passed" /\ ~ forced /\ ~ failed

StopsNow == deadline = "passed" /\ ~ forced

PollContinue ==
  /\ polling = "decide" /\ code = None
  /\ ~ StopsNow
  /\ shown' = ShownWhileRunning
  /\ polling' = "idle"
  /\ UNCHANGED <<files, processVars, workerVars, made, running, failed, forced,
                 deadline, error, code, stopFailures>>

PollForce ==
  /\ polling = "decide" /\ code = None
  /\ StopsNow
  /\ Terminates
  /\ forced' = TRUE
  /\ shown' = ShownWhileRunning
  /\ polling' = "idle"
  /\ UNCHANGED <<files, workerVars, made, running, failed, deadline, error, code>>

(* Terminating throws: the catch block fails the job and tries once more.  *)
PollCannotForce ==
  /\ polling = "decide" /\ code = None
  /\ StopsNow
  /\ stopFailures < MaxStopFailures
  /\ failed' = TRUE
  /\ shown' = Failed(shown)
  /\ stopFailures' = stopFailures + 1
  /\ \/ /\ process' = Terminated(process) /\ UNCHANGED exitCode
        /\ error' = "unstoppable" /\ polling' = "stop"
     \/ /\ error' = "cannot stop" /\ polling' = "idle"
        /\ UNCHANGED processVars
  /\ UNCHANGED <<files, workerVars, made, running, forced, deadline, code>>

Poll ==
  \/ PollExitCode \/ PollStatus \/ PollUnreadable \/ PollStopped
  \/ EndFailed \/ EndForced \/ EndCompleted \/ EndOtherwise
  \/ PollContinue \/ PollForce \/ PollCannotForce

OwnedWorkerStep == WorkerStep(Owned) /\ UNCHANGED controllerVars
RepeatedWorkerStep == WorkerStep(Repeated) /\ UNCHANGED controllerVars
OwnedWorkerLost == (Dies \/ Crashes) /\ UNCHANGED <<todo, controllerVars>>
RunByHand == RunAgain /\ UNCHANGED <<todo, controllerVars>>

Next ==
  \/ StartJob \/ RefuseJob \/ Cancel \/ CannotCancel
  \/ DeadlinePasses
  \/ Poll
  \/ OwnedWorkerStep \/ OwnedWorkerLost
  \/ RepeatedWorkerStep \/ RunByHand

Spec == Init /\ [][Next]_vars

(* The frame loop polls, the clock runs and the operating system ends what *)
(* it was told to end.  Nothing is assumed of the worker: it may hang.     *)
Terminating == Dies /\ UNCHANGED <<todo, controllerVars>>
FairSpec ==
  /\ Spec
  /\ WF_vars(Poll)
  /\ WF_vars(DeadlinePasses)
  /\ WF_vars(Terminating)

-----------------------------------------------------------------------------

(* A job is only ended for disagreeing with its worker if they do disagree: *)
(* once the poll that decides it is over, what the worker last wrote and   *)
(* its exit code do not make one result.  (A worker run by hand may have   *)
(* claimed the directory, and then what status.json says is not the owned  *)
(* worker's word.)  The order of the looks in poll() is what this is about. *)
Agree(s, c) ==
  \/ s.phase = "completed" /\ c = 0
  \/ s.phase = "failed" /\ c # 0
  \/ s.phase = "cancelled" /\ c = 130
MismatchIsReal ==
  error = "mismatch" /\ claimed = {Owned} => ~ Agree(statusFile, exitCode)

(* Within one job status.json only moves forward: no map count falls, and  *)
(* a last word is never taken back, however often the worker is run on the *)
(* directory.                                                              *)
ProgressIsMonotone ==
  [][made' = made /\ statusFile # None /\ statusFile' # statusFile
     => /\ statusFile.phase \notin TerminalPhases
        /\ statusFile'.index >= statusFile.index]_vars

(* Whether everything the job was asked for is there, and what the windows *)
(* of the preview make of the controller's state.                          *)
Delivered == job # None /\ OutputNames(job) \subseteq outputs /\ reportFile # None
View ==
  IF made = 0 THEN "idle"
  ELSE IF running THEN "running"
  ELSE IF shown = None THEN "failed"
  ELSE shown.phase

(* The controller keeps the promise: seen through active(), status() and   *)
(* the files, every step of poll(), start(), cancel(), of the worker and   *)
(* of the system is a step of JobPromise or none of its business.          *)
Promise == INSTANCE JobPromise WITH
  view <- View, alive <- Alive, asked <- cancelRequest, delivered <- Delivered
KeepsJobPromise == Promise!Spec

(* Once cancellation is asked the job comes to an end, whatever the worker *)
(* does, and even if the first attempt to stop it fails.                   *)
CancelEndsJob == deadline # "none" ~> ~ running

=============================================================================
