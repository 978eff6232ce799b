----------------------------- MODULE RouteQuery -----------------------------
(***************************************************************************)
(* The Find path query of the preview: PathfindingController, its worker   *)
(* process and the job directory between them.  Three things differ from   *)
(* the other two controllers: every job has a wall limit besides the       *)
(* user's cancellation; a job that is forced is answered by the controller *)
(* itself; and fail() gives a job up without waiting for its process.      *)
(***************************************************************************)
EXTENDS RouteWorker

CONSTANTS
  MaxJobs,            (* bound: jobs started in one session                  *)
  MaxStopFailures,    (* bound: polls and cancels whose termination fails    *)
  MaxReplaced         (* bound: navigation inputs replaced                   *)

BoundsAssumption == MaxJobs \in Nat \ {0} /\ MaxStopFailures \in Nat /\ MaxReplaced \in Nat
ASSUME BoundsAssumption

VARIABLES
  made,            (* calls of start() so far                                *)
  running,         (* m_running                                              *)
  forced,          (* m_forced                                               *)
  timedOut,        (* m_timed_out                                            *)
  wall,            (* the wall limit counted from m_started: ahead, passed   *)
  deadline,        (* m_cancel_deadline: none, armed (ahead), passed         *)
  shown,           (* m_status, or None                                      *)
  answer,          (* m_results by backend, or None if empty                 *)
  error,           (* which message m_error holds, none if it is empty       *)
  polling,         (* how far poll() has come: idle, code, status, decide    *)
  code,            (* the exit code this poll has read                       *)
  stopFailures     (* polls and cancels in which terminating has failed      *)

controllerVars == <<made, running, forced, timedOut, wall, deadline, shown, answer, error,
                    polling, code, stopFailures>>
vars == <<files, timeoutRequest, inputs, processVars, workerVars, controllerVars>>

AllAsked == [b \in RouteBackends |-> "asked"]

Init ==
  /\ job = None /\ claimed = {} /\ cancelRequest = FALSE
  /\ statusFile = None /\ reportFile = None /\ outputs = {}
  /\ timeoutRequest = FALSE /\ inputs = AllAsked
  /\ process = "none" /\ exitCode = None
  /\ at = [w \in Workers |-> "gone"]
  /\ status = [w \in Workers |-> Preparing]
  /\ results = [w \in Workers |-> << >>]
  /\ made = 0
  /\ running = FALSE /\ forced = FALSE /\ timedOut = FALSE
  /\ wall = "ahead" /\ deadline = "none"
  /\ shown = None /\ answer = None /\ error = "none"
  /\ polling = "idle" /\ code = None
  /\ stopFailures = 0

-----------------------------------------------------------------------------

(* start(), up to its try block.                                           *)
Clears ==
  /\ ~ running /\ polling = "idle"
  /\ made < MaxJobs
  /\ made' = made + 1
  /\ shown' = None /\ answer' = None
  /\ deadline' = "none" /\ wall' = "ahead"
  /\ forced' = FALSE /\ timedOut' = FALSE
  /\ UNCHANGED <<polling, code, stopFailures>>

(* A new directory with a request and nothing else.                        *)
NewDirectory ==
  /\ job' \in Jobs
  /\ claimed' = {} /\ cancelRequest' = FALSE /\ timeoutRequest' = FALSE
  /\ statusFile' = None /\ reportFile' = None /\ outputs' = {}
  /\ inputs' = AllAsked
  /\ status' = [w \in Workers |-> Preparing]
  /\ results' = [w \in Workers |-> << >>]

(* The process object refuses to start while a process it has made runs.   *)
StartJob ==
  /\ Clears
  /\ NewDirectory
  /\ ~ Alive
  /\ process' = "running" /\ exitCode' = None
  /\ at' = [w \in Workers |-> IF w = Owned THEN "claiming" ELSE "gone"]
  /\ running' = TRUE
  /\ error' = "none"

(* Something throws: there is no new job, or a directory and no process in *)
(* it.  A process of the job before that still runs goes on elsewhere.     *)
RefuseJob ==
  /\ Clears
  /\ error' = "refused"
  /\ \/ UNCHANGED <<files, timeoutRequest, inputs, workerVars>>
     \/ NewDirectory /\ at' = [w \in Workers |-> "gone"]
  /\ UNCHANGED <<running, processVars>>

(* terminate_tree_owned(), which may fail: the worker and the Java process *)
(* it has started are in one job object.                                   *)
Terminates == process' = Terminated(process) /\ UNCHANGED <<exitCode, stopFailures>>
CannotTerminate ==
  /\ stopFailures < MaxStopFailures
  /\ stopFailures' = stopFailures + 1
  /\ UNCHANGED processVars

(* Mutant of Fails: the job is given up and its process forgotten.         *)
FailsAlone(message) ==
  /\ error' = message
  /\ answer' = None
  /\ UNCHANGED <<processVars, stopFailures>>
  /\ running' = FALSE
  /\ polling' = "idle"

(* fail() while the job runs: the process is told to stop, once, and the   *)
(* job is over.                                                            *)
Fails(message) ==
  /\ error' = message
  /\ answer' = None
  /\ Terminates \/ CannotTerminate
  /\ running' = FALSE
  /\ polling' = "idle"

-----------------------------------------------------------------------------

(* Mutant of CanCancel: a job that is over its limit can be cancelled too. *)
CanCancelTwice == polling = "idle" /\ running

CanCancel == polling = "idle" /\ running /\ deadline = "none"

Cancel ==
  /\ CanCancel
  /\ cancelRequest' = TRUE
  /\ deadline' = "armed"
  /\ UNCHANGED <<job, claimed, statusFile, reportFile, outputs, timeoutRequest, inputs,
                 processVars, workerVars, made, running, forced, timedOut, wall, shown,
                 answer, error, polling, code, stopFailures>>

CannotCancel ==
  /\ CanCancel
  /\ Fails("cannot cancel")
  /\ UNCHANGED <<files, timeoutRequest, inputs, workerVars, made, forced, timedOut, wall,
                 deadline, shown, code>>

WallPasses ==
  /\ running /\ wall = "ahead"
  /\ wall' = "passed"
  /\ UNCHANGED <<files, timeoutRequest, inputs, processVars, workerVars, made, running, forced,
                 timedOut, deadline, shown, answer, error, polling, code, stopFailures>>

DeadlinePasses ==
  /\ deadline = "armed"
  /\ deadline' = "passed"
  /\ UNCHANGED <<files, timeoutRequest, inputs, processVars, workerVars, made, running, forced,
                 timedOut, wall, shown, answer, error, polling, code, stopFailures>>

-----------------------------------------------------------------------------
(* poll().                                                                 *)

OverLimit == wall = "passed" /\ deadline = "none"

(* Over the limit and not cancelled: the worker has five seconds more.     *)
PollWall ==
  /\ polling = "idle" /\ running
  /\ OverLimit
  /\ ~ timeoutRequest
  /\ timeoutRequest' = TRUE
  /\ deadline' = "armed"
  /\ timedOut' = TRUE
  /\ polling' = "code"
  /\ UNCHANGED <<files, inputs, processVars, workerVars, made, running, forced, wall, shown,
                 answer, error, code, stopFailures>>

PollCannotWarn ==
  /\ polling = "idle" /\ running
  /\ OverLimit
  /\ Fails("cannot warn")
  /\ UNCHANGED <<files, timeoutRequest, inputs, workerVars, made, forced, timedOut, wall,
                 deadline, shown, code>>

(* Mutant of Overdue: only a cancelled worker is stopped.                  *)
OverdueIfCancelled == deadline = "passed" /\ ~ forced /\ ~ timedOut

Overdue == deadline = "passed" /\ ~ forced

PollForce ==
  /\ polling = "idle" /\ running
  /\ Overdue
  /\ Terminates
  /\ forced' = TRUE
  /\ polling' = "code"
  /\ UNCHANGED <<files, timeoutRequest, inputs, workerVars, made, running, timedOut, wall,
                 deadline, shown, answer, error, code>>

(* Terminating throws, and fail() tries it once more.                      *)
PollCannotForce ==
  /\ polling = "idle" /\ running
  /\ Overdue
  /\ stopFailures < MaxStopFailures
  /\ error' = "cannot stop" /\ answer' = None
  /\ stopFailures' = stopFailures + 1
  /\ \/ process' = Terminated(process) /\ UNCHANGED exitCode
     \/ UNCHANGED processVars
  /\ running' = FALSE
  /\ UNCHANGED <<files, timeoutRequest, inputs, workerVars, made, forced, timedOut, wall,
                 deadline, shown, polling, code>>

PollInTime ==
  /\ polling = "idle" /\ running
  /\ ~ OverLimit /\ ~ Overdue
  /\ polling' = "code"
  /\ UNCHANGED <<files, timeoutRequest, inputs, processVars, workerVars, made, running, forced,
                 timedOut, wall, deadline, shown, answer, error, code, stopFailures>>

PollExitCode ==
  /\ polling = "code"
  /\ code' = ExitCode
  /\ polling' = IF forced THEN "decide" ELSE "status"
  /\ UNCHANGED <<files, timeoutRequest, inputs, processVars, workerVars, made, running, forced,
                 timedOut, wall, deadline, shown, answer, error, stopFailures>>

(* A status that is not there yet leaves the last one shown.               *)
PollStatus ==
  /\ polling = "status"
  /\ shown' = IF statusFile = None THEN shown ELSE statusFile
  /\ polling' = "decide"
  /\ UNCHANGED <<files, timeoutRequest, inputs, processVars, workerVars, made, running, forced,
                 timedOut, wall, deadline, answer, error, code, stopFailures>>

(* status.json, or the progress of a benchmark, is unreadable or not of    *)
(* this job.                                                               *)
PollUnreadable ==
  /\ polling = "status"
  /\ Fails("unreadable")
  /\ UNCHANGED <<files, timeoutRequest, inputs, workerVars, made, forced, timedOut, wall,
                 deadline, shown, code>>

PollContinue ==
  /\ polling = "decide" /\ code = None
  /\ polling' = "idle"
  /\ UNCHANGED <<files, timeoutRequest, inputs, processVars, workerVars, made, running, forced,
                 timedOut, wall, deadline, shown, answer, error, code, stopFailures>>

EndsPoll ==
  /\ polling = "decide" /\ code # None
  /\ running' = FALSE
  /\ polling' = "idle"
  /\ UNCHANGED <<files, timeoutRequest, inputs, processVars, workerVars, made, forced,
                 timedOut, wall, deadline, shown, code, stopFailures>>

(* The controller's own answer: one result of every backend.               *)
EndForced ==
  /\ EndsPoll
  /\ forced
  /\ answer' = [b \in Backends |-> IF timedOut THEN "limit" ELSE "cancelled"]
  /\ UNCHANGED error

(* Mutant of Agrees: the report speaks for itself.                         *)
AgreesInCode == reportFile # None /\ reportFile.code = code

(* The report has a result of every backend; exit code and last status     *)
(* say the same.                                                           *)
Agrees ==
  /\ reportFile # None /\ reportFile.code = code
  /\ DOMAIN reportFile.results = Backends
  /\ shown # None
  /\ \/ code = 0 /\ shown.phase = "completed"
     \/ code = 130 /\ shown.phase = "cancelled"
     \/ code = 3 /\ shown.phase = "failed"

EndAsReported ==
  /\ EndsPoll
  /\ ~ forced /\ Agrees
  /\ answer' = reportFile.results
  /\ error' = IF code = 3 THEN "worker" ELSE error

(* They do not, or the report cannot be read: what was read of it is       *)
(* dropped again, and there is nothing left to stop.                       *)
EndDisagreeing ==
  /\ EndsPoll
  /\ ~ forced
  /\ answer' = None
  /\ error' = IF Agrees THEN "unreadable" ELSE "disagree"

Poll ==
  \/ PollWall \/ PollCannotWarn \/ PollForce \/ PollCannotForce \/ PollInTime
  \/ PollExitCode \/ PollStatus \/ PollUnreadable \/ PollContinue
  \/ EndForced \/ EndAsReported \/ EndDisagreeing

-----------------------------------------------------------------------------

(* Somebody generates or copies navigation data while a query runs.        *)
LastLookOver == reportFile # None \/ \E w \in Workers : at[w] \in {"saving", "reporting"}

ReplaceInput ==
  /\ \E b \in Backends :
       /\ inputs[b] = "asked"
       /\ Cardinality({c \in DOMAIN inputs : inputs[c] # "asked"}) < MaxReplaced
       /\ inputs' = [inputs EXCEPT ![b] = IF LastLookOver THEN "late" ELSE "early"]
  /\ UNCHANGED <<files, timeoutRequest, processVars, workerVars, controllerVars>>

OwnedWorkerStep == WorkerStep(Owned) /\ UNCHANGED controllerVars
RepeatedWorkerStep == WorkerStep(Repeated) /\ UNCHANGED controllerVars
OwnedWorkerLost ==
  (Dies \/ Crashes) /\ UNCHANGED <<timeoutRequest, inputs, results, controllerVars>>
RunByHand == RunAgain /\ UNCHANGED <<timeoutRequest, inputs, results, controllerVars>>

Next ==
  \/ StartJob \/ RefuseJob \/ Cancel \/ CannotCancel
  \/ WallPasses \/ DeadlinePasses
  \/ Poll
  \/ job # None /\ ReplaceInput
  \/ OwnedWorkerStep \/ OwnedWorkerLost
  \/ RepeatedWorkerStep \/ RunByHand

Spec == Init /\ [][Next]_vars

(* The frame loop polls, the clock runs and the operating system ends what *)
(* it was told to end.  Nothing is assumed of the worker: it may hang.     *)
Terminating == Dies /\ UNCHANGED <<timeoutRequest, inputs, results, controllerVars>>
FairSpec ==
  /\ Spec
  /\ WF_vars(Poll)
  /\ WF_vars(WallPasses)
  /\ WF_vars(DeadlinePasses)
  /\ WF_vars(Terminating)

-----------------------------------------------------------------------------

(* An answer is only shown when the query is over, and unless the          *)
(* controller gave it itself it is the whole report of a worker whose exit *)
(* code and last status say the same: a worker that dies between two of    *)
(* its files, however like a regular end its exit code looks, leaves none. *)
AnswersAgree ==
  answer # None =>
    /\ ~ running /\ ~ Alive
    /\ ~ forced =>
         /\ answer = reportFile.results
         /\ exitCode = CodeOf(PhaseOf(answer))
         /\ statusFile.phase = PhaseOf(answer)

(* The limit is not the user's cancellation, in the files as in the        *)
(* answer: no job has both requests, no backend is called cancelled unless *)
(* the user asked for it, and a forced answer names the one that was made. *)
CauseIsNamed ==
  /\ ~ (cancelRequest /\ timeoutRequest)
  /\ answer # None =>
       \A b \in DOMAIN answer :
         /\ answer[b] = "cancelled" => cancelRequest
         /\ forced => answer[b] = (IF timeoutRequest THEN "limit" ELSE "cancelled")

(* No executed query is reported for navigation files that were replaced   *)
(* before the worker was done with the last backend.                       *)
NoStaleAnswer ==
  reportFile # None =>
    \A b \in Backends : reportFile.results[b] = "valid" => inputs[b] # "early"

(* Every query ends, with or without the user, and even if its worker      *)
(* hangs and cannot be stopped.                                            *)
EveryQueryEnds == running ~> ~ running

(* A query that was given up leaves no process for long, unless telling it *)
(* to stop has failed: the next start() is refused for a while at most.    *)
GivenUpProcessEnds == ~ running /\ Alive /\ stopFailures = 0 ~> ~ Alive

=============================================================================
