------------------------- MODULE GeodataBuildProofs -------------------------
(***************************************************************************)
(* Proofs of the safety properties of GeodataBuild, for all requests,      *)
(* crash codes and bounds, and of the promise it keeps.                    *)
(***************************************************************************)
EXTENDS GeodataBuild, TLAPS

Places == {"gone", "claiming", "starting", "nextMap", "building", "reporting", "closing", "returning"}

TypeOK ==
  /\ job \in Jobs \cup {None} /\ claimed \subseteq Workers /\ cancelRequest \in BOOLEAN
  /\ statusFile \in Statuses \cup {None} /\ reportFile \in Phases \cup {None}
  /\ process \in {"none", "running", "stopping", "exited"} /\ exitCode \in Int \cup {None}
  /\ at \in [Workers -> Places] /\ status \in [Workers -> Statuses]
  /\ todo \in [Workers -> Seq(Kinds)]
  /\ made \in Nat /\ running \in BOOLEAN /\ failed \in BOOLEAN /\ forced \in BOOLEAN
  /\ deadline \in {"none", "armed", "passed"}
  /\ shown \in Statuses \cup {None}
  /\ polling \in {"idle", "status", "decide", "stop"}
  /\ code \in Int \cup {None}

(* The controller calls a job ended only when its process is gone, and the *)
(* exit code a poll goes by is that of the process.                        *)
ProcessInv ==
  /\ process = "exited" => exitCode \in Int
  /\ ~ Alive => at[Owned] = "gone"
  /\ \A w \in Workers : at[w] # "gone" => job # None
  /\ ~ running => ~ Alive /\ polling = "idle"
  /\ running => process # "none" /\ made # 0 /\ job # None /\ shown # None
  /\ polling \in {"status", "decide"} /\ code # None => process = "exited" /\ exitCode = code

(* Whoever is past its claim is the one who has claimed the directory.     *)
ClaimInv ==
  /\ \A w \in Workers : at[w] \notin {"gone", "claiming"} => claimed = {w}
  /\ \A w \in Workers : at[w] \in {"starting", "nextMap", "building", "reporting"} => reportFile = None
  /\ claimed = {} => reportFile = None

(* status.json is behind what its one writer is about to write.            *)
ProgressInv ==
  /\ claimed = {} => statusFile \in {None, Preparing}
  /\ \A w \in Workers :
       /\ at[w] = "starting" => status[w] = Preparing /\ statusFile \in {None, Preparing}
       /\ at[w] \in {"nextMap", "building", "reporting", "closing"} /\ statusFile # None =>
            statusFile.phase \notin TerminalPhases /\ statusFile.index <= status[w].index
       /\ at[w] \in {"nextMap", "building"} => status[w].phase \notin TerminalPhases
       /\ at[w] \in {"reporting", "closing", "returning"} => status[w].phase \in TerminalPhases

(* Nothing is cancelled, and nobody stopped for it, before that was asked. *)
Cancelled(s) == s # None /\ s.phase = "cancelled"
AskedInv ==
  /\ Cancelled(shown) => cancelRequest
  /\ Cancelled(statusFile) => cancelRequest
  /\ \A w \in Workers : Cancelled(status[w]) => cancelRequest
  /\ deadline # "none" \/ forced => cancelRequest

(* What is shown goes with the controller's flags, and with status.json    *)
(* once the poll that saw the worker gone has read it.                     *)
ShownInv ==
  /\ failed /\ running => shown.phase = "failed"
  /\ polling = "status" => ~ failed /\ ~ forced
  /\ polling = "stop" => failed
  /\ made # 0 /\ ~ running /\ shown # None => shown.phase \in TerminalPhases
  /\ polling = "decide" /\ code # None /\ ~ failed /\ ~ forced /\ claimed = {Owned} =>
       shown = statusFile

MismatchInv ==
  error = "mismatch" =>
    /\ ~ running /\ process = "exited"
    /\ claimed = {Owned} => ~ Agree(statusFile, exitCode)

BuildInv ==
  TypeOK /\ ProcessInv /\ ClaimInv /\ ProgressInv /\ AskedInv /\ ShownInv /\ MismatchInv

-----------------------------------------------------------------------------
(* Requests, statuses and workers.                                         *)

LEMMA JobParts ==
  ASSUME NEW request \in Jobs
  PROVE  request # None /\ request.maps \in Nat \ {0} /\ request.kinds \in Seq(Kinds)
BY JobsAssumption, NoneAssumption DEF JobsAssumption, NoneAssumption, Job

LEMMA WorkersDiffer == Owned \in Workers /\ Repeated \in Workers /\ Owned # Repeated
BY DEF Workers, Owned, Repeated

LEMMA PreparingIsAStatus ==
  Preparing \in Statuses /\ Preparing # None /\ Preparing.phase = "preparing" /\ Preparing.index = 0
<1>1. Preparing \in Statuses
  BY DEF Preparing, Statuses, Phases
<1> QED BY <1>1, NoneAssumption DEF NoneAssumption, Preparing

LEMMA MarkedIsAStatus ==
  ASSUME NEW s \in Statuses, NEW p \in Phases
  PROVE  /\ [s EXCEPT !.phase = p] \in Statuses
         /\ [s EXCEPT !.phase = p] # None
         /\ [s EXCEPT !.phase = p].phase = p
         /\ [s EXCEPT !.phase = p].index = s.index
<1>1. [s EXCEPT !.phase = p] \in Statuses
  BY DEF Statuses
<1> QED BY <1>1, NoneAssumption DEF NoneAssumption, Statuses

LEMMA CountedIsAStatus ==
  ASSUME NEW s \in Statuses
  PROVE  /\ [s EXCEPT !.index = @ + 1] \in Statuses
         /\ [s EXCEPT !.index = @ + 1].index = s.index + 1
         /\ [s EXCEPT !.index = @ + 1].phase = s.phase
BY DEF Statuses

LEMMA StatusParts ==
  ASSUME NEW s \in Statuses
  PROVE  s # None /\ s.phase \in Phases /\ s.index \in Nat
BY NoneAssumption DEF NoneAssumption, Statuses

LEMMA FailedIsAStatus ==
  ASSUME NEW s \in Statuses \cup {None}
  PROVE  /\ Failed(s) \in Statuses \cup {None}
         /\ Failed(s) = None <=> s = None
         /\ s # None => Failed(s).phase = "failed"
<1>1. CASE s = None
  BY <1>1 DEF Failed
<1>2. CASE s # None
  <2>1. s \in Statuses /\ "failed" \in Phases
    BY <1>2 DEF Phases
  <2> QED BY <1>2, <2>1, MarkedIsAStatus DEF Failed
<1> QED BY <1>1, <1>2

LEMMA ShownWhileRunningIsAStatus ==
  ASSUME TypeOK, shown # None
  PROVE  /\ ShownWhileRunning \in Statuses
         /\ ShownWhileRunning # None
         /\ failed => ShownWhileRunning = shown
         /\ ShownWhileRunning.phase = "cancelled" => shown.phase = "cancelled"
<1>1. shown \in Statuses /\ "working" \in Phases
  BY DEF TypeOK, Phases
<1> QED BY <1>1, MarkedIsAStatus, StatusParts DEF ShownWhileRunning

-----------------------------------------------------------------------------
(* What a worker's step leaves alone.                                      *)

(* Everything of the job but what is the worker's own, and status.json and *)
(* the claim are changed by nobody but their holder.                       *)
WorkerFrame(w) ==
  /\ UNCHANGED <<job, cancelRequest, controllerVars>>
  /\ at[w] # "gone" /\ (w = Owned => Alive)
  /\ at' \in [Workers -> Places] /\ status' \in [Workers -> Statuses]
  /\ todo' \in [Workers -> Seq(Kinds)]
  /\ \A v \in Workers \ {w} : at'[v] = at[v] /\ status'[v] = status[v]
  /\ at'[w] # "claiming"
  /\ \/ UNCHANGED processVars /\ (w = Owned => at'[w] # "gone")
     \/ w = Owned /\ at'[w] = "gone" /\ process' = "exited" /\ exitCode' \in Int
  /\ \/ UNCHANGED claimed
     \/ claimed = {} /\ claimed' = {w}
  /\ \/ UNCHANGED statusFile
     \/ at[w] \notin {"gone", "claiming"} /\ statusFile' = status'[w]
  /\ \/ UNCHANGED reportFile
     \/ reportFile = None /\ reportFile' = status[w].phase /\ at[w] = "reporting"
  /\ status'[w].phase = "cancelled" => status[w].phase = "cancelled" \/ cancelRequest

LEMMA LeavesStep ==
  ASSUME TypeOK, NEW w \in Workers, NEW c \in Int, Leaves(w, c)
  PROVE  /\ at' \in [Workers -> Places] /\ at'[w] = "gone"
         /\ \A v \in Workers \ {w} : at'[v] = at[v]
         /\ \/ UNCHANGED processVars /\ w # Owned
            \/ w = Owned /\ process' = "exited" /\ exitCode' \in Int
<1>1. at' = [at EXCEPT ![w] = "gone"]
  BY DEF Leaves, Goes
<1>2. at \in [Workers -> Places] /\ "gone" \in Places
  BY DEF TypeOK, Places
<1> QED BY <1>1, <1>2 DEF Leaves, Exit

LEMMA GoesStep ==
  ASSUME TypeOK, NEW w \in Workers, NEW place \in Places, Goes(w, place)
  PROVE  /\ at' \in [Workers -> Places] /\ at'[w] = place
         /\ \A v \in Workers \ {w} : at'[v] = at[v]
BY DEF Goes, TypeOK

LEMMA JobHere ==
  ASSUME TypeOK, ProcessInv, NEW w \in Workers, Running(w)
  PROVE  job \in Jobs
BY DEF TypeOK, ProcessInv, Running

(* A worker gives its own status a phase.                                  *)
LEMMA PhaseStep ==
  ASSUME TypeOK, NEW w \in Workers, NEW p \in Phases,
         status' = [status EXCEPT ![w].phase = p]
  PROVE  /\ status' \in [Workers -> Statuses]
         /\ status'[w].phase = p /\ status'[w].index = status[w].index
         /\ \A v \in Workers \ {w} : status'[v] = status[v]
<1>1. status \in [Workers -> Statuses] /\ status[w] \in Statuses
  BY DEF TypeOK
<1>2. status'[w] = [status[w] EXCEPT !.phase = p]
  BY <1>1
<1>3. status' = [status EXCEPT ![w] = [status[w] EXCEPT !.phase = p]]
  BY <1>1
<1>4. [status[w] EXCEPT !.phase = p] \in Statuses
  BY <1>1, MarkedIsAStatus
<1> QED BY <1>1, <1>2, <1>3, <1>4, MarkedIsAStatus

LEMMA WorkerStepFrame ==
  ASSUME TypeOK, ProcessInv, ProgressInv, NEW w \in Workers, WorkerStep(w), UNCHANGED controllerVars
  PROVE  WorkerFrame(w)
<1> USE DEF WorkerFrame
<1>a. /\ at \in [Workers -> Places] /\ status \in [Workers -> Statuses]
      /\ todo \in [Workers -> Seq(Kinds)] /\ status[w] \in Statuses
  BY DEF TypeOK
<1>b. {"starting", "nextMap", "building", "reporting", "closing", "returning"} \subseteq Places
      /\ {"working", "completed", "cancelled", "failed"} \subseteq Phases
  BY DEF Places, Phases
<1>c. Running(w) => at[w] # "gone" /\ (w = Owned => Alive)
  BY DEF Running
<1>1. CASE Claim(w)
  <2>1. CASE claimed = {} /\ claimed' = claimed \cup {w} /\ Goes(w, "starting")
             /\ status' = [status EXCEPT ![w] = Preparing] /\ UNCHANGED processVars
    <3>1. status' \in [Workers -> Statuses] /\ status'[w] = Preparing
          /\ \A v \in Workers \ {w} : status'[v] = status[v]
      BY <2>1, <1>a, PreparingIsAStatus
    <3>2. /\ at' \in [Workers -> Places] /\ at'[w] = "starting"
          /\ \A v \in Workers \ {w} : at'[v] = at[v]
      BY <2>1, <1>b, GoesStep
    <3> QED BY <2>1, <3>1, <3>2, <1>1, <1>a, <1>c, PreparingIsAStatus DEF Claim
  <2>2. CASE Leaves(w, 2) /\ UNCHANGED <<claimed, status>>
    BY <2>2, <1>1, <1>a, <1>c, LeavesStep, PreparingIsAStatus DEF Claim
  <2> QED BY <1>1, <2>1, <2>2 DEF Claim
<1>2. CASE Start(w)
  BY <1>2, <1>a, <1>b, <1>c, GoesStep, StatusParts DEF Start, Publishes
<1>3. CASE NextMap(w)
  <2>1. todo' \in [Workers -> Seq(Kinds)]
    <3>1. job \in Jobs
      BY <1>3, JobHere DEF NextMap
    <3> QED BY <1>3, <3>1, <1>a, JobParts DEF NextMap
  <2>2. /\ status' \in [Workers -> Statuses] /\ status'[w].phase = "working"
        /\ \A v \in Workers \ {w} : status'[v] = status[v]
    BY <1>3, <1>b, PhaseStep DEF NextMap
  <2>3. /\ at' \in [Workers -> Places] /\ at'[w] = "building"
        /\ \A v \in Workers \ {w} : at'[v] = at[v]
    BY <1>3, <1>b, GoesStep DEF NextMap
  <2> QED BY <1>3, <2>1, <2>2, <2>3, <1>a, <1>c DEF NextMap, Publishes
<1>4. CASE Finish(w)
  <2>1. /\ status' \in [Workers -> Statuses] /\ status'[w].phase = "completed"
        /\ \A v \in Workers \ {w} : status'[v] = status[v]
    BY <1>4, <1>b, PhaseStep DEF Finish
  <2>2. /\ at' \in [Workers -> Places] /\ at'[w] = "reporting"
        /\ \A v \in Workers \ {w} : at'[v] = at[v]
    BY <1>4, <1>b, GoesStep DEF Finish
  <2> QED BY <1>4, <2>1, <2>2, <1>a, <1>c DEF Finish, files, processVars
<1>5. CASE MakeOutput(w)
  <2>1. todo' \in [Workers -> Seq(Kinds)]
    BY <1>5, <1>a DEF MakeOutput
  <2> QED BY <1>5, <2>1, <1>a, <1>c DEF MakeOutput
<1>6. CASE FinishMap(w)
  <2>1. /\ status' \in [Workers -> Statuses] /\ status'[w] = [status[w] EXCEPT !.index = @ + 1]
        /\ \A v \in Workers \ {w} : status'[v] = status[v]
    <3>1. status' = [status EXCEPT ![w] = [status[w] EXCEPT !.index = @ + 1]]
      BY <1>6, <1>a DEF FinishMap
    <3> QED BY <3>1, <1>a, CountedIsAStatus
  <2> QED BY <1>6, <2>1, <1>a, <1>b, <1>c, GoesStep, CountedIsAStatus DEF FinishMap, Publishes
<1>7. CASE StopForCancel(w)
  <2>1. /\ status' \in [Workers -> Statuses] /\ status'[w].phase = "cancelled"
        /\ \A v \in Workers \ {w} : status'[v] = status[v]
    BY <1>7, <1>b, PhaseStep DEF StopForCancel
  <2>2. /\ at' \in [Workers -> Places] /\ at'[w] = "reporting"
        /\ \A v \in Workers \ {w} : at'[v] = at[v]
    BY <1>7, <1>b, GoesStep DEF StopForCancel
  <2> QED BY <1>7, <2>1, <2>2, <1>a, <1>c DEF StopForCancel, files, processVars
<1>8. CASE Throw(w)
  <2>1. /\ status' \in [Workers -> Statuses] /\ status'[w].phase = "failed"
        /\ \A v \in Workers \ {w} : status'[v] = status[v]
    BY <1>8, <1>b, PhaseStep DEF Throw
  <2>2. /\ at' \in [Workers -> Places] /\ at'[w] = "reporting"
        /\ \A v \in Workers \ {w} : at'[v] = at[v]
    BY <1>8, <1>b, GoesStep DEF Throw
  <2> QED BY <1>8, <2>1, <2>2, <1>a, <1>c DEF Throw
<1>9. CASE Report(w)
  BY <1>9, <1>a, <1>b, <1>c, GoesStep DEF Report
<1>10. CASE Close(w)
  BY <1>10, <1>a, <1>b, <1>c, GoesStep DEF Close, Publishes
<1>11. CASE Abandon(w)
  BY <1>11, <1>a, <1>c, LeavesStep DEF Abandon, files
<1>12. CASE Return(w)
  <2>1. CodeOf(status[w].phase) \in Int
    BY <1>12 DEF ProgressInv, Return, CodeOf, TerminalPhases
  <2> QED BY <1>12, <2>1, <1>a, <1>c, LeavesStep DEF Return, files
<1> QED BY <1>1, <1>2, <1>3, <1>4, <1>5, <1>6, <1>7, <1>8, <1>9, <1>10, <1>11, <1>12
       DEF WorkerStep

-----------------------------------------------------------------------------
(* The worker's steps keep the invariant.                                  *)

LEMMA WorkerKeepsController ==
  ASSUME BuildInv, NEW w \in Workers, WorkerFrame(w)
  PROVE  TypeOK' /\ ProcessInv' /\ AskedInv' /\ ShownInv' /\ MismatchInv'
<1> USE DEF BuildInv, WorkerFrame, controllerVars, processVars
<1>a. TypeOK
  OBVIOUS
<1>b. status[w] \in Statuses /\ status'[w] \in Statuses
  BY <1>a DEF TypeOK
<1>1. TypeOK'
  BY <1>a, <1>b, StatusParts DEF TypeOK
<1>2. ProcessInv'
  BY <1>a, WorkersDiffer DEF ProcessInv, Alive
<1>3. AskedInv'
  <2>1. \A v \in Workers : Cancelled(status'[v]) => cancelRequest
    BY <1>a, <1>b, StatusParts DEF AskedInv, Cancelled
  <2>2. Cancelled(statusFile') => cancelRequest
    BY <2>1 DEF AskedInv
  <2> QED BY <2>1, <2>2 DEF AskedInv, Cancelled
<1>4. ShownInv'
  BY <1>a, WorkersDiffer DEF ShownInv, ProcessInv, ClaimInv, Alive
<1>5. MismatchInv'
  <2>1. SUFFICES ASSUME error = "mismatch"
                 PROVE  /\ ~ running /\ process' = "exited"
                        /\ claimed' = {Owned} => ~ Agree(statusFile', exitCode')
    BY DEF MismatchInv
  <2>2. ~ running /\ process = "exited" /\ (claimed = {Owned} => ~ Agree(statusFile, exitCode))
    BY <2>1 DEF MismatchInv
  <2>3. w # Owned /\ UNCHANGED processVars
    BY <2>2 DEF Alive
  <2>4. claimed' = {Owned} => claimed = {Owned} /\ statusFile' = statusFile
    BY <2>3 DEF ClaimInv
  <2> QED BY <2>2, <2>3, <2>4
<1> QED BY <1>1, <1>2, <1>3, <1>4, <1>5

LEMMA WorkerKeepsClaim ==
  ASSUME BuildInv, NEW w \in Workers, WorkerStep(w), WorkerFrame(w)
  PROVE  ClaimInv'
<1>a. TypeOK /\ ClaimInv /\ at \in [Workers -> Places]
  BY DEF BuildInv, TypeOK
<1>b. /\ \A v \in Workers \ {w} : at'[v] = at[v]
      /\ \/ UNCHANGED claimed
         \/ claimed = {} /\ claimed' = {w}
      /\ \/ UNCHANGED reportFile
         \/ at[w] = "reporting"
  BY DEF WorkerFrame
<1>c. \A v \in Workers \ {w} :
        /\ at'[v] \notin {"gone", "claiming"} => claimed' = {v}
        /\ at'[v] \in {"starting", "nextMap", "building", "reporting"} => reportFile' = None
  BY <1>a, <1>b DEF ClaimInv
<1>d. claimed' = {} => reportFile' = None
  BY <1>a, <1>b DEF ClaimInv
<1>e. SUFFICES /\ at'[w] \notin {"gone", "claiming"} => claimed' = {w}
               /\ at'[w] \in {"starting", "nextMap", "building", "reporting"} => reportFile' = None
  BY <1>c, <1>d DEF ClaimInv
<1>1. CASE Claim(w)
  BY <1>1, <1>a DEF Claim, Leaves, Goes, ClaimInv
<1>2. CASE Start(w)
  BY <1>2, <1>a DEF Start, Goes, ClaimInv
<1>3. CASE NextMap(w)
  BY <1>3, <1>a DEF NextMap, Goes, ClaimInv
<1>4. CASE Finish(w)
  BY <1>4, <1>a DEF Finish, Goes, files, ClaimInv
<1>5. CASE MakeOutput(w)
  BY <1>5, <1>a DEF MakeOutput, ClaimInv
<1>6. CASE FinishMap(w)
  BY <1>6, <1>a DEF FinishMap, Goes, ClaimInv
<1>7. CASE StopForCancel(w)
  BY <1>7, <1>a DEF StopForCancel, Goes, files, ClaimInv
<1>8. CASE Throw(w)
  BY <1>8, <1>a DEF Throw, Goes, Guarded, ClaimInv
<1>9. CASE Report(w)
  BY <1>9, <1>a DEF Report, Goes, ClaimInv
<1>10. CASE Close(w)
  BY <1>10, <1>a DEF Close, Goes, ClaimInv
<1>11. CASE Abandon(w)
  BY <1>11, <1>a DEF Abandon, Leaves, Goes, files, ClaimInv
<1>12. CASE Return(w)
  BY <1>12, <1>a DEF Return, Leaves, Goes, files, ClaimInv
<1> QED BY <1>1, <1>2, <1>3, <1>4, <1>5, <1>6, <1>7, <1>8, <1>9, <1>10, <1>11, <1>12
       DEF WorkerStep

LEMMA WorkerKeepsProgress ==
  ASSUME BuildInv, NEW w \in Workers, WorkerStep(w), WorkerFrame(w)
  PROVE  ProgressInv'
<1> DEFINE Behind(v) ==
             /\ at[v] = "starting" => status[v] = Preparing /\ statusFile \in {None, Preparing}
             /\ at[v] \in {"nextMap", "building", "reporting", "closing"} /\ statusFile # None =>
                  statusFile.phase \notin TerminalPhases /\ statusFile.index <= status[v].index
             /\ at[v] \in {"nextMap", "building"} => status[v].phase \notin TerminalPhases
             /\ at[v] \in {"reporting", "closing", "returning"} => status[v].phase \in TerminalPhases
<1>a. TypeOK /\ ClaimInv /\ ProgressInv /\ at \in [Workers -> Places]
      /\ status \in [Workers -> Statuses] /\ status[w] \in Statuses
  BY DEF BuildInv, TypeOK
<1>b. WorkerFrame(w)
  OBVIOUS
<1>c. \A v \in Workers \ {w} : at[v] \notin {"gone", "claiming"} => UNCHANGED <<statusFile, claimed>>
  BY <1>a, <1>b DEF ClaimInv, WorkerFrame
<1>d. \A v \in Workers \ {w} : Behind(v)'
  BY <1>a, <1>b, <1>c DEF ProgressInv, WorkerFrame
<1>e. claimed' = {} => statusFile' \in {None, Preparing}
  BY <1>a, <1>b DEF ClaimInv, ProgressInv, WorkerFrame
<1>f. SUFFICES Behind(w)'
  BY <1>d, <1>e DEF ProgressInv
<1>g. status[w].index \in Nat /\ (statusFile # None => statusFile \in Statuses /\ statusFile.index \in Nat)
  BY <1>a, StatusParts DEF TypeOK
<1>h. Behind(w)
  BY <1>a DEF ProgressInv
<1>i. TerminalPhases = {"completed", "cancelled", "failed"}
  BY DEF TerminalPhases
<1>1. CASE Claim(w)
  BY <1>1, <1>a, <1>g, <1>h, <1>i, PreparingIsAStatus DEF Claim, Leaves, Goes, ClaimInv,
     ProgressInv, Publishes
<1>2. CASE Start(w)
  BY <1>2, <1>a, <1>g, <1>h, <1>i, PreparingIsAStatus DEF Start, Goes, ClaimInv, ProgressInv,
     Publishes
<1>3. CASE NextMap(w)
  BY <1>3, <1>a, <1>g, <1>h, <1>i, PreparingIsAStatus DEF NextMap, Goes, ClaimInv, ProgressInv,
     Publishes
<1>4. CASE Finish(w)
  BY <1>4, <1>a, <1>g, <1>h, <1>i, PreparingIsAStatus DEF Finish, Goes, files, ClaimInv,
     ProgressInv, Publishes
<1>5. CASE MakeOutput(w)
  BY <1>5, <1>a, <1>g, <1>h, <1>i, PreparingIsAStatus DEF MakeOutput, ClaimInv, ProgressInv,
     Publishes
<1>6. CASE FinishMap(w)
  <2>1. status'[w] = [status[w] EXCEPT !.index = @ + 1] /\ statusFile' = status'[w]
    BY <1>6, <1>a DEF FinishMap, Publishes
  <2>2. statusFile'.phase = status[w].phase /\ statusFile'.index = status'[w].index
        /\ status'[w].index \in Nat
    BY <2>1, <1>a, <1>g, CountedIsAStatus
  <2>3. at'[w] = "nextMap"
    BY <1>6, <1>a DEF FinishMap, Goes
  <2> QED BY <2>2, <2>3, <1>6, <1>h, <1>i DEF FinishMap
<1>7. CASE StopForCancel(w)
  BY <1>7, <1>a, <1>g, <1>h, <1>i, PreparingIsAStatus DEF StopForCancel, Goes, files, ClaimInv,
     ProgressInv, Publishes
<1>8. CASE Throw(w)
  BY <1>8, <1>a, <1>g, <1>h, <1>i, PreparingIsAStatus DEF Throw, Goes, Guarded, ClaimInv,
     ProgressInv, Publishes
<1>9. CASE Report(w)
  BY <1>9, <1>a, <1>g, <1>h, <1>i, PreparingIsAStatus DEF Report, Goes, ClaimInv, ProgressInv,
     Publishes
<1>10. CASE Close(w)
  BY <1>10, <1>a, <1>g, <1>h, <1>i, PreparingIsAStatus DEF Close, Goes, ClaimInv, ProgressInv,
     Publishes
<1>11. CASE Abandon(w)
  BY <1>11, <1>a, <1>g, <1>h, <1>i, PreparingIsAStatus DEF Abandon, Leaves, Goes, files, ClaimInv,
     ProgressInv, Publishes
<1>12. CASE Return(w)
  BY <1>12, <1>a, <1>g, <1>h, <1>i, PreparingIsAStatus DEF Return, Leaves, Goes, files, ClaimInv,
     ProgressInv, Publishes
<1> QED BY <1>1, <1>2, <1>3, <1>4, <1>5, <1>6, <1>7, <1>8, <1>9, <1>10, <1>11, <1>12
       DEF WorkerStep

-----------------------------------------------------------------------------
(* The controller's steps keep the invariant.                              *)

ControllerStep == Cancel \/ CannotCancel \/ DeadlinePasses \/ Poll

(* Between start() and the end of a job the controller writes nothing but  *)
(* cancel.request, and does nothing to the process but terminate it.       *)
LEMMA ControllerFrame ==
  ASSUME ControllerStep
  PROVE  /\ UNCHANGED <<job, claimed, statusFile, reportFile, outputs, workerVars, exitCode, made>>
         /\ process' = process \/ process' = Terminated(process)
         /\ cancelRequest => cancelRequest'
<1> USE DEF files, processVars, Terminates, CannotTerminate, EndsPoll
<1>1. CASE Cancel
  BY <1>1 DEF Cancel
<1>2. CASE CannotCancel
  BY <1>2 DEF CannotCancel
<1>3. CASE DeadlinePasses
  BY <1>3 DEF DeadlinePasses
<1>4. CASE PollExitCode
  BY <1>4 DEF PollExitCode
<1>5. CASE PollStatus
  BY <1>5 DEF PollStatus
<1>6. CASE PollUnreadable
  BY <1>6 DEF PollUnreadable, FailAndStop
<1>7. CASE PollStopped
  BY <1>7 DEF PollStopped
<1>8. CASE EndFailed
  BY <1>8 DEF EndFailed
<1>9. CASE EndForced
  BY <1>9 DEF EndForced
<1>10. CASE EndCompleted
  BY <1>10 DEF EndCompleted
<1>11. CASE EndOtherwise
  BY <1>11 DEF EndOtherwise
<1>12. CASE PollContinue
  BY <1>12 DEF PollContinue
<1>13. CASE PollForce
  BY <1>13 DEF PollForce
<1>14. CASE PollCannotForce
  BY <1>14 DEF PollCannotForce
<1> QED BY <1>1, <1>2, <1>3, <1>4, <1>5, <1>6, <1>7, <1>8, <1>9, <1>10, <1>11, <1>12, <1>13, <1>14
       DEF ControllerStep, Poll

LEMMA ControllerKeepsWorkers ==
  ASSUME BuildInv, ControllerStep
  PROVE  ClaimInv' /\ ProgressInv'
<1>1. UNCHANGED <<claimed, statusFile, reportFile, at, status>>
  BY ControllerFrame DEF workerVars, programVars
<1> QED BY <1>1 DEF BuildInv, ClaimInv, ProgressInv

LEMMA FailedShown ==
  ASSUME BuildInv
  PROVE  /\ Failed(shown) \in Statuses \cup {None}
         /\ running => Failed(shown) # None /\ Failed(shown).phase = "failed"
         /\ ~ Cancelled(Failed(shown))
BY FailedIsAStatus DEF BuildInv, TypeOK, ProcessInv, Cancelled

LEMMA ControllerKeepsTypes ==
  ASSUME BuildInv, ControllerStep
  PROVE  TypeOK'
<1> USE DEF BuildInv, workerVars, programVars, files, processVars
<1>a. /\ UNCHANGED <<job, claimed, statusFile, reportFile, outputs, workerVars, exitCode, made>>
      /\ process' = process \/ process' = Terminated(process)
      /\ cancelRequest => cancelRequest'
  BY ControllerFrame
<1>b. TypeOK
  OBVIOUS
<1>1. CASE Cancel
  BY <1>1, <1>a, <1>b
    DEF Cancel, TypeOK, Terminated
<1>2. CASE CannotCancel
  BY <1>2, <1>a, <1>b, FailedShown
    DEF CannotCancel, Fails, Terminates, CannotTerminate, Terminated, TypeOK
<1>3. CASE DeadlinePasses
  BY <1>3, <1>a, <1>b
    DEF DeadlinePasses, TypeOK, Terminated
<1>4. CASE PollExitCode
  BY <1>4, <1>a, <1>b
    DEF PollExitCode, ExitCode, TypeOK, Terminated
<1>5. CASE PollStatus
  BY <1>5, <1>a, <1>b
    DEF PollStatus, TypeOK, Terminated
<1>6. CASE PollUnreadable
  <2>1. /\ failed' = TRUE /\ shown' \in Statuses \cup {None} /\ polling' \in {"stop", "idle"}
        /\ UNCHANGED <<running, forced, deadline, code>>
    BY <1>6, FailedShown DEF PollUnreadable, FailAndStop
  <2>2. process' \in {"none", "running", "stopping", "exited"}
    BY <1>a, <1>b DEF TypeOK, Terminated
  <2>3. UNCHANGED cancelRequest
    BY <1>6 DEF PollUnreadable, FailAndStop
  <2> QED BY <1>a, <1>b, <2>1, <2>2, <2>3 DEF TypeOK
<1>7. CASE PollStopped
  BY <1>7, <1>a, <1>b
    DEF PollStopped, ExitCode, TypeOK, Terminated
<1>8. CASE EndFailed
  BY <1>8, <1>a, <1>b
    DEF EndFailed, EndsPoll, TypeOK, Terminated
<1>9. CASE EndForced
  <2>1. shown \in Statuses /\ "cancelled" \in Phases
    BY <1>9, <1>b DEF EndForced, EndsPoll, TypeOK, ProcessInv, Phases
  <2>2. shown' \in Statuses
    BY <1>9, <2>1, MarkedIsAStatus DEF EndForced
  <2> QED BY <1>9, <1>a, <1>b, <2>2 DEF EndForced, EndsPoll, TypeOK, Terminated
<1>10. CASE EndCompleted
  BY <1>10, <1>a, <1>b, FailedShown
    DEF EndCompleted, EndsPoll, Fails, TypeOK, Terminated
<1>11. CASE EndOtherwise
  BY <1>11, <1>a, <1>b, FailedShown
    DEF EndOtherwise, EndsPoll, Fails, TypeOK, Terminated
<1>12. CASE PollContinue
  BY <1>12, <1>a, <1>b, ShownWhileRunningIsAStatus
    DEF PollContinue, TypeOK, Terminated, ProcessInv
<1>13. CASE PollForce
  BY <1>13, <1>a, <1>b, ShownWhileRunningIsAStatus
    DEF PollForce, Terminates, Terminated, TypeOK, ProcessInv
<1>14. CASE PollCannotForce
  BY <1>14, <1>a, <1>b, FailedShown
    DEF PollCannotForce, Terminated, TypeOK
<1> QED BY <1>1, <1>2, <1>3, <1>4, <1>5, <1>6, <1>7, <1>8, <1>9, <1>10, <1>11, <1>12, <1>13, <1>14
       DEF ControllerStep, Poll

LEMMA ControllerKeepsProcess ==
  ASSUME BuildInv, ControllerStep
  PROVE  ProcessInv'
<1> USE DEF BuildInv, workerVars, programVars, files, processVars
<1>a. /\ UNCHANGED <<job, claimed, statusFile, reportFile, outputs, workerVars, exitCode, made>>
      /\ process' = process \/ process' = Terminated(process)
      /\ cancelRequest => cancelRequest'
  BY ControllerFrame
<1>b. TypeOK
  OBVIOUS
<1>1. CASE Cancel
  BY <1>1, <1>a, <1>b
    DEF Cancel, TypeOK, ProcessInv, Alive, Terminated
<1>2. CASE CannotCancel
  BY <1>2, <1>a, <1>b, FailedShown
    DEF CannotCancel, Fails, Terminates, CannotTerminate, Terminated, TypeOK, ProcessInv, Alive
<1>3. CASE DeadlinePasses
  BY <1>3, <1>a, <1>b
    DEF DeadlinePasses, TypeOK, ProcessInv, Alive, Terminated
<1>4. CASE PollExitCode
  BY <1>4, <1>a, <1>b
    DEF PollExitCode, ExitCode, TypeOK, ProcessInv, Alive, Terminated
<1>5. CASE PollStatus
  BY <1>5, <1>a, <1>b
    DEF PollStatus, TypeOK, ProcessInv, Alive, Terminated
<1>6. CASE PollUnreadable
  BY <1>6, <1>a, <1>b, FailedShown
    DEF PollUnreadable, FailAndStop, Terminates, CannotTerminate, Terminated, TypeOK, ProcessInv,
        Alive
<1>7. CASE PollStopped
  BY <1>7, <1>a, <1>b
    DEF PollStopped, ExitCode, TypeOK, ProcessInv, Alive, Terminated
<1>8. CASE EndFailed
  BY <1>8, <1>a, <1>b
    DEF EndFailed, EndsPoll, TypeOK, ProcessInv, Alive, Terminated
<1>9. CASE EndForced
  BY <1>9, <1>a, <1>b, MarkedIsAStatus
    DEF EndForced, EndsPoll, TypeOK, ProcessInv, Alive, Terminated
<1>10. CASE EndCompleted
  BY <1>10, <1>a, <1>b, FailedShown
    DEF EndCompleted, EndsPoll, Fails, TypeOK, ProcessInv, Alive, Terminated
<1>11. CASE EndOtherwise
  BY <1>11, <1>a, <1>b, FailedShown
    DEF EndOtherwise, EndsPoll, Fails, TypeOK, ProcessInv, Alive, Terminated
<1>12. CASE PollContinue
  BY <1>12, <1>a, <1>b, ShownWhileRunningIsAStatus
    DEF PollContinue, TypeOK, ProcessInv, Alive, Terminated
<1>13. CASE PollForce
  BY <1>13, <1>a, <1>b, ShownWhileRunningIsAStatus
    DEF PollForce, Terminates, Terminated, TypeOK, ProcessInv, Alive
<1>14. CASE PollCannotForce
  BY <1>14, <1>a, <1>b, FailedShown
    DEF PollCannotForce, Terminated, TypeOK, ProcessInv, Alive
<1> QED BY <1>1, <1>2, <1>3, <1>4, <1>5, <1>6, <1>7, <1>8, <1>9, <1>10, <1>11, <1>12, <1>13, <1>14
       DEF ControllerStep, Poll

LEMMA ControllerKeepsAsked ==
  ASSUME BuildInv, ControllerStep
  PROVE  AskedInv'
<1> USE DEF BuildInv, workerVars, programVars, files, processVars
<1>a. /\ UNCHANGED <<job, claimed, statusFile, reportFile, outputs, workerVars, exitCode, made>>
      /\ process' = process \/ process' = Terminated(process)
      /\ cancelRequest => cancelRequest'
  BY ControllerFrame
<1>b. TypeOK
  OBVIOUS
<1>1. CASE Cancel
  BY <1>1, <1>a, <1>b
    DEF Cancel, TypeOK, ProcessInv, AskedInv, Cancelled
<1>2. CASE CannotCancel
  BY <1>2, <1>a, <1>b, FailedShown
    DEF CannotCancel, Fails, Terminates, CannotTerminate, Terminated, TypeOK, ProcessInv,
        AskedInv, Cancelled
<1>3. CASE DeadlinePasses
  BY <1>3, <1>a, <1>b
    DEF DeadlinePasses, TypeOK, ProcessInv, AskedInv, Cancelled
<1>4. CASE PollExitCode
  BY <1>4, <1>a, <1>b
    DEF PollExitCode, ExitCode, TypeOK, ProcessInv, AskedInv, Cancelled
<1>5. CASE PollStatus
  BY <1>5, <1>a, <1>b
    DEF PollStatus, TypeOK, ProcessInv, AskedInv, Cancelled
<1>6. CASE PollUnreadable
  BY <1>6, <1>a, <1>b, FailedShown
    DEF PollUnreadable, FailAndStop, Terminates, CannotTerminate, Terminated, TypeOK, ProcessInv,
        AskedInv, Cancelled
<1>7. CASE PollStopped
  BY <1>7, <1>a, <1>b
    DEF PollStopped, ExitCode, TypeOK, ProcessInv, AskedInv, Cancelled
<1>8. CASE EndFailed
  BY <1>8, <1>a, <1>b
    DEF EndFailed, EndsPoll, TypeOK, ProcessInv, AskedInv, Cancelled
<1>9. CASE EndForced
  BY <1>9, <1>a, <1>b, MarkedIsAStatus
    DEF EndForced, EndsPoll, TypeOK, ProcessInv, AskedInv, Cancelled
<1>10. CASE EndCompleted
  BY <1>10, <1>a, <1>b, FailedShown
    DEF EndCompleted, EndsPoll, Fails, TypeOK, ProcessInv, AskedInv, Cancelled
<1>11. CASE EndOtherwise
  BY <1>11, <1>a, <1>b, FailedShown
    DEF EndOtherwise, EndsPoll, Fails, TypeOK, ProcessInv, AskedInv, Cancelled
<1>12. CASE PollContinue
  BY <1>12, <1>a, <1>b, ShownWhileRunningIsAStatus
    DEF PollContinue, TypeOK, ProcessInv, AskedInv, Cancelled
<1>13. CASE PollForce
  BY <1>13, <1>a, <1>b, ShownWhileRunningIsAStatus
    DEF PollForce, StopsNow, Terminates, Terminated, TypeOK, ProcessInv, AskedInv, Cancelled
<1>14. CASE PollCannotForce
  BY <1>14, <1>a, <1>b, FailedShown
    DEF PollCannotForce, Terminated, TypeOK, ProcessInv, AskedInv, Cancelled
<1> QED BY <1>1, <1>2, <1>3, <1>4, <1>5, <1>6, <1>7, <1>8, <1>9, <1>10, <1>11, <1>12, <1>13, <1>14
       DEF ControllerStep, Poll

LEMMA ControllerKeepsShown ==
  ASSUME BuildInv, ControllerStep
  PROVE  ShownInv'
<1> USE DEF BuildInv, workerVars, programVars, files, processVars
<1>a. /\ UNCHANGED <<job, claimed, statusFile, reportFile, outputs, workerVars, exitCode, made>>
      /\ process' = process \/ process' = Terminated(process)
      /\ cancelRequest => cancelRequest'
  BY ControllerFrame
<1>b. TypeOK
  OBVIOUS
<1>1. CASE Cancel
  BY <1>1, <1>a, <1>b
    DEF Cancel, TypeOK, ProcessInv, ShownInv, TerminalPhases
<1>2. CASE CannotCancel
  BY <1>2, <1>a, <1>b, FailedShown
    DEF CannotCancel, Fails, Terminates, CannotTerminate, Terminated, TypeOK, ProcessInv,
        ShownInv, TerminalPhases
<1>3. CASE DeadlinePasses
  BY <1>3, <1>a, <1>b
    DEF DeadlinePasses, TypeOK, ProcessInv, ShownInv, TerminalPhases
<1>4. CASE PollExitCode
  BY <1>4, <1>a, <1>b
    DEF PollExitCode, ExitCode, TypeOK, ProcessInv, ShownInv, TerminalPhases
<1>5. CASE PollStatus
  BY <1>5, <1>a, <1>b
    DEF PollStatus, TypeOK, ProcessInv, ShownInv, TerminalPhases
<1>6. CASE PollUnreadable
  BY <1>6, <1>a, <1>b, FailedShown
    DEF PollUnreadable, FailAndStop, Terminates, CannotTerminate, Terminated, TypeOK, ProcessInv,
        ShownInv, TerminalPhases
<1>7. CASE PollStopped
  BY <1>7, <1>a, <1>b
    DEF PollStopped, ExitCode, TypeOK, ProcessInv, ShownInv, TerminalPhases
<1>8. CASE EndFailed
  BY <1>8, <1>a, <1>b
    DEF EndFailed, EndsPoll, TypeOK, ProcessInv, ShownInv, TerminalPhases
<1>9. CASE EndForced
  BY <1>9, <1>a, <1>b, MarkedIsAStatus
    DEF EndForced, EndsPoll, TypeOK, ProcessInv, ShownInv, TerminalPhases
<1>10. CASE EndCompleted
  BY <1>10, <1>a, <1>b, FailedShown
    DEF EndCompleted, EndsPoll, Fails, TypeOK, ProcessInv, ShownInv, TerminalPhases
<1>11. CASE EndOtherwise
  BY <1>11, <1>a, <1>b, FailedShown
    DEF EndOtherwise, EndsPoll, Fails, TypeOK, ProcessInv, ShownInv, TerminalPhases
<1>12. CASE PollContinue
  BY <1>12, <1>a, <1>b, ShownWhileRunningIsAStatus
    DEF PollContinue, TypeOK, ProcessInv, ShownInv, TerminalPhases
<1>13. CASE PollForce
  BY <1>13, <1>a, <1>b, ShownWhileRunningIsAStatus
    DEF PollForce, Terminates, Terminated, TypeOK, ProcessInv, ShownInv, TerminalPhases
<1>14. CASE PollCannotForce
  BY <1>14, <1>a, <1>b, FailedShown
    DEF PollCannotForce, Terminated, TypeOK, ProcessInv, ShownInv, TerminalPhases
<1> QED BY <1>1, <1>2, <1>3, <1>4, <1>5, <1>6, <1>7, <1>8, <1>9, <1>10, <1>11, <1>12, <1>13, <1>14
       DEF ControllerStep, Poll

LEMMA ControllerKeepsMismatch ==
  ASSUME BuildInv, ControllerStep
  PROVE  MismatchInv'
<1> USE DEF BuildInv, workerVars, programVars, files, processVars
<1>a. /\ UNCHANGED <<job, claimed, statusFile, reportFile, outputs, workerVars, exitCode, made>>
      /\ process' = process \/ process' = Terminated(process)
      /\ cancelRequest => cancelRequest'
  BY ControllerFrame
<1>b. TypeOK
  OBVIOUS
<1>1. CASE Cancel
  BY <1>1, <1>a, <1>b
    DEF Cancel, TypeOK, ProcessInv, MismatchInv, Alive
<1>2. CASE CannotCancel
  BY <1>2, <1>a, <1>b, FailedShown
    DEF CannotCancel, Fails, Terminates, CannotTerminate, Terminated, TypeOK, ProcessInv,
        MismatchInv, Alive
<1>3. CASE DeadlinePasses
  BY <1>3, <1>a, <1>b
    DEF DeadlinePasses, TypeOK, ProcessInv, MismatchInv, Alive
<1>4. CASE PollExitCode
  BY <1>4, <1>a, <1>b
    DEF PollExitCode, ExitCode, TypeOK, ProcessInv, MismatchInv, Alive
<1>5. CASE PollStatus
  BY <1>5, <1>a, <1>b
    DEF PollStatus, TypeOK, ProcessInv, MismatchInv, Alive
<1>6. CASE PollUnreadable
  BY <1>6, <1>a, <1>b, FailedShown
    DEF PollUnreadable, FailAndStop, Terminates, CannotTerminate, Terminated, TypeOK, ProcessInv,
        MismatchInv, Alive
<1>7. CASE PollStopped
  BY <1>7, <1>a, <1>b
    DEF PollStopped, ExitCode, TypeOK, ProcessInv, MismatchInv, Alive
<1>8. CASE EndFailed
  BY <1>8, <1>a, <1>b
    DEF EndFailed, EndsPoll, TypeOK, ProcessInv, MismatchInv, Alive
<1>9. CASE EndForced
  BY <1>9, <1>a, <1>b, MarkedIsAStatus
    DEF EndForced, EndsPoll, TypeOK, ProcessInv, MismatchInv, Alive
<1>10. CASE EndCompleted
  BY <1>10, <1>a, <1>b, FailedShown
    DEF EndCompleted, EndsPoll, Fails, TypeOK, ProcessInv, MismatchInv, Alive
<1>11. CASE EndOtherwise
  BY <1>11, <1>a, <1>b, FailedShown
    DEF EndOtherwise, EndsPoll, Fails, TypeOK, ProcessInv, MismatchInv, Alive, ShownInv, Agree
<1>12. CASE PollContinue
  BY <1>12, <1>a, <1>b, ShownWhileRunningIsAStatus
    DEF PollContinue, TypeOK, ProcessInv, MismatchInv, Alive
<1>13. CASE PollForce
  BY <1>13, <1>a, <1>b, ShownWhileRunningIsAStatus
    DEF PollForce, Terminates, Terminated, TypeOK, ProcessInv, MismatchInv, Alive
<1>14. CASE PollCannotForce
  BY <1>14, <1>a, <1>b, FailedShown
    DEF PollCannotForce, Terminated, TypeOK, ProcessInv, MismatchInv, Alive
<1> QED BY <1>1, <1>2, <1>3, <1>4, <1>5, <1>6, <1>7, <1>8, <1>9, <1>10, <1>11, <1>12, <1>13, <1>14
       DEF ControllerStep, Poll

-----------------------------------------------------------------------------
(* A job begins, and the system's own steps.                               *)

LEMMA StartKeeps ==
  ASSUME BuildInv, StartJob
  PROVE  BuildInv'
<1> USE DEF BuildInv, StartJob, StartsAnew
<1>a. at' \in [Workers -> Places] /\ at'[Owned] = "claiming" /\ at'[Repeated] = "gone"
  BY WorkersDiffer DEF Places
<1>b. /\ status' = [w \in Workers |-> Preparing] /\ todo' = [w \in Workers |-> << >>]
      /\ status' \in [Workers -> Statuses] /\ todo' \in [Workers -> Seq(Kinds)]
  BY PreparingIsAStatus
<1>c. job' \in Jobs /\ job' # None
  BY JobParts
<1>d. \A w \in Workers : at'[w] \in {"gone", "claiming"}
  BY <1>a DEF Workers
<1>1. TypeOK'
  <2>1. made' \in Nat /\ polling' \in {"idle"} /\ code' \in Int \cup {None}
    BY DEF TypeOK
  <2> QED BY <1>a, <1>b, <1>c, <2>1, PreparingIsAStatus DEF TypeOK
<1>2. ProcessInv'
  BY <1>a, <1>c, PreparingIsAStatus DEF ProcessInv, Alive, TypeOK
<1>3. ClaimInv' /\ ProgressInv'
  BY <1>d DEF ClaimInv, ProgressInv
<1>4. AskedInv' /\ ShownInv' /\ MismatchInv'
  BY <1>b, PreparingIsAStatus DEF AskedInv, ShownInv, MismatchInv, Cancelled
<1> QED BY <1>1, <1>2, <1>3, <1>4

LEMMA RefuseKeeps ==
  ASSUME BuildInv, RefuseJob
  PROVE  BuildInv'
<1> USE DEF BuildInv, RefuseJob, StartsAnew
<1>a. at' \in [Workers -> Places] /\ \A w \in Workers : at'[w] = "gone"
  BY DEF Places
<1>b. /\ status' = [w \in Workers |-> Preparing] /\ todo' = [w \in Workers |-> << >>]
      /\ status' \in [Workers -> Statuses] /\ todo' \in [Workers -> Seq(Kinds)]
  BY PreparingIsAStatus
<1>c. ~ Alive /\ polling = "idle" /\ TypeOK
  BY DEF ProcessInv
<1>d. UNCHANGED processVars \/ (process' = "none" /\ exitCode' = None)
  OBVIOUS
<1>e. statusFile' \in {None, Preparing} /\ shown' \in {None, Failed(Preparing)}
      /\ job' \in Jobs \cup {None}
  OBVIOUS
<1>f. /\ Failed(Preparing) \in Statuses /\ Failed(Preparing) # None
      /\ Failed(Preparing).phase = "failed"
  BY PreparingIsAStatus, FailedIsAStatus
<1>1. TypeOK'
  <2>1. process' \in {"none", "running", "stopping", "exited"} /\ exitCode' \in Int \cup {None}
    BY <1>c, <1>d DEF TypeOK, processVars
  <2>2. statusFile' \in Statuses \cup {None} /\ shown' \in Statuses \cup {None}
    BY <1>e, <1>f, PreparingIsAStatus
  <2>3. made' \in Nat /\ polling' \in {"idle"} /\ code' \in Int \cup {None}
    BY <1>c DEF TypeOK
  <2> QED BY <1>a, <1>b, <1>e, <2>1, <2>2, <2>3 DEF TypeOK
<1>2. ProcessInv'
  BY <1>a, <1>c, <1>d, WorkersDiffer DEF ProcessInv, Alive, processVars
<1>3. ClaimInv' /\ ProgressInv'
  BY <1>a, <1>e DEF ClaimInv, ProgressInv
<1>4. AskedInv'
  BY <1>b, <1>e, <1>f, PreparingIsAStatus DEF AskedInv, Cancelled
<1>5. ShownInv' /\ MismatchInv'
  BY <1>c, <1>e, <1>f DEF ShownInv, MismatchInv, TerminalPhases
<1> QED BY <1>1, <1>2, <1>3, <1>4, <1>5

LEMMA LostKeeps ==
  ASSUME BuildInv, OwnedWorkerLost
  PROVE  BuildInv'
<1> USE DEF BuildInv, OwnedWorkerLost
<1>a. /\ UNCHANGED <<files, status, todo, controllerVars>>
      /\ Alive /\ process' = "exited" /\ exitCode' \in Int
      /\ at' = [at EXCEPT ![Owned] = "gone"]
  BY CodesAssumption DEF Dies, Crashes, Exit, Goes, Alive, CodesAssumption, TerminationCode
<1>b. /\ at' \in [Workers -> Places] /\ at'[Owned] = "gone"
      /\ \A w \in Workers : at'[w] # "gone" => at'[w] = at[w]
  BY <1>a, WorkersDiffer DEF TypeOK, Places
<1> USE DEF files, controllerVars
<1>1. TypeOK'
  BY <1>a, <1>b DEF TypeOK
<1>2. ProcessInv'
  BY <1>a, <1>b DEF ProcessInv, Alive
<1>3. ClaimInv' /\ ProgressInv'
  BY <1>a, <1>b DEF ClaimInv, ProgressInv
<1>4. AskedInv' /\ ShownInv'
  BY <1>a DEF AskedInv, ShownInv
<1>5. MismatchInv'
  BY <1>a DEF MismatchInv, Alive, ProcessInv
<1> QED BY <1>1, <1>2, <1>3, <1>4, <1>5

LEMMA RunByHandKeeps ==
  ASSUME BuildInv, RunByHand
  PROVE  BuildInv'
<1> USE DEF BuildInv, RunByHand, RunAgain, files, controllerVars, processVars
<1>a. /\ UNCHANGED <<files, status, todo, processVars, controllerVars>> /\ job # None
      /\ at' = [at EXCEPT ![Repeated] = "claiming"]
  BY DEF Goes
<1>b. /\ at' \in [Workers -> Places] /\ at'[Owned] = at[Owned]
      /\ \A w \in Workers : at'[w] # "claiming" => at'[w] = at[w]
  BY <1>a, WorkersDiffer DEF TypeOK, Places
<1>1. TypeOK'
  BY <1>a, <1>b DEF TypeOK
<1>2. ProcessInv'
  BY <1>a, <1>b DEF ProcessInv, Alive
<1>3. ClaimInv' /\ ProgressInv'
  BY <1>a, <1>b DEF ClaimInv, ProgressInv
<1>4. AskedInv' /\ ShownInv' /\ MismatchInv'
  BY <1>a DEF AskedInv, ShownInv, MismatchInv, Agree
<1> QED BY <1>1, <1>2, <1>3, <1>4

LEMMA InitKeeps == Init => BuildInv
<1> SUFFICES ASSUME Init PROVE BuildInv
  OBVIOUS
<1> USE DEF Init, BuildInv
<1>1. TypeOK
  <2>1. /\ at \in [Workers -> Places] /\ status \in [Workers -> Statuses]
        /\ todo \in [Workers -> Seq(Kinds)]
    BY PreparingIsAStatus DEF Places
  <2> QED BY <2>1 DEF TypeOK
<1>2. ProcessInv /\ ClaimInv /\ ProgressInv
  BY WorkersDiffer DEF ProcessInv, ClaimInv, ProgressInv, Alive
<1>3. AskedInv /\ ShownInv /\ MismatchInv
  BY PreparingIsAStatus DEF AskedInv, ShownInv, MismatchInv, Cancelled
<1> QED BY <1>1, <1>2, <1>3

LEMMA StutterKeeps ==
  ASSUME BuildInv, UNCHANGED vars
  PROVE  BuildInv'
<1> USE DEF vars, files, processVars, workerVars, programVars, controllerVars
<1>1. TypeOK' /\ ProcessInv'
  BY DEF BuildInv, TypeOK, ProcessInv, Alive
<1>2. ClaimInv' /\ ProgressInv'
  BY DEF BuildInv, ClaimInv, ProgressInv
<1>3. AskedInv' /\ ShownInv' /\ MismatchInv'
  BY DEF BuildInv, AskedInv, ShownInv, MismatchInv, Agree
<1> QED BY <1>1, <1>2, <1>3 DEF BuildInv

LEMMA NextKeeps ==
  ASSUME BuildInv, [Next]_vars
  PROVE  BuildInv'
<1>1. CASE StartJob
  BY <1>1, StartKeeps
<1>2. CASE RefuseJob
  BY <1>2, RefuseKeeps
<1>3. CASE ControllerStep
  BY <1>3, ControllerKeepsWorkers, ControllerKeepsTypes, ControllerKeepsProcess,
     ControllerKeepsAsked, ControllerKeepsShown, ControllerKeepsMismatch DEF BuildInv
<1>4. ASSUME NEW w \in Workers, WorkerStep(w), UNCHANGED controllerVars
      PROVE  BuildInv'
  <2>1. WorkerFrame(w)
    BY <1>4, WorkerStepFrame DEF BuildInv
  <2> QED BY <1>4, <2>1, WorkerKeepsController, WorkerKeepsClaim, WorkerKeepsProgress DEF BuildInv
<1>5. CASE OwnedWorkerLost
  BY <1>5, LostKeeps
<1>6. CASE RunByHand
  BY <1>6, RunByHandKeeps
<1>7. CASE UNCHANGED vars
  BY <1>7, StutterKeeps
<1> QED BY <1>1, <1>2, <1>3, <1>4, <1>5, <1>6, <1>7, WorkersDiffer
  DEF Next, ControllerStep, OwnedWorkerStep, RepeatedWorkerStep

(* At every moment of poll(), start() and cancel(), of the worker's        *)
(* run_geodata_job_file and of the system, what the controller believes of *)
(* the process, the job directory and status.json is so.                   *)
THEOREM BuildInvariant == Spec => []BuildInv
<1>1. BuildInv /\ [Next]_vars => BuildInv'
  BY NextKeeps
<1> QED BY <1>1, InitKeeps, PTL DEF Spec

(* poll() ends a job for disagreeing with its worker only if the last      *)
(* status.json of the worker and its exit code do disagree.                *)
THEOREM MismatchesAreReal == Spec => []MismatchIsReal
<1>1. BuildInv => MismatchIsReal
  BY DEF BuildInv, MismatchInv, MismatchIsReal
<1> QED BY <1>1, BuildInvariant, PTL
-----------------------------------------------------------------------------
(* status.json within one job.                                             *)

Forward ==
  made' = made /\ statusFile # None /\ statusFile' # statusFile
    => /\ statusFile.phase \notin TerminalPhases
       /\ statusFile'.index >= statusFile.index

LEMMA WorkerMovesForward ==
  ASSUME BuildInv, NEW w \in Workers, WorkerStep(w), UNCHANGED controllerVars
  PROVE  Forward
<1> SUFFICES ASSUME statusFile # None, statusFile' # statusFile
             PROVE  /\ statusFile.phase \notin TerminalPhases
                    /\ statusFile'.index >= statusFile.index
  BY DEF Forward
<1>a. /\ status[w] \in Statuses /\ status \in [Workers -> Statuses]
      /\ status[w].index \in Nat /\ statusFile.index \in Nat
  BY StatusParts DEF BuildInv, TypeOK
<1>1. at[w] \in {"nextMap", "building", "closing"} /\ statusFile' = status'[w]
  BY PreparingIsAStatus
  DEF WorkerStep, Claim, Start, NextMap, Finish, MakeOutput, FinishMap, StopForCancel, Throw,
      Report,
      Close, Abandon, Return, files, Publishes, BuildInv, ProgressInv
<1>2. statusFile.phase \notin TerminalPhases /\ statusFile.index <= status[w].index
  BY <1>1 DEF BuildInv, ProgressInv
<1>3. status'[w].index \in {status[w].index, status[w].index + 1}
  <2>1. CASE \E p \in Phases : status' = [status EXCEPT ![w].phase = p]
    BY <2>1, PhaseStep DEF BuildInv
  <2>2. CASE status' = [status EXCEPT ![w].index = @ + 1]
    <3>1. status'[w] = [status[w] EXCEPT !.index = @ + 1]
      BY <2>2, <1>a
    <3> QED BY <3>1, <1>a, CountedIsAStatus
  <2>3. CASE UNCHANGED status
    BY <2>3
  <2>4. {"working", "completed", "cancelled", "failed"} \subseteq Phases
    BY DEF Phases
  <2>5. ~ Claim(w) /\ ~ Start(w)
    BY <1>1 DEF Claim, Start
  <2> QED BY <2>1, <2>2, <2>3, <2>4, <2>5
      DEF WorkerStep, NextMap, Finish, MakeOutput, FinishMap, StopForCancel, Throw, Report,
          Close, Abandon, Return
<1> QED BY <1>a, <1>1, <1>2, <1>3

LEMMA NextMovesForward ==
  ASSUME BuildInv, [Next]_vars
  PROVE  [Forward]_vars
<1>1. CASE StartJob \/ RefuseJob
  BY <1>1 DEF StartJob, RefuseJob, StartsAnew, Forward, BuildInv, TypeOK
<1>2. CASE ControllerStep
  BY <1>2, ControllerFrame DEF Forward
<1>3. CASE OwnedWorkerStep \/ RepeatedWorkerStep
  BY <1>3, WorkerMovesForward, WorkersDiffer DEF OwnedWorkerStep, RepeatedWorkerStep
<1>4. CASE OwnedWorkerLost \/ RunByHand
  BY <1>4 DEF OwnedWorkerLost, RunByHand, Dies, Crashes, RunAgain, files, Forward
<1> QED BY <1>1, <1>2, <1>3, <1>4 DEF Next, ControllerStep

(* However often the worker program is run on one job directory, a         *)
(* published status.json is never followed by one of fewer maps, and a     *)
(* last one by none.                                                       *)
THEOREM ProgressMovesForward == Spec => ProgressIsMonotone
<1>1. BuildInv /\ [Next]_vars => [Forward]_vars
  BY NextMovesForward
<1> QED BY <1>1, BuildInvariant, PTL DEF Spec, ProgressIsMonotone, Forward

-----------------------------------------------------------------------------
(* The promise to the rest of the preview.                                 *)

LEMMA RunningView ==
  ASSUME BuildInv, running
  PROVE  View = "running"
BY DEF BuildInv, ProcessInv, View

LEMMA EndedView ==
  ASSUME BuildInv, ~ running
  PROVE  View # "running" /\ ~ Alive
BY DEF BuildInv, ProcessInv, ShownInv, View, TerminalPhases

LEMMA WorkerDelivers ==
  ASSUME BuildInv, NEW w \in Workers, WorkerStep(w)
  PROVE  /\ Delivered => Delivered'
         /\ at'[w] = "gone" => Delivered' = Delivered
<1>a. at \in [Workers -> Places] /\ (at[w] \in {"starting", "nextMap", "building"} => reportFile = None)
  BY DEF BuildInv, TypeOK, ClaimInv
<1>1. UNCHANGED job
  BY DEF WorkerStep, Claim, Start, NextMap, Finish, MakeOutput, FinishMap, StopForCancel, Throw,
         Report, Close, Abandon, Return, files
<1>2. /\ outputs \subseteq outputs' \/ reportFile = None
      /\ reportFile # None => reportFile' = reportFile
      /\ at'[w] = "gone" => UNCHANGED <<outputs, reportFile>>
  BY <1>a
  DEF WorkerStep, Claim, Start, NextMap, Finish, MakeOutput, FinishMap, StopForCancel, Throw,
         Report, Close, Abandon, Return, files, Goes, Guarded, Running
<1> QED BY <1>1, <1>2 DEF Delivered, OutputNames

LEMMA PromiseInit == Init => Promise!Init
BY DEF Init, Promise!Init, View, Alive, Delivered

LEMMA BeginKept ==
  ASSUME BuildInv, StartJob \/ RefuseJob
  PROVE  Promise!Begin
<1>1. ~ running /\ View # "running" /\ ~ Alive
  BY EndedView DEF StartJob, RefuseJob, StartsAnew
<1>2. made' = made + 1 /\ made' # 0 /\ ~ cancelRequest' /\ ~ Delivered'
  BY DEF StartJob, RefuseJob, StartsAnew, BuildInv, TypeOK, Delivered
<1>3. CASE StartJob
  BY <1>1, <1>2, <1>3 DEF StartJob, View, Alive, Promise!Begin
<1>4. CASE RefuseJob
  <2>1. shown' = None \/ shown'.phase = "failed"
    BY <1>4, PreparingIsAStatus, FailedIsAStatus DEF RefuseJob
  <2>2. View' = "failed"
    BY <1>2, <1>4, <2>1 DEF RefuseJob, View
  <2>3. ~ Alive'
    BY <1>1, <1>4 DEF RefuseJob, Alive, processVars
  <2> QED BY <1>1, <1>2, <2>2, <2>3 DEF Promise!Begin
<1> QED BY <1>3, <1>4

(* What a step of the controller does to the process and the files the     *)
(* promise does not see.                                                   *)
LEMMA ControllerUnseen ==
  ASSUME BuildInv, ControllerStep
  PROVE  Alive' = Alive /\ Delivered' = Delivered
BY ControllerFrame DEF Alive, Delivered, Terminated

LEMMA ControllerKeepsPromise ==
  ASSUME BuildInv, ControllerStep
  PROVE  [Promise!Next]_Promise!promiseVars
<1>a. BuildInv'
  BY NextKeeps DEF Next, ControllerStep
<1>b. Alive' = Alive /\ Delivered' = Delivered
  BY ControllerUnseen
<1> SUFFICES Promise!Next \/ UNCHANGED Promise!promiseVars
  OBVIOUS
<1>1. CASE Cancel
  <2>1. View = "running" /\ View' = "running"
    BY <1>1, <1>a, RunningView DEF Cancel, View, BuildInv, ProcessInv
  <2> QED BY <1>1, <1>b, <2>1 DEF Cancel, Promise!Next, Promise!Ask
<1>2. CASE UNCHANGED <<running, cancelRequest>> /\ running
  <2>1. View = "running" /\ View' = "running"
    BY <1>2, <1>a DEF View, BuildInv, ProcessInv
  <2> QED BY <1>2, <1>b, <2>1 DEF Promise!promiseVars
<1>3. CASE UNCHANGED <<running, cancelRequest, shown, made>>
  BY <1>3, <1>b DEF Promise!promiseVars, View
<1>4. ASSUME running, ~ running', UNCHANGED <<cancelRequest, made>>
      PROVE  Promise!End
  <2>1. View = "running" /\ ~ Alive /\ shown \in Statuses
    BY <1>4, <1>a, <1>b, RunningView DEF BuildInv, TypeOK, ProcessInv
  <2>2. shown' # None /\ shown'.phase \in TerminalPhases /\ View' = shown'.phase
    <3>1. shown' # None
      <4>1. shown' \in {shown, Failed(shown), [shown EXCEPT !.phase = "cancelled"]}
        BY <1>4
        DEF ControllerStep, Poll, Cancel, CannotCancel, DeadlinePasses, PollExitCode, PollStatus,
            PollUnreadable, FailAndStop, PollStopped, EndFailed, EndForced, EndCompleted, EndOtherwise,
            Fails, PollContinue, PollForce, PollCannotForce
      <4>2. "cancelled" \in Phases
        BY DEF Phases
      <4> QED BY <1>4, <2>1, <4>1, <4>2, FailedShown, MarkedIsAStatus, StatusParts
    <3>2. made' # 0
      BY <1>4 DEF BuildInv, ProcessInv
    <3> QED BY <1>4, <1>a, <3>1, <3>2 DEF BuildInv, ShownInv, View
  <2>3. shown'.phase = "completed" => Delivered
    <3>1. CASE EndCompleted
      BY <1>4, <3>1, FailedShown DEF EndCompleted, Fails, Complete, Delivered, BuildInv,
         ProcessInv
    <3>2. CASE ~ EndCompleted
      <4>1. SUFFICES ASSUME shown'.phase = "completed" PROVE FALSE
        OBVIOUS
      <4>2. shown' # [shown EXCEPT !.phase = "cancelled"] /\ shown' # Failed(shown)
        BY <2>1, <4>1, FailedShown, MarkedIsAStatus, <1>4 DEF Phases
      <4>3. (PollStopped \/ EndFailed) => shown.phase = "failed" /\ shown' = shown
        BY <1>4 DEF PollStopped, EndFailed, BuildInv, ShownInv
      <4>4. EndOtherwise => FALSE
        BY <1>4, <4>1, <4>2 DEF EndOtherwise, Fails
      <4> QED BY <1>4, <3>2, <4>1, <4>2, <4>3, <4>4
          DEF ControllerStep, Poll, Cancel, CannotCancel, DeadlinePasses, PollExitCode,
              PollStatus,
              PollUnreadable, FailAndStop, EndForced, PollContinue, PollForce, PollCannotForce
    <3> QED BY <3>1, <3>2
  <2>4. shown'.phase = "cancelled" => cancelRequest
    BY <1>4, <1>a, <2>2 DEF BuildInv, AskedInv, Cancelled
  <2> QED BY <1>4, <1>b, <2>1, <2>2, <2>3, <2>4 DEF Promise!End, Promise!Ends, TerminalPhases
<1>5. \/ Cancel
      \/ UNCHANGED <<running, cancelRequest>> /\ running
      \/ UNCHANGED <<running, cancelRequest, shown, made>>
      \/ running /\ ~ running' /\ UNCHANGED <<cancelRequest, made>>
  BY DEF ControllerStep, Poll, CannotCancel, DeadlinePasses, PollExitCode, PollStatus,
     PollUnreadable, FailAndStop, PollStopped, EndsPoll, EndFailed, EndForced, EndCompleted,
     EndOtherwise, PollContinue, PollForce, PollCannotForce, files, BuildInv, ProcessInv, TypeOK
<1> QED BY <1>1, <1>2, <1>3, <1>4, <1>5 DEF Promise!Next

LEMMA WorkerKeepsPromise ==
  ASSUME BuildInv, NEW w \in Workers, WorkerStep(w), UNCHANGED controllerVars
  PROVE  [Promise!Next]_Promise!promiseVars
<1>a. WorkerFrame(w)
  BY WorkerStepFrame DEF BuildInv
<1>b. View' = View /\ cancelRequest' = cancelRequest
  BY <1>a DEF WorkerFrame, View, controllerVars
<1>c. (Delivered => Delivered') /\ (at'[w] = "gone" => Delivered' = Delivered)
  BY WorkerDelivers
<1>1. CASE UNCHANGED processVars /\ Delivered'
  <2>1. Alive' = Alive
    BY <1>1 DEF Alive, processVars
  <2> QED BY <1>1, <1>b, <2>1 DEF Promise!Next, Promise!Deliver
<1>2. CASE UNCHANGED processVars /\ ~ Delivered'
  <2>1. Alive' = Alive
    BY <1>2 DEF Alive, processVars
  <2>2. Delivered' = Delivered
    BY <1>2, <1>c DEF Delivered
  <2> QED BY <1>b, <2>1, <2>2 DEF Promise!promiseVars
<1>3. CASE w = Owned /\ at'[w] = "gone" /\ process' = "exited"
  <2>1. Alive /\ ~ Alive'
    BY <1>3, <1>a DEF WorkerFrame, Alive
  <2> QED BY <1>3, <1>b, <1>c, <2>1 DEF Promise!Next, Promise!Stop
<1> QED BY <1>a, <1>1, <1>2, <1>3 DEF WorkerFrame

LEMMA StepKeepsPromise ==
  ASSUME BuildInv, [Next]_vars
  PROVE  [Promise!Next]_Promise!promiseVars
<1>1. CASE StartJob \/ RefuseJob
  BY <1>1, BeginKept DEF Promise!Next
<1>2. CASE ControllerStep
  BY <1>2, ControllerKeepsPromise
<1>3. CASE OwnedWorkerStep \/ RepeatedWorkerStep
  BY <1>3, WorkerKeepsPromise, WorkersDiffer DEF OwnedWorkerStep, RepeatedWorkerStep
<1>4. CASE OwnedWorkerLost
  <2>1. View' = View /\ cancelRequest' = cancelRequest /\ Delivered' = Delivered
    BY <1>4 DEF OwnedWorkerLost, Dies, Crashes, files, controllerVars, View, Delivered
  <2>2. Alive /\ ~ Alive'
    BY <1>4 DEF OwnedWorkerLost, Dies, Crashes, Exit, Alive
  <2> QED BY <2>1, <2>2 DEF Promise!Next, Promise!Stop
<1>5. CASE RunByHand \/ UNCHANGED vars
  <2>1. View' = View /\ cancelRequest' = cancelRequest /\ Delivered' = Delivered /\ Alive' = Alive
    BY <1>5 DEF RunByHand, RunAgain, vars, files, controllerVars, processVars, View, Delivered,
       Alive
  <2> QED BY <2>1 DEF Promise!promiseVars
<1> QED BY <1>1, <1>2, <1>3, <1>4, <1>5 DEF Next, ControllerStep

(* Seen through active(), status() and the files, every step of            *)
(* GeodataBuildController, of its worker and of the system is one          *)
(* JobPromise allows: an ended job has no worker, a completed one          *)
(* everything it was asked for, a cancelled one was asked to stop.         *)
THEOREM BuildKeepsPromise == Spec => KeepsJobPromise
<1>1. BuildInv /\ [Next]_vars => [Promise!Next]_Promise!promiseVars
  BY StepKeepsPromise
<1> QED BY <1>1, PromiseInit, BuildInvariant, PTL DEF Spec, KeepsJobPromise, Promise!Spec

=============================================================================
