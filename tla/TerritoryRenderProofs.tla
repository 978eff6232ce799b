------------------------ MODULE TerritoryRenderProofs ------------------------
(***************************************************************************)
(* Proofs of the safety properties of TerritoryRender, for all requests,   *)
(* crash codes and bounds, and of the promise it keeps.                    *)
(***************************************************************************)
EXTENDS TerritoryRender, TLAPS

Places == {"gone", "claiming", "starting", "nextMap", "drawing", "recording", "publishing",
           "reporting", "closing", "retrying", "returning"}

TypeOK ==
  /\ job \in Jobs \cup {None} /\ claimed \subseteq Workers /\ cancelRequest \in BOOLEAN
  /\ statusFile \in Statuses \cup {None} /\ reportFile \in Phases \cup {None}
  /\ process \in {"none", "running", "stopping", "exited"} /\ exitCode \in Int \cup {None}
  /\ at \in [Workers -> Places] /\ status \in [Workers -> Statuses]
  /\ made \in Nat /\ running \in BOOLEAN /\ broken \in BOOLEAN /\ forced \in BOOLEAN
  /\ deadline \in {"none", "armed", "passed"}
  /\ shown \in Statuses \cup {None}
  /\ polling \in {"idle", "status", "decide", "stop"}
  /\ code \in Int \cup {None}

(* The controller calls a job ended only when its process is gone, and the *)
(* exit code a poll goes by is that of the process.                        *)
ProcessInv ==
  /\ process = "exited" => exitCode \in Int
  /\ ~ Alive => at[Owned] = "gone"
  /\ \A w \in Workers : at[w] # "gone" => job # None
  /\ ~ running => ~ Alive /\ polling = "idle"
  /\ running => process # "none" /\ made # 0 /\ job # None /\ shown # None
  /\ polling \in {"status", "decide"} /\ code # None => process = "exited" /\ exitCode = code

(* Whoever is past its claim is the one who has claimed the directory.     *)
ClaimInv ==
  /\ \A w \in Workers : at[w] \notin {"gone", "claiming"} => claimed = {w}
  /\ \A w \in Workers :
       at[w] \in {"starting", "nextMap", "drawing", "recording", "publishing", "reporting"} =>
         reportFile = None
  /\ claimed = {} => reportFile = None

(* What a status says is there of the images, of everything it lists.      *)
Covered(s) ==
  /\ s.files \subseteq Published
  /\ Renders => \A n \in 1 .. s.index : <<n, "png">> \in outputs
Recorded(s) == \A n \in 1 .. s.index : <<n, "checkpoint">> \in outputs

(* What the one writer of status.json is about to write is there already.  *)
WriterInv ==
  \A w \in Workers : at[w] \notin {"gone", "claiming"} =>
    /\ Covered(status[w])
    /\ at[w] = "recording" /\ Renders => Image(w) \in outputs
    /\ at[w] \in {"starting", "nextMap", "drawing", "recording", "publishing"} =>
         status[w].phase \in {"preparing", "working"} /\ Recorded(status[w])
    /\ at[w] \in {"reporting", "closing", "retrying", "returning"} =>
         status[w].phase \in TerminalPhases
    /\ status[w].phase = "completed" =>
         /\ status[w].index = job.maps /\ Recorded(status[w])
         /\ at[w] # "retrying"
         /\ at[w] \in {"closing", "returning"} => reportFile = "completed"

(* Nobody is stopped before that was asked, unless the job is broken.      *)
AskedInv ==
  /\ deadline # "none" \/ forced => cancelRequest
  /\ status[Owned].phase = "cancelled" => cancelRequest
  /\ running /\ (process = "stopping" \/ (process = "exited" /\ exitCode = TerminationCode)) =>
       cancelRequest \/ broken

(* What is shown goes with the controller's flags and with the files.      *)
ShownInv ==
  /\ broken /\ running => shown.phase = "failed"
  /\ polling = "status" => ~ broken /\ ~ forced
  /\ polling = "stop" => broken \/ forced
  /\ made # 0 /\ ~ running /\ shown # None => shown.phase \in TerminalPhases
  /\ running /\ shown.phase = "completed" => Delivered

RenderInv ==
  TypeOK /\ ProcessInv /\ ClaimInv /\ WriterInv /\ StatusIsBacked /\ AskedInv /\ ShownInv

-----------------------------------------------------------------------------
(* Requests, statuses and workers.                                         *)

LEMMA JobParts ==
  ASSUME NEW request \in Jobs
  PROVE  request # None /\ request.maps \in Nat \ {0} /\ request.kinds \in Seq(Kinds)
BY JobsAssumption, NoneAssumption DEF JobsAssumption, NoneAssumption, Job

LEMMA WorkersDiffer == Owned \in Workers /\ Repeated \in Workers /\ Owned # Repeated
BY DEF Workers, Owned, Repeated

LEMMA PreparingIsAStatus ==
  Preparing \in Statuses /\ Preparing # None /\ Preparing.phase = "preparing" /\ Preparing.index = 0
<1>1. Preparing \in Statuses
  BY DEF Preparing, Statuses, Phases
<1> QED BY <1>1, NoneAssumption DEF NoneAssumption, Preparing

LEMMA MarkedIsAStatus ==
  ASSUME NEW s \in Statuses, NEW p \in Phases
  PROVE  /\ [s EXCEPT !.phase = p] \in Statuses
         /\ [s EXCEPT !.phase = p] # None
         /\ [s EXCEPT !.phase = p].phase = p
         /\ [s EXCEPT !.phase = p].index = s.index
<1>1. [s EXCEPT !.phase = p] \in Statuses
  BY DEF Statuses
<1> QED BY <1>1, NoneAssumption DEF NoneAssumption, Statuses

LEMMA PlacesOfFiles ==
  ASSUME NEW s \in Statuses, NEW n \in Nat, NEW kind \in Kinds
  PROVE  /\ [s EXCEPT !.files = @ \cup {<<n, kind>>}] \in Statuses
         /\ s.files \cup {<<n, kind>>} \subseteq Nat \X (Kinds \cup {"report"})
BY DEF Statuses

LEMMA StatusParts ==
  ASSUME NEW s \in Statuses
  PROVE  s # None /\ s.phase \in Phases /\ s.index \in Nat
BY NoneAssumption DEF NoneAssumption, Statuses

LEMMA FailedIsAStatus ==
  ASSUME NEW s \in Statuses \cup {None}
  PROVE  /\ Failed(s) \in Statuses \cup {None}
         /\ Failed(s) = None <=> s = None
         /\ s # None => Failed(s).phase = "failed"
<1>1. CASE s = None
  BY <1>1 DEF Failed
<1>2. CASE s # None
  <2>1. s \in Statuses /\ "failed" \in Phases
    BY <1>2 DEF Phases
  <2> QED BY <1>2, <2>1, MarkedIsAStatus DEF Failed
<1> QED BY <1>1, <1>2

LEMMA ShownWhileRunningIsAStatus ==
  ASSUME TypeOK, shown # None
  PROVE  /\ ShownWhileRunning \in Statuses
         /\ ShownWhileRunning # None
         /\ broken => ShownWhileRunning = shown
         /\ ~ broken => ShownWhileRunning.phase \notin TerminalPhases
<1>1. shown \in Statuses /\ "working" \in Phases
  BY DEF TypeOK, Phases
<1> QED BY <1>1, MarkedIsAStatus, StatusParts DEF ShownWhileRunning, TerminalPhases

-----------------------------------------------------------------------------
(* What a worker's step leaves alone.                                      *)

(* Everything of the job but what is the worker's own, and status.json and *)
(* the claim are changed by nobody but their holder; files only appear.    *)
WorkerFrame(w) ==
  /\ UNCHANGED <<job, cancelRequest, controllerVars>>
  /\ at[w] # "gone" /\ (w = Owned => Alive)
  /\ at' \in [Workers -> Places] /\ status' \in [Workers -> Statuses]
  /\ \A v \in Workers \ {w} : at'[v] = at[v] /\ status'[v] = status[v]
  /\ at'[w] # "claiming"
  /\ \/ UNCHANGED processVars /\ (w = Owned => at'[w] # "gone")
     \/ /\ w = Owned /\ at'[w] = "gone" /\ process' = "exited" /\ exitCode' \in Int
        /\ exitCode' = TerminationCode => status[w].phase = "cancelled"
        /\ UNCHANGED <<reportFile, outputs>>
  /\ \/ UNCHANGED claimed
     \/ claimed = {} /\ claimed' = {w}
  /\ \/ UNCHANGED statusFile
     \/ /\ at[w] \notin {"gone", "claiming"} /\ statusFile' = status'[w]
        /\ at'[w] \in {"nextMap", "drawing", "returning"}
  /\ \/ UNCHANGED reportFile
     \/ reportFile = None /\ reportFile' = status[w].phase /\ at[w] = "reporting"
  /\ outputs \subseteq outputs'
  /\ w = Owned /\ status'[w].phase = "cancelled" => status[w].phase = "cancelled" \/ cancelRequest

LEMMA LeavesStep ==
  ASSUME TypeOK, NEW w \in Workers, NEW c \in Int, Leaves(w, c)
  PROVE  /\ at' \in [Workers -> Places] /\ at'[w] = "gone"
         /\ \A v \in Workers \ {w} : at'[v] = at[v]
         /\ \/ UNCHANGED processVars /\ w # Owned
            \/ w = Owned /\ process' = "exited" /\ exitCode' = c
<1>1. at' = [at EXCEPT ![w] = "gone"]
  BY DEF Leaves, Goes
<1>2. at \in [Workers -> Places] /\ "gone" \in Places
  BY DEF TypeOK, Places
<1> QED BY <1>1, <1>2 DEF Leaves, Exit

LEMMA GoesStep ==
  ASSUME TypeOK, NEW w \in Workers, NEW place \in Places, Goes(w, place)
  PROVE  /\ at' \in [Workers -> Places] /\ at'[w] = place
         /\ \A v \in Workers \ {w} : at'[v] = at[v]
BY DEF Goes, TypeOK

(* A worker gives its own status a phase.                                  *)
LEMMA PhaseStep ==
  ASSUME TypeOK, NEW w \in Workers, NEW p \in Phases,
         status' = [status EXCEPT ![w].phase = p]
  PROVE  /\ status' \in [Workers -> Statuses]
         /\ status'[w].phase = p /\ status'[w].index = status[w].index
         /\ \A v \in Workers \ {w} : status'[v] = status[v]
<1>1. status \in [Workers -> Statuses] /\ status[w] \in Statuses
  BY DEF TypeOK
<1>2. status'[w] = [status[w] EXCEPT !.phase = p]
  BY <1>1
<1>3. status' = [status EXCEPT ![w] = [status[w] EXCEPT !.phase = p]]
  BY <1>1
<1>4. [status[w] EXCEPT !.phase = p] \in Statuses
  BY <1>1, MarkedIsAStatus
<1> QED BY <1>1, <1>2, <1>3, <1>4, MarkedIsAStatus

(* The status of one more map.                                             *)
LEMMA CountedIsAStatus ==
  ASSUME TypeOK, NEW w \in Workers
  PROVE  /\ Counted(w) \in Statuses
         /\ Counted(w).index = status[w].index + 1
         /\ Counted(w).files = Listing(w)
         /\ Counted(w).phase = status[w].phase
         /\ [Counted(w) EXCEPT !.files = @ \cup {Checkpoint(w)}] \in Statuses
<1>1. status[w] \in Statuses
  BY DEF TypeOK
<1>2. status[w].index + 1 \in Nat /\ "png" \in Kinds /\ "checkpoint" \in Kinds
  BY <1>1, StatusParts DEF Kinds
<1>3. Listing(w) \subseteq Nat \X (Kinds \cup {"report"})
  BY <1>1, <1>2 DEF Listing, Image, CurrentMap, Statuses
<1>4. Counted(w) \in Statuses
  BY <1>1, <1>2, <1>3 DEF Counted, Statuses
<1>5. [Counted(w) EXCEPT !.files = @ \cup {Checkpoint(w)}] \in Statuses
  BY <1>2, <1>4, PlacesOfFiles DEF Checkpoint, CurrentMap
<1> QED BY <1>1, <1>4, <1>5 DEF Counted, Statuses

LEMMA WorkerStepFrame ==
  ASSUME TypeOK, WriterInv, NEW w \in Workers, WorkerStep(w), UNCHANGED controllerVars
  PROVE  WorkerFrame(w)
<1> USE DEF WorkerFrame
<1>a. /\ at \in [Workers -> Places] /\ status \in [Workers -> Statuses]
      /\ status[w] \in Statuses
  BY DEF TypeOK
<1>b. /\ {"starting", "nextMap", "drawing", "recording", "publishing", "reporting", "closing",
         "retrying", "returning"} \subseteq Places
      /\ {"working", "completed", "cancelled", "failed"} \subseteq Phases
  BY DEF Places, Phases
<1>c. Running(w) => at[w] # "gone" /\ (w = Owned => Alive)
  BY DEF Running
<1>1. CASE Claim(w)
  <2>1. CASE claimed = {} /\ claimed' = claimed \cup {w} /\ Goes(w, "starting")
             /\ status' = [status EXCEPT ![w] = Preparing] /\ UNCHANGED processVars
    <3>1. status' \in [Workers -> Statuses] /\ status'[w] = Preparing
          /\ \A v \in Workers \ {w} : status'[v] = status[v]
      BY <2>1, <1>a, PreparingIsAStatus
    <3>2. /\ at' \in [Workers -> Places] /\ at'[w] = "starting"
          /\ \A v \in Workers \ {w} : at'[v] = at[v]
      BY <2>1, <1>b, GoesStep
    <3> QED BY <2>1, <3>1, <3>2, <1>1, <1>a, <1>c, PreparingIsAStatus DEF Claim
  <2>2. CASE Leaves(w, 2) /\ (UNCHANGED claimed \/ (claimed = {} /\ claimed' = {w}))
             /\ UNCHANGED status
    BY <2>2, <1>1, <1>a, <1>c, LeavesStep, PreparingIsAStatus DEF Claim, TerminationCode
  <2> QED BY <1>1, <2>1, <2>2 DEF Claim
<1>2. CASE Start(w)
  BY <1>2, <1>a, <1>b, <1>c, GoesStep, StatusParts DEF Start, Publishes
<1>3. CASE NextMap(w)
  <2>1. /\ status' \in [Workers -> Statuses] /\ status'[w].phase = "working"
        /\ \A v \in Workers \ {w} : status'[v] = status[v]
    BY <1>3, <1>b, PhaseStep DEF NextMap
  <2>2. /\ at' \in [Workers -> Places] /\ at'[w] = "drawing"
        /\ \A v \in Workers \ {w} : at'[v] = at[v]
    BY <1>3, <1>b, GoesStep DEF NextMap
  <2> QED BY <1>3, <2>1, <2>2, <1>a, <1>c DEF NextMap, Publishes
<1>4. CASE PublishImage(w)
  BY <1>4, <1>a, <1>b, <1>c, GoesStep DEF PublishImage
<1>5. CASE Inspect(w)
  BY <1>5, <1>a, <1>b, <1>c, GoesStep DEF Inspect, files, processVars
<1>6. CASE RecordMap(w)
  <2>1. /\ status' \in [Workers -> Statuses]
        /\ status'[w] = [Counted(w) EXCEPT !.files = @ \cup {Checkpoint(w)}]
        /\ status'[w].phase = status[w].phase
        /\ \A v \in Workers \ {w} : status'[v] = status[v]
    BY <1>6, <1>a, CountedIsAStatus DEF RecordMap, Statuses
  <2> QED BY <1>6, <2>1, <1>a, <1>b, <1>c, GoesStep DEF RecordMap
<1>7. CASE PublishMap(w)
  BY <1>7, <1>a, <1>b, <1>c, GoesStep DEF PublishMap, Publishes
<1>8. CASE Finish(w)
  <2>1. /\ status' \in [Workers -> Statuses] /\ status'[w].phase = "completed"
        /\ \A v \in Workers \ {w} : status'[v] = status[v]
    BY <1>8, <1>b, PhaseStep DEF Finish
  <2>2. /\ at' \in [Workers -> Places] /\ at'[w] = "reporting"
        /\ \A v \in Workers \ {w} : at'[v] = at[v]
    BY <1>8, <1>b, GoesStep DEF Finish
  <2> QED BY <1>8, <2>1, <2>2, <1>a, <1>c DEF Finish, files, processVars
<1>9. CASE StopForCancel(w)
  <2>1. /\ status' \in [Workers -> Statuses] /\ status'[w].phase = "cancelled"
        /\ \A v \in Workers \ {w} : status'[v] = status[v]
    BY <1>9, <1>b, PhaseStep DEF StopForCancel
  <2>2. /\ at' \in [Workers -> Places] /\ at'[w] = "reporting"
        /\ \A v \in Workers \ {w} : at'[v] = at[v]
    BY <1>9, <1>b, GoesStep DEF StopForCancel
  <2> QED BY <1>9, WorkersDiffer, <2>1, <2>2, <1>a, <1>c DEF StopForCancel, files, processVars
<1>10. CASE Throw(w)
  <2>1. PICK s \in {status[w], Counted(w)} :
          status' = [status EXCEPT ![w] = [s EXCEPT !.phase = "failed"]]
    BY <1>10 DEF Throw
  <2>2. s \in Statuses
    BY <1>a, <2>1, CountedIsAStatus
  <2>3. [s EXCEPT !.phase = "failed"] \in Statuses /\ [s EXCEPT !.phase = "failed"].phase = "failed"
    BY <1>b, <2>2, MarkedIsAStatus
  <2>4. /\ status' \in [Workers -> Statuses] /\ status'[w].phase = "failed"
        /\ \A v \in Workers \ {w} : status'[v] = status[v]
    BY <1>a, <2>1, <2>3
  <2> QED BY <1>10, <2>4, <1>a, <1>b, <1>c, GoesStep DEF Throw, files, processVars
<1>11. CASE WriteReport(w)
  <2>1. ReportName \in Nat \X (Kinds \cup {"report"})
    BY DEF ReportName
  <2>2. [status[w] EXCEPT !.files = @ \cup {ReportName}] \in Statuses
        /\ [status[w] EXCEPT !.files = @ \cup {ReportName}].phase = status[w].phase
    BY <1>a, <2>1 DEF Statuses
  <2>3. status' = [status EXCEPT ![w] = [status[w] EXCEPT !.files = @ \cup {ReportName}]]
    BY <1>11, <1>a DEF WriteReport
  <2>4. /\ status' \in [Workers -> Statuses] /\ status'[w].phase = status[w].phase
        /\ \A v \in Workers \ {w} : status'[v] = status[v]
    BY <1>a, <2>2, <2>3
  <2> QED BY <1>11, <2>4, <1>a, <1>b, <1>c, GoesStep DEF WriteReport
<1>12. CASE Close(w)
  BY <1>12, <1>a, <1>b, <1>c, GoesStep DEF Close, Publishes
<1>13. CASE CannotClose(w)
  <2>1. Unpublished(status[w].phase) \in Phases
        /\ (Unpublished(status[w].phase) = "cancelled" => status[w].phase = "cancelled")
    BY <1>a, <1>b, StatusParts DEF Unpublished
  <2>2. status' = [status EXCEPT ![w].phase = Unpublished(status[w].phase)]
    BY <1>13, <1>a DEF CannotClose
  <2>3. /\ status' \in [Workers -> Statuses] /\ status'[w].phase = Unpublished(status[w].phase)
        /\ \A v \in Workers \ {w} : status'[v] = status[v]
    BY <2>1, <2>2, PhaseStep
  <2> QED BY <1>13, <2>1, <2>3, <1>a, <1>b, <1>c, GoesStep DEF CannotClose, files, processVars
<1>14. CASE Retry(w)
  BY <1>14, <1>a, <1>b, <1>c, GoesStep DEF Retry, Publishes
<1>15. CASE Return(w)
  <2>1. CodeOf(status[w].phase) \in Int
        /\ (CodeOf(status[w].phase) = TerminationCode => status[w].phase = "cancelled")
    BY <1>15 DEF WriterInv, Return, CodeOf, TerminalPhases, TerminationCode
  <2> QED BY <1>15, <2>1, <1>a, <1>c, LeavesStep DEF Return, files
<1> QED BY <1>1, <1>2, <1>3, <1>4, <1>5, <1>6, <1>7, <1>8, <1>9, <1>10, <1>11, <1>12, <1>13,
           <1>14, <1>15 DEF WorkerStep

-----------------------------------------------------------------------------
(* The worker's steps keep the invariant.                                  *)

LEMMA WorkerKeepsClaim ==
  ASSUME RenderInv, NEW w \in Workers, WorkerStep(w), WorkerFrame(w)
  PROVE  ClaimInv'
<1>a. TypeOK /\ ClaimInv /\ at \in [Workers -> Places]
  BY DEF RenderInv, TypeOK
<1>b. /\ \A v \in Workers \ {w} : at'[v] = at[v]
      /\ \/ UNCHANGED claimed
         \/ claimed = {} /\ claimed' = {w}
      /\ \/ UNCHANGED reportFile
         \/ at[w] = "reporting"
  BY DEF WorkerFrame
<1>c. \A v \in Workers \ {w} :
        /\ at'[v] \notin {"gone", "claiming"} => claimed' = {v}
        /\ at'[v] \in {"starting", "nextMap", "drawing", "recording", "publishing", "reporting"} =>
             reportFile' = None
  BY <1>a, <1>b DEF ClaimInv
<1>d. claimed' = {} => reportFile' = None
  BY <1>a, <1>b DEF ClaimInv
<1>e. SUFFICES
        /\ at'[w] \notin {"gone", "claiming"} => claimed' = {w}
        /\ at'[w] \in {"starting", "nextMap", "drawing", "recording", "publishing", "reporting"} =>
             reportFile' = None
  BY <1>c, <1>d DEF ClaimInv
<1>1. CASE Claim(w)
  BY <1>1, <1>a DEF Claim, Leaves, Goes, ClaimInv
<1>2. CASE Start(w)
  BY <1>2, <1>a DEF Start, Goes, ClaimInv
<1>3. CASE NextMap(w)
  BY <1>3, <1>a DEF NextMap, Goes, ClaimInv
<1>4. CASE PublishImage(w)
  BY <1>4, <1>a DEF PublishImage, Goes, ClaimInv
<1>5. CASE Inspect(w)
  BY <1>5, <1>a DEF Inspect, Goes, files, ClaimInv
<1>6. CASE RecordMap(w)
  BY <1>6, <1>a DEF RecordMap, Goes, ClaimInv
<1>7. CASE PublishMap(w)
  BY <1>7, <1>a DEF PublishMap, Goes, ClaimInv
<1>8. CASE Finish(w)
  BY <1>8, <1>a DEF Finish, Goes, files, ClaimInv
<1>9. CASE StopForCancel(w)
  BY <1>9, <1>a DEF StopForCancel, Goes, files, ClaimInv
<1>10. CASE Throw(w)
  BY <1>10, <1>a DEF Throw, Goes, Guarded, files, ClaimInv
<1>11. CASE WriteReport(w)
  BY <1>11, <1>a DEF WriteReport, Goes, ClaimInv
<1>12. CASE Close(w)
  BY <1>12, <1>a DEF Close, Goes, ClaimInv
<1>13. CASE CannotClose(w)
  BY <1>13, <1>a DEF CannotClose, Goes, files, ClaimInv
<1>14. CASE Retry(w)
  BY <1>14, <1>a DEF Retry, Goes, ClaimInv
<1>15. CASE Return(w)
  BY <1>15, <1>a DEF Return, Leaves, Goes, files, ClaimInv
<1> QED BY <1>1, <1>2, <1>3, <1>4, <1>5, <1>6, <1>7, <1>8, <1>9, <1>10, <1>11, <1>12, <1>13,
           <1>14, <1>15 DEF WorkerStep

(* Files only appear.                                                      *)
LEMMA FilesOnlyAppear ==
  ASSUME RenderInv, NEW w \in Workers, WorkerFrame(w)
  PROVE  /\ outputs \subseteq outputs' /\ Published \subseteq Published'
         /\ Renders' = Renders /\ job' = job
         /\ reportFile # None => reportFile' = reportFile
         /\ Delivered => Delivered'
<1>1. /\ outputs \subseteq outputs' /\ job' = job
      /\ reportFile # None => reportFile' = reportFile
  BY DEF WorkerFrame
<1>2. Published \subseteq Published'
  BY <1>1 DEF Published
<1> QED BY <1>1, <1>2 DEF Renders, Delivered, OutputNames

LEMMA WorkerKeepsWriter ==
  ASSUME RenderInv, NEW w \in Workers, WorkerStep(w), WorkerFrame(w)
  PROVE  WriterInv'
<1> DEFINE Fits(v) ==
      at[v] \notin {"gone", "claiming"} =>
        /\ Covered(status[v])
        /\ at[v] = "recording" /\ Renders => Image(v) \in outputs
        /\ at[v] \in {"starting", "nextMap", "drawing", "recording", "publishing"} =>
             status[v].phase \in {"preparing", "working"} /\ Recorded(status[v])
        /\ at[v] \in {"reporting", "closing", "retrying", "returning"} =>
             status[v].phase \in TerminalPhases
        /\ status[v].phase = "completed" =>
             /\ status[v].index = job.maps /\ Recorded(status[v])
             /\ at[v] # "retrying"
             /\ at[v] \in {"closing", "returning"} => reportFile = "completed"
<1>a. TypeOK /\ ClaimInv /\ WriterInv /\ at \in [Workers -> Places]
      /\ status \in [Workers -> Statuses] /\ status[w] \in Statuses
  BY DEF RenderInv, TypeOK
<1>b. /\ outputs \subseteq outputs' /\ Published \subseteq Published'
      /\ Renders' = Renders /\ job' = job
      /\ reportFile # None => reportFile' = reportFile
  BY FilesOnlyAppear
<1>c. ASSUME NEW v \in Workers \ {w}
      PROVE  Fits(v)'
  <2>1. at'[v] = at[v] /\ status'[v] = status[v]
    BY DEF WorkerFrame
  <2>2. at[v] \notin {"gone", "claiming"} => UNCHANGED reportFile
    BY <1>a DEF WorkerFrame, ClaimInv
  <2>3. Fits(v)
    BY <1>a DEF WriterInv
  <2> QED BY <1>b, <2>1, <2>2, <2>3 DEF Covered, Recorded, Image, CurrentMap
<1>d. SUFFICES Fits(w)'
  BY <1>c DEF WriterInv
<1>e. Fits(w) /\ status[w].index \in Nat
  BY <1>a, StatusParts DEF WriterInv
<1>f. TerminalPhases = {"completed", "cancelled", "failed"}
  BY DEF TerminalPhases
(* Where the worker changes no more of its status than the phase, what the *)
(* status says is still there.                                             *)
<1>g. ASSUME at[w] \notin {"gone", "claiming"}, status'[w].files = status[w].files,
             status'[w].index = status[w].index
      PROVE  Covered(status[w])' /\ (Recorded(status[w]) => Recorded(status[w])')
  BY <1>b, <1>e, <1>g DEF Covered, Recorded
<1>1. CASE Claim(w)
  <2>1. CASE claimed = {} /\ Goes(w, "starting") /\ status' = [status EXCEPT ![w] = Preparing]
    <3>1. at'[w] = "starting" /\ status'[w] = Preparing
      BY <1>a, <2>1 DEF Goes
    <3> QED BY <3>1 DEF Preparing, Covered, Recorded
  <2>2. CASE Leaves(w, 2)
    BY <1>a, <2>2 DEF Leaves, Goes
  <2> QED BY <1>1, <2>1, <2>2 DEF Claim
<1>2. CASE Start(w)
  <2>1. at'[w] = "nextMap" /\ status'[w] = status[w]
    BY <1>2, <1>a DEF Start, Goes
  <2> QED BY <1>2, <1>b, <1>e, <1>f, <1>g, <2>1 DEF Start
<1>3. CASE NextMap(w)
  <2>1. /\ at'[w] = "drawing" /\ status'[w] = [status[w] EXCEPT !.phase = "working"]
    BY <1>3, <1>a DEF NextMap, Goes
  <2>2. /\ status'[w].phase = "working" /\ status'[w].files = status[w].files
        /\ status'[w].index = status[w].index
    BY <1>a, <2>1 DEF Statuses
  <2> QED BY <1>3, <1>b, <1>e, <1>f, <1>g, <2>1, <2>2 DEF NextMap
<1>4. CASE PublishImage(w)
  <2>1. at'[w] = "recording" /\ status'[w] = status[w]
    BY <1>4, <1>a DEF PublishImage, Goes
  <2> QED BY <1>4, <1>b, <1>e, <1>f, <1>g, <2>1 DEF PublishImage, Image, CurrentMap
<1>5. CASE Inspect(w)
  <2>1. at'[w] = "recording" /\ status'[w] = status[w]
    BY <1>5, <1>a DEF Inspect, Goes, files, processVars
  <2> QED BY <1>5, <1>b, <1>e, <1>f, <1>g, <2>1 DEF Inspect
<1>6. CASE RecordMap(w)
  <2>1. /\ at'[w] = "publishing"
        /\ status'[w] = [Counted(w) EXCEPT !.files = @ \cup {Checkpoint(w)}]
        /\ outputs' = outputs \cup {Checkpoint(w)} /\ reportFile' = reportFile
    BY <1>6, <1>a DEF RecordMap, Goes
  <2>2. /\ status'[w].phase = status[w].phase
        /\ status'[w].index = status[w].index + 1
        /\ status'[w].files = Listing(w) \cup {Checkpoint(w)}
    BY <1>a, <2>1, CountedIsAStatus DEF Statuses
  <2>3. Covered(status[w]) /\ Recorded(status[w]) /\ (Renders => Image(w) \in outputs)
        /\ status[w].phase \in {"preparing", "working"}
    BY <1>6, <1>e DEF RecordMap
  <2>4. Listing(w) \cup {Checkpoint(w)} \subseteq Published'
    BY <1>b, <2>1, <2>3 DEF Listing, Covered, Published
  <2>5. \A n \in 1 .. status'[w].index : n \in 1 .. status[w].index \/ n = CurrentMap(w)
    BY <1>e, <2>2 DEF CurrentMap
  <2>6. Covered(status[w])'
    BY <1>b, <2>2, <2>3, <2>4, <2>5 DEF Covered, Image
  <2>7. Recorded(status[w])'
    BY <1>b, <2>1, <2>3, <2>5 DEF Recorded, Checkpoint
  <2> QED BY <2>1, <2>2, <2>3, <2>6, <2>7
<1>7. CASE PublishMap(w)
  <2>1. at'[w] = "nextMap" /\ status'[w] = status[w]
    BY <1>7, <1>a DEF PublishMap, Goes
  <2> QED BY <1>7, <1>b, <1>e, <1>f, <1>g, <2>1 DEF PublishMap
<1>8. CASE Finish(w)
  <2>1. /\ at'[w] = "reporting" /\ status'[w] = [status[w] EXCEPT !.phase = "completed"]
    BY <1>8, <1>a DEF Finish, Goes, files
  <2>2. /\ status'[w].phase = "completed" /\ status'[w].files = status[w].files
        /\ status'[w].index = status[w].index
    BY <1>a, <2>1 DEF Statuses
  <2> QED BY <1>8, <1>b, <1>e, <1>f, <1>g, <2>1, <2>2 DEF Finish
<1>9. CASE StopForCancel(w)
  <2>1. /\ at'[w] = "reporting" /\ status'[w] = [status[w] EXCEPT !.phase = "cancelled"]
    BY <1>9, <1>a DEF StopForCancel, Goes, files
  <2>2. /\ status'[w].phase = "cancelled" /\ status'[w].files = status[w].files
        /\ status'[w].index = status[w].index
    BY <1>a, <2>1 DEF Statuses
  <2> QED BY <1>9, <1>b, <1>e, <1>f, <1>g, <2>1, <2>2 DEF StopForCancel
<1>10. CASE Throw(w)
  <2>1. PICK s \in {status[w]} \cup (IF at[w] = "recording" THEN {Counted(w)} ELSE {}) :
          status' = [status EXCEPT ![w] = [s EXCEPT !.phase = "failed"]]
    BY <1>10 DEF Throw
  <2>2. at'[w] = "reporting" /\ UNCHANGED <<outputs, reportFile>>
    BY <1>10, <1>a DEF Throw, Goes, files
  <2>3. at[w] \notin {"gone", "claiming"}
    BY <1>10 DEF Throw, Guarded
  <2>4. s \in Statuses /\ status'[w] = [s EXCEPT !.phase = "failed"]
    BY <1>a, <2>1, CountedIsAStatus
  <2>5. status'[w].phase = "failed" /\ status'[w].files = s.files /\ status'[w].index = s.index
    BY <2>4 DEF Statuses
  <2>6. s.files \subseteq Published /\ (Renders => \A n \in 1 .. s.index : <<n, "png">> \in outputs)
    <3>1. CASE s = status[w]
      BY <1>e, <2>3, <3>1 DEF Covered
    <3>2. CASE at[w] = "recording" /\ s = Counted(w)
      <4>1. s.index = status[w].index + 1 /\ s.files = Listing(w)
        BY <3>2, <1>a, CountedIsAStatus
      <4>2. Covered(status[w]) /\ (Renders => Image(w) \in outputs)
        BY <1>e, <3>2
      <4>3. \A n \in 1 .. s.index : n \in 1 .. status[w].index \/ n = CurrentMap(w)
        BY <1>e, <4>1 DEF CurrentMap
      <4> QED BY <4>1, <4>2, <4>3 DEF Covered, Listing, Image, Published
    <3> QED BY <2>1, <3>1, <3>2
  <2>7. Covered(status[w])'
    BY <1>b, <2>5, <2>6 DEF Covered
  <2> QED BY <1>f, <2>2, <2>5, <2>7
<1>11. CASE WriteReport(w)
  <2>1. /\ at'[w] = "closing" /\ at[w] = "reporting"
        /\ status'[w] = [status[w] EXCEPT !.files = @ \cup {ReportName}]
        /\ reportFile' = status[w].phase /\ outputs' = outputs
    BY <1>11, <1>a DEF WriteReport, Goes
  <2>2. /\ status'[w].phase = status[w].phase /\ status'[w].index = status[w].index
        /\ status'[w].files = status[w].files \cup {ReportName}
    BY <1>a, <2>1 DEF Statuses
  <2>3. reportFile' # None
    BY <1>a, <2>1, StatusParts, NoneAssumption DEF NoneAssumption
  <2>4. ReportName \in Published'
    BY <2>3 DEF Published
  <2>5. Covered(status[w])' /\ (Recorded(status[w]) => Recorded(status[w])')
    BY <1>b, <1>e, <2>1, <2>2, <2>4 DEF Covered, Recorded
  <2> QED BY <1>b, <1>e, <2>1, <2>2, <2>5
<1>12. CASE Close(w)
  <2>1. at'[w] = "returning" /\ status'[w] = status[w]
    BY <1>12, <1>a DEF Close, Goes
  <2> QED BY <1>12, <1>b, <1>e, <1>f, <1>g, <2>1 DEF Close
<1>13. CASE CannotClose(w)
  <2>1. at'[w] = "retrying" /\ status'[w] = [status[w] EXCEPT !.phase = Unpublished(@)]
    BY <1>13, <1>a DEF CannotClose, Goes
  <2>2. /\ status'[w].phase = Unpublished(status[w].phase) /\ status'[w].files = status[w].files
        /\ status'[w].index = status[w].index
    BY <1>a, <2>1 DEF Statuses
  <2>3. status'[w].phase \in {"cancelled", "failed"}
    BY <1>13, <1>e, <1>f, <2>2 DEF CannotClose, Unpublished
  <2> QED BY <1>13, <1>f, <1>g, <2>1, <2>2, <2>3 DEF CannotClose
<1>14. CASE Retry(w)
  <2>1. at'[w] = "returning" /\ status'[w] = status[w]
    BY <1>14, <1>a DEF Retry, Goes
  <2> QED BY <1>14, <1>b, <1>e, <1>f, <1>g, <2>1 DEF Retry
<1>15. CASE Return(w)
  BY <1>15, <1>a DEF Return, Leaves, Goes
<1> QED BY <1>1, <1>2, <1>3, <1>4, <1>5, <1>6, <1>7, <1>8, <1>9, <1>10, <1>11, <1>12, <1>13,
           <1>14, <1>15 DEF WorkerStep

LEMMA EverythingMade ==
  ASSUME NEW request \in Jobs, NEW made_files,
         \A n \in 1 .. request.maps : <<n, "checkpoint">> \in made_files,
         "png" \in ToSet(request.kinds) =>
           \A n \in 1 .. request.maps : <<n, "png">> \in made_files
  PROVE  OutputNames(request) \subseteq made_files
<1>1. ToSet(request.kinds) \in {{"checkpoint"}, {"png", "checkpoint"}}
  BY RenderJobsAssumption DEF RenderJobsAssumption
<1> QED BY <1>1 DEF OutputNames

LEMMA WorkerKeepsBacking ==
  ASSUME RenderInv, NEW w \in Workers, WorkerFrame(w), WriterInv'
  PROVE  StatusIsBacked'
<1>a. /\ outputs \subseteq outputs' /\ Published \subseteq Published'
      /\ Renders' = Renders /\ job' = job
      /\ reportFile # None => reportFile' = reportFile
  BY FilesOnlyAppear
<1>1. CASE UNCHANGED statusFile
  <2>1. StatusIsBacked /\ None # "completed"
    BY NoneAssumption DEF RenderInv, NoneAssumption, Phases
  <2> QED BY <1>1, <1>a, <2>1 DEF StatusIsBacked, OutputNames
<1>2. CASE /\ at[w] \notin {"gone", "claiming"} /\ statusFile' = status'[w]
           /\ at'[w] \in {"nextMap", "drawing", "returning"}
  <2>1. /\ Covered(status[w])'
        /\ at'[w] \in {"nextMap", "drawing"} => status'[w].phase \in {"preparing", "working"}
        /\ status'[w].phase = "completed" =>
             /\ status'[w].index = job'.maps /\ Recorded(status[w])'
             /\ at'[w] \in {"closing", "returning"} => reportFile' = "completed"
    BY <1>2 DEF WriterInv
  <2>2. job' \in Jobs
    BY <1>a, <1>2 DEF RenderInv, TypeOK, ProcessInv
  <2>3. status'[w].phase = "completed" => OutputNames(job') \subseteq outputs'
    <3>1. SUFFICES ASSUME status'[w].phase = "completed" PROVE OutputNames(job') \subseteq outputs'
      OBVIOUS
    <3>2. \A n \in 1 .. job'.maps : <<n, "checkpoint">> \in outputs'
      BY <2>1, <3>1 DEF Recorded
    <3>3. "png" \in ToSet(job'.kinds) => \A n \in 1 .. job'.maps : <<n, "png">> \in outputs'
      BY <2>1, <3>1 DEF Covered, Renders
    <3> QED BY <2>2, <3>2, <3>3, EverythingMade
  <2> QED BY <1>2, <2>1, <2>3 DEF StatusIsBacked, Covered
<1> QED BY <1>1, <1>2 DEF WorkerFrame

LEMMA WorkerKeepsController ==
  ASSUME RenderInv, NEW w \in Workers, WorkerFrame(w)
  PROVE  TypeOK' /\ ProcessInv' /\ AskedInv' /\ ShownInv'
<1> USE DEF RenderInv, WorkerFrame, controllerVars, processVars
<1>a. TypeOK
  OBVIOUS
<1>b. status[w] \in Statuses /\ status'[w] \in Statuses
  BY <1>a DEF TypeOK
<1>1. TypeOK'
  <2>1. outputs \subseteq outputs' /\ claimed' \subseteq Workers
    BY <1>a DEF TypeOK
  <2>2. statusFile' \in Statuses \cup {None} /\ reportFile' \in Phases \cup {None}
    BY <1>a, <1>b, StatusParts DEF TypeOK
  <2>3. process' \in {"none", "running", "stopping", "exited"} /\ exitCode' \in Int \cup {None}
    BY <1>a DEF TypeOK
  <2> QED BY <1>a, <2>1, <2>2, <2>3 DEF TypeOK
<1>2. ProcessInv'
  BY <1>a, WorkersDiffer DEF ProcessInv, Alive
<1>3. AskedInv'
  BY <1>a, <1>b, WorkersDiffer, StatusParts DEF AskedInv
<1>4. ShownInv'
  <2>1. Delivered => Delivered'
    BY FilesOnlyAppear
  <2> QED BY <1>a, <2>1 DEF ShownInv
<1> QED BY <1>1, <1>2, <1>3, <1>4

-----------------------------------------------------------------------------
(* The controller's steps keep the invariant.                              *)

ControllerStep == Cancel \/ CannotCancel \/ DeadlinePasses \/ Poll

(* Between start() and the end of a job the controller writes nothing but  *)
(* cancel.request, and does nothing to the process but terminate it.       *)
LEMMA ControllerFrame ==
  ASSUME ControllerStep
  PROVE  /\ UNCHANGED <<job, claimed, statusFile, reportFile, outputs, programVars, exitCode, made>>
         /\ process' = process \/ process' = Terminated(process)
         /\ cancelRequest => cancelRequest'
<1> USE DEF files, processVars, Terminates, CannotTerminate, EndsPoll
<1>1. CASE Cancel
  BY <1>1 DEF Cancel
<1>2. CASE CannotCancel
  BY <1>2 DEF CannotCancel
<1>3. CASE DeadlinePasses
  BY <1>3 DEF DeadlinePasses
<1>4. CASE PollExitCode
  BY <1>4 DEF PollExitCode
<1>5. CASE PollStatus
  BY <1>5 DEF PollStatus
<1>6. CASE PollUnreadable
  BY <1>6 DEF PollUnreadable
<1>7. CASE PollStopped
  BY <1>7 DEF PollStopped
<1>8. CASE EndBroken
  BY <1>8 DEF EndBroken
<1>9. CASE EndForced
  BY <1>9 DEF EndForced
<1>10. CASE EndAsReported
  BY <1>10 DEF EndAsReported
<1>11. CASE EndMismatched
  BY <1>11 DEF EndMismatched
<1>12. CASE PollContinue
  BY <1>12 DEF PollContinue
<1>13. CASE PollForce
  BY <1>13 DEF PollForce
<1>14. CASE PollCannotForce
  BY <1>14 DEF PollCannotForce
<1> QED BY <1>1, <1>2, <1>3, <1>4, <1>5, <1>6, <1>7, <1>8, <1>9, <1>10, <1>11, <1>12, <1>13, <1>14
    DEF ControllerStep, Poll

LEMMA ControllerKeepsWorkers ==
  ASSUME RenderInv, ControllerStep
  PROVE  ClaimInv' /\ WriterInv' /\ StatusIsBacked'
<1>1. UNCHANGED <<job, claimed, statusFile, reportFile, outputs, at, status>>
  BY ControllerFrame DEF programVars
<1>2. ClaimInv'
  BY <1>1 DEF RenderInv, ClaimInv
<1>3. WriterInv'
  BY <1>1 DEF RenderInv, WriterInv, Covered, Recorded, Published, Renders, Image, CurrentMap
<1>4. StatusIsBacked'
  BY <1>1 DEF RenderInv, StatusIsBacked, Published, Renders
<1> QED BY <1>2, <1>3, <1>4

LEMMA FailedShown ==
  ASSUME RenderInv
  PROVE  /\ Failed(shown) \in Statuses \cup {None}
         /\ running => Failed(shown) # None /\ Failed(shown).phase = "failed"
BY FailedIsAStatus DEF RenderInv, TypeOK, ProcessInv

LEMMA CancelledShown ==
  ASSUME RenderInv, running
  PROVE  /\ [shown EXCEPT !.phase = "cancelled"] \in Statuses
         /\ [shown EXCEPT !.phase = "cancelled"] # None
         /\ [shown EXCEPT !.phase = "cancelled"].phase = "cancelled"
BY MarkedIsAStatus DEF RenderInv, TypeOK, ProcessInv, Phases

LEMMA ControllerKeepsTypes ==
  ASSUME RenderInv, ControllerStep
  PROVE  TypeOK'
<1> USE DEF RenderInv, programVars, files, processVars
<1>a. /\ UNCHANGED <<job, claimed, statusFile, reportFile, outputs, programVars, exitCode, made>>
      /\ process' = process \/ process' = Terminated(process)
      /\ cancelRequest => cancelRequest'
  BY ControllerFrame
<1>b. TypeOK
  OBVIOUS
<1>c. /\ process' \in {"none", "running", "stopping", "exited"}
      /\ polling # "idle" => running /\ shown # None
  BY <1>a, <1>b DEF TypeOK, Terminated, ProcessInv
<1>1. CASE Cancel
  BY <1>1, <1>a, <1>b, <1>c
    DEF Cancel, TypeOK
<1>2. CASE CannotCancel
  BY <1>2, <1>a, <1>b, <1>c, FailedShown
    DEF CannotCancel, Fails, TypeOK
<1>3. CASE DeadlinePasses
  BY <1>3, <1>a, <1>b, <1>c
    DEF DeadlinePasses, TypeOK
<1>4. CASE PollExitCode
  BY <1>4, <1>a, <1>b, <1>c
    DEF PollExitCode, ExitCode, TypeOK
<1>5. CASE PollStatus
  BY <1>5, <1>a, <1>b, <1>c
    DEF PollStatus, TypeOK
<1>6. CASE PollUnreadable
  BY <1>6, <1>a, <1>b, <1>c, FailedShown
    DEF PollUnreadable, TypeOK
<1>7. CASE PollStopped
  BY <1>7, <1>a, <1>b, <1>c, CancelledShown
    DEF PollStopped, TypeOK
<1>8. CASE EndBroken
  BY <1>8, <1>a, <1>b, <1>c
    DEF EndBroken, EndsPoll, TypeOK
<1>9. CASE EndForced
  BY <1>9, <1>a, <1>b, <1>c, CancelledShown
    DEF EndForced, EndsPoll, TypeOK
<1>10. CASE EndAsReported
  BY <1>10, <1>a, <1>b, <1>c
    DEF EndAsReported, EndsPoll, TypeOK
<1>11. CASE EndMismatched
  BY <1>11, <1>a, <1>b, <1>c, FailedShown
    DEF EndMismatched, EndsPoll, Fails, TypeOK
<1>12. CASE PollContinue
  BY <1>12, <1>a, <1>b, <1>c, ShownWhileRunningIsAStatus
    DEF PollContinue, TypeOK
<1>13. CASE PollForce
  BY <1>13, <1>a, <1>b, <1>c, ShownWhileRunningIsAStatus
    DEF PollForce, TypeOK
<1>14. CASE PollCannotForce
  BY <1>14, <1>a, <1>b, <1>c, FailedShown
    DEF PollCannotForce, TypeOK
<1> QED BY <1>1, <1>2, <1>3, <1>4, <1>5, <1>6, <1>7, <1>8, <1>9, <1>10, <1>11, <1>12, <1>13, <1>14
    DEF ControllerStep, Poll

LEMMA ControllerKeepsProcess ==
  ASSUME RenderInv, ControllerStep
  PROVE  ProcessInv'
<1> USE DEF RenderInv, programVars, files, processVars
<1>a. /\ UNCHANGED <<job, claimed, statusFile, reportFile, outputs, programVars, exitCode, made>>
      /\ process' = process \/ process' = Terminated(process)
      /\ cancelRequest => cancelRequest'
  BY ControllerFrame
<1>b. TypeOK
  OBVIOUS
<1>1. CASE Cancel
  BY <1>1, <1>a, <1>b
    DEF Cancel, TypeOK, ProcessInv, Alive, Terminated
<1>2. CASE CannotCancel
  BY <1>2, <1>a, <1>b, FailedShown
    DEF CannotCancel, Fails, Terminates, CannotTerminate, Terminated, TypeOK, ProcessInv, Alive
<1>3. CASE DeadlinePasses
  BY <1>3, <1>a, <1>b
    DEF DeadlinePasses, TypeOK, ProcessInv, Alive, Terminated
<1>4. CASE PollExitCode
  BY <1>4, <1>a, <1>b
    DEF PollExitCode, ExitCode, TypeOK, ProcessInv, Alive, Terminated
<1>5. CASE PollStatus
  BY <1>5, <1>a, <1>b
    DEF PollStatus, TypeOK, ProcessInv, Alive, Terminated
<1>6. CASE PollUnreadable
  BY <1>6, <1>a, <1>b, FailedShown
    DEF PollUnreadable, Terminates, CannotTerminate, Terminated, TypeOK, ProcessInv, Alive
<1>7. CASE PollStopped
  BY <1>7, <1>a, <1>b, CancelledShown
    DEF PollStopped, ExitCode, TypeOK, ProcessInv, Alive, Terminated
<1>8. CASE EndBroken
  BY <1>8, <1>a, <1>b
    DEF EndBroken, EndsPoll, TypeOK, ProcessInv, Alive, Terminated
<1>9. CASE EndForced
  BY <1>9, <1>a, <1>b, CancelledShown
    DEF EndForced, EndsPoll, TypeOK, ProcessInv, Alive, Terminated
<1>10. CASE EndAsReported
  BY <1>10, <1>a, <1>b
    DEF EndAsReported, EndsPoll, Agree, TypeOK, ProcessInv, Alive, Terminated
<1>11. CASE EndMismatched
  BY <1>11, <1>a, <1>b, FailedShown
    DEF EndMismatched, EndsPoll, Fails, TypeOK, ProcessInv, Alive, Terminated
<1>12. CASE PollContinue
  BY <1>12, <1>a, <1>b, ShownWhileRunningIsAStatus
    DEF PollContinue, TypeOK, ProcessInv, Alive, Terminated
<1>13. CASE PollForce
  BY <1>13, <1>a, <1>b, ShownWhileRunningIsAStatus
    DEF PollForce, StopsNow, Terminates, Terminated, TypeOK, ProcessInv, Alive
<1>14. CASE PollCannotForce
  BY <1>14, <1>a, <1>b, FailedShown
    DEF PollCannotForce, StopsNow, Terminated, TypeOK, ProcessInv, Alive
<1> QED BY <1>1, <1>2, <1>3, <1>4, <1>5, <1>6, <1>7, <1>8, <1>9, <1>10, <1>11, <1>12, <1>13, <1>14
    DEF ControllerStep, Poll

LEMMA ControllerKeepsAsked ==
  ASSUME RenderInv, ControllerStep
  PROVE  AskedInv'
<1> USE DEF RenderInv, programVars, files, processVars
<1>a. /\ UNCHANGED <<job, claimed, statusFile, reportFile, outputs, programVars, exitCode, made>>
      /\ process' = process \/ process' = Terminated(process)
      /\ cancelRequest => cancelRequest'
  BY ControllerFrame
<1>b. TypeOK
  OBVIOUS
<1>1. CASE Cancel
  BY <1>1, <1>a, <1>b
    DEF Cancel, TypeOK, ProcessInv, AskedInv
<1>2. CASE CannotCancel
  BY <1>2, <1>a, <1>b, FailedShown
    DEF CannotCancel, Fails, Terminates, CannotTerminate, Terminated, TypeOK, ProcessInv, AskedInv
<1>3. CASE DeadlinePasses
  BY <1>3, <1>a, <1>b
    DEF DeadlinePasses, TypeOK, ProcessInv, AskedInv
<1>4. CASE PollExitCode
  BY <1>4, <1>a, <1>b
    DEF PollExitCode, ExitCode, TypeOK, ProcessInv, AskedInv
<1>5. CASE PollStatus
  BY <1>5, <1>a, <1>b
    DEF PollStatus, TypeOK, ProcessInv, AskedInv
<1>6. CASE PollUnreadable
  BY <1>6, <1>a, <1>b, FailedShown
    DEF PollUnreadable, Terminates, CannotTerminate, Terminated, TypeOK, ProcessInv, AskedInv
<1>7. CASE PollStopped
  BY <1>7, <1>a, <1>b, CancelledShown
    DEF PollStopped, ExitCode, TypeOK, ProcessInv, AskedInv
<1>8. CASE EndBroken
  BY <1>8, <1>a, <1>b
    DEF EndBroken, EndsPoll, TypeOK, ProcessInv, AskedInv
<1>9. CASE EndForced
  BY <1>9, <1>a, <1>b, CancelledShown
    DEF EndForced, EndsPoll, TypeOK, ProcessInv, AskedInv
<1>10. CASE EndAsReported
  BY <1>10, <1>a, <1>b
    DEF EndAsReported, EndsPoll, Agree, TypeOK, ProcessInv, AskedInv
<1>11. CASE EndMismatched
  BY <1>11, <1>a, <1>b, FailedShown
    DEF EndMismatched, EndsPoll, Fails, TypeOK, ProcessInv, AskedInv
<1>12. CASE PollContinue
  BY <1>12, <1>a, <1>b, ShownWhileRunningIsAStatus
    DEF PollContinue, TypeOK, ProcessInv, AskedInv
<1>13. CASE PollForce
  BY <1>13, <1>a, <1>b, ShownWhileRunningIsAStatus
    DEF PollForce, StopsNow, Terminates, Terminated, TypeOK, ProcessInv, AskedInv
<1>14. CASE PollCannotForce
  BY <1>14, <1>a, <1>b, FailedShown
    DEF PollCannotForce, StopsNow, Terminated, TypeOK, ProcessInv, AskedInv
<1> QED BY <1>1, <1>2, <1>3, <1>4, <1>5, <1>6, <1>7, <1>8, <1>9, <1>10, <1>11, <1>12, <1>13, <1>14
    DEF ControllerStep, Poll

LEMMA ControllerKeepsShown ==
  ASSUME RenderInv, ControllerStep
  PROVE  ShownInv'
<1> USE DEF RenderInv, programVars, files, processVars
<1>a. /\ UNCHANGED <<job, claimed, statusFile, reportFile, outputs, programVars, exitCode, made>>
      /\ process' = process \/ process' = Terminated(process)
      /\ cancelRequest => cancelRequest'
  BY ControllerFrame
<1>b. TypeOK
  OBVIOUS
<1>c. Delivered' = Delivered
  BY <1>a DEF Delivered
<1>1. CASE Cancel
  BY <1>1, <1>a, <1>b, <1>c
    DEF Cancel, TypeOK, ProcessInv, ShownInv, TerminalPhases
<1>2. CASE CannotCancel
  BY <1>2, <1>a, <1>b, <1>c, FailedShown
    DEF CannotCancel, Fails, Terminates, CannotTerminate, Terminated, TypeOK, ProcessInv,
        ShownInv, TerminalPhases
<1>3. CASE DeadlinePasses
  BY <1>3, <1>a, <1>b, <1>c
    DEF DeadlinePasses, TypeOK, ProcessInv, ShownInv, TerminalPhases
<1>4. CASE PollExitCode
  BY <1>4, <1>a, <1>b, <1>c
    DEF PollExitCode, ExitCode, TypeOK, ProcessInv, ShownInv, TerminalPhases
<1>5. CASE PollStatus
  <2>1. None # "completed"
    BY NoneAssumption DEF NoneAssumption, Phases
  <2>2. running /\ job # None /\ ~ broken /\ statusFile # None
    BY <1>5 DEF PollStatus, ProcessInv, ShownInv
  <2>3. statusFile.phase = "completed" => Delivered
    BY <2>1, <2>2 DEF StatusIsBacked, Delivered
  <2> QED BY <1>5, <1>c, <2>2, <2>3 DEF PollStatus, ShownInv
<1>6. CASE PollUnreadable
  BY <1>6, <1>a, <1>b, <1>c, FailedShown
    DEF PollUnreadable, Terminates, CannotTerminate, Terminated, TypeOK, ProcessInv, ShownInv,
        TerminalPhases
<1>7. CASE PollStopped
  BY <1>7, <1>a, <1>b, <1>c, CancelledShown
    DEF PollStopped, ExitCode, TypeOK, ProcessInv, ShownInv, TerminalPhases
<1>8. CASE EndBroken
  BY <1>8, <1>a, <1>b, <1>c
    DEF EndBroken, EndsPoll, TypeOK, ProcessInv, ShownInv, TerminalPhases
<1>9. CASE EndForced
  BY <1>9, <1>a, <1>b, <1>c, CancelledShown
    DEF EndForced, EndsPoll, TypeOK, ProcessInv, ShownInv, TerminalPhases
<1>10. CASE EndAsReported
  BY <1>10, <1>a, <1>b, <1>c
    DEF EndAsReported, EndsPoll, Agree, TypeOK, ProcessInv, ShownInv, TerminalPhases
<1>11. CASE EndMismatched
  BY <1>11, <1>a, <1>b, <1>c, FailedShown
    DEF EndMismatched, EndsPoll, Fails, TypeOK, ProcessInv, ShownInv, TerminalPhases
<1>12. CASE PollContinue
  BY <1>12, <1>a, <1>b, <1>c, ShownWhileRunningIsAStatus
    DEF PollContinue, TypeOK, ProcessInv, ShownInv, TerminalPhases
<1>13. CASE PollForce
  BY <1>13, <1>a, <1>b, <1>c, ShownWhileRunningIsAStatus
    DEF PollForce, StopsNow, Terminates, Terminated, TypeOK, ProcessInv, ShownInv, TerminalPhases
<1>14. CASE PollCannotForce
  BY <1>14, <1>a, <1>b, <1>c, FailedShown
    DEF PollCannotForce, StopsNow, Terminated, TypeOK, ProcessInv, ShownInv, TerminalPhases
<1> QED BY <1>1, <1>2, <1>3, <1>4, <1>5, <1>6, <1>7, <1>8, <1>9, <1>10, <1>11, <1>12, <1>13, <1>14
    DEF ControllerStep, Poll

-----------------------------------------------------------------------------
(* A job begins, and the system's own steps.                               *)

LEMMA StartKeeps ==
  ASSUME RenderInv, StartJob
  PROVE  RenderInv'
<1> USE DEF RenderInv, StartJob, StartsAnew
<1>a. at' \in [Workers -> Places] /\ at'[Owned] = "claiming" /\ at'[Repeated] = "gone"
  BY WorkersDiffer DEF Places
<1>b. /\ status' = [w \in Workers |-> Preparing]
      /\ status' \in [Workers -> Statuses]
  BY PreparingIsAStatus
<1>c. job' \in Jobs /\ job' # None
  BY JobParts
<1>d. \A w \in Workers : at'[w] \in {"gone", "claiming"}
  BY <1>a DEF Workers
<1>1. TypeOK'
  <2>1. made' \in Nat /\ polling' \in {"idle"} /\ code' \in Int \cup {None}
    BY DEF TypeOK
  <2> QED BY <1>a, <1>b, <1>c, <2>1, PreparingIsAStatus DEF TypeOK
<1>2. ProcessInv'
  BY <1>a, <1>c, PreparingIsAStatus DEF ProcessInv, Alive, TypeOK
<1>3. ClaimInv' /\ WriterInv' /\ StatusIsBacked'
  BY <1>d DEF ClaimInv, WriterInv, StatusIsBacked, Preparing
<1>4. AskedInv' /\ ShownInv'
  BY <1>b, WorkersDiffer, PreparingIsAStatus DEF AskedInv, ShownInv, TerminationCode
<1> QED BY <1>1, <1>2, <1>3, <1>4

LEMMA RefuseKeeps ==
  ASSUME RenderInv, RefuseJob
  PROVE  RenderInv'
<1> USE DEF RenderInv, RefuseJob, StartsAnew
<1>a. at' \in [Workers -> Places] /\ \A w \in Workers : at'[w] = "gone"
  BY DEF Places
<1>b. /\ status' = [w \in Workers |-> Preparing]
      /\ status' \in [Workers -> Statuses]
  BY PreparingIsAStatus
<1>c. ~ Alive /\ polling = "idle" /\ TypeOK
  BY DEF ProcessInv
<1>d. UNCHANGED processVars \/ (process' = "none" /\ exitCode' = None)
  OBVIOUS
<1>e. statusFile' \in {None, Preparing} /\ shown' \in {None, Failed(Preparing)}
      /\ job' \in Jobs \cup {None}
  OBVIOUS
<1>f. /\ Failed(Preparing) \in Statuses /\ Failed(Preparing) # None
      /\ Failed(Preparing).phase = "failed"
  BY PreparingIsAStatus, FailedIsAStatus
<1>1. TypeOK'
  <2>1. process' \in {"none", "running", "stopping", "exited"} /\ exitCode' \in Int \cup {None}
    BY <1>c, <1>d DEF TypeOK, processVars
  <2>2. statusFile' \in Statuses \cup {None} /\ shown' \in Statuses \cup {None}
    BY <1>e, <1>f, PreparingIsAStatus
  <2>3. made' \in Nat /\ polling' \in {"idle"} /\ code' \in Int \cup {None}
    BY <1>c DEF TypeOK
  <2> QED BY <1>a, <1>b, <1>e, <2>1, <2>2, <2>3 DEF TypeOK
<1>2. ProcessInv'
  BY <1>a, <1>c, <1>d, WorkersDiffer DEF ProcessInv, Alive, processVars
<1>3. ClaimInv' /\ WriterInv' /\ StatusIsBacked'
  BY <1>a, <1>e DEF ClaimInv, WriterInv, StatusIsBacked, Preparing
<1>4. AskedInv'
  BY <1>b, WorkersDiffer, PreparingIsAStatus DEF AskedInv
<1>5. ShownInv'
  BY <1>c, <1>e, <1>f DEF ShownInv, TerminalPhases
<1> QED BY <1>1, <1>2, <1>3, <1>4, <1>5

LEMMA LostKeeps ==
  ASSUME RenderInv, OwnedWorkerLost
  PROVE  RenderInv'
<1> USE DEF RenderInv, OwnedWorkerLost
<1>a. /\ UNCHANGED <<files, status, controllerVars>>
      /\ Alive /\ process' = "exited" /\ exitCode' \in Int
      /\ at' = [at EXCEPT ![Owned] = "gone"]
  BY CodesAssumption DEF Dies, Crashes, Exit, Goes, Alive, CodesAssumption, TerminationCode
<1>b. /\ at' \in [Workers -> Places] /\ at'[Owned] = "gone"
      /\ \A w \in Workers : at'[w] # "gone" => at'[w] = at[w]
  BY <1>a, WorkersDiffer DEF TypeOK, Places
<1> USE DEF files, controllerVars
<1>1. TypeOK'
  BY <1>a, <1>b DEF TypeOK
<1>2. ProcessInv'
  BY <1>a, <1>b DEF ProcessInv, Alive
<1>3. ClaimInv' /\ WriterInv' /\ StatusIsBacked'
  <2>1. ClaimInv'
    BY <1>a, <1>b DEF ClaimInv
  <2>2. WriterInv'
    BY <1>a, <1>b DEF WriterInv, Covered, Recorded, Published, Renders, Image, CurrentMap
  <2>3. StatusIsBacked'
    BY <1>a DEF StatusIsBacked, Published, Renders
  <2> QED BY <2>1, <2>2, <2>3
<1>4. AskedInv'
  <2>1. exitCode' = TerminationCode => process = "stopping"
    BY LossAssumption DEF LossAssumption, Dies, Crashes, Exit
  <2> QED BY <1>a, <2>1 DEF AskedInv
<1>5. ShownInv'
  BY <1>a DEF ShownInv, Delivered
<1> QED BY <1>1, <1>2, <1>3, <1>4, <1>5

LEMMA RunByHandKeeps ==
  ASSUME RenderInv, RunByHand
  PROVE  RenderInv'
<1> USE DEF RenderInv, RunByHand, RunAgain, files, controllerVars, processVars
<1>a. /\ UNCHANGED <<files, status, processVars, controllerVars>> /\ job # None
      /\ at' = [at EXCEPT ![Repeated] = "claiming"]
  BY DEF Goes
<1>b. /\ at' \in [Workers -> Places] /\ at'[Owned] = at[Owned]
      /\ \A w \in Workers : at'[w] # "claiming" => at'[w] = at[w]
  BY <1>a, WorkersDiffer DEF TypeOK, Places
<1>1. TypeOK'
  BY <1>a, <1>b DEF TypeOK
<1>2. ProcessInv'
  BY <1>a, <1>b DEF ProcessInv, Alive
<1>3. ClaimInv' /\ WriterInv' /\ StatusIsBacked'
  <2>1. ClaimInv'
    BY <1>a, <1>b DEF ClaimInv
  <2>2. WriterInv'
    BY <1>a, <1>b DEF WriterInv, Covered, Recorded, Published, Renders, Image, CurrentMap
  <2>3. StatusIsBacked'
    BY <1>a DEF StatusIsBacked, Published, Renders
  <2> QED BY <2>1, <2>2, <2>3
<1>4. AskedInv' /\ ShownInv'
  BY <1>a DEF AskedInv, ShownInv, Delivered
<1> QED BY <1>1, <1>2, <1>3, <1>4

LEMMA InitKeeps == Init => RenderInv
<1> SUFFICES ASSUME Init PROVE RenderInv
  OBVIOUS
<1> USE DEF Init, RenderInv
<1>1. TypeOK
  <2>1. /\ at \in [Workers -> Places] /\ status \in [Workers -> Statuses]
    BY PreparingIsAStatus DEF Places
  <2> QED BY <2>1 DEF TypeOK
<1>2. ProcessInv /\ ClaimInv /\ WriterInv /\ StatusIsBacked
  BY WorkersDiffer DEF ProcessInv, ClaimInv, WriterInv, StatusIsBacked, Alive
<1>3. AskedInv /\ ShownInv
  BY WorkersDiffer, PreparingIsAStatus DEF AskedInv, ShownInv
<1> QED BY <1>1, <1>2, <1>3

LEMMA StutterKeeps ==
  ASSUME RenderInv, UNCHANGED vars
  PROVE  RenderInv'
<1> USE DEF vars, files, processVars, programVars, controllerVars
<1>1. TypeOK' /\ ProcessInv'
  BY DEF RenderInv, TypeOK, ProcessInv, Alive
<1>2. ClaimInv' /\ WriterInv' /\ StatusIsBacked'
  BY DEF RenderInv, ClaimInv, WriterInv, StatusIsBacked, Covered, Recorded, Published, Renders,
         Image, CurrentMap
<1>3. AskedInv' /\ ShownInv'
  BY DEF RenderInv, AskedInv, ShownInv, Delivered
<1> QED BY <1>1, <1>2, <1>3 DEF RenderInv

LEMMA NextKeeps ==
  ASSUME RenderInv, [Next]_vars
  PROVE  RenderInv'
<1>1. CASE StartJob
  BY <1>1, StartKeeps
<1>2. CASE RefuseJob
  BY <1>2, RefuseKeeps
<1>3. CASE ControllerStep
  BY <1>3, ControllerKeepsWorkers, ControllerKeepsTypes, ControllerKeepsProcess,
     ControllerKeepsAsked, ControllerKeepsShown DEF RenderInv
<1>4. ASSUME NEW w \in Workers, WorkerStep(w), UNCHANGED controllerVars
      PROVE  RenderInv'
  <2>1. WorkerFrame(w)
    BY <1>4, WorkerStepFrame DEF RenderInv
  <2>2. ClaimInv' /\ WriterInv'
    BY <1>4, <2>1, WorkerKeepsClaim, WorkerKeepsWriter
  <2>3. StatusIsBacked'
    BY <2>1, <2>2, WorkerKeepsBacking
  <2> QED BY <2>1, <2>2, <2>3, WorkerKeepsController DEF RenderInv
<1>5. CASE OwnedWorkerLost
  BY <1>5, LostKeeps
<1>6. CASE RunByHand
  BY <1>6, RunByHandKeeps
<1>7. CASE UNCHANGED vars
  BY <1>7, StutterKeeps
<1> QED BY <1>1, <1>2, <1>3, <1>4, <1>5, <1>6, <1>7, WorkersDiffer
  DEF Next, ControllerStep, OwnedWorkerStep, RepeatedWorkerStep

(* At every moment of poll(), start() and cancel(), of the worker's        *)
(* run_job and of the system, what the controller believes of the process, *)
(* the job directory and status.json is so.                                *)
THEOREM RenderInvariant == Spec => []RenderInv
<1>1. RenderInv /\ [Next]_vars => RenderInv'
  BY NextKeeps
<1> QED BY <1>1, InitKeeps, PTL DEF Spec

(* run_job publishes no status that is ahead of its files: what            *)
(* status.json lists or counts is there, and a job it calls completed has  *)
(* every file, and a report that says completed.                           *)
THEOREM StatusesAreBacked == Spec => []StatusIsBacked
<1>1. RenderInv => StatusIsBacked
  BY DEF RenderInv
<1> QED BY <1>1, RenderInvariant, PTL

-----------------------------------------------------------------------------
(* The promise to the rest of the preview.                                 *)

LEMMA RunningView ==
  ASSUME RenderInv, running
  PROVE  View = "running"
BY DEF RenderInv, ProcessInv, View

LEMMA EndedView ==
  ASSUME RenderInv, ~ running
  PROVE  View # "running" /\ ~ Alive
BY DEF RenderInv, ProcessInv, ShownInv, View, TerminalPhases

LEMMA PromiseInit == Init => Promise!Init
BY DEF Init, Promise!Init, View, Alive, Delivered

LEMMA BeginKept ==
  ASSUME RenderInv, StartJob \/ RefuseJob
  PROVE  Promise!Begin
<1>1. ~ running /\ View # "running" /\ ~ Alive
  BY EndedView DEF StartJob, RefuseJob, StartsAnew
<1>2. made' = made + 1 /\ made' # 0 /\ ~ cancelRequest' /\ ~ Delivered'
  BY DEF StartJob, RefuseJob, StartsAnew, RenderInv, TypeOK, Delivered
<1>3. CASE StartJob
  BY <1>1, <1>2, <1>3 DEF StartJob, View, Alive, Promise!Begin
<1>4. CASE RefuseJob
  <2>1. shown' = None \/ shown'.phase = "failed"
    BY <1>4, PreparingIsAStatus, FailedIsAStatus DEF RefuseJob
  <2>2. View' = "failed"
    BY <1>2, <1>4, <2>1 DEF RefuseJob, View
  <2>3. ~ Alive'
    BY <1>1, <1>4 DEF RefuseJob, Alive, processVars
  <2> QED BY <1>1, <1>2, <2>2, <2>3 DEF Promise!Begin
<1> QED BY <1>3, <1>4

(* What a step of the controller does to the process and the files the     *)
(* promise does not see.                                                   *)
LEMMA ControllerUnseen ==
  ASSUME RenderInv, ControllerStep
  PROVE  Alive' = Alive /\ Delivered' = Delivered
BY ControllerFrame DEF Alive, Delivered, Terminated

LEMMA ControllerKeepsPromise ==
  ASSUME RenderInv, ControllerStep
  PROVE  [Promise!Next]_Promise!promiseVars
<1>a. RenderInv'
  BY NextKeeps DEF Next, ControllerStep
<1>b. Alive' = Alive /\ Delivered' = Delivered
  BY ControllerUnseen
<1> SUFFICES Promise!Next \/ UNCHANGED Promise!promiseVars
  OBVIOUS
<1>1. CASE Cancel
  <2>1. View = "running" /\ View' = "running"
    BY <1>1, <1>a, RunningView DEF Cancel, View, RenderInv, ProcessInv
  <2> QED BY <1>1, <1>b, <2>1 DEF Cancel, Promise!Next, Promise!Ask
<1>2. CASE UNCHANGED <<running, cancelRequest>> /\ running
  <2>1. View = "running" /\ View' = "running"
    BY <1>2, <1>a DEF View, RenderInv, ProcessInv
  <2> QED BY <1>2, <1>b, <2>1 DEF Promise!promiseVars
<1>3. CASE UNCHANGED <<running, cancelRequest, shown, made>>
  BY <1>3, <1>b DEF Promise!promiseVars, View
<1>4. ASSUME running, ~ running', UNCHANGED <<cancelRequest, made>>
      PROVE  Promise!End
  <2>1. View = "running" /\ ~ Alive /\ shown \in Statuses
    BY <1>4, <1>a, <1>b, RunningView DEF RenderInv, TypeOK, ProcessInv
  <2>2. shown' # None /\ shown'.phase \in TerminalPhases /\ View' = shown'.phase
    <3>1. shown' # None
      <4>1. shown' \in {shown, Failed(shown), [shown EXCEPT !.phase = "cancelled"]}
        BY <1>4
        DEF ControllerStep, Poll, Cancel, CannotCancel, DeadlinePasses, PollExitCode, PollStatus,
            PollUnreadable, PollStopped, EndBroken, EndForced, EndAsReported, EndMismatched,
            Fails, PollContinue, PollForce, PollCannotForce
      <4>2. "cancelled" \in Phases
        BY DEF Phases
      <4> QED BY <1>4, <2>1, <4>1, <4>2, FailedShown, MarkedIsAStatus, StatusParts
    <3>2. made' # 0
      BY <1>4 DEF RenderInv, ProcessInv
    <3> QED BY <1>4, <1>a, <3>1, <3>2 DEF RenderInv, ShownInv, View
  <2>3. shown' \in {shown, Failed(shown), [shown EXCEPT !.phase = "cancelled"]}
    BY <1>4 DEF ControllerStep, Poll, Cancel, CannotCancel, DeadlinePasses, PollExitCode,
       PollStatus,
        PollUnreadable, PollStopped, EndBroken, EndForced, EndAsReported, EndMismatched,
        Fails, PollContinue, PollForce, PollCannotForce
  <2>4. shown'.phase = "completed" => Delivered
    BY <1>4, <2>3, FailedShown, CancelledShown DEF RenderInv, ShownInv
  <2>5. shown'.phase = "cancelled" => cancelRequest
    <3>1. CASE PollStopped \/ EndForced
      BY <1>4, <3>1 DEF PollStopped, EndForced, RenderInv, ShownInv, AskedInv
    <3>2. CASE EndBroken
      BY <1>4, <3>2 DEF EndBroken, RenderInv, ShownInv
    <3>3. CASE EndMismatched
      BY <1>4, <3>3, FailedShown DEF EndMismatched, Fails
    <3>4. CASE EndAsReported /\ shown.phase = "cancelled"
      <4>1. code = TerminationCode
        BY <3>4 DEF EndAsReported, Agree, TerminationCode
      <4>2. process = "exited" /\ exitCode = TerminationCode
        BY <3>4, <4>1 DEF EndAsReported, EndsPoll, RenderInv, ProcessInv
      <4> QED BY <1>4, <3>4, <4>2 DEF EndAsReported, RenderInv, AskedInv
    <3> QED BY <1>4, <3>1, <3>2, <3>3, <3>4
        DEF ControllerStep, Poll, Cancel, CannotCancel, DeadlinePasses, PollExitCode, PollStatus,
            PollUnreadable, EndAsReported, PollContinue, PollForce, PollCannotForce
  <2> QED BY <1>4, <1>b, <2>1, <2>2, <2>4, <2>5 DEF Promise!End, Promise!Ends, TerminalPhases
<1>5. \/ Cancel
      \/ UNCHANGED <<running, cancelRequest>> /\ running
      \/ UNCHANGED <<running, cancelRequest, shown, made>>
      \/ running /\ ~ running' /\ UNCHANGED <<cancelRequest, made>>
  BY DEF ControllerStep, Poll, CannotCancel, DeadlinePasses, PollExitCode, PollStatus,
     PollUnreadable, PollStopped, EndsPoll, EndBroken, EndForced, EndAsReported,
     EndMismatched, PollContinue, PollForce, PollCannotForce, files, RenderInv, ProcessInv, TypeOK
<1> QED BY <1>1, <1>2, <1>3, <1>4, <1>5 DEF Promise!Next

LEMMA WorkerKeepsPromise ==
  ASSUME RenderInv, NEW w \in Workers, WorkerStep(w), UNCHANGED controllerVars
  PROVE  [Promise!Next]_Promise!promiseVars
<1>a. WorkerFrame(w)
  BY WorkerStepFrame DEF RenderInv
<1>b. View' = View /\ cancelRequest' = cancelRequest
  BY <1>a DEF WorkerFrame, View, controllerVars
<1>c. Delivered => Delivered'
  BY <1>a, FilesOnlyAppear
<1>1. CASE UNCHANGED processVars /\ Delivered'
  <2>1. Alive' = Alive
    BY <1>1 DEF Alive, processVars
  <2> QED BY <1>1, <1>b, <2>1 DEF Promise!Next, Promise!Deliver
<1>2. CASE UNCHANGED processVars /\ ~ Delivered'
  <2>1. Alive' = Alive
    BY <1>2 DEF Alive, processVars
  <2>2. Delivered' = Delivered
    BY <1>2, <1>c DEF Delivered
  <2> QED BY <1>b, <2>1, <2>2 DEF Promise!promiseVars
<1>3. CASE w = Owned /\ process' = "exited" /\ UNCHANGED <<job, reportFile, outputs>>
  <2>1. Alive /\ ~ Alive'
    BY <1>3, <1>a DEF WorkerFrame, Alive
  <2>2. Delivered' = Delivered
    BY <1>3 DEF Delivered
  <2> QED BY <1>b, <2>1, <2>2 DEF Promise!Next, Promise!Stop
<1> QED BY <1>a, <1>1, <1>2, <1>3 DEF WorkerFrame

LEMMA StepKeepsPromise ==
  ASSUME RenderInv, [Next]_vars
  PROVE  [Promise!Next]_Promise!promiseVars
<1>1. CASE StartJob \/ RefuseJob
  BY <1>1, BeginKept DEF Promise!Next
<1>2. CASE ControllerStep
  BY <1>2, ControllerKeepsPromise
<1>3. CASE OwnedWorkerStep \/ RepeatedWorkerStep
  BY <1>3, WorkerKeepsPromise, WorkersDiffer DEF OwnedWorkerStep, RepeatedWorkerStep
<1>4. CASE OwnedWorkerLost
  <2>1. View' = View /\ cancelRequest' = cancelRequest /\ Delivered' = Delivered
    BY <1>4 DEF OwnedWorkerLost, Dies, Crashes, files, controllerVars, View, Delivered
  <2>2. Alive /\ ~ Alive'
    BY <1>4 DEF OwnedWorkerLost, Dies, Crashes, Exit, Alive
  <2> QED BY <2>1, <2>2 DEF Promise!Next, Promise!Stop
<1>5. CASE RunByHand \/ UNCHANGED vars
  <2>1. View' = View /\ cancelRequest' = cancelRequest /\ Delivered' = Delivered /\ Alive' = Alive
    BY <1>5 DEF RunByHand, RunAgain, vars, files, controllerVars, processVars, View, Delivered,
       Alive
  <2> QED BY <2>1 DEF Promise!promiseVars
<1> QED BY <1>1, <1>2, <1>3, <1>4, <1>5 DEF Next, ControllerStep

(* Seen through active(), status() and the files, every step of            *)
(* TerritoryRenderController, of its worker and of the system is one       *)
(* JobPromise allows: an ended job has no worker, a completed one          *)
(* everything it was asked for, a cancelled one was asked to stop.         *)
THEOREM RenderKeepsPromise == Spec => KeepsJobPromise
<1>1. RenderInv /\ [Next]_vars => [Promise!Next]_Promise!promiseVars
  BY StepKeepsPromise
<1> QED BY <1>1, PromiseInit, RenderInvariant, PTL DEF Spec, KeepsJobPromise, Promise!Spec

=============================================================================
