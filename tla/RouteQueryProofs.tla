-------------------------- MODULE RouteQueryProofs --------------------------
(***************************************************************************)
(* Proofs of the safety properties of RouteQuery, for all routes, crash    *)
(* codes and bounds.                                                       *)
(***************************************************************************)
EXTENDS RouteQuery, TLAPS

Places == {"gone", "claiming", "starting", "nextBackend", "querying", "searching", "verifying",
           "saving", "reporting", "closing", "returning"}

TypeOK ==
  /\ job \in Jobs \cup {None} /\ claimed \subseteq Workers
  /\ cancelRequest \in BOOLEAN /\ timeoutRequest \in BOOLEAN
  /\ inputs \in [RouteBackends -> {"asked", "early", "late"}]
  /\ statusFile \in Statuses \cup {None} /\ reportFile \in Reports \cup {None}
  /\ process \in {"none", "running", "stopping", "exited"} /\ exitCode \in Int \cup {None}
  /\ at \in [Workers -> Places] /\ status \in [Workers -> Statuses]
  /\ results \in [Workers -> RouteResults]
  /\ running \in BOOLEAN /\ forced \in BOOLEAN /\ timedOut \in BOOLEAN
  /\ wall \in {"ahead", "passed"} /\ deadline \in {"none", "armed", "passed"}
  /\ shown \in Statuses \cup {None} /\ answer \in RouteResults \cup {None}
  /\ polling \in {"idle", "code", "status", "decide"}
  /\ code \in Int \cup {None}

(* A job that is given up may leave its process, but one that runs has no  *)
(* answer, and the exit code a poll goes by is that of the process.        *)
ProcessInv ==
  /\ process = "exited" => exitCode \in Int
  /\ at[Owned] # "gone" => Alive
  /\ \A w \in Workers : at[w] # "gone" => job # None
  /\ polling # "idle" => running
  /\ running => job # None /\ answer = None
  /\ polling \in {"status", "decide"} /\ code # None => process = "exited" /\ exitCode = code

(* The backends that have been asked, and the results whose files were not *)
(* replaced while the worker still looked.                                 *)
Asked(n) == {job.kinds[i] : i \in 1 .. n}
Fresh(found) == \A b \in DOMAIN found : found[b] = "valid" => inputs[b] # "early"
Caused(found) == \A b \in DOMAIN found : found[b] = "cancelled" => cancelRequest

(* A worker past its claim is the only one, and has a result of every      *)
(* backend it has asked.                                                   *)
Fits(w) ==
  at[w] \notin {"gone", "claiming"} =>
    /\ claimed = {w}
    /\ DOMAIN results[w] = Asked(status[w].index) /\ status[w].index <= job.maps
    /\ Caused(results[w])
    /\ at[w] \in {"querying", "searching"} => status[w].index < job.maps
    /\ at[w] \in {"verifying", "saving", "reporting"} => status[w].index = job.maps
    /\ at[w] \in {"saving", "reporting"} => Fresh(results[w])
    /\ at[w] \notin {"closing", "returning"} =>
         reportFile = None /\ status[w].phase \in {"preparing", "working"}
    /\ at[w] \in {"closing", "returning"} =>
         reportFile # None /\ status[w].phase = PhaseOf(reportFile.results)

WriterInv == \A w \in Workers : Fits(w)

(* The report is of every backend, and the last status says the same.      *)
ReportInv ==
  /\ claimed = {} => reportFile = None
  /\ reportFile # None =>
       /\ job # None
       /\ DOMAIN reportFile.results = Backends
       /\ reportFile.code = CodeOf(PhaseOf(reportFile.results))
       /\ Fresh(reportFile.results) /\ Caused(reportFile.results)
  /\ statusFile # None /\ statusFile.phase \in TerminalPhases =>
       /\ reportFile # None /\ statusFile.phase = PhaseOf(reportFile.results)
       /\ \A w \in Workers : at[w] \in {"gone", "claiming", "returning"}

(* What stopped the job, while it runs: one deadline for one cause.        *)
CauseInv ==
  /\ ~ (cancelRequest /\ timeoutRequest)
  /\ running =>
       /\ timedOut <=> timeoutRequest
       /\ deadline # "none" <=> cancelRequest \/ timeoutRequest
       /\ forced => deadline # "none"

(* A last word that is shown stays the last word.                          *)
ShownInv ==
  running /\ shown # None /\ shown.phase \in TerminalPhases => shown = statusFile

AnswerInv ==
  answer # None =>
    /\ ~ running /\ process = "exited"
    /\ forced => \A b \in DOMAIN answer : answer[b] = (IF timeoutRequest THEN "limit" ELSE "cancelled")
    /\ forced => cancelRequest \/ timeoutRequest
    /\ ~ forced =>
         /\ reportFile # None /\ answer = reportFile.results
         /\ exitCode = CodeOf(PhaseOf(answer))
         /\ statusFile # None /\ statusFile.phase = PhaseOf(answer)

QueryInv ==
  TypeOK /\ ProcessInv /\ WriterInv /\ ReportInv /\ CauseInv /\ ShownInv /\ AnswerInv

-----------------------------------------------------------------------------
(* Requests, statuses, results and workers.                                *)

LEMMA JobParts ==
  ASSUME NEW request \in Jobs
  PROVE  request # None /\ request.maps \in Nat \ {0} /\ request.kinds \in Seq(Kinds)
BY JobsAssumption, NoneAssumption DEF JobsAssumption, NoneAssumption, Job

LEMMA WorkersDiffer == Owned \in Workers /\ Repeated \in Workers /\ Owned # Repeated
BY DEF Workers, Owned, Repeated

LEMMA PreparingIsAStatus ==
  Preparing \in Statuses /\ Preparing # None /\ Preparing.phase = "preparing" /\ Preparing.index = 0
<1>1. Preparing \in Statuses
  BY DEF Preparing, Statuses, Phases
<1> QED BY <1>1, NoneAssumption DEF NoneAssumption, Preparing

LEMMA MarkedIsAStatus ==
  ASSUME NEW s \in Statuses, NEW p \in Phases
  PROVE  /\ [s EXCEPT !.phase = p] \in Statuses
         /\ [s EXCEPT !.phase = p] # None
         /\ [s EXCEPT !.phase = p].phase = p
         /\ [s EXCEPT !.phase = p].index = s.index
<1>1. [s EXCEPT !.phase = p] \in Statuses
  BY DEF Statuses
<1> QED BY <1>1, NoneAssumption DEF NoneAssumption, Statuses

LEMMA CountedIsAStatus ==
  ASSUME NEW s \in Statuses
  PROVE  /\ [s EXCEPT !.index = @ + 1] \in Statuses
         /\ [s EXCEPT !.index = @ + 1].index = s.index + 1
         /\ [s EXCEPT !.index = @ + 1].phase = s.phase
BY DEF Statuses

LEMMA StatusParts ==
  ASSUME NEW s \in Statuses
  PROVE  s # None /\ s.phase \in Phases /\ s.index \in Nat
BY NoneAssumption DEF NoneAssumption, Statuses

LEMMA RouteParts ==
  ASSUME NEW request \in Jobs
  PROVE  /\ request # None /\ request.kinds \in Seq(Kinds) /\ request.maps = Len(request.kinds)
         /\ request.maps \in Nat /\ ToSet(request.kinds) \subseteq RouteBackends
         /\ ToSet(request.kinds) = {request.kinds[i] : i \in 1 .. request.maps}
<1>1. /\ request.kinds \in Seq(Kinds) /\ request.maps = Len(request.kinds)
      /\ ToSet(request.kinds) \subseteq RouteBackends
  BY JobParts, RoutesAssumption DEF RoutesAssumption
<1>2. ToSet(request.kinds) = {request.kinds[i] : i \in 1 .. request.maps}
  BY <1>1 DEF ToSet
<1> QED BY <1>1, <1>2, JobParts

LEMMA ResultsAre ==
  ASSUME NEW found
  PROVE  found \in RouteResults <=>
           \E asked \in SUBSET RouteBackends : found \in [asked -> RouteStatus]
BY DEF RouteResults

LEMMA ResultParts ==
  ASSUME NEW found \in RouteResults
  PROVE  /\ DOMAIN found \subseteq RouteBackends
         /\ found \in [DOMAIN found -> RouteStatus]
         /\ \A b \in DOMAIN found : found[b] \in RouteStatus
<1>1. PICK asked \in SUBSET RouteBackends : found \in [asked -> RouteStatus]
  BY ResultsAre
<1> QED BY <1>1

LEMMA NoResults == << >> \in RouteResults /\ DOMAIN << >> = {}
<1>1. << >> \in [{} -> RouteStatus]
  OBVIOUS
<1> QED BY <1>1, ResultsAre

(* One more result.                                                        *)
LEMMA OneMoreResult ==
  ASSUME NEW found \in RouteResults, NEW b \in RouteBackends, NEW result \in RouteStatus
  PROVE  /\ With(found, b, result) \in RouteResults
         /\ DOMAIN With(found, b, result) = DOMAIN found \cup {b}
         /\ \A c \in DOMAIN found \cup {b} :
              With(found, b, result)[c] = IF c = b THEN result ELSE found[c]
<1>1. With(found, b, result) \in [DOMAIN found \cup {b} -> RouteStatus]
  BY ResultParts DEF With
<1>2. DOMAIN found \cup {b} \in SUBSET RouteBackends
  BY ResultParts
<1>3. With(found, b, result) \in RouteResults
  BY <1>1, <1>2, ResultsAre
<1> QED BY <1>3 DEF With

LEMMA PhasesOfResults ==
  ASSUME NEW found
  PROVE  /\ PhaseOf(found) \in TerminalPhases /\ PhaseOf(found) \in Phases
         /\ CodeOf(PhaseOf(found)) \in {0, 130, 3}
         /\ CodeOf(PhaseOf(found)) = 0 <=> PhaseOf(found) = "completed"
         /\ CodeOf(PhaseOf(found)) = 130 <=> PhaseOf(found) = "cancelled"
         /\ CodeOf(PhaseOf(found)) = 3 <=> PhaseOf(found) = "failed"
<1>1. PhaseOf(found) \in {"completed", "cancelled", "failed"}
  BY DEF PhaseOf
<1> QED BY <1>1 DEF CodeOf, TerminalPhases, Phases

-----------------------------------------------------------------------------
(* What a worker's step leaves alone.                                      *)

(* Everything of the job but what is the worker's own, and status.json,    *)
(* the report and the claim are changed by nobody but their holder.        *)
WorkerFrame(w) ==
  /\ UNCHANGED <<job, cancelRequest, timeoutRequest, inputs, controllerVars>>
  /\ at[w] # "gone" /\ (w = Owned => Alive)
  /\ at' \in [Workers -> Places] /\ status' \in [Workers -> Statuses]
  /\ results' \in [Workers -> RouteResults]
  /\ \A v \in Workers \ {w} : at'[v] = at[v] /\ status'[v] = status[v] /\ results'[v] = results[v]
  /\ at'[w] # "claiming" /\ (at'[w] = "closing" => at[w] = "reporting")
  /\ \/ UNCHANGED processVars /\ (w = Owned => at'[w] # "gone")
     \/ w = Owned /\ at'[w] = "gone" /\ process' = "exited" /\ exitCode' \in Int
  /\ \/ UNCHANGED claimed
     \/ claimed = {} /\ claimed' = {w} /\ at[w] = "claiming"
  /\ \/ UNCHANGED statusFile
     \/ /\ at[w] \in {"starting", "nextBackend", "saving", "closing"} /\ statusFile' = status'[w]
        /\ status'[w].phase \in TerminalPhases => at[w] = "closing" /\ at'[w] = "returning"
  /\ \/ UNCHANGED reportFile
     \/ /\ reportFile = None /\ at[w] = "reporting"
        /\ reportFile' = [results |-> results[w], code |-> CodeOf(PhaseOf(results[w]))]

LEMMA LeavesStep ==
  ASSUME TypeOK, NEW w \in Workers, NEW c \in Int, Leaves(w, c)
  PROVE  /\ at' \in [Workers -> Places] /\ at'[w] = "gone"
         /\ \A v \in Workers \ {w} : at'[v] = at[v]
         /\ \/ UNCHANGED processVars /\ w # Owned
            \/ w = Owned /\ process' = "exited" /\ exitCode' \in Int
<1>1. at' = [at EXCEPT ![w] = "gone"]
  BY DEF Leaves, Goes
<1>2. at \in [Workers -> Places] /\ "gone" \in Places
  BY DEF TypeOK, Places
<1> QED BY <1>1, <1>2 DEF Leaves, Exit

LEMMA GoesStep ==
  ASSUME TypeOK, NEW w \in Workers, NEW place \in Places, Goes(w, place)
  PROVE  /\ at' \in [Workers -> Places] /\ at'[w] = place
         /\ \A v \in Workers \ {w} : at'[v] = at[v]
BY DEF Goes, TypeOK

(* A worker gives its own status a phase.                                  *)
LEMMA PhaseStep ==
  ASSUME TypeOK, NEW w \in Workers, NEW p \in Phases,
         status' = [status EXCEPT ![w].phase = p]
  PROVE  /\ status' \in [Workers -> Statuses]
         /\ status'[w].phase = p /\ status'[w].index = status[w].index
         /\ \A v \in Workers \ {w} : status'[v] = status[v]
<1>1. status \in [Workers -> Statuses] /\ status[w] \in Statuses
  BY DEF TypeOK
<1>2. status'[w] = [status[w] EXCEPT !.phase = p]
  BY <1>1
<1>3. status' = [status EXCEPT ![w] = [status[w] EXCEPT !.phase = p]]
  BY <1>1
<1>4. [status[w] EXCEPT !.phase = p] \in Statuses
  BY <1>1, MarkedIsAStatus
<1> QED BY <1>1, <1>2, <1>3, <1>4, MarkedIsAStatus

(* The backend a worker is at.                                             *)
LEMMA BackendStep ==
  ASSUME TypeOK, ProcessInv, WriterInv, NEW w \in Workers, at[w] \in {"querying", "searching"}
  PROVE  /\ Backend(w) \in RouteBackends /\ Backend(w) \in Backends
         /\ Asked(status[w].index + 1) = Asked(status[w].index) \cup {Backend(w)}
         /\ status[w].index + 1 <= job.maps /\ status[w].index \in Nat
<1>1. job \in Jobs /\ status[w].index \in Nat /\ status[w].index < job.maps
  BY StatusParts DEF TypeOK, ProcessInv, WriterInv, Fits
<1>2. job.maps \in Nat /\ Backends = {job.kinds[i] : i \in 1 .. job.maps} /\ Backends \subseteq RouteBackends
  BY <1>1, RouteParts DEF Backends
<1>3. status[w].index + 1 \in 1 .. job.maps
  BY <1>1, <1>2
<1>4. Backend(w) \in Backends
  BY <1>2, <1>3 DEF Backend
<1>5. 1 .. status[w].index + 1 = (1 .. status[w].index) \cup {status[w].index + 1}
  BY <1>1
<1>6. Asked(status[w].index + 1) = Asked(status[w].index) \cup {Backend(w)}
  BY <1>5 DEF Asked, Backend
<1> QED BY <1>1, <1>2, <1>3, <1>4, <1>6

(* One backend's result more, and on to the next.                          *)
LEMMA YieldsStep ==
  ASSUME TypeOK, ProcessInv, WriterInv, NEW w \in Workers, at[w] \in {"querying", "searching"},
         NEW result \in RouteStatus, Yields(w, result)
  PROVE  /\ UNCHANGED <<files, processVars>>
         /\ at' \in [Workers -> Places] /\ at'[w] = "nextBackend"
         /\ \A v \in Workers \ {w} : at'[v] = at[v]
         /\ status' \in [Workers -> Statuses]
         /\ status'[w].index = status[w].index + 1 /\ status'[w].phase = status[w].phase
         /\ \A v \in Workers \ {w} : status'[v] = status[v]
         /\ results' \in [Workers -> RouteResults]
         /\ DOMAIN results'[w] = DOMAIN results[w] \cup {Backend(w)}
         /\ \A b \in DOMAIN results'[w] :
              results'[w][b] = result \/ (b \in DOMAIN results[w] /\ results'[w][b] = results[w][b])
         /\ \A v \in Workers \ {w} : results'[v] = results[v]
<1>a. /\ status \in [Workers -> Statuses] /\ status[w] \in Statuses
      /\ results \in [Workers -> RouteResults] /\ results[w] \in RouteResults
      /\ "nextBackend" \in Places
  BY DEF TypeOK, Places
<1>1. /\ at' \in [Workers -> Places] /\ at'[w] = "nextBackend"
      /\ \A v \in Workers \ {w} : at'[v] = at[v]
  BY <1>a, GoesStep DEF Yields
<1>2. status' = [status EXCEPT ![w] = [status[w] EXCEPT !.index = @ + 1]]
  BY <1>a DEF Yields
<1>3. /\ status' \in [Workers -> Statuses]
      /\ status'[w].index = status[w].index + 1 /\ status'[w].phase = status[w].phase
      /\ \A v \in Workers \ {w} : status'[v] = status[v]
  BY <1>a, <1>2, CountedIsAStatus
<1>4. /\ With(results[w], Backend(w), result) \in RouteResults
      /\ DOMAIN With(results[w], Backend(w), result) = DOMAIN results[w] \cup {Backend(w)}
      /\ \A c \in DOMAIN results[w] \cup {Backend(w)} :
           With(results[w], Backend(w), result)[c] = IF c = Backend(w) THEN result ELSE results[w][c]
  BY <1>a, BackendStep, OneMoreResult
<1>5. results' = [results EXCEPT ![w] = With(results[w], Backend(w), result)]
  BY <1>a DEF Yields
<1>6. results'[w] = With(results[w], Backend(w), result) /\ results' \in [Workers -> RouteResults]
      /\ \A v \in Workers \ {w} : results'[v] = results[v]
  BY <1>a, <1>4, <1>5
<1> QED BY <1>1, <1>3, <1>4, <1>6 DEF Yields

(* What the last look leaves of the results.                               *)
LEMMA VerifyStep ==
  ASSUME TypeOK, NEW w \in Workers, Verify(w)
  PROVE  /\ results' \in [Workers -> RouteResults] /\ DOMAIN results'[w] = DOMAIN results[w]
         /\ \A b \in DOMAIN results[w] :
              /\ results'[w][b] = "cancelled" => results[w][b] = "cancelled"
              /\ results'[w][b] = "valid" => inputs[b] = "asked"
         /\ \A v \in Workers \ {w} : results'[v] = results[v]
<1> DEFINE kept == [b \in DOMAIN results[w] |-> Surviving(w, b)]
<1>a. results \in [Workers -> RouteResults] /\ results[w] \in RouteResults
  BY DEF TypeOK
<1>b. \A b \in DOMAIN results[w] : results[w][b] \in RouteStatus /\ Surviving(w, b) \in RouteStatus
  BY <1>a, ResultParts DEF Surviving, RouteStatus
<1>1. kept \in [DOMAIN results[w] -> RouteStatus]
  BY <1>b
<1>2. kept \in RouteResults
  BY <1>a, <1>1, ResultParts, ResultsAre
<1>3. results' = [results EXCEPT ![w] = kept]
  BY DEF Verify
<1>4. results'[w] = kept /\ results' \in [Workers -> RouteResults]
      /\ \A v \in Workers \ {w} : results'[v] = results[v]
  BY <1>a, <1>2, <1>3
<1> QED BY <1>4 DEF Surviving

LEMMA WorkerStepFrame ==
  ASSUME TypeOK, ProcessInv, WriterInv, NEW w \in Workers, WorkerStep(w), UNCHANGED controllerVars
  PROVE  WorkerFrame(w)
<1> USE DEF WorkerFrame
<1>a. /\ at \in [Workers -> Places] /\ status \in [Workers -> Statuses]
      /\ status[w] \in Statuses /\ results \in [Workers -> RouteResults]
  BY DEF TypeOK
<1>b. /\ {"starting", "nextBackend", "querying", "searching", "verifying", "saving", "reporting",
         "closing", "returning"} \subseteq Places
      /\ {"working", "completed", "cancelled", "failed"} \subseteq Phases
  BY DEF Places, Phases
<1>c. Running(w) => at[w] # "gone" /\ (w = Owned => Alive)
  BY DEF Running
<1>e. at[w] \in {"starting", "nextBackend", "saving"} => status[w].phase \notin TerminalPhases
  BY DEF WriterInv, Fits, TerminalPhases
<1>d. UNCHANGED <<timeoutRequest, inputs>>
  BY DEF WorkerStep
<1>1. CASE Claim(w)
  <2>1. CASE claimed = {} /\ claimed' = claimed \cup {w} /\ Goes(w, "starting")
             /\ status' = [status EXCEPT ![w] = Preparing]
             /\ results' = [results EXCEPT ![w] = << >>] /\ UNCHANGED processVars
    <3>1. status' \in [Workers -> Statuses]
          /\ \A v \in Workers \ {w} : status'[v] = status[v]
      BY <2>1, <1>a, PreparingIsAStatus
    <3>2. /\ at' \in [Workers -> Places] /\ at'[w] = "starting"
          /\ \A v \in Workers \ {w} : at'[v] = at[v]
      BY <2>1, <1>b, GoesStep
    <3>3. results' \in [Workers -> RouteResults]
          /\ \A v \in Workers \ {w} : results'[v] = results[v]
      BY <2>1, <1>a, NoResults
    <3> QED BY <2>1, <3>1, <3>2, <3>3, <1>1, <1>a, <1>c, <1>d DEF Claim
  <2>2. CASE Leaves(w, 2) /\ UNCHANGED <<claimed, status, results>>
    BY <2>2, <1>1, <1>a, <1>c, <1>d, LeavesStep DEF Claim
  <2> QED BY <1>1, <2>1, <2>2 DEF Claim
<1>2. CASE Start(w)
  BY <1>2, <1>a, <1>b, <1>c, <1>d, <1>e, GoesStep DEF Start, Publishes
<1>3. CASE NextBackend(w)
  <2>1. /\ status' \in [Workers -> Statuses] /\ status'[w].phase = "working"
        /\ \A v \in Workers \ {w} : status'[v] = status[v]
    BY <1>3, <1>b, PhaseStep DEF NextBackend
  <2>2. /\ at' \in [Workers -> Places] /\ at'[w] = "querying"
        /\ \A v \in Workers \ {w} : at'[v] = at[v]
    BY <1>3, <1>b, GoesStep DEF NextBackend
  <2> QED BY <1>3, <2>1, <2>2, <1>a, <1>c, <1>d DEF NextBackend, Publishes, TerminalPhases
<1>4. CASE Stage(w)
  BY <1>4, <1>a, <1>b, <1>c, <1>d, GoesStep DEF Stage, files, processVars
<1>5. CASE \E result \in RouteStatus : Yields(w, result) /\ Running(w)
             /\ at[w] \in {"querying", "searching"}
  BY <1>5, <1>c, <1>d, YieldsStep DEF files, processVars
<1>6. CASE Finish(w)
  BY <1>6, <1>a, <1>b, <1>c, <1>d, GoesStep DEF Finish, files, processVars
<1>7. CASE Verify(w)
  <2>1. /\ at' \in [Workers -> Places] /\ at'[w] = "saving"
        /\ \A v \in Workers \ {w} : at'[v] = at[v]
    BY <1>7, <1>b, GoesStep DEF Verify
  <2> QED BY <1>7, <2>1, <1>a, <1>c, <1>d, VerifyStep DEF Verify, files, processVars
<1>8. CASE Save(w)
  BY <1>8, <1>a, <1>b, <1>c, <1>d, <1>e, GoesStep DEF Save, Publishes
<1>9. CASE Report(w)
  <2>1. /\ status' \in [Workers -> Statuses]
        /\ \A v \in Workers \ {w} : status'[v] = status[v]
    BY <1>9, PhasesOfResults, PhaseStep DEF Report
  <2>2. /\ at' \in [Workers -> Places] /\ at'[w] = "closing"
        /\ \A v \in Workers \ {w} : at'[v] = at[v]
    BY <1>9, <1>b, GoesStep DEF Report
  <2> QED BY <1>9, <2>1, <2>2, <1>a, <1>c, <1>d DEF Report
<1>10. CASE Close(w)
  BY <1>10, <1>a, <1>b, <1>c, <1>d, GoesStep DEF Close, Publishes
<1>11. CASE Abandon(w)
  BY <1>11, <1>a, <1>c, <1>d, LeavesStep DEF Abandon, files
<1>12. CASE Return(w)
  <2>1. CodeOf(status[w].phase) \in Int
    BY <1>12, PhasesOfResults DEF WriterInv, Fits, Return
  <2> QED BY <1>12, <2>1, <1>a, <1>c, <1>d, LeavesStep DEF Return, files
<1>13. Answer(w) \/ Miss(w) \/ StopForTimeout(w) \/ StopForCancel(w) =>
         \E result \in RouteStatus : Yields(w, result) /\ Running(w)
             /\ at[w] \in {"querying", "searching"}
  BY DEF Answer, Miss, StopForTimeout, StopForCancel, RouteStatus
<1> QED BY <1>1, <1>2, <1>3, <1>4, <1>5, <1>6, <1>7, <1>8, <1>9, <1>10, <1>11, <1>12, <1>13
        DEF WorkerStep

-----------------------------------------------------------------------------
(* The worker's steps keep the invariant.                                  *)

LEMMA WorkerKeepsController ==
  ASSUME QueryInv, NEW w \in Workers, WorkerFrame(w)
  PROVE  TypeOK' /\ ProcessInv' /\ CauseInv' /\ ShownInv' /\ AnswerInv'
<1> USE DEF QueryInv, WorkerFrame, controllerVars, processVars
<1>a. TypeOK /\ results[w] \in RouteResults /\ status'[w] \in Statuses
  BY DEF TypeOK
<1>b. [results |-> results[w], code |-> CodeOf(PhaseOf(results[w]))] \in Reports
  BY <1>a, PhasesOfResults DEF Reports
<1>1. TypeOK'
  <2>1. claimed' \subseteq Workers /\ statusFile' \in Statuses \cup {None}
        /\ reportFile' \in Reports \cup {None}
    BY <1>a, <1>b DEF TypeOK
  <2>2. process' \in {"none", "running", "stopping", "exited"} /\ exitCode' \in Int \cup {None}
    BY <1>a DEF TypeOK
  <2> QED BY <1>a, <2>1, <2>2 DEF TypeOK
<1>2. ProcessInv'
  BY <1>a, WorkersDiffer DEF ProcessInv, Alive
<1>3. CauseInv'
  BY DEF CauseInv
<1>4. ShownInv'
  BY <1>a DEF ShownInv, ReportInv
<1>5. AnswerInv'
  <2>1. SUFFICES ASSUME answer # None PROVE AnswerInv'
    BY DEF AnswerInv
  <2>2. w # Owned /\ UNCHANGED processVars
    BY <2>1 DEF AnswerInv, Alive
  <2>3. ~ forced => UNCHANGED <<reportFile, statusFile>>
    BY <2>1, PhasesOfResults DEF AnswerInv, ReportInv
  <2> QED BY <2>1, <2>2, <2>3 DEF AnswerInv
<1> QED BY <1>1, <1>2, <1>3, <1>4, <1>5

LEMMA WorkerFits ==
  ASSUME QueryInv, NEW w \in Workers, WorkerStep(w), WorkerFrame(w)
  PROVE  Fits(w)'
<1>a. TypeOK /\ at \in [Workers -> Places] /\ job' = job /\ inputs' = inputs
      /\ cancelRequest' = cancelRequest
      /\ status \in [Workers -> Statuses] /\ status[w] \in Statuses
      /\ results \in [Workers -> RouteResults]
  BY DEF QueryInv, TypeOK, WorkerFrame
<1>b. Fits(w) /\ ReportInv /\ status[w].index \in Nat
  BY <1>a, StatusParts DEF QueryInv, WriterInv, Fits
<1>c. Running(w) /\ at[w] # "claiming" => job \in Jobs /\ job.maps \in Nat
  BY <1>a, RouteParts DEF QueryInv, TypeOK, ProcessInv, Running
<1>d. Running(w) => job \in Jobs /\ job.maps \in Nat
  BY <1>a, RouteParts DEF QueryInv, TypeOK, ProcessInv, Running
<1>1. CASE Claim(w)
  <2>1. CASE /\ claimed = {} /\ claimed' = claimed \cup {w} /\ Goes(w, "starting")
             /\ status' = [status EXCEPT ![w] = Preparing]
             /\ results' = [results EXCEPT ![w] = << >>]
    <3>1. at'[w] = "starting" /\ status'[w] = Preparing /\ results'[w] = << >>
      BY <1>a, <2>1 DEF Goes
    <3>2. reportFile' = None
      BY <1>1, <1>b, <2>1 DEF Claim, ReportInv
    <3>3. DOMAIN results'[w] = {} /\ 1 .. 0 = {}
      BY <3>1, NoResults
    <3>4. Asked(status[w].index)' = {}
      BY <3>1, <3>3, PreparingIsAStatus DEF Asked
    <3>5. job \in Jobs /\ job.maps \in Nat
      BY <1>1, <1>d DEF Claim
    <3> QED BY <1>a, <2>1, <3>1, <3>2, <3>3, <3>4, <3>5, PreparingIsAStatus DEF Fits, Caused
  <2>2. CASE Leaves(w, 2)
    BY <1>a, <2>2 DEF Leaves, Goes, Fits
  <2> QED BY <1>1, <2>1, <2>2 DEF Claim
<1>2. CASE Start(w)
  <2>1. at'[w] = "nextBackend" /\ UNCHANGED <<claimed, reportFile, status, results>>
    BY <1>2, <1>a DEF Start, Goes
  <2> QED BY <1>2, <1>a, <1>b, <2>1 DEF Start, Fits, Asked, Caused
<1>3. CASE NextBackend(w)
  <2>1. at'[w] = "querying" /\ UNCHANGED <<claimed, reportFile, results>>
        /\ status'[w] = [status[w] EXCEPT !.phase = "working"]
    BY <1>3, <1>a DEF NextBackend, Goes
  <2>2. status'[w].phase = "working" /\ status'[w].index = status[w].index
    BY <1>a, <2>1 DEF Statuses
  <2> QED BY <1>3, <1>a, <1>b, <2>1, <2>2 DEF NextBackend, Fits, Asked, Caused
<1>4. CASE Stage(w)
  <2>1. at'[w] = "searching" /\ UNCHANGED <<claimed, reportFile, status, results>>
    BY <1>4, <1>a DEF Stage, Goes, files
  <2> QED BY <1>4, <1>a, <1>b, <2>1 DEF Stage, Fits, Asked, Caused
<1>5. CASE \E result \in RouteStatus :
             Yields(w, result) /\ Running(w) /\ at[w] \in {"querying", "searching"}
             /\ (result = "cancelled" => cancelRequest)
  <2>1. PICK result \in RouteStatus :
          Yields(w, result) /\ Running(w) /\ at[w] \in {"querying", "searching"}
          /\ (result = "cancelled" => cancelRequest)
    BY <1>5
  <2>2. /\ UNCHANGED <<files, processVars>> /\ at'[w] = "nextBackend"
        /\ status'[w].index = status[w].index + 1 /\ status'[w].phase = status[w].phase
        /\ DOMAIN results'[w] = DOMAIN results[w] \cup {Backend(w)}
        /\ \A b \in DOMAIN results'[w] :
             results'[w][b] = result \/ (b \in DOMAIN results[w] /\ results'[w][b] = results[w][b])
    BY <2>1, YieldsStep DEF QueryInv
  <2>3. /\ Asked(status[w].index + 1) = Asked(status[w].index) \cup {Backend(w)}
        /\ status[w].index + 1 <= job.maps
    BY <2>1, BackendStep DEF QueryInv
  <2>4. Asked(status[w].index)' = Asked(status[w].index + 1)
    BY <1>a, <2>2 DEF Asked
  <2>5. Caused(results[w])'
    BY <1>a, <1>b, <2>1, <2>2 DEF Fits, Caused
  <2>6. UNCHANGED <<claimed, reportFile>>
    BY <2>2 DEF files
  <2> QED BY <1>a, <1>b, <2>1, <2>2, <2>3, <2>4, <2>5, <2>6 DEF Fits
<1>6. CASE Finish(w)
  <2>1. at'[w] = "verifying" /\ UNCHANGED <<claimed, reportFile, status, results>>
    BY <1>6, <1>a DEF Finish, Goes, files
  <2> QED BY <1>6, <1>a, <1>b, <2>1 DEF Finish, Fits, Asked, Caused
<1>7. CASE Verify(w)
  <2>1. at'[w] = "saving" /\ UNCHANGED <<claimed, reportFile, status>>
    BY <1>7, <1>a DEF Verify, Goes, files
  <2>2. /\ DOMAIN results'[w] = DOMAIN results[w]
        /\ \A b \in DOMAIN results[w] :
              /\ results'[w][b] = "cancelled" => results[w][b] = "cancelled"
              /\ results'[w][b] = "valid" => inputs[b] = "asked"
    BY <1>7, <1>a, VerifyStep
  <2>3. Fresh(results[w])' /\ (Caused(results[w]) => Caused(results[w])')
    BY <1>a, <2>2 DEF Fresh, Caused
  <2> QED BY <1>7, <1>a, <1>b, <2>1, <2>2, <2>3 DEF Verify, Fits, Asked
<1>8. CASE Save(w)
  <2>1. at'[w] = "reporting" /\ UNCHANGED <<claimed, reportFile, status, results>>
    BY <1>8, <1>a DEF Save, Goes
  <2> QED BY <1>8, <1>a, <1>b, <2>1 DEF Save, Fits, Asked, Caused, Fresh
<1>9. CASE Report(w)
  <2>1. /\ at'[w] = "closing" /\ UNCHANGED <<claimed, results>>
        /\ reportFile' = [results |-> results[w], code |-> CodeOf(PhaseOf(results[w]))]
        /\ status'[w] = [status[w] EXCEPT !.phase = PhaseOf(results[w])]
    BY <1>9, <1>a DEF Report, Goes
  <2>2. status'[w].phase = PhaseOf(results[w]) /\ status'[w].index = status[w].index
    BY <1>a, <2>1 DEF Statuses
  <2>3. reportFile' # None
    <3>1. reportFile' \in Reports
      BY <1>a, <2>1, PhasesOfResults DEF Reports
    <3> QED BY <3>1, RoutesAssumption DEF RoutesAssumption
  <2> QED BY <1>9, <1>a, <1>b, <2>1, <2>2, <2>3 DEF Report, Fits, Asked, Caused
<1>10. CASE Close(w)
  <2>1. at'[w] = "returning" /\ UNCHANGED <<claimed, reportFile, status, results>>
    BY <1>10, <1>a DEF Close, Goes
  <2> QED BY <1>10, <1>a, <1>b, <2>1 DEF Close, Fits, Asked, Caused
<1>11. CASE Abandon(w) \/ Return(w)
  BY <1>11, <1>a DEF Abandon, Return, Leaves, Goes, Fits
<1>12. Answer(w) \/ Miss(w) \/ StopForTimeout(w) \/ StopForCancel(w) =>
         \E result \in RouteStatus :
             Yields(w, result) /\ Running(w) /\ at[w] \in {"querying", "searching"}
             /\ (result = "cancelled" => cancelRequest)
  BY DEF Answer, Miss, StopForTimeout, StopForCancel, RouteStatus
<1> QED BY <1>1, <1>2, <1>3, <1>4, <1>5, <1>6, <1>7, <1>8, <1>9, <1>10, <1>11, <1>12
       DEF WorkerStep

LEMMA WorkerKeepsWriter ==
  ASSUME QueryInv, NEW w \in Workers, WorkerStep(w), WorkerFrame(w)
  PROVE  WriterInv'
<1>1. ASSUME NEW v \in Workers \ {w}
      PROVE  Fits(v)'
  <2>1. /\ at'[v] = at[v] /\ status'[v] = status[v] /\ results'[v] = results[v]
        /\ job' = job /\ inputs' = inputs /\ cancelRequest' = cancelRequest
    BY DEF WorkerFrame
  <2>2. Fits(v)
    BY DEF QueryInv, WriterInv, Fits
  <2>3. at[v] \notin {"gone", "claiming"} => UNCHANGED <<claimed, reportFile>>
    BY <2>2 DEF QueryInv, WriterInv, WorkerFrame, Fits
  <2> QED BY <2>1, <2>2, <2>3 DEF Fits, Asked, Caused, Fresh
<1>2. Fits(w)'
  BY WorkerFits
<1> QED BY <1>1, <1>2 DEF WriterInv

LEMMA WorkerKeepsReport ==
  ASSUME QueryInv, NEW w \in Workers, WorkerFrame(w), WriterInv'
  PROVE  ReportInv'
<1>a. /\ UNCHANGED <<job, inputs, cancelRequest>>
      /\ \A v \in Workers \ {w} : at'[v] = at[v]
      /\ at[w] # "gone" /\ at'[w] # "claiming"
  BY DEF WorkerFrame
<1>b. TypeOK /\ WriterInv /\ ReportInv
  BY DEF QueryInv
<1>c. Fits(w)'
  BY DEF WriterInv
<1>1. claimed' = {} => reportFile' = None
  BY <1>b DEF WorkerFrame, WriterInv, Fits, ReportInv
<1>2. reportFile' # None =>
        /\ job' # None /\ DOMAIN reportFile'.results = Backends'
        /\ reportFile'.code = CodeOf(PhaseOf(reportFile'.results))
        /\ Fresh(reportFile.results)' /\ Caused(reportFile.results)'
  <2>1. CASE UNCHANGED reportFile
    BY <1>a, <1>b, <2>1 DEF ReportInv, Backends, Fresh, Caused
  <2>2. CASE /\ reportFile = None /\ at[w] = "reporting"
             /\ reportFile' = [results |-> results[w], code |-> CodeOf(PhaseOf(results[w]))]
    <3>1. job \in Jobs
      BY <2>2 DEF QueryInv, TypeOK, ProcessInv
    <3>2. /\ DOMAIN results[w] = Asked(job.maps)
          /\ Fresh(results[w]) /\ Caused(results[w])
      BY <1>b, <2>2 DEF WriterInv, Fits
    <3>3. Asked(job.maps) = Backends /\ job # None
      BY <3>1, RouteParts DEF Asked, Backends
    <3>4. reportFile'.results = results[w]
          /\ reportFile'.code = CodeOf(PhaseOf(reportFile'.results))
      BY <2>2
    <3>5. \A b \in DOMAIN reportFile'.results :
            /\ reportFile'.results[b] = "valid" => inputs'[b] # "early"
            /\ reportFile'.results[b] = "cancelled" => cancelRequest'
      BY <1>a, <3>2, <3>4 DEF Fresh, Caused
    <3> QED BY <1>a, <3>2, <3>3, <3>4, <3>5 DEF Backends, Fresh, Caused
  <2> QED BY <2>1, <2>2 DEF WorkerFrame
<1>3. statusFile' # None /\ statusFile'.phase \in TerminalPhases =>
        /\ reportFile' # None /\ statusFile'.phase = PhaseOf(reportFile'.results)
        /\ \A v \in Workers : at'[v] \in {"gone", "claiming", "returning"}
  <2>1. SUFFICES ASSUME statusFile' # None, statusFile'.phase \in TerminalPhases
                 PROVE  /\ reportFile' # None /\ statusFile'.phase = PhaseOf(reportFile'.results)
                        /\ \A v \in Workers : at'[v] \in {"gone", "claiming", "returning"}
    OBVIOUS
  <2>2. CASE UNCHANGED statusFile
    <3>1. /\ reportFile # None /\ statusFile.phase = PhaseOf(reportFile.results)
          /\ \A v \in Workers : at[v] \in {"gone", "claiming", "returning"}
      BY <1>b, <2>1, <2>2 DEF ReportInv
    <3>2. UNCHANGED reportFile
      BY <3>1 DEF WorkerFrame
    <3>3. at'[w] \in {"gone", "claiming", "returning"}
      <4>1. at'[w] # "closing"
        BY <3>1 DEF WorkerFrame
      <4> QED BY <1>c, <3>1, <3>2, <4>1 DEF Fits
    <3> QED BY <1>a, <2>2, <3>1, <3>2, <3>3
  <2>3. CASE /\ at[w] \in {"starting", "nextBackend", "saving", "closing"} /\ statusFile' = status'[w]
             /\ status'[w].phase \in TerminalPhases => at[w] = "closing" /\ at'[w] = "returning"
    <3>1. at[w] = "closing" /\ at'[w] = "returning"
      BY <2>1, <2>3
    <3>2. reportFile' # None /\ statusFile'.phase = PhaseOf(reportFile'.results)
      BY <1>c, <2>3, <3>1 DEF Fits
    <3>3. \A v \in Workers \ {w} : at[v] \in {"gone", "claiming"}
      BY <1>b, <3>1 DEF WriterInv, Fits
    <3> QED BY <1>a, <3>1, <3>2, <3>3
  <2> QED BY <2>2, <2>3 DEF WorkerFrame
<1> QED BY <1>1, <1>2, <1>3 DEF ReportInv

-----------------------------------------------------------------------------
(* The controller's steps keep the invariant.                              *)

ControllerStep == Cancel \/ CannotCancel \/ WallPasses \/ DeadlinePasses \/ Poll

(* It writes its two requests, and tells the process to stop.              *)
LEMMA ControllerFrame ==
  ASSUME ControllerStep
  PROVE  /\ UNCHANGED <<job, claimed, statusFile, reportFile, outputs, inputs, workerVars>>
         /\ cancelRequest' \in {cancelRequest, TRUE} /\ timeoutRequest' \in {timeoutRequest, TRUE}
         /\ process' \in {process, Terminated(process)} /\ exitCode' = exitCode
         /\ (running' = running \/ (running' = FALSE /\ polling' = "idle"))
<1> USE DEF files, processVars, workerVars, programVars, Terminates, CannotTerminate, Fails
<1>1. CASE Cancel \/ CannotCancel \/ WallPasses \/ DeadlinePasses
  BY <1>1 DEF Cancel, CannotCancel, WallPasses, DeadlinePasses
<1>2. CASE PollWall \/ PollCannotWarn \/ PollForce \/ PollCannotForce \/ PollInTime
  BY <1>2 DEF PollWall, PollCannotWarn, PollForce, PollCannotForce, PollInTime
<1>3. CASE PollExitCode \/ PollStatus \/ PollUnreadable \/ PollContinue
  BY <1>3 DEF PollExitCode, PollStatus, PollUnreadable, PollContinue
<1>4. CASE EndForced \/ EndAsReported \/ EndDisagreeing
  BY <1>4 DEF EndForced, EndAsReported, EndDisagreeing, EndsPoll
<1> QED BY <1>1, <1>2, <1>3, <1>4 DEF ControllerStep, Poll

LEMMA ControllerKeepsWorkers ==
  ASSUME QueryInv, ControllerStep
  PROVE  WriterInv' /\ ReportInv'
<1>a. UNCHANGED <<job, claimed, statusFile, reportFile, inputs, at, status, results>>
  BY ControllerFrame DEF workerVars, programVars
<1>b. cancelRequest => cancelRequest'
  BY ControllerFrame DEF QueryInv, TypeOK
<1>1. WriterInv'
  <2>1. \A w \in Workers : Fits(w)
    BY DEF QueryInv, WriterInv
  <2>2. \A w \in Workers : Fits(w)'
    BY <1>a, <1>b, <2>1 DEF Fits, Asked, Fresh, Caused
  <2> QED BY <2>2 DEF WriterInv
<1>2. ReportInv'
  BY <1>a, <1>b DEF QueryInv, ReportInv, Backends, Fresh, Caused
<1> QED BY <1>1, <1>2

(* The answer a poll gives: the controller's own, or the report's.         *)
LEMMA AnswerStep ==
  ASSUME QueryInv, ControllerStep, answer' # answer
  PROVE  \/ answer' = None
         \/ EndForced /\ answer' \in RouteResults
         \/ EndAsReported /\ answer' \in RouteResults
<1> USE DEF QueryInv
<1>1. CASE EndForced
  <2>1. job \in Jobs /\ Backends \subseteq RouteBackends
    BY <1>1, RouteParts DEF EndForced, EndsPoll, TypeOK, ProcessInv, Backends
  <2>2. answer' \in [Backends -> RouteStatus]
    BY <1>1 DEF EndForced, RouteStatus
  <2> QED BY <1>1, <2>1, <2>2, ResultsAre
<1>2. CASE EndAsReported
  BY <1>2 DEF EndAsReported, Agrees, TypeOK, Reports
<1>3. CASE ~ EndForced /\ ~ EndAsReported
  BY <1>3
  DEF ControllerStep, Poll, Cancel, CannotCancel, WallPasses, DeadlinePasses, PollWall,
      PollCannotWarn, PollForce, PollCannotForce, PollInTime, PollExitCode, PollStatus,
      PollUnreadable, PollContinue, EndDisagreeing, Fails
<1> QED BY <1>1, <1>2, <1>3

LEMMA ControllerKeepsTypes ==
  ASSUME QueryInv, ControllerStep
  PROVE  TypeOK'
<1>a. TypeOK /\ ProcessInv
  BY DEF QueryInv
<1>1. process' \in {"none", "running", "stopping", "exited"}
  BY <1>a, ControllerFrame DEF TypeOK, Terminated
<1>2. answer' \in RouteResults \cup {None}
  BY <1>a, AnswerStep DEF TypeOK
<1>3. code' \in {code, ExitCode} /\ ExitCode \in Int \cup {None}
  <2>1. ExitCode \in Int \cup {None}
    BY <1>a DEF ProcessInv, ExitCode
  <2>2. code' \in {code, ExitCode}
    BY DEF ControllerStep, Poll, Cancel, CannotCancel, WallPasses, DeadlinePasses, PollWall,
      PollCannotWarn, PollForce, PollCannotForce, PollInTime, PollExitCode, PollStatus,
      PollUnreadable, PollContinue, EndsPoll, EndForced, EndAsReported, EndDisagreeing
  <2> QED BY <2>1, <2>2
<1>4. /\ forced' \in {forced, TRUE} /\ timedOut' \in {timedOut, TRUE}
      /\ wall' \in {wall, "passed"} /\ deadline' \in {deadline, "armed", "passed"}
      /\ shown' \in {shown, statusFile} /\ polling' \in {polling, "idle", "code", "status", "decide"}
  BY DEF ControllerStep, Poll, Cancel, CannotCancel, WallPasses, DeadlinePasses, PollWall,
      PollCannotWarn, PollForce, PollCannotForce, PollInTime, PollExitCode, PollStatus,
      PollUnreadable, PollContinue, EndsPoll, EndForced, EndAsReported, EndDisagreeing, Fails
<1>5. UNCHANGED <<job, claimed, statusFile, reportFile, inputs, exitCode, at, status, results>>
  BY ControllerFrame DEF workerVars, programVars
<1>6. cancelRequest' \in BOOLEAN /\ timeoutRequest' \in BOOLEAN /\ running' \in BOOLEAN
  BY <1>a, ControllerFrame DEF TypeOK
<1>7. /\ forced' \in BOOLEAN /\ timedOut' \in BOOLEAN
      /\ wall' \in {"ahead", "passed"} /\ deadline' \in {"none", "armed", "passed"}
      /\ shown' \in Statuses \cup {None} /\ polling' \in {"idle", "code", "status", "decide"}
      /\ code' \in Int \cup {None}
  <2>1. forced \in BOOLEAN /\ timedOut \in BOOLEAN
    BY <1>a DEF TypeOK
  <2>2. forced' \in BOOLEAN /\ timedOut' \in BOOLEAN
    BY <1>4, <2>1
  <2>3. wall' \in {"ahead", "passed"} /\ deadline' \in {"none", "armed", "passed"}
    BY <1>a, <1>4 DEF TypeOK
  <2>4. shown' \in Statuses \cup {None} /\ polling' \in {"idle", "code", "status", "decide"}
    BY <1>a, <1>4 DEF TypeOK
  <2>5. code' \in Int \cup {None}
    BY <1>a, <1>3 DEF TypeOK
  <2> QED BY <2>2, <2>3, <2>4, <2>5
<1> QED BY <1>a, <1>1, <1>2, <1>5, <1>6, <1>7 DEF TypeOK

LEMMA ControllerKeepsProcess ==
  ASSUME QueryInv, ControllerStep
  PROVE  ProcessInv'
<1>a. TypeOK /\ ProcessInv
  BY DEF QueryInv
<1>b. /\ UNCHANGED <<job, at, exitCode>> /\ process' \in {process, Terminated(process)}
      /\ (running' = running \/ (running' = FALSE /\ polling' = "idle"))
  BY ControllerFrame DEF workerVars, programVars
<1>c. Alive' = Alive /\ (process' = "exited" <=> process = "exited")
  BY <1>a, <1>b DEF Terminated, Alive, TypeOK
<1>1. polling' # "idle" => running'
  BY <1>a
  DEF ProcessInv, ControllerStep, Poll, Cancel, CannotCancel, CanCancel, WallPasses,
      DeadlinePasses,
      PollWall, PollCannotWarn, PollForce, PollCannotForce, PollInTime, PollExitCode, PollStatus,
      PollUnreadable, PollContinue, EndsPoll, EndForced, EndAsReported, EndDisagreeing, Fails
<1>2. running' => job' # None /\ answer' = None
  <2>1. SUFFICES ASSUME running' PROVE job' # None /\ answer' = None
    OBVIOUS
  <2>2. running /\ job # None /\ answer = None
    BY <1>a, <1>b, <2>1 DEF ProcessInv
  <2>3. answer' = None
    BY <2>1, <2>2, AnswerStep DEF EndForced, EndAsReported, EndsPoll
  <2> QED BY <1>b, <2>2, <2>3
<1>3. polling' \in {"status", "decide"} /\ code' # None => process' = "exited" /\ exitCode' = code'
  <2>1. CASE PollExitCode
    BY <1>b, <1>c, <2>1 DEF PollExitCode, ExitCode
  <2>2. CASE PollStatus
    BY <1>a, <1>b, <1>c, <2>2 DEF PollStatus, ProcessInv
  <2>3. CASE UNCHANGED <<polling, code>>
    BY <1>a, <1>b, <1>c, <2>3 DEF ProcessInv
  <2>4. CASE polling' \in {"idle", "code"}
    BY <2>4
  <2> QED BY <2>1, <2>2, <2>3, <2>4
  DEF ControllerStep, Poll, Cancel, CannotCancel, WallPasses, DeadlinePasses, PollWall,
      PollCannotWarn, PollForce, PollCannotForce, PollInTime, PollUnreadable, PollContinue,
      EndsPoll, EndForced, EndAsReported, EndDisagreeing, Fails
<1>4. /\ process' = "exited" => exitCode' \in Int
      /\ at'[Owned] # "gone" => Alive'
      /\ \A w \in Workers : at'[w] # "gone" => job' # None
  BY <1>a, <1>b, <1>c DEF ProcessInv
<1> QED BY <1>1, <1>2, <1>3, <1>4 DEF ProcessInv

LEMMA ControllerKeepsCause ==
  ASSUME QueryInv, ControllerStep
  PROVE  CauseInv'
<1> USE DEF QueryInv, CauseInv
<1>1. CASE Cancel
  BY <1>1 DEF Cancel, CanCancel
<1>2. CASE PollWall
  BY <1>2 DEF PollWall, OverLimit, files
<1>3. CASE PollForce
  BY <1>3 DEF PollForce, Overdue, files
<1>4. CASE DeadlinePasses
  BY <1>4 DEF DeadlinePasses, files
<1>5. CASE /\ UNCHANGED <<cancelRequest, timeoutRequest, timedOut, deadline, forced>>
           /\ (running' = running \/ running' = FALSE)
  BY <1>5
<1> QED BY <1>1, <1>2, <1>3, <1>4, <1>5, ControllerFrame
  DEF ControllerStep, Poll, CannotCancel, WallPasses, PollCannotWarn, PollCannotForce, PollInTime,
      PollExitCode, PollStatus, PollUnreadable, PollContinue, EndsPoll, EndForced, EndAsReported,
      EndDisagreeing, Fails, files

LEMMA ControllerKeepsShown ==
  ASSUME QueryInv, ControllerStep
  PROVE  ShownInv'
<1>1. shown' \in {shown, statusFile} /\ statusFile' = statusFile
  BY ControllerFrame DEF ControllerStep, Poll, Cancel, CannotCancel, WallPasses, DeadlinePasses,
      PollWall, PollCannotWarn, PollForce, PollCannotForce, PollInTime, PollExitCode, PollStatus,
      PollUnreadable, PollContinue, EndsPoll, EndForced, EndAsReported, EndDisagreeing
<1>2. running' => running
  BY ControllerFrame
<1> QED BY <1>1, <1>2 DEF QueryInv, ShownInv

LEMMA ControllerKeepsAnswer ==
  ASSUME QueryInv, ControllerStep
  PROVE  AnswerInv'
<1> USE DEF QueryInv
<1>1. CASE EndForced
  <2>1. process = "exited" /\ process' = "exited" /\ running /\ ~ running'
    BY <1>1 DEF EndForced, EndsPoll, ProcessInv, processVars
  <2>2. UNCHANGED <<cancelRequest, timeoutRequest, forced>> /\ forced
    BY <1>1 DEF EndForced, EndsPoll, files
  <2>3. (cancelRequest \/ timeoutRequest) /\ (timedOut <=> timeoutRequest)
    BY <2>1, <2>2 DEF CauseInv
  <2>4. \A b \in DOMAIN answer' : answer'[b] = (IF timeoutRequest' THEN "limit" ELSE "cancelled")
    BY <1>1, <2>2, <2>3 DEF EndForced
  <2> QED BY <2>1, <2>2, <2>3, <2>4 DEF AnswerInv
<1>2. CASE EndAsReported
  <2>1. /\ UNCHANGED <<reportFile, statusFile, process, exitCode, forced>>
        /\ process = "exited" /\ exitCode = code /\ ~ running' /\ running /\ ~ forced
    BY <1>2 DEF EndAsReported, EndsPoll, ProcessInv, processVars, files
  <2>2. /\ reportFile # None /\ answer' = reportFile.results
        /\ code = CodeOf(PhaseOf(reportFile.results))
    BY <1>2 DEF EndAsReported, Agrees, ReportInv
  <2>3. shown = statusFile /\ statusFile # None /\ statusFile.phase \in TerminalPhases
    BY <1>2, <2>1 DEF EndAsReported, Agrees, ShownInv, TerminalPhases
  <2>4. statusFile.phase = PhaseOf(reportFile.results)
    BY <2>3 DEF ReportInv
  <2> QED BY <2>1, <2>2, <2>3, <2>4 DEF AnswerInv
<1>3. CASE ~ EndForced /\ ~ EndAsReported /\ running
  BY <1>3, AnswerStep DEF AnswerInv, ProcessInv
<1>4. CASE ~ running
  <2>1. DeadlinePasses
    BY <1>4 DEF ControllerStep, Poll, Cancel, CannotCancel, CanCancel, WallPasses, PollWall,
      PollCannotWarn, PollForce, PollCannotForce, PollInTime, PollExitCode, PollStatus,
      PollUnreadable, PollContinue, EndsPoll, EndForced, EndAsReported, EndDisagreeing, ProcessInv
  <2> QED BY <2>1 DEF DeadlinePasses, AnswerInv, files, processVars
<1> QED BY <1>1, <1>2, <1>3, <1>4

-----------------------------------------------------------------------------
(* The other steps keep the invariant.                                     *)

LEMMA NewDirectoryParts ==
  ASSUME NewDirectory
  PROVE  /\ job' \in Jobs /\ job' # None
         /\ status' \in [Workers -> Statuses] /\ results' \in [Workers -> RouteResults]
         /\ inputs' \in [RouteBackends -> {"asked", "early", "late"}]
BY JobParts, PreparingIsAStatus, NoResults DEF NewDirectory, AllAsked

LEMMA StartKeeps ==
  ASSUME QueryInv, StartJob
  PROVE  QueryInv'
<1> USE DEF QueryInv, StartJob, Clears, NewDirectory
<1>a. at' \in [Workers -> Places] /\ \A w \in Workers : at'[w] \in {"gone", "claiming"}
  BY DEF Places
<1>1. TypeOK'
  BY <1>a, NewDirectoryParts DEF TypeOK
<1>2. ProcessInv'
  BY NewDirectoryParts DEF ProcessInv, Alive
<1>3. WriterInv' /\ ReportInv'
  BY <1>a DEF WriterInv, Fits, ReportInv
<1>4. CauseInv' /\ ShownInv' /\ AnswerInv'
  BY DEF CauseInv, ShownInv, AnswerInv
<1> QED BY <1>1, <1>2, <1>3, <1>4

LEMMA RefuseKeeps ==
  ASSUME QueryInv, RefuseJob
  PROVE  QueryInv'
<1> USE DEF QueryInv, RefuseJob, Clears
<1>a. /\ ~ running /\ ~ running' /\ polling' = "idle" /\ shown' = None /\ answer' = None
      /\ UNCHANGED <<process, exitCode, code>> /\ TypeOK /\ ProcessInv
  BY DEF TypeOK, processVars
<1>1. CASE UNCHANGED <<files, timeoutRequest, inputs, workerVars>>
  <2> USE DEF files, workerVars, programVars
  <2>1. TypeOK' /\ ProcessInv'
    BY <1>1, <1>a DEF TypeOK, ProcessInv, Alive
  <2>2. \A w \in Workers : Fits(w)'
    BY <1>1 DEF WriterInv, Fits, Asked, Fresh, Caused
  <2>3. ReportInv'
    BY <1>1 DEF ReportInv, Backends, Fresh, Caused
  <2>4. CauseInv' /\ ShownInv' /\ AnswerInv'
    BY <1>1, <1>a DEF CauseInv, ShownInv, AnswerInv
  <2> QED BY <2>1, <2>2, <2>3, <2>4 DEF WriterInv
<1>2. CASE NewDirectory /\ at' = [w \in Workers |-> "gone"]
  <2>1. at' \in [Workers -> Places] /\ \A w \in Workers : at'[w] = "gone"
    BY <1>2 DEF Places
  <2>2. TypeOK'
    BY <1>2, <1>a, <2>1, NewDirectoryParts DEF TypeOK, NewDirectory
  <2>3. ProcessInv'
    BY <1>a, <2>1, WorkersDiffer DEF ProcessInv
  <2>4. WriterInv' /\ ReportInv'
    BY <1>2, <2>1 DEF WriterInv, Fits, ReportInv, NewDirectory
  <2>5. CauseInv' /\ ShownInv' /\ AnswerInv'
    BY <1>2, <1>a DEF CauseInv, ShownInv, AnswerInv, NewDirectory
  <2> QED BY <2>2, <2>3, <2>4, <2>5
<1> QED BY <1>1, <1>2

LEMMA ReplaceKeeps ==
  ASSUME QueryInv, ReplaceInput
  PROVE  QueryInv'
<1> USE DEF QueryInv, files, processVars, workerVars, programVars, controllerVars
<1>a. UNCHANGED <<files, timeoutRequest, processVars, workerVars, controllerVars>>
  BY DEF ReplaceInput
<1>b. PICK b \in Backends : inputs' = [inputs EXCEPT ![b] = IF LastLookOver THEN "late" ELSE "early"]
  BY DEF ReplaceInput
<1>c. inputs \in [RouteBackends -> {"asked", "early", "late"}]
  BY DEF TypeOK
<1>d. /\ inputs' \in [RouteBackends -> {"asked", "early", "late"}]
      /\ \A c \in RouteBackends : LastLookOver /\ inputs'[c] = "early" => inputs[c] = "early"
  <2>1. inputs' \in [RouteBackends -> {"asked", "early", "late"}]
    BY <1>b, <1>c
  <2>2. ASSUME NEW c \in RouteBackends, LastLookOver, inputs'[c] = "early"
        PROVE  inputs[c] = "early"
    BY <1>b, <1>c, <2>2
  <2> QED BY <2>1, <2>2
<1>e. /\ \A w \in Workers : DOMAIN results[w] \subseteq RouteBackends
      /\ reportFile # None => DOMAIN reportFile.results \subseteq RouteBackends
  BY ResultParts DEF TypeOK, Reports
<1>1. TypeOK' /\ ProcessInv' /\ CauseInv' /\ ShownInv' /\ AnswerInv'
  BY <1>a, <1>d DEF TypeOK, ProcessInv, Alive, CauseInv, ShownInv, AnswerInv
<1>2. \A w \in Workers : Fits(w)'
  BY <1>a, <1>d, <1>e DEF WriterInv, Fits, Asked, Fresh, Caused, LastLookOver
<1>3. ReportInv'
  BY <1>a, <1>d, <1>e DEF ReportInv, Backends, Fresh, Caused, LastLookOver
<1> QED BY <1>1, <1>2, <1>3 DEF WriterInv

LEMMA LostKeeps ==
  ASSUME QueryInv, OwnedWorkerLost
  PROVE  QueryInv'
<1> USE DEF QueryInv, OwnedWorkerLost, files, controllerVars
<1>a. /\ UNCHANGED <<files, status, timeoutRequest, inputs, results, controllerVars>>
      /\ Alive /\ process' = "exited" /\ exitCode' \in Int
      /\ at' = [at EXCEPT ![Owned] = "gone"]
  BY CodesAssumption DEF Dies, Crashes, Exit, Goes, Alive, CodesAssumption, TerminationCode
<1>b. /\ at' \in [Workers -> Places] /\ at'[Owned] = "gone"
      /\ \A w \in Workers : at'[w] # "gone" => at'[w] = at[w]
      /\ \A w \in Workers : at'[w] \in {at[w], "gone"}
  BY <1>a, WorkersDiffer DEF TypeOK, Places
<1>1. TypeOK'
  BY <1>a, <1>b DEF TypeOK
<1>2. ProcessInv'
  BY <1>a, <1>b DEF ProcessInv, Alive
<1>3. \A w \in Workers : Fits(w)'
  BY <1>a, <1>b DEF WriterInv, Fits, Asked, Fresh, Caused
<1>4. ReportInv'
  BY <1>a, <1>b DEF ReportInv, Backends, Fresh, Caused
<1>5. CauseInv' /\ ShownInv' /\ AnswerInv'
  BY <1>a DEF CauseInv, ShownInv, AnswerInv, Alive
<1> QED BY <1>1, <1>2, <1>3, <1>4, <1>5 DEF WriterInv

LEMMA RunByHandKeeps ==
  ASSUME QueryInv, RunByHand
  PROVE  QueryInv'
<1> USE DEF QueryInv, RunByHand, RunAgain, files, controllerVars, processVars
<1>a. /\ UNCHANGED <<files, status, timeoutRequest, inputs, results, processVars, controllerVars>>
      /\ job # None /\ at' = [at EXCEPT ![Repeated] = "claiming"]
  BY DEF Goes
<1>b. /\ at' \in [Workers -> Places] /\ at'[Owned] = at[Owned]
      /\ \A w \in Workers : at'[w] # "claiming" => at'[w] = at[w]
      /\ \A w \in Workers : at'[w] \in {at[w], "claiming"}
  BY <1>a, WorkersDiffer DEF TypeOK, Places
<1>1. TypeOK'
  BY <1>a, <1>b DEF TypeOK
<1>2. ProcessInv'
  BY <1>a, <1>b DEF ProcessInv, Alive
<1>3. \A w \in Workers : Fits(w)'
  BY <1>a, <1>b DEF WriterInv, Fits, Asked, Fresh, Caused
<1>4. ReportInv'
  BY <1>a, <1>b DEF ReportInv, Backends, Fresh, Caused
<1>5. CauseInv' /\ ShownInv' /\ AnswerInv'
  BY <1>a DEF CauseInv, ShownInv, AnswerInv
<1> QED BY <1>1, <1>2, <1>3, <1>4, <1>5 DEF WriterInv

LEMMA InitKeeps == Init => QueryInv
<1> SUFFICES ASSUME Init PROVE QueryInv
  OBVIOUS
<1> USE DEF Init, QueryInv
<1>1. TypeOK
  <2>1. /\ at \in [Workers -> Places] /\ status \in [Workers -> Statuses]
        /\ results \in [Workers -> RouteResults]
        /\ inputs \in [RouteBackends -> {"asked", "early", "late"}]
    BY PreparingIsAStatus, NoResults DEF Places, AllAsked
  <2> QED BY <2>1 DEF TypeOK
<1>2. ProcessInv /\ WriterInv /\ ReportInv
  BY WorkersDiffer DEF ProcessInv, WriterInv, Fits, ReportInv
<1>3. CauseInv /\ ShownInv /\ AnswerInv
  BY DEF CauseInv, ShownInv, AnswerInv
<1> QED BY <1>1, <1>2, <1>3

LEMMA StutterKeeps ==
  ASSUME QueryInv, UNCHANGED vars
  PROVE  QueryInv'
<1> USE DEF QueryInv, vars, files, processVars, workerVars, programVars, controllerVars
<1>1. TypeOK' /\ ProcessInv'
  BY DEF TypeOK, ProcessInv, Alive
<1>2. \A w \in Workers : Fits(w)'
  BY DEF WriterInv, Fits, Asked, Fresh, Caused
<1>3. ReportInv'
  BY DEF ReportInv, Backends, Fresh, Caused
<1>4. CauseInv' /\ ShownInv' /\ AnswerInv'
  BY DEF CauseInv, ShownInv, AnswerInv
<1> QED BY <1>1, <1>2, <1>3, <1>4 DEF WriterInv

LEMMA NextKeeps ==
  ASSUME QueryInv, [Next]_vars
  PROVE  QueryInv'
<1>1. CASE StartJob
  BY <1>1, StartKeeps
<1>2. CASE RefuseJob
  BY <1>2, RefuseKeeps
<1>3. CASE ControllerStep
  BY <1>3, ControllerKeepsWorkers, ControllerKeepsTypes, ControllerKeepsProcess,
     ControllerKeepsCause, ControllerKeepsShown, ControllerKeepsAnswer DEF QueryInv
<1>4. CASE ReplaceInput
  BY <1>4, ReplaceKeeps
<1>5. ASSUME NEW w \in Workers, WorkerStep(w), UNCHANGED controllerVars
      PROVE  QueryInv'
  <2>1. WorkerFrame(w)
    BY <1>5, WorkerStepFrame DEF QueryInv
  <2>2. WriterInv'
    BY <1>5, <2>1, WorkerKeepsWriter
  <2>3. ReportInv'
    BY <2>1, <2>2, WorkerKeepsReport
  <2> QED BY <2>1, <2>2, <2>3, WorkerKeepsController DEF QueryInv
<1>6. CASE OwnedWorkerLost
  BY <1>6, LostKeeps
<1>7. CASE RunByHand
  BY <1>7, RunByHandKeeps
<1>8. CASE UNCHANGED vars
  BY <1>8, StutterKeeps
<1> QED BY <1>1, <1>2, <1>3, <1>4, <1>5, <1>6, <1>7, <1>8, WorkersDiffer
  DEF Next, ControllerStep, OwnedWorkerStep, RepeatedWorkerStep

-----------------------------------------------------------------------------

(* At every moment of start(), cancel() and poll(), of the worker's loop   *)
(* over the backends and of the processes, what the controller believes of *)
(* its process, its limit and the report is so.                            *)
THEOREM QueryInvariant == Spec => []QueryInv
<1>1. QueryInv /\ [Next]_vars => QueryInv'
  BY NextKeeps
<1> QED BY <1>1, InitKeeps, PTL DEF Spec

(* poll() shows an answer only of a query that is over, and one it did not *)
(* give itself only if report, exit code and last status say the same.     *)
THEOREM AnswersAreAgreed == Spec => []AnswersAgree
<1>1. QueryInv => AnswersAgree
  BY DEF QueryInv, AnswerInv, AnswersAgree, Alive
<1> QED BY <1>1, QueryInvariant, PTL

(* A query over its wall limit is not called cancelled, nor one the user   *)
(* cancelled limited, in the request files, the report and m_results.      *)
THEOREM CausesAreNamed == Spec => []CauseIsNamed
<1>1. QueryInv => CauseIsNamed
  BY DEF QueryInv, CauseInv, AnswerInv, ReportInv, Caused, CauseIsNamed
<1> QED BY <1>1, QueryInvariant, PTL

(* run_pathfinding_job_file hashes the files of all results again before   *)
(* it reports: none is "valid" of files that were replaced before that.    *)
THEOREM NoAnswerIsStale == Spec => []NoStaleAnswer
<1>1. QueryInv => NoStaleAnswer
  BY DEF QueryInv, ReportInv, Fresh, NoStaleAnswer
<1> QED BY <1>1, QueryInvariant, PTL
=============================================================================
