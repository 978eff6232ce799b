---------------------------- MODULE PreviewProofs ----------------------------
(***************************************************************************)
(* Proofs about the preview: of MapStreaming, for every catalog, selection *)
(* and length of session, and of LiveRendering, for every scene of finitely*)
(* many squares, every number of texture units that the renderer can use   *)
(* and every length of session.                                            *)
(***************************************************************************)
EXTENDS MapStreaming, LiveRendering, FiniteSetTheorems, FunctionTheorems,
        WellFoundedInduction, NaturalsInduction, TLAPS

(***************************************************************************)
(* Map streaming. None of its invariants is inductive by itself. The       *)
(* strengthening IInv says where a generation can be: every generation in  *)
(* the system has been issued; whatever is current is outstanding; and a   *)
(* request is in at most one of the queue, the worker's hands and the      *)
(* results.                                                                *)
(***************************************************************************)

Busy == phase \in {"loading", "returned"}

Results == completed \cup taken

Same(r, s) == r.key = s.key /\ r.generation = s.generation

(* Every generation anywhere is below the counter, so the next one is new. *)
GenerationsIssued ==
  /\ \A k \in Key : latest[k] < nextGeneration /\ requested[k] < nextGeneration
  /\ \A p \in pending : p.generation < nextGeneration
  /\ \A s \in started \cup begun : s.generation < nextGeneration
  /\ \A r \in Results : r.request.generation < nextGeneration
  /\ Busy => job.generation < nextGeneration

OutstandingIsLatest ==
  \A k \in Key : requested[k] # Absent => latest[k] = requested[k]

(* What is current is what the streaming system waits for.                 *)
CurrentIsOutstanding ==
  /\ \A p \in pending : IsCurrent(p) /\ requested[p.key] = p.generation
  /\ \A s \in started \cup begun : IsCurrent(s) => requested[s.key] = s.generation
  /\ \A r \in Results : IsCurrent(r.request)
                          => requested[r.request.key] = r.request.generation
  /\ Busy /\ IsCurrent(job) => requested[job.key] = job.generation

(* A request is in one place at a time, and a result is announced as       *)
(* started before it is applied.                                           *)
OnePlace ==
  /\ \A p, q \in pending : p.key = q.key => p = q
  /\ completed \cap taken = {}
  /\ \A r, s \in Results : Same(r.request, s.request) => r = s
  /\ \A p \in pending, r \in Results : ~ Same(p, r.request)
  /\ Busy => \A p \in pending : ~ Same(p, job)
  /\ Busy => \A r \in Results : ~ Same(job, r.request)
  /\ main = "started taken" =>
       \A s \in started, r \in taken : ~ Same(s, r.request)

NoneLost ==
  ~ stopping =>
    \A k \in Key : requested[k] # Absent =>
      \/ Waits(k, requested[k])
      \/ IsLoaded(k, requested[k])
      \/ HasResult(k, requested[k])

(* At most one of resident, failed and outstanding.                        *)
HoldingsDisjoint ==
  \A k \in Key :
    /\ groups[k] # Absent => requested[k] = Absent /\ k \notin failed
    /\ k \in failed => requested[k] = Absent

(* A load that gave up was superseded for good.                            *)
CancelledIsStale ==
  phase = "returned" /\ outcome = "cancelled" => stopping \/ ~ IsCurrent(job)

(* What the main thread's place says about the other variables.            *)
PhasesMatch ==
  /\ stopping <=> main \in {"stopping", "joining", "stopped"}
  /\ stopping => pending = {}
  /\ taken # {} => main \in {"completed taken", "started taken"}
  /\ begun # {} => main = "started taken"

IInv ==
  /\ TypeOK
  /\ GenerationsIssued
  /\ OutstandingIsLatest
  /\ CurrentIsOutstanding
  /\ OnePlace
  /\ NoneLost
  /\ HoldingsDisjoint
  /\ CancelledIsStale
  /\ CancellationIsNoFailure
  /\ PhasesMatch
  /\ StatusIsTruthful
  /\ SceneHasNoLeak
  /\ TerrainIsFallback
  /\ PrioritiesAreFresh

-----------------------------------------------------------------------------

LEMMA InitInv == Init => IInv
<1> SUFFICES ASSUME Init PROVE IInv
  OBVIOUS
<1> USE DEF Init, LoaderInit
<1>a. LoaderTypeOK
  BY DEF LoaderTypeOK, Absent
<1>b. auto \in BOOLEAN /\ ring \in BOOLEAN /\ grid \in BOOLEAN
  OBVIOUS
<1>c. status \in [Key -> Status]
  BY DEF Status
<1>1. TypeOK
  BY <1>a, <1>b, <1>c, StreamingAssumption DEF TypeOK, FirstGeneration, Generation, Absent
<1>2. /\ GenerationsIssued
      /\ OutstandingIsLatest
      /\ CurrentIsOutstanding
      /\ OnePlace
      /\ NoneLost
      /\ HoldingsDisjoint
      /\ CancelledIsStale
      /\ CancellationIsNoFailure
      /\ PhasesMatch
  BY DEF CancellationIsNoFailure, GenerationsIssued, OutstandingIsLatest, CurrentIsOutstanding, OnePlace, NoneLost,
         HoldingsDisjoint, CancelledIsStale, PhasesMatch, Busy, Results, Absent,
         FirstGeneration
<1>3. StatusIsTruthful
  BY DEF StatusIsTruthful, Absent
<1>4. SceneHasNoLeak /\ PrioritiesAreFresh
  BY DEF SceneHasNoLeak, PrioritiesAreFresh, Absent
<1>5. TerrainIsFallback
  BY DEF TerrainIsFallback, Terrain, Detail, Key, Layers
<1> QED
  BY <1>1, <1>2, <1>3, <1>4, <1>5 DEF IInv

(* A step that touches neither the queue nor what the tick and the worker  *)
(* hold preserves the invariant.                                           *)
LEMMA QuietStep ==
  ASSUME IInv, TypeOK', PhasesMatch',
         UNCHANGED <<queueVars, started, completed, stopping, job, outcome,
                     residencyVars, taken, begun>>,
         Busy' <=> Busy,
         phase' = "returned" <=> phase = "returned",
         main' = "started taken" => main = "started taken"
  PROVE  IInv'
<1> USE DEF IInv, queueVars, residencyVars
<1>1. GenerationsIssued' /\ OutstandingIsLatest'
  BY DEF GenerationsIssued, OutstandingIsLatest, Results
<1>2. CurrentIsOutstanding'
  BY DEF CurrentIsOutstanding, Results, IsCurrent
<1>3. OnePlace'
  BY DEF OnePlace, Results, Same
<1>4. NoneLost'
  BY DEF NoneLost, Waits, IsLoaded, HasResult, IsRequest, Busy
<1>5. HoldingsDisjoint' /\ StatusIsTruthful' /\ SceneHasNoLeak' /\ TerrainIsFallback'
  BY DEF HoldingsDisjoint, StatusIsTruthful, SceneHasNoLeak, TerrainIsFallback
<1>6. CancelledIsStale' /\ CancellationIsNoFailure'
  BY DEF CancelledIsStale, CancellationIsNoFailure, Results, IsCurrent
<1>7. PrioritiesAreFresh'
  BY DEF PrioritiesAreFresh
<1> QED
  BY <1>1, <1>2, <1>3, <1>4, <1>5, <1>6, <1>7

-----------------------------------------------------------------------------
(* The steps of the user and of the main thread that are not a reconcile.  *)

LEMMA MoveCameraInv == IInv /\ MoveCamera => IInv'
<1> SUFFICES ASSUME IInv, MoveCamera PROVE IInv'
  OBVIOUS
<1> USE DEF MoveCamera, loaderVars, queueVars, workerVars, selectionVars, residencyVars, tickVars
<1>1. TypeOK'
  BY DEF IInv, TypeOK, LoaderTypeOK
<1>2. PhasesMatch' /\ (Busy' <=> Busy)
  BY DEF IInv, PhasesMatch, Busy
<1> QED
  BY <1>1, <1>2, QuietStep

LEMMA ControlsInv == IInv /\ Controls => IInv'
<1> SUFFICES ASSUME IInv, Controls PROVE IInv'
  OBVIOUS
<1> USE DEF Controls, loaderVars, queueVars, workerVars, residencyVars
<1>1. manual' \in SUBSET Catalog /\ retry' \in SUBSET Catalog
  BY DEF IInv, TypeOK, SelectSquare, UnselectSquare, SelectAll, ClearManual, SetAutoLoad,
         SetIncludeNeighbors, NoInput, selectionVars
<1>2. auto' \in BOOLEAN /\ ring' \in BOOLEAN
  BY DEF IInv, TypeOK, SelectSquare, UnselectSquare, SelectAll, ClearManual, SetAutoLoad,
         SetIncludeNeighbors, NoInput, selectionVars
<1>3. TypeOK'
  BY <1>1, <1>2 DEF IInv, TypeOK, LoaderTypeOK
<1>4. PhasesMatch' /\ (Busy' <=> Busy)
  BY DEF IInv, PhasesMatch, Busy
<1> QED
  BY <1>3, <1>4, QuietStep

LEMMA NotifyInv ==
  IInv /\ (NotifyWorker \/ NotifyShutdown \/ Join) => IInv'
<1> SUFFICES ASSUME IInv, NotifyWorker \/ NotifyShutdown \/ Join PROVE IInv'
  OBVIOUS
<1> USE DEF NotifyWorker, NotifyShutdown, Join, Notify, loaderVars, queueVars, workerVars,
            selectionVars, residencyVars
<1>1. TypeOK'
  BY DEF IInv, TypeOK, LoaderTypeOK
<1>2. Busy' <=> Busy
  BY DEF Busy
<1>3. UNCHANGED <<stopping, pending, taken, begun>>
  OBVIOUS
<1>4. \/ main = "reconciled" /\ main' = "notified"
      \/ main = "stopping" /\ main' = "joining"
      \/ main = "joining" /\ main' = "stopped"
  OBVIOUS
<1>5. PhasesMatch'
  BY <1>3, <1>4 DEF IInv, PhasesMatch
<1> QED
  BY <1>1, <1>2, <1>5, QuietStep

LEMMA TakeCompletedInv == IInv /\ TakeCompleted => IInv'
<1> SUFFICES ASSUME IInv, TakeCompleted PROVE IInv'
  OBVIOUS
<1> USE DEF TakeCompleted, queueVars, workerVars, selectionVars, residencyVars
<1>1. TypeOK'
  BY DEF IInv, TypeOK, LoaderTypeOK
<1>a. Busy' <=> Busy
  BY DEF Busy
<1>b. ~ stopping /\ ~ stopping'
  BY DEF IInv, PhasesMatch
<1>c. PhasesMatch'
  BY <1>b DEF IInv, PhasesMatch
<1>2. PhasesMatch' /\ (Busy' <=> Busy)
  BY <1>a, <1>c
<1>3. Results' = Results
  BY DEF IInv, PhasesMatch, Results
<1>4. GenerationsIssued' /\ OutstandingIsLatest'
  BY <1>2, <1>3 DEF IInv, GenerationsIssued, OutstandingIsLatest
<1>5. CurrentIsOutstanding'
  BY <1>2, <1>3 DEF IInv, CurrentIsOutstanding, IsCurrent
<1>6. OnePlace'
  BY <1>2, <1>3 DEF IInv, OnePlace, Same
<1>7. NoneLost'
  BY <1>2, <1>3 DEF IInv, NoneLost, Waits, IsLoaded, HasResult, IsRequest, Busy, Results
<1>8. HoldingsDisjoint' /\ StatusIsTruthful' /\ SceneHasNoLeak' /\ TerrainIsFallback'
  BY DEF IInv, HoldingsDisjoint, StatusIsTruthful, SceneHasNoLeak, TerrainIsFallback
<1>9. CancelledIsStale' /\ CancellationIsNoFailure' /\ PrioritiesAreFresh'
  BY <1>3 DEF IInv, CancelledIsStale, CancellationIsNoFailure, Results, PrioritiesAreFresh, IsCurrent
<1> QED
  BY <1>1, <1>2, <1>4, <1>5, <1>6, <1>7, <1>8, <1>9 DEF IInv

LEMMA TakeStartedInv == IInv /\ TakeStarted => IInv'
<1> SUFFICES ASSUME IInv, TakeStarted PROVE IInv'
  OBVIOUS
<1> USE DEF TakeStarted, queueVars, workerVars, selectionVars, residencyVars
<1>1. TypeOK'
  BY DEF IInv, TypeOK, LoaderTypeOK
<1>a. Busy' <=> Busy
  BY DEF Busy
<1>b. ~ stopping /\ ~ stopping'
  BY DEF IInv, PhasesMatch
<1>c. PhasesMatch'
  BY <1>b DEF IInv, PhasesMatch
<1>2. PhasesMatch' /\ (Busy' <=> Busy)
  BY <1>a, <1>c
<1>3. Results' = Results /\ (started \cup begun)' \subseteq started \cup begun
  BY DEF IInv, PhasesMatch, Results
<1>4. GenerationsIssued' /\ OutstandingIsLatest'
  BY <1>2, <1>3 DEF IInv, GenerationsIssued, OutstandingIsLatest
<1>5. CurrentIsOutstanding'
  BY <1>2, <1>3 DEF IInv, CurrentIsOutstanding, IsCurrent
<1>6. OnePlace'
  BY <1>2, <1>3 DEF IInv, OnePlace, Same
<1>7. NoneLost'
  BY DEF IInv, NoneLost, Waits, IsLoaded, HasResult, IsRequest
<1>8. HoldingsDisjoint' /\ StatusIsTruthful' /\ SceneHasNoLeak' /\ TerrainIsFallback'
  BY DEF IInv, HoldingsDisjoint, StatusIsTruthful, SceneHasNoLeak, TerrainIsFallback
<1>9. CancelledIsStale' /\ CancellationIsNoFailure' /\ PrioritiesAreFresh'
  BY <1>3 DEF IInv, CancelledIsStale, CancellationIsNoFailure, Results, PrioritiesAreFresh, IsCurrent
<1> QED
  BY <1>1, <1>2, <1>4, <1>5, <1>6, <1>7, <1>8, <1>9 DEF IInv

LEMMA BeginShutdownInv == IInv /\ BeginShutdown => IInv'
<1> SUFFICES ASSUME IInv, BeginShutdown PROVE IInv'
  OBVIOUS
<1> USE DEF BeginShutdown, workerVars, selectionVars, residencyVars
<1>1. TypeOK'
  BY DEF IInv, TypeOK, LoaderTypeOK
<1>2. PhasesMatch' /\ (Busy' <=> Busy)
  BY DEF IInv, PhasesMatch, Busy
<1>3. Results' = Results
  BY DEF Results
<1>4. GenerationsIssued' /\ OutstandingIsLatest'
  BY <1>2, <1>3 DEF IInv, GenerationsIssued, OutstandingIsLatest
<1>5. CurrentIsOutstanding'
  BY <1>2, <1>3 DEF IInv, CurrentIsOutstanding, IsCurrent
<1>6. OnePlace'
  BY <1>2, <1>3 DEF IInv, OnePlace, Same
<1>7. NoneLost' /\ PrioritiesAreFresh'
  BY DEF NoneLost, PrioritiesAreFresh
<1>8. HoldingsDisjoint' /\ StatusIsTruthful' /\ SceneHasNoLeak' /\ TerrainIsFallback'
  BY DEF IInv, HoldingsDisjoint, StatusIsTruthful, SceneHasNoLeak, TerrainIsFallback
<1>9. CancelledIsStale' /\ CancellationIsNoFailure'
  BY <1>3 DEF IInv, CancelledIsStale, CancellationIsNoFailure, Results, IsCurrent
<1> QED
  BY <1>1, <1>2, <1>4, <1>5, <1>6, <1>7, <1>8, <1>9 DEF IInv

-----------------------------------------------------------------------------
(* The worker's steps.                                                     *)

LEMMA WorkerQuietInv ==
  ASSUME IInv,
         WorkerSleep \/ WorkerExit \/ WorkerSpuriousWake,
         UNCHANGED <<selectionVars, camera, residencyVars, tickVars>>
  PROVE  IInv'
<1> USE DEF WorkerSleep, WorkerExit, WorkerSpuriousWake, queueVars, selectionVars, residencyVars,
            tickVars
<1>1. LoaderTypeOK'
  BY DEF IInv, TypeOK, LoaderTypeOK
<1>2. TypeOK'
  BY <1>1 DEF IInv, TypeOK
<1>3. Busy' <=> Busy
  BY DEF Busy
<1>a. UNCHANGED <<stopping, main, pending, taken, begun>>
  OBVIOUS
<1>4. PhasesMatch'
  BY <1>a DEF IInv, PhasesMatch
<1>5. phase' = "returned" <=> phase = "returned"
  OBVIOUS
<1> QED
  BY <1>2, <1>3, <1>4, <1>5, QuietStep

LEMMA WorkerReturnInv ==
  ASSUME IInv, WorkerReturn, UNCHANGED <<selectionVars, camera, residencyVars, tickVars>>
  PROVE  IInv'
<1> USE DEF WorkerReturn, queueVars, selectionVars, residencyVars, tickVars
<1>1. TypeOK'
  BY DEF IInv, TypeOK, LoaderTypeOK
<1>2. PhasesMatch' /\ (Busy' <=> Busy) /\ Results' = Results
  BY DEF IInv, PhasesMatch, Busy, Results
<1>3. GenerationsIssued' /\ OutstandingIsLatest'
  BY <1>2 DEF IInv, GenerationsIssued, OutstandingIsLatest
<1>4. CurrentIsOutstanding'
  BY <1>2 DEF IInv, CurrentIsOutstanding, IsCurrent
<1>5. OnePlace'
  BY <1>2 DEF IInv, OnePlace, Same
<1>6. NoneLost'
  BY DEF IInv, NoneLost, Waits, IsLoaded, HasResult, IsRequest
<1>7. HoldingsDisjoint' /\ StatusIsTruthful' /\ SceneHasNoLeak' /\ TerrainIsFallback'
  BY DEF IInv, HoldingsDisjoint, StatusIsTruthful, SceneHasNoLeak, TerrainIsFallback
<1>8. CancelledIsStale' /\ CancellationIsNoFailure' /\ PrioritiesAreFresh'
  BY <1>2 DEF IInv, CancelledIsStale, CancellationIsNoFailure, Results, PrioritiesAreFresh, IsCurrent
<1> QED
  BY <1>1, <1>2, <1>3, <1>4, <1>5, <1>6, <1>7, <1>8 DEF IInv

(* Everything pending is current, so pop drops nothing: it moves one       *)
(* request from the queue into the worker's hands.                         *)
LEMMA WorkerPopInv ==
  ASSUME IInv, WorkerPop, UNCHANGED <<selectionVars, camera, residencyVars, tickVars>>
  PROVE  IInv'
<1> USE DEF selectionVars, residencyVars, tickVars
<1>1. {p \in pending : IsCurrent(p)} = pending /\ pending # {}
  BY DEF IInv, CurrentIsOutstanding, WorkerPop
<1>2. PICK r \in pending :
        /\ pending' = pending \ {r}
        /\ started' = started \cup {r}
        /\ job' = r
        /\ phase' = "loading"
        /\ UNCHANGED <<latest, completed, stopping, outcome>>
        /\ phase = "deciding"
        /\ ~ stopping
  BY <1>1 DEF WorkerPop
<1>3. r \in Request
  BY DEF IInv, TypeOK, LoaderTypeOK
<1>4. TypeOK'
  BY <1>2, <1>3 DEF IInv, TypeOK, LoaderTypeOK
<1>5. PhasesMatch' /\ Busy' /\ ~ Busy /\ Results' = Results
  BY <1>2 DEF IInv, PhasesMatch, Busy, Results
<1>6. GenerationsIssued' /\ OutstandingIsLatest'
  BY <1>2, <1>5 DEF IInv, GenerationsIssued, OutstandingIsLatest
<1>7. CurrentIsOutstanding'
  BY <1>2, <1>5 DEF IInv, CurrentIsOutstanding, IsCurrent
<1>8. OnePlace'
  <2>1. \A p \in pending' : ~ Same(p, r)
    BY <1>2 DEF IInv, OnePlace, Same
  <2>2. \A s \in Results : ~ Same(r, s.request)
    BY DEF IInv, OnePlace
  <2>3. main' = "started taken" => \A s \in started', t \in taken' : ~ Same(s, t.request)
    BY <1>2, <2>2 DEF IInv, OnePlace, Results
  <2> QED
    BY <1>2, <1>5, <2>1, <2>2, <2>3 DEF IInv, OnePlace, Same
<1>9. NoneLost'
  BY <1>2 DEF IInv, NoneLost, Waits, IsLoaded, HasResult, IsRequest
<1>10. HoldingsDisjoint' /\ StatusIsTruthful' /\ SceneHasNoLeak' /\ TerrainIsFallback'
  BY DEF IInv, HoldingsDisjoint, StatusIsTruthful, SceneHasNoLeak, TerrainIsFallback
<1>11. CancelledIsStale' /\ CancellationIsNoFailure' /\ PrioritiesAreFresh'
  BY <1>2, <1>5 DEF IInv, CancelledIsStale, CancellationIsNoFailure, Results, PrioritiesAreFresh, IsCurrent
<1> QED
  BY <1>4, <1>5, <1>6, <1>7, <1>8, <1>9, <1>10, <1>11 DEF IInv

LEMMA WorkerPublishInv ==
  ASSUME IInv, WorkerPublish, UNCHANGED <<selectionVars, camera, residencyVars, tickVars>>
  PROVE  IInv'
<1> USE DEF WorkerPublish, queueVars, selectionVars, residencyVars, tickVars
<1> DEFINE result == [request |-> job, outcome |-> outcome]
<1>1. result \in Result /\ job \in Request
  BY DEF IInv, TypeOK, LoaderTypeOK, Result
<1>2. TypeOK'
  BY <1>1 DEF IInv, TypeOK, LoaderTypeOK
<1>3. PhasesMatch' /\ Busy /\ ~ Busy'
  BY DEF IInv, PhasesMatch, Busy
<1>4. Results' = IF Delivers THEN Results \cup {result} ELSE Results
  BY DEF Results
<1>5. GenerationsIssued' /\ OutstandingIsLatest'
  BY <1>3, <1>4 DEF IInv, GenerationsIssued, OutstandingIsLatest
<1>6. CurrentIsOutstanding'
  BY <1>3, <1>4 DEF IInv, CurrentIsOutstanding, IsCurrent
<1>7. OnePlace'
  <2>1. \A p \in pending : ~ Same(p, job)
    BY <1>3 DEF IInv, OnePlace
  <2>2. \A r \in Results : ~ Same(job, r.request)
    BY <1>3 DEF IInv, OnePlace
  <2>a. Results' \subseteq Results \cup {result} /\ result.request = job
    BY <1>4
  <2>b. \A r, s \in Results : Same(r.request, s.request) => r = s
    BY DEF IInv, OnePlace
  <2>3. \A r, s \in Results' : Same(r.request, s.request) => r = s
    BY ONLY <2>a, <2>b, <2>2 DEF Same
  <2>c. \A p \in pending', r \in Results : ~ Same(p, r.request)
    BY DEF IInv, OnePlace
  <2>4. \A p \in pending', r \in Results' : ~ Same(p, r.request)
    BY <2>a, <2>1, <2>c
  <2>5. (completed \cap taken)' = {}
    <3>1. result \notin taken
      BY <2>2 DEF Same, Results
    <3> QED
      BY <3>1 DEF IInv, OnePlace
  <2> QED
    BY <1>3, <2>3, <2>4, <2>5 DEF IInv, OnePlace
<1>8. NoneLost'
  <2>1. ASSUME ~ stopping, NEW k \in Key, requested[k] # Absent, IsLoaded(k, requested[k])
        PROVE  HasResult(k, requested[k])'
    <3>1. Delivers
      BY <2>1 DEF IInv, OutstandingIsLatest, IsLoaded, IsRequest, Delivers, IsCurrent
    <3>2. result \in completed' \cup taken'
      BY <3>1
    <3>3. IsRequest(result.request, k, requested'[k])
      BY <2>1 DEF IsLoaded, IsRequest
    <3> QED
      BY <3>2, <3>3 DEF HasResult
  <2>2. ASSUME NEW k \in Key, HasResult(k, requested[k]) PROVE HasResult(k, requested[k])'
    BY <2>2 DEF HasResult
  <2> QED
    BY <2>1, <2>2 DEF IInv, NoneLost, Waits
<1>9. HoldingsDisjoint' /\ StatusIsTruthful' /\ SceneHasNoLeak' /\ TerrainIsFallback'
  BY DEF IInv, HoldingsDisjoint, StatusIsTruthful, SceneHasNoLeak, TerrainIsFallback
<1>10. CancelledIsStale' /\ CancellationIsNoFailure' /\ PrioritiesAreFresh'
  BY <1>4 DEF IInv, CancelledIsStale, CancellationIsNoFailure, Results, PrioritiesAreFresh, IsCurrent, Delivers
<1> QED
  BY <1>2, <1>3, <1>5, <1>6, <1>7, <1>8, <1>9, <1>10 DEF IInv

-----------------------------------------------------------------------------
(* The reconcile step.                                                     *)

LEMMA KeysAreFinite == IsFiniteSet(Key)
<1> DEFINE pair == [k \in Key |-> <<k.square, k.layer>>]
<1>1. IsFiniteSet(Layers)
  <2>1. Layers = {"terrain"} \cup {"detail"}
    BY DEF Layers
  <2> QED
    BY <2>1, FS_Singleton, FS_Union
<1>2. IsFiniteSet(Catalog \X Layers)
  BY <1>1, CatalogAssumption, FS_Product
<1>3. pair \in Injection(Key, Catalog \X Layers)
  BY DEF Injection, Key, IsInjective
<1> QED
  BY <1>2, <1>3, FS_Injection

(* Generations as numbers, with 0 for none.                                *)
LEMMA GenerationsAreNumbers ==
  ASSUME TypeOK
  PROVE  /\ latest \in [Key -> Nat]
         /\ requested \in [Key -> Nat]
         /\ groups \in [Key -> Nat]
         /\ nextGeneration \in Nat /\ nextGeneration # Absent
         /\ \A r \in Request : r.generation \in Nat /\ r.generation # Absent /\ r.key \in Key
<1>1. Generation \cup {Absent} = Nat
  BY DEF Generation, Absent
<1>2. latest \in [Key -> Generation \cup {Absent}]
  BY DEF TypeOK, LoaderTypeOK
<1>3. requested \in [Key -> Generation \cup {Absent}] /\ groups \in [Key -> Generation \cup {Absent}]
  BY DEF TypeOK
<1>4. nextGeneration \in Nat /\ nextGeneration # Absent
  BY DEF TypeOK, Generation, Absent
<1>5. \A r \in Request : r.generation \in Nat /\ r.generation # Absent /\ r.key \in Key
  BY DEF Request, Generation, Absent
<1> QED
  BY <1>1, <1>2, <1>3, <1>4, <1>5

(* The layers of a catalog square are keys, and two keys agree when their  *)
(* squares and layers do.                                                  *)
LEMMA KeysOfSquares ==
  /\ \A c \in Catalog : Terrain(c) \in Key /\ Detail(c) \in Key
  /\ \A k \in Key : k.square \in Catalog /\ k.layer \in Layers
  /\ \A j, k \in Key : j.square = k.square /\ j.layer = k.layer => j = k
BY DEF Terrain, Detail, Key, Layers

LEMMA WantedAreKeys ==
  ASSUME TypeOK
  PROVE  Wanted \subseteq Key
<1>1. DetailSquares(manual, CurrentSquare, auto, ring) \subseteq Catalog
  BY DEF TypeOK, DetailSquares, Neighbors
<1>2. manual \subseteq Catalog
  BY DEF TypeOK
<1> QED
  BY <1>1, <1>2, KeysOfSquares DEF Wanted, DesiredKeys

LEMMA PrioritiesExist ==
  ASSUME NEW k, NEW want, NEW square
  PROVE  PriorityOf(k, want, square) \in Priority
BY DEF PriorityOf, Priority, CurrentDetail, NeighborDetail, AutomaticTerrain, ManualTerrain

(* The keys asked for in one tick get generations from the counter on, all *)
(* below its new value: the first of them in the order of the calls gets   *)
(* the counter itself.                                                     *)
LEMMA FreshGenerations ==
  ASSUME TypeOK, NEW missing \in SUBSET Key, NEW k \in missing
  PROVE  LET g == nextGeneration + Cardinality({j \in missing : EnqueuedBefore(j, k)})
         IN  /\ g \in Generation
             /\ nextGeneration <= g
             /\ g < nextGeneration + Cardinality(missing)
<1> DEFINE before == {j \in missing : EnqueuedBefore(j, k)}
<1>1. IsFiniteSet(missing)
  BY KeysAreFinite, FS_Subset
<1>2. k \notin before
  <2>1. k.square \in Int \X Int
    BY KeysOfSquares, CatalogAssumption
  <2>2. k.square[1] \in Int /\ k.square[2] \in Int
    BY <2>1
  <2> QED
    BY <2>2 DEF EnqueuedBefore, SquareBefore
<1>3. /\ IsFiniteSet(before)
      /\ Cardinality(before) <= Cardinality(missing)
      /\ Cardinality(before) # Cardinality(missing)
  BY <1>1, <1>2, FS_Subset
<1>4. Cardinality(before) \in Nat /\ Cardinality(missing) \in Nat
  BY <1>1, <1>3, FS_CardinalityType
<1>5. nextGeneration \in Nat \ {0}
  BY DEF TypeOK, Generation
<1> QED
  BY <1>3, <1>4, <1>5 DEF Generation

(* The reconcile step for the results that were uploaded, without its      *)
(* bound variables.                                                        *)
Ticked(want, uploaded) ==
  /\ main = "started taken"
  /\ want = Wanted
  /\ uploaded \in SUBSET Uploadable(want)
  /\ desired' = want
  /\ groups' = GroupsAfter(want, uploaded)
  /\ failed' = FailedAfter(want, uploaded)
  /\ scene' = SceneAfter(want, uploaded)
  /\ hidden' = HiddenAfter(groups', scene')
  /\ requested' = RequestedAfter(want, Missing(want, uploaded))
  /\ nextGeneration' = nextGeneration + Cardinality(Missing(want, uploaded))
  /\ status' = StatusAfter(want, uploaded, Missing(want, uploaded))
  /\ Reconcile(Sent(want, Missing(want, uploaded)), Cancelled(want))
  /\ grid' = GridKnown
  /\ camera' = CameraSquare
  /\ current' = CurrentSquare
  /\ retry' = {}
  /\ taken' = {}
  /\ begun' = {}
  /\ main' = "reconciled"
  /\ UNCHANGED <<started, completed, stopping, phase, job, outcome, manual, auto, ring>>

LEMMA TickIsTicked ==
  ASSUME ReconcileTick
  PROVE  \E want, uploaded : Ticked(want, uploaded)
<1>1. PICK want, uploaded, missing, after, alive :
        /\ want = Wanted
        /\ uploaded \in SUBSET Uploadable(want)
        /\ missing = Missing(want, uploaded)
        /\ after = GroupsAfter(want, uploaded)
        /\ alive = SceneAfter(want, uploaded)
        /\ desired' = want
        /\ groups' = after
        /\ failed' = FailedAfter(want, uploaded)
        /\ scene' = alive
        /\ hidden' = HiddenAfter(after, alive)
        /\ requested' = RequestedAfter(want, missing)
        /\ nextGeneration' = nextGeneration + Cardinality(missing)
        /\ status' = StatusAfter(want, uploaded, missing)
        /\ Reconcile(Sent(want, missing), Cancelled(want))
  BY DEF ReconcileTick
<1>2. Ticked(want, uploaded)
  BY <1>1 DEF ReconcileTick, Ticked, workerVars
<1> QED
  BY <1>2

(* What each key's request becomes. A key asked for anew is neither        *)
(* resident nor failed, and its generation was never issued.               *)
LEMMA RequestsAfterTick ==
  ASSUME IInv, NEW want, NEW uploaded, Ticked(want, uploaded), NEW k \in Key
  PROVE  /\ want \subseteq Key
         /\ Missing(want, uploaded) \subseteq want
         /\ Outstanding(want) \subseteq want
         /\ k \in Missing(want, uploaded) =>
              /\ k \notin Outstanding(want)
              /\ requested'[k] \in Generation
              /\ nextGeneration <= requested'[k]
              /\ requested'[k] < nextGeneration'
         /\ k \in Outstanding(want) =>
              /\ requested[k] # Absent
              /\ requested'[k] = requested[k]
         /\ k \notin Missing(want, uploaded) \cup Outstanding(want) =>
              requested'[k] = Absent
<1>1. want \subseteq Key
  BY WantedAreKeys DEF IInv, Ticked
<1>2. Missing(want, uploaded) \subseteq want /\ Outstanding(want) \subseteq want
  BY DEF Missing, Outstanding
<1>3. ASSUME k \in Missing(want, uploaded)
      PROVE  /\ k \notin Outstanding(want)
             /\ requested'[k] \in Generation
             /\ nextGeneration <= requested'[k]
             /\ requested'[k] < nextGeneration'
  <2>1. k \notin Outstanding(want)
    BY <1>3 DEF Missing
  <2>2. requested'[k] = nextGeneration
          + Cardinality({j \in Missing(want, uploaded) : EnqueuedBefore(j, k)})
    BY <1>3 DEF Ticked, RequestedAfter
  <2>3. Missing(want, uploaded) \in SUBSET Key
    BY <1>1, <1>2
  <2> QED
    BY <1>3, <2>1, <2>2, <2>3, FreshGenerations DEF IInv, Ticked
<1>4. ASSUME k \in Outstanding(want)
      PROVE  requested[k] # Absent /\ requested'[k] = requested[k]
  BY <1>4 DEF Ticked, RequestedAfter, Missing, Outstanding
<1>5. ASSUME k \notin Missing(want, uploaded) \cup Outstanding(want)
      PROVE  requested'[k] = Absent
  BY <1>5 DEF Ticked, RequestedAfter
<1> QED
  BY <1>1, <1>2, <1>3, <1>4, <1>5

LEMMA CounterAfterTick ==
  ASSUME IInv, NEW want, NEW uploaded, Ticked(want, uploaded)
  PROVE  nextGeneration' \in Generation /\ nextGeneration <= nextGeneration'
<1>1. want \subseteq Key
  BY WantedAreKeys DEF IInv, Ticked
<1>2. IsFiniteSet(Missing(want, uploaded))
  BY <1>1, KeysAreFinite, FS_Subset DEF Missing
<1>3. Cardinality(Missing(want, uploaded)) \in Nat
  BY <1>2, FS_CardinalityType
<1>4. nextGeneration \in Nat /\ nextGeneration # 0
  BY GenerationsAreNumbers DEF IInv, Absent
<1>5. nextGeneration' = nextGeneration + Cardinality(Missing(want, uploaded))
  BY DEF Ticked
<1> QED
  BY <1>3, <1>4, <1>5 DEF Generation

(* What each key's latest generation becomes in the queue.                 *)
LEMMA LatestAfterTick ==
  ASSUME IInv, NEW want, NEW uploaded, Ticked(want, uploaded), NEW k \in Key
  PROVE  latest'[k] = IF k \in Missing(want, uploaded) THEN requested'[k]
                      ELSE IF k \in Cancelled(want) THEN Absent
                      ELSE latest[k]
<1> DEFINE missing == Missing(want, uploaded)
           queue == CancelInQueue(Cancelled(want))
           sent == Sent(want, missing)
<1>1. queue.latest[k] = IF k \in Cancelled(want) THEN Absent ELSE latest[k]
  BY DEF CancelInQueue
<1>2. latest'[k] = IF k \in DOMAIN sent /\ queue.latest[k] < sent[k].generation
                     THEN sent[k].generation ELSE queue.latest[k]
  BY DEF Ticked, Reconcile, Enqueued
<1>3. DOMAIN sent = missing \cup Outstanding(want)
  BY DEF Sent
<1>4. k \in DOMAIN sent => sent[k].generation = requested'[k]
  BY DEF Sent, Ticked
<1>5. CASE k \in missing
  <2>1. k \in want /\ k \notin Cancelled(want)
    BY <1>5 DEF Missing, Cancelled
  <2>2. latest[k] \in Nat /\ nextGeneration \in Nat /\ latest[k] < nextGeneration
    BY GenerationsAreNumbers DEF IInv, GenerationsIssued
  <2>3. requested'[k] \in Nat /\ nextGeneration <= requested'[k]
    BY <1>5, RequestsAfterTick DEF Generation
  <2>4. latest[k] < requested'[k]
    BY <2>2, <2>3
  <2> HIDE DEF queue, sent
  <2> QED
    BY <1>1, <1>2, <1>3, <1>4, <1>5, <2>1, <2>4
<1>6. CASE k \in Outstanding(want)
  <2>1. k \notin Cancelled(want) /\ k \notin missing
    BY <1>6 DEF Outstanding, Cancelled, Missing
  <2>2. requested'[k] = requested[k] /\ latest[k] = requested[k]
    BY <1>6, RequestsAfterTick DEF IInv, OutstandingIsLatest
  <2>3. latest[k] \in Nat
    BY GenerationsAreNumbers DEF IInv
  <2>4. ~ (latest[k] < requested'[k])
    BY <2>2, <2>3
  <2> HIDE DEF queue, sent
  <2> QED
    BY <1>1, <1>2, <1>3, <1>4, <2>1, <2>4
<1>7. CASE k \notin missing \cup Outstanding(want)
  <2> HIDE DEF queue, sent
  <2> QED
    BY <1>1, <1>2, <1>3, <1>7
<1> QED
  BY <1>5, <1>6, <1>7

(* A result that answers the outstanding request of its key is accepted,   *)
(* there is one such result for a key, and its key is no longer            *)
(* outstanding.                                                            *)
LEMMA AcceptedResults ==
  ASSUME IInv, NEW want
  PROVE  /\ \A r \in taken : Owns(r, want) => r \in Accepted(want)
         /\ \A r \in Accepted(want) :
              /\ r \in taken
              /\ r.request.key \in want
              /\ r.request.key \in Key
              /\ requested[r.request.key] = r.request.generation
              /\ requested[r.request.key] # Absent
              /\ r.request.key \notin Outstanding(want)
         /\ \A r, s \in Accepted(want) : r.request.key = s.request.key => r = s
         /\ \A k \in want \cap Key :
              requested[k] # Absent => k \in Outstanding(want) \cup KeysOf(Accepted(want))
<1>1. \A r \in taken : r.request \in Request
  BY DEF IInv, TypeOK, Result
<1>2. \A r \in taken : r.request.key \in Key /\ r.request.generation # Absent
  BY <1>1, GenerationsAreNumbers DEF IInv
<1>3. \A r \in taken : Owns(r, want) => r \in Accepted(want)
  BY <1>2 DEF IInv, OutstandingIsLatest, Owns, Accepted, IsCurrent
<1>4. \A r \in Accepted(want) :
        /\ r \in taken
        /\ r.request.key \in want
        /\ r.request.key \in Key
        /\ requested[r.request.key] = r.request.generation
        /\ requested[r.request.key] # Absent
        /\ r.request.key \notin Outstanding(want)
  BY <1>2 DEF Accepted, Owns, Outstanding
<1>5. \A r, s \in Accepted(want) : r.request.key = s.request.key => r = s
  <2>1. \A r, s \in taken : Same(r.request, s.request) => r = s
    BY DEF IInv, OnePlace, Results
  <2> QED
    BY <1>4, <2>1 DEF Same
<1>6. \A k \in want \cap Key :
        requested[k] # Absent => k \in Outstanding(want) \cup KeysOf(Accepted(want))
  BY <1>3 DEF Outstanding, KeysOf
<1> QED
  BY <1>3, <1>4, <1>5, <1>6

(* A request that survives the tick as the current one was current before, *)
(* is not one of the new ones, and is outstanding unless it was answered.  *)
LEMMA StillCurrent ==
  ASSUME IInv, NEW want, NEW uploaded, Ticked(want, uploaded),
         NEW q \in Request, q.generation < nextGeneration, IsCurrent(q)'
  PROVE  /\ IsCurrent(q)
         /\ q.key \notin Missing(want, uploaded)
         /\ requested[q.key] = q.generation /\ (\A r \in taken : ~ Same(q, r.request))
              => requested'[q.key] = q.generation
<1>1. /\ q.key \in Key /\ q.generation \in Nat /\ q.generation # Absent
      /\ nextGeneration \in Nat
  BY GenerationsAreNumbers DEF IInv
<1>2. q.key \notin Missing(want, uploaded)
  <2> SUFFICES ASSUME q.key \in Missing(want, uploaded) PROVE FALSE
    OBVIOUS
  <2>1. nextGeneration <= requested'[q.key] /\ requested'[q.key] \in Nat
    BY <1>1, RequestsAfterTick DEF Generation
  <2>2. latest'[q.key] = requested'[q.key]
    BY <1>1, LatestAfterTick
  <2>3. latest'[q.key] = q.generation
    BY DEF IsCurrent
  <2> QED
    BY <1>1, <2>1, <2>2, <2>3
<1>3. latest[q.key] = q.generation /\ q.key \notin Cancelled(want)
  BY <1>1, <1>2, LatestAfterTick DEF IsCurrent
<1>4. ASSUME requested[q.key] = q.generation, \A r \in taken : ~ Same(q, r.request)
      PROVE  requested'[q.key] = q.generation
  <2>1. q.key \in want
    BY <1>1, <1>3, <1>4 DEF Cancelled
  <2>2. q.key \in Outstanding(want)
    BY <1>1, <1>4, <2>1 DEF Outstanding, Owns, Same
  <2> QED
    BY <1>1, <1>4, <2>2, RequestsAfterTick
<1> QED
  BY <1>2, <1>3, <1>4 DEF IsCurrent

(* What is sent for a key.                                                 *)
LEMMA SentRequests ==
  ASSUME IInv, NEW want, NEW uploaded, Ticked(want, uploaded),
         NEW k \in Missing(want, uploaded) \cup Outstanding(want)
  PROVE  LET s == Sent(want, Missing(want, uploaded))[k]
         IN  /\ k \in Key
             /\ s \in Request
             /\ s.key = k
             /\ s.generation = requested'[k]
             /\ s.priority = PriorityOf(k, want, CurrentSquare)
<1>1. k \in Key
  BY RequestsAfterTick, WantedAreKeys DEF IInv, Ticked, Missing, Outstanding
<1>2. requested'[k] \in Generation
  <2>1. CASE k \in Missing(want, uploaded)
    BY <1>1, <2>1, RequestsAfterTick
  <2>2. CASE k \in Outstanding(want)
    <3>1. requested'[k] = requested[k] /\ requested[k] # Absent
      BY <1>1, <2>2, RequestsAfterTick
    <3>2. requested[k] \in Nat
      BY <1>1, GenerationsAreNumbers DEF IInv
    <3> QED
      BY <3>1, <3>2 DEF Generation, Absent
  <2> QED
    BY <2>1, <2>2
<1>3. Sent(want, Missing(want, uploaded))[k]
        = [key |-> k, generation |-> requested'[k], priority |-> PriorityOf(k, want, CurrentSquare)]
  BY DEF Sent, Ticked
<1> QED
  BY <1>1, <1>2, <1>3, PrioritiesExist DEF Request

(* The queue after the tick: what is asked for anew, and what was waiting  *)
(* and still is, with this frame's priority.                               *)
LEMMA PendingAfterTick ==
  ASSUME IInv, NEW want, NEW uploaded, Ticked(want, uploaded)
  PROVE  pending' = {Sent(want, Missing(want, uploaded))[k] :
                       k \in Missing(want, uploaded)
                             \cup {j \in Outstanding(want) : Waits(j, requested[j])}}
<1> DEFINE missing == Missing(want, uploaded)
           queue == CancelInQueue(Cancelled(want))
           sent == Sent(want, missing)
<1>1. pending' = {p \in queue.pending : ~ Displaced(queue, sent, p)}
                   \cup {sent[k] : k \in {d \in DOMAIN sent : Enters(queue, sent, d)}}
  BY DEF Ticked, Reconcile, Enqueued
<1>2. /\ DOMAIN sent = missing \cup Outstanding(want)
      /\ queue.pending = {p \in pending : p.key \notin Cancelled(want)}
      /\ \A k \in Key : queue.latest[k] = IF k \in Cancelled(want) THEN Absent ELSE latest[k]
  BY DEF Sent, CancelInQueue
<1>3. \A p \in pending : /\ p \in Request /\ p.key \in Key
                         /\ p.generation # Absent
                         /\ requested[p.key] = p.generation
                         /\ latest[p.key] = p.generation
  BY GenerationsAreNumbers DEF IInv, TypeOK, LoaderTypeOK, CurrentIsOutstanding, IsCurrent
<1>4. \A p \in queue.pending : p.key \in Outstanding(want)
  <2>1. \A p \in pending, r \in taken : ~ Same(p, r.request)
    BY DEF IInv, OnePlace, Results
  <2>2. \A p \in queue.pending : p \in pending /\ p.key \in want
    BY <1>2, <1>3 DEF Cancelled
  <2> HIDE DEF queue
  <2> QED
    BY <1>3, <2>1, <2>2 DEF Same, Outstanding, Owns
<1>5. \A k \in Outstanding(want) :
        /\ k \in Key
        /\ k \in DOMAIN sent
        /\ k \notin Cancelled(want)
        /\ sent[k].generation = requested[k]
        /\ queue.latest[k] = requested[k]
        /\ ~ (queue.latest[k] < sent[k].generation)
  <2> TAKE k \in Outstanding(want)
  <2>1. k \in Key
    BY WantedAreKeys DEF IInv, Ticked, Outstanding
  <2>2. sent[k].generation = requested[k]
    BY <2>1, SentRequests, RequestsAfterTick
  <2>3. k \notin Cancelled(want)
    BY DEF Outstanding, Cancelled
  <2>4. queue.latest[k] = requested[k]
    BY <1>2, <2>1, <2>3, RequestsAfterTick DEF IInv, OutstandingIsLatest
  <2>5. requested[k] \in Nat
    BY <2>1, GenerationsAreNumbers DEF IInv
  <2>6. ~ (requested[k] < requested[k])
    BY <2>5
  <2> HIDE DEF queue, sent
  <2> QED
    BY <1>2, <2>1, <2>2, <2>3, <2>4, <2>6
<1>6. \A k \in missing : Enters(queue, sent, k)
  <2> TAKE k \in missing
  <2>1. k \in Key
    BY WantedAreKeys DEF IInv, Ticked, Missing
  <2>2. queue.latest[k] \in Nat /\ queue.latest[k] < nextGeneration /\ nextGeneration \in Nat
    BY <1>2, <2>1, GenerationsAreNumbers DEF IInv, GenerationsIssued, Missing, Cancelled
  <2>3. sent[k].generation \in Nat /\ nextGeneration <= sent[k].generation
    BY <2>1, SentRequests, RequestsAfterTick DEF Generation
  <2> HIDE DEF queue, sent
  <2> QED
    BY <2>2, <2>3 DEF Enters
<1> HIDE DEF queue, sent
<1>7. \A p \in queue.pending : Displaced(queue, sent, p)
  BY <1>2, <1>3, <1>4, <1>5 DEF Displaced
<1>8. \A k \in Outstanding(want) : Enters(queue, sent, k) <=> Waits(k, requested[k])
  BY <1>2, <1>5 DEF Enters, Waits, IsRequest
<1> QED
  BY <1>1, <1>2, <1>6, <1>7, <1>8 DEF sent

(* The main thread's holdings after the tick, key by key.                  *)
LEMMA HoldingsAfterTick ==
  ASSUME IInv, NEW want, NEW uploaded, Ticked(want, uploaded), NEW k \in Key
  PROVE  /\ groups'[k] = IF k \notin want THEN Absent
                         ELSE IF k \in KeysOf(uploaded) THEN requested[k]
                         ELSE groups[k]
         /\ k \in failed' <=> \/ k \in failed /\ k \notin Retried /\ k \in want
                              \/ k \in KeysOf(Accepted(want) \ uploaded)
         /\ k \in Missing(want, uploaded) <=> /\ k \in want
                                              /\ k \notin failed'
                                              /\ k \notin Outstanding(want)
                                              /\ groups'[k] = Absent
         /\ KeysOf(uploaded) \subseteq KeysOf(Accepted(want))
         /\ k \in KeysOf(uploaded) => k \notin KeysOf(Accepted(want) \ uploaded)
<1>1. uploaded \subseteq Accepted(want)
  BY DEF Ticked, Uploadable
<1>2. k \in KeysOf(uploaded) => k \notin KeysOf(Accepted(want) \ uploaded)
  BY <1>1, AcceptedResults DEF KeysOf
<1>3. groups'[k] = IF k \notin want THEN Absent
                   ELSE IF k \in KeysOf(uploaded) THEN requested[k]
                   ELSE groups[k]
  BY DEF Ticked, GroupsAfter
<1>4. k \in failed' <=> \/ k \in failed /\ k \notin Retried /\ k \in want
                        \/ k \in KeysOf(Accepted(want) \ uploaded)
  BY DEF Ticked, FailedAfter
<1>5. k \in Missing(want, uploaded) <=> /\ k \in want
                                        /\ k \notin failed'
                                        /\ k \notin Outstanding(want)
                                        /\ groups'[k] = Absent
  BY DEF Ticked, Missing
<1> QED
  BY <1>1, <1>2, <1>3, <1>4, <1>5 DEF KeysOf

LEMMA TickHoldingsDisjoint ==
  ASSUME IInv, NEW want, NEW uploaded, Ticked(want, uploaded)
  PROVE  HoldingsDisjoint'
<1> SUFFICES ASSUME NEW k \in Key
             PROVE  /\ groups'[k] # Absent => requested'[k] = Absent /\ k \notin failed'
                    /\ k \in failed' => requested'[k] = Absent
  BY DEF HoldingsDisjoint
<1>1. /\ groups[k] # Absent => requested[k] = Absent /\ k \notin failed
      /\ k \in failed => requested[k] = Absent
  BY DEF IInv, HoldingsDisjoint
<1>2. k \in KeysOf(Accepted(want)) => requested[k] # Absent /\ k \notin Outstanding(want)
  BY AcceptedResults DEF KeysOf
<1>3. KeysOf(Accepted(want) \ uploaded) \subseteq KeysOf(Accepted(want))
  BY DEF KeysOf
<1>4. k \in Outstanding(want) => requested[k] # Absent
  BY DEF Outstanding
<1> QED
  BY <1>1, <1>2, <1>3, <1>4, HoldingsAfterTick, RequestsAfterTick

LEMMA TickGenerations ==
  ASSUME IInv, NEW want, NEW uploaded, Ticked(want, uploaded)
  PROVE  GenerationsIssued'
<1>1. nextGeneration \in Nat /\ nextGeneration' \in Nat /\ nextGeneration <= nextGeneration'
  BY CounterAfterTick, GenerationsAreNumbers DEF IInv, Generation
<1>2. 0 < nextGeneration
  BY GenerationsAreNumbers DEF IInv, Absent
<1>3. ASSUME NEW k \in Key PROVE requested'[k] < nextGeneration'
  <2>1. requested[k] \in Nat /\ requested[k] < nextGeneration
    BY GenerationsAreNumbers DEF IInv, GenerationsIssued
  <2> QED
    BY <1>1, <1>2, <2>1, RequestsAfterTick DEF Absent
<1>4. ASSUME NEW k \in Key PROVE latest'[k] < nextGeneration'
  <2>1. latest[k] \in Nat /\ latest[k] < nextGeneration
    BY GenerationsAreNumbers DEF IInv, GenerationsIssued
  <2> QED
    BY <1>1, <1>2, <1>3, <2>1, LatestAfterTick DEF Absent
<1>5. ASSUME NEW p \in pending' PROVE p.generation < nextGeneration'
  <2>1. PICK k \in Missing(want, uploaded) \cup Outstanding(want) :
          p = Sent(want, Missing(want, uploaded))[k]
    BY PendingAfterTick
  <2>2. k \in Key /\ p.generation = requested'[k]
    BY <2>1, SentRequests
  <2> QED
    BY <1>3, <2>2
<1>6. ASSUME NEW s \in started' \cup begun' PROVE s.generation < nextGeneration'
  <2>1. s \in started /\ s \in Request
    BY DEF Ticked, IInv, TypeOK, LoaderTypeOK
  <2>2. s.generation \in Nat /\ s.generation < nextGeneration
    BY <2>1, GenerationsAreNumbers DEF IInv, GenerationsIssued
  <2> QED
    BY <1>1, <2>2
<1>7. ASSUME NEW r \in Results' PROVE r.request.generation < nextGeneration'
  <2>1. r \in completed /\ r.request \in Request
    BY DEF Ticked, IInv, TypeOK, LoaderTypeOK, Results, Result
  <2>2. r.request.generation \in Nat /\ r.request.generation < nextGeneration
    BY <2>1, GenerationsAreNumbers DEF IInv, GenerationsIssued, Results
  <2> QED
    BY <1>1, <2>2
<1>8. ASSUME Busy' PROVE job'.generation < nextGeneration'
  <2>1. Busy /\ job' = job /\ job \in Request
    BY <1>8 DEF Busy, Ticked, IInv, TypeOK, LoaderTypeOK
  <2>2. job.generation \in Nat /\ job.generation < nextGeneration
    BY <2>1, GenerationsAreNumbers DEF IInv, GenerationsIssued
  <2> QED
    BY <1>1, <2>1, <2>2
<1> QED
  BY <1>3, <1>4, <1>5, <1>6, <1>7, <1>8 DEF GenerationsIssued

LEMMA TickOutstandingIsLatest ==
  ASSUME IInv, NEW want, NEW uploaded, Ticked(want, uploaded)
  PROVE  OutstandingIsLatest'
<1> SUFFICES ASSUME NEW k \in Key, requested'[k] # Absent
             PROVE  latest'[k] = requested'[k]
  BY DEF OutstandingIsLatest
<1>1. CASE k \in Missing(want, uploaded)
  BY <1>1, LatestAfterTick
<1>2. CASE k \in Outstanding(want)
  <2>1. k \notin Missing(want, uploaded) /\ k \notin Cancelled(want)
    BY <1>2 DEF Missing, Outstanding, Cancelled
  <2> QED
    BY <1>2, <2>1, LatestAfterTick, RequestsAfterTick DEF IInv, OutstandingIsLatest
<1> QED
  BY <1>1, <1>2, RequestsAfterTick

LEMMA TickCurrentIsOutstanding ==
  ASSUME IInv, NEW want, NEW uploaded, Ticked(want, uploaded)
  PROVE  CurrentIsOutstanding'
<1>1. ASSUME NEW p \in pending'
      PROVE  IsCurrent(p)' /\ requested'[p.key] = p.generation
  <2>1. PICK k \in Missing(want, uploaded) \cup Outstanding(want) :
          p = Sent(want, Missing(want, uploaded))[k]
    BY PendingAfterTick
  <2>2. k \in Key /\ p.key = k /\ p.generation = requested'[k] /\ p \in Request
    BY <2>1, SentRequests
  <2>3. requested'[k] # Absent
    BY <2>2, GenerationsAreNumbers DEF IInv
  <2> QED
    BY <2>2, <2>3, TickOutstandingIsLatest DEF OutstandingIsLatest, IsCurrent
<1>2. ASSUME NEW s \in started' \cup begun', IsCurrent(s)'
      PROVE  requested'[s.key] = s.generation
  <2>1. s \in started /\ s \in Request /\ s.generation < nextGeneration
    BY DEF Ticked, IInv, TypeOK, LoaderTypeOK, GenerationsIssued
  <2>2. \A r \in taken : ~ Same(s, r.request)
    BY <2>1 DEF IInv, OnePlace, Ticked
  <2> QED
    BY <1>2, <2>1, <2>2, StillCurrent DEF IInv, CurrentIsOutstanding
<1>3. ASSUME NEW r \in Results', IsCurrent(r.request)'
      PROVE  requested'[r.request.key] = r.request.generation
  <2>1. r \in completed /\ r \in Results /\ r \notin taken
    BY DEF Ticked, Results, IInv, OnePlace
  <2>2. r.request \in Request /\ r.request.generation < nextGeneration
    BY <2>1 DEF IInv, TypeOK, LoaderTypeOK, Result, GenerationsIssued
  <2>3. \A t \in taken : ~ Same(r.request, t.request)
    BY <2>1 DEF IInv, OnePlace, Results
  <2> QED
    BY <1>3, <2>1, <2>2, <2>3, StillCurrent DEF IInv, CurrentIsOutstanding
<1>4. ASSUME Busy', IsCurrent(job)' PROVE requested'[job'.key] = job'.generation
  <2>1. Busy /\ job' = job /\ job \in Request /\ job.generation < nextGeneration
    BY <1>4 DEF Busy, Ticked, IInv, TypeOK, LoaderTypeOK, GenerationsIssued
  <2>2. \A t \in taken : ~ Same(job, t.request)
    BY <2>1 DEF IInv, OnePlace, Results
  <2>3. latest'[job.key] = job.generation
    BY <1>4, <2>1 DEF IsCurrent
  <2> QED
    BY <2>1, <2>2, <2>3, StillCurrent DEF IInv, CurrentIsOutstanding, IsCurrent
<1> QED
  BY <1>1, <1>2, <1>3, <1>4 DEF CurrentIsOutstanding

(* A request in the queue after the tick is new, or was waiting before.    *)
LEMMA QueuedAfterTick ==
  ASSUME IInv, NEW want, NEW uploaded, Ticked(want, uploaded), NEW p \in pending'
  PROVE  /\ p.key \in Key
         /\ p.priority = PriorityOf(p.key, want, CurrentSquare)
         /\ p = Sent(want, Missing(want, uploaded))[p.key]
         /\ \/ nextGeneration <= p.generation /\ p.generation \in Nat
            \/ \E o \in pending : Same(p, o)
<1>1. PICK k \in Missing(want, uploaded) \cup {j \in Outstanding(want) : Waits(j, requested[j])} :
        p = Sent(want, Missing(want, uploaded))[k]
  BY PendingAfterTick
<1>2. /\ k \in Key
      /\ p.key = k
      /\ p.generation = requested'[k]
      /\ p.priority = PriorityOf(k, want, CurrentSquare)
  BY <1>1, SentRequests
<1>3. CASE k \in Missing(want, uploaded)
  BY <1>1, <1>2, <1>3, RequestsAfterTick DEF Generation
<1>4. CASE k \in Outstanding(want) /\ Waits(k, requested[k])
  <2>1. p.generation = requested[k]
    BY <1>2, <1>4, RequestsAfterTick
  <2>2. \E o \in pending : Same(p, o)
    BY <1>2, <1>4, <2>1 DEF Waits, IsRequest, Same
  <2> QED
    BY <1>1, <1>2, <2>2
<1> QED
  BY <1>1, <1>3, <1>4

LEMMA TickOnePlace ==
  ASSUME IInv, NEW want, NEW uploaded, Ticked(want, uploaded)
  PROVE  OnePlace'
<1>1. \A p, q \in pending' : p.key = q.key => p = q
  BY QueuedAfterTick
<1>2. ASSUME NEW p \in pending', NEW q \in Request, q.generation < nextGeneration,
             \A o \in pending : ~ Same(o, q)
      PROVE  ~ Same(p, q)
  <2>1. q.generation \in Nat /\ nextGeneration \in Nat
    BY GenerationsAreNumbers DEF IInv
  <2> QED
    BY <1>2, <2>1, QueuedAfterTick DEF Same
<1>3. Results' = completed /\ Results' \subseteq Results
  BY DEF Ticked, Results
<1>4. ASSUME NEW p \in pending', NEW r \in Results' PROVE ~ Same(p, r.request)
  <2>1. r.request \in Request /\ r.request.generation < nextGeneration
    BY <1>3 DEF IInv, TypeOK, LoaderTypeOK, Result, GenerationsIssued
  <2>2. \A o \in pending : ~ Same(o, r.request)
    BY <1>3 DEF IInv, OnePlace
  <2> QED
    BY <1>2, <2>1, <2>2
<1>5. ASSUME Busy', NEW p \in pending' PROVE ~ Same(p, job')
  <2>1. Busy /\ job' = job /\ job \in Request /\ job.generation < nextGeneration
    BY <1>5 DEF Busy, Ticked, IInv, TypeOK, LoaderTypeOK, GenerationsIssued
  <2>2. \A o \in pending : ~ Same(o, job)
    BY <2>1 DEF IInv, OnePlace
  <2> QED
    BY <1>2, <2>1, <2>2
<1>6. ASSUME Busy', NEW r \in Results' PROVE ~ Same(job', r.request)
  BY <1>3, <1>6 DEF Busy, Ticked, IInv, OnePlace
<1>7. \A r, s \in Results' : Same(r.request, s.request) => r = s
  BY <1>3 DEF IInv, OnePlace
<1>8. completed' \cap taken' = {} /\ main' # "started taken"
  BY DEF Ticked
<1> QED
  BY <1>1, <1>4, <1>5, <1>6, <1>7, <1>8 DEF OnePlace

LEMMA TickNoneLost ==
  ASSUME IInv, NEW want, NEW uploaded, Ticked(want, uploaded)
  PROVE  NoneLost'
<1> SUFFICES ASSUME ~ stopping, NEW k \in Key, requested'[k] # Absent
             PROVE  (Waits(k, requested[k]) \/ IsLoaded(k, requested[k])
                       \/ HasResult(k, requested[k]))'
  BY DEF NoneLost, Ticked
<1>1. ASSUME k \in Missing(want, uploaded) \cup {j \in Outstanding(want) : Waits(j, requested[j])}
      PROVE  Waits(k, requested[k])'
  <2>1. Sent(want, Missing(want, uploaded))[k] \in pending'
    BY <1>1, PendingAfterTick
  <2> QED
    BY <1>1, <2>1, SentRequests DEF Waits, IsRequest
<1>2. CASE k \in Outstanding(want) /\ ~ Waits(k, requested[k])
  <2>1. requested'[k] = requested[k] /\ requested[k] # Absent /\ k \in want
    BY <1>2, RequestsAfterTick
  <2>2. IsLoaded(k, requested[k]) \/ HasResult(k, requested[k])
    BY <1>2, <2>1 DEF IInv, NoneLost
  <2>3. \A r \in taken : ~ IsRequest(r.request, k, requested[k])
    BY <1>2, <2>1 DEF Outstanding, Owns, IsRequest
  <2>4. CASE IsLoaded(k, requested[k])
    BY <2>1, <2>4 DEF IsLoaded, Ticked
  <2>5. CASE HasResult(k, requested[k])
    BY <2>1, <2>3, <2>5 DEF HasResult, Ticked
  <2> QED
    BY <2>2, <2>4, <2>5
<1> QED
  BY <1>1, <1>2, RequestsAfterTick

LEMMA TickCancellations ==
  ASSUME IInv, NEW want, NEW uploaded, Ticked(want, uploaded)
  PROVE  CancelledIsStale' /\ CancellationIsNoFailure'
<1>1. CancellationIsNoFailure'
  BY DEF IInv, CancellationIsNoFailure, Ticked
<1>2. ASSUME phase' = "returned", outcome' = "cancelled", IsCurrent(job)'
      PROVE  stopping'
  <2>1. phase = "returned" /\ outcome = "cancelled" /\ job' = job /\ stopping' = stopping
    BY <1>2 DEF Ticked
  <2>2. job \in Request /\ job.generation < nextGeneration
    BY <2>1 DEF IInv, TypeOK, LoaderTypeOK, GenerationsIssued, Busy
  <2>3. latest'[job.key] = job.generation
    BY <1>2, <2>1 DEF IsCurrent
  <2>4. IsCurrent(job)
    BY <2>2, <2>3, StillCurrent DEF IsCurrent
  <2> QED
    BY <2>1, <2>4 DEF IInv, CancelledIsStale
<1> QED
  BY <1>1, <1>2 DEF CancelledIsStale

(* The calls of set_status in tick agree with what tick does to the        *)
(* holdings of each key.                                                   *)
LEMMA TickStatus ==
  ASSUME IInv, NEW want, NEW uploaded, Ticked(want, uploaded)
  PROVE  StatusIsTruthful'
<1> DEFINE missing == Missing(want, uploaded)
           begunKeys == {r.key : r \in {b \in begun : IsCurrent(b) /\ b.key \in want}}
           given == {k \in Key \ want :
                       groups[k] # Absent \/ k \in failed \ Retried \/ requested[k] # Absent}
<1> SUFFICES ASSUME NEW k \in Key
             PROVE  /\ status'[k] = "resident" <=> groups'[k] # Absent
                    /\ status'[k] = "failed" <=> k \in failed'
                    /\ status'[k] \in {"queued", "loading"} <=> requested'[k] # Absent
  BY DEF StatusIsTruthful
<1>1. status'[k] = IF k \in missing THEN "queued"
                   ELSE IF k \in KeysOf(Accepted(want) \ uploaded) THEN "failed"
                   ELSE IF k \in KeysOf(uploaded) THEN "resident"
                   ELSE IF k \in given THEN "not_resident"
                   ELSE IF k \in begunKeys THEN "loading"
                   ELSE IF k \in Retried THEN "not_resident"
                   ELSE status[k]
  BY DEF Ticked, StatusAfter, Marked
<1>2. k \in begunKeys => k \in want /\ requested[k] # Absent
  BY GenerationsAreNumbers DEF IInv, TypeOK, CurrentIsOutstanding
<1>3. k \in given <=> /\ k \notin want
                      /\ groups[k] # Absent \/ k \in failed \ Retried \/ requested[k] # Absent
  OBVIOUS
<1>4. /\ groups[k] # Absent => requested[k] = Absent /\ k \notin failed
      /\ k \in failed => requested[k] = Absent
      /\ status[k] = "resident" <=> groups[k] # Absent
      /\ status[k] = "failed" <=> k \in failed
      /\ status[k] \in {"queued", "loading"} <=> requested[k] # Absent
  BY DEF IInv, HoldingsDisjoint, StatusIsTruthful
<1>5. /\ groups'[k] # Absent => requested'[k] = Absent /\ k \notin failed'
      /\ k \in failed' => requested'[k] = Absent
  BY TickHoldingsDisjoint DEF HoldingsDisjoint
<1>6. /\ k \in KeysOf(Accepted(want)) => /\ k \in want
                                         /\ requested[k] # Absent
                                         /\ k \notin Outstanding(want)
      /\ k \in want /\ requested[k] # Absent
           => k \in Outstanding(want) \/ k \in KeysOf(Accepted(want))
      /\ k \in KeysOf(Accepted(want))
           <=> k \in KeysOf(uploaded) \/ k \in KeysOf(Accepted(want) \ uploaded)
  <2>1. /\ k \in KeysOf(Accepted(want)) => /\ k \in want
                                           /\ requested[k] # Absent
                                           /\ k \notin Outstanding(want)
        /\ k \in want /\ requested[k] # Absent
             => k \in Outstanding(want) \/ k \in KeysOf(Accepted(want))
    BY AcceptedResults DEF KeysOf
  <2>2. KeysOf(uploaded) \subseteq KeysOf(Accepted(want))
    BY HoldingsAfterTick
  <2> QED
    BY <2>1, <2>2 DEF KeysOf
<1>7. k \in Retried => k \in failed
  BY DEF Retried
<1>8. /\ k \in Outstanding(want) => k \in want /\ requested[k] # Absent
      /\ k \in missing => k \in want
  BY DEF Outstanding, Missing
<1>9. requested'[k] # Absent <=> k \in missing \/ k \in Outstanding(want)
  BY RequestsAfterTick DEF Generation, Absent
<1> HIDE DEF missing, begunKeys, given
<1>10. CASE k \in missing
  BY <1>1, <1>5, <1>9, <1>10
<1>11. CASE k \notin missing /\ k \in KeysOf(Accepted(want) \ uploaded)
  BY <1>1, <1>5, <1>11, HoldingsAfterTick
<1>12. CASE k \notin missing /\ k \in KeysOf(uploaded)
  BY <1>1, <1>5, <1>6, <1>12, HoldingsAfterTick
<1>13. CASE k \notin missing /\ k \notin KeysOf(Accepted(want)) /\ k \notin want
  BY <1>1, <1>2, <1>3, <1>4, <1>6, <1>7, <1>8, <1>9, <1>13, HoldingsAfterTick
<1>14. CASE k \notin missing /\ k \notin KeysOf(Accepted(want)) /\ k \in want
  <2>1. groups'[k] = groups[k]
    BY <1>6, <1>14, HoldingsAfterTick
  <2>2. k \in failed' <=> k \in failed /\ k \notin Retried
    BY <1>6, <1>14, HoldingsAfterTick
  <2>3. k \in Outstanding(want) <=> requested[k] # Absent
    BY <1>6, <1>8, <1>14
  <2>4. k \notin Retried
    BY <1>4, <1>7, <1>14, <2>1, <2>2, <2>3, HoldingsAfterTick DEF missing
  <2> QED
    BY <1>1, <1>2, <1>3, <1>4, <1>6, <1>9, <1>14, <2>1, <2>2, <2>3, <2>4
<1> QED
  BY <1>6, <1>10, <1>11, <1>12, <1>13, <1>14

LEMMA TickScene ==
  ASSUME IInv, NEW want, NEW uploaded, Ticked(want, uploaded)
  PROVE  SceneHasNoLeak'
<1> DEFINE kept == scene \ {GroupOf(k, groups[k]) : k \in {j \in Key \ want : groups[j] # Absent}}
           added == {GroupOf(r.request.key, r.request.generation) : r \in uploaded}
<1>1. scene' = kept \cup added
  BY DEF Ticked, SceneAfter
<1>2. scene = {GroupOf(k, groups[k]) : k \in {j \in Key : groups[j] # Absent}}
  BY DEF IInv, SceneHasNoLeak
<1>3. \A r \in uploaded : /\ r.request.key \in want \cap Key
                          /\ requested[r.request.key] = r.request.generation
                          /\ requested[r.request.key] # Absent
                          /\ groups'[r.request.key] = r.request.generation
  <2>1. uploaded \subseteq Accepted(want)
    BY DEF Ticked, Uploadable
  <2>2. \A r \in uploaded : r.request.key \in KeysOf(uploaded)
    BY DEF KeysOf
  <2>3. \A r \in uploaded : /\ r.request.key \in want \cap Key
                            /\ requested[r.request.key] = r.request.generation
                            /\ requested[r.request.key] # Absent
    BY <2>1, AcceptedResults
  <2>4. \A k \in Key : k \in want /\ k \in KeysOf(uploaded) => groups'[k] = requested[k]
    BY HoldingsAfterTick
  <2> QED
    BY <2>2, <2>3, <2>4
<1>4. \A k \in Key : groups[k] # Absent => requested[k] = Absent
  BY DEF IInv, HoldingsDisjoint
<1>5. \A k \in want \cap Key : groups[k] # Absent => groups'[k] = groups[k]
  BY <1>3, <1>4, HoldingsAfterTick DEF KeysOf
<1>6. \A k \in Key : groups'[k] # Absent =>
        \/ k \in want /\ groups[k] # Absent /\ groups'[k] = groups[k]
        \/ \E r \in uploaded : r.request.key = k /\ groups'[k] = r.request.generation
  BY <1>3, HoldingsAfterTick DEF KeysOf
<1>7. kept = {GroupOf(k, groups[k]) : k \in {j \in Key \cap want : groups[j] # Absent}}
  BY <1>2 DEF GroupOf
<1> HIDE DEF kept
<1>8. ASSUME NEW k \in Key, groups'[k] # Absent
      PROVE  GroupOf(k, groups'[k]) \in kept \cup added
  BY <1>6, <1>7, <1>8
<1>9. ASSUME NEW x \in kept
      PROVE  x \in {GroupOf(k, groups'[k]) : k \in {j \in Key : groups'[j] # Absent}}
  <2>1. PICK k \in Key \cap want : groups[k] # Absent /\ x = GroupOf(k, groups[k])
    BY <1>7, <1>9
  <2> QED
    BY <1>5, <2>1
<1>10. ASSUME NEW x \in added
       PROVE  x \in {GroupOf(k, groups'[k]) : k \in {j \in Key : groups'[j] # Absent}}
  <2>1. PICK r \in uploaded : x = GroupOf(r.request.key, r.request.generation)
    BY <1>10
  <2> QED
    BY <1>3, <2>1
<1> QED
  BY <1>1, <1>8, <1>9, <1>10 DEF SceneHasNoLeak

LEMMA TickTerrain ==
  ASSUME IInv, NEW want, NEW uploaded, Ticked(want, uploaded)
  PROVE  TerrainIsFallback'
<1> DEFINE terrain == {k \in Key : k.layer = "terrain" /\ groups'[k] # Absent}
           shown == {GroupOf(k, groups'[k]) : k \in terrain}
           covered == {GroupOf(k, groups'[k]) : k \in {j \in terrain : Covered(j, groups')}}
<1> SUFFICES ASSUME NEW c \in Catalog, groups'[Terrain(c)] # Absent
             PROVE  GroupOf(Terrain(c), groups'[Terrain(c)]) \in hidden'
                      <=> groups'[Detail(c)] # Absent
  BY DEF TerrainIsFallback
<1>1. hidden' = ((hidden \cap scene') \ shown) \cup covered
  BY DEF Ticked, HiddenAfter
<1>2. Terrain(c) \in terrain /\ Terrain(c).layer = "terrain" /\ Terrain(c).square = c
  BY KeysOfSquares DEF Terrain
<1>3. GroupOf(Terrain(c), groups'[Terrain(c)]) \in shown
  BY <1>2
<1>4. GroupOf(Terrain(c), groups'[Terrain(c)]) \in covered <=> Covered(Terrain(c), groups')
  BY <1>2 DEF GroupOf
<1> QED
  BY <1>1, <1>2, <1>3, <1>4 DEF Covered

LEMMA TickPriorities ==
  ASSUME IInv, NEW want, NEW uploaded, Ticked(want, uploaded)
  PROVE  PrioritiesAreFresh'
<1>1. desired' = want /\ current' = CurrentSquare
  BY DEF Ticked
<1> QED
  BY <1>1, QueuedAfterTick DEF PrioritiesAreFresh

LEMMA TickTypes ==
  ASSUME IInv, NEW want, NEW uploaded, Ticked(want, uploaded)
  PROVE  TypeOK'
<1>1. want \in SUBSET Key
  BY WantedAreKeys DEF IInv, Ticked
<1>2. \A k \in Missing(want, uploaded) \cup Outstanding(want) :
        /\ k \in Key
        /\ Sent(want, Missing(want, uploaded))[k] \in Request
        /\ requested'[k] \in Generation
  BY SentRequests, GenerationsAreNumbers DEF IInv, Request
<1>3. pending' \in SUBSET Request
  BY <1>2, PendingAfterTick
<1>4. requested' \in [Key -> Generation \cup {Absent}]
  <2>1. requested' = [k \in Key |-> requested'[k]]
    BY DEF Ticked, RequestedAfter
  <2>2. \A k \in Key : requested'[k] \in Generation \cup {Absent}
    BY <1>2, RequestsAfterTick
  <2> QED
    BY <2>1, <2>2
<1>5. latest' \in [Key -> Generation \cup {Absent}]
  <2>1. latest' = [k \in Key |-> latest'[k]]
    BY DEF Ticked, Reconcile, Enqueued
  <2>2. \A k \in Key : latest[k] \in Generation \cup {Absent}
    BY DEF IInv, TypeOK, LoaderTypeOK
  <2>3. \A k \in Key : latest'[k] \in Generation \cup {Absent}
    BY <1>4, <2>2, LatestAfterTick
  <2> QED
    BY <2>1, <2>3
<1>6. groups' \in [Key -> Generation \cup {Absent}]
  <2>1. groups' = [k \in Key |-> groups'[k]]
    BY DEF Ticked, GroupsAfter
  <2>2. \A k \in Key : groups'[k] \in Generation \cup {Absent}
    BY HoldingsAfterTick DEF IInv, TypeOK
  <2> QED
    BY <2>1, <2>2
<1>7. failed' \in SUBSET Key
  <2>1. KeysOf(Accepted(want) \ uploaded) \subseteq Key
    BY AcceptedResults DEF KeysOf
  <2> QED
    BY <2>1 DEF IInv, TypeOK, Ticked, FailedAfter
<1>8. scene' \in SUBSET Group
  <2>1. SceneHasNoLeak'
    BY TickScene
  <2>2. \A k \in Key : groups'[k] # Absent => GroupOf(k, groups'[k]) \in Group
    BY <1>6 DEF GroupOf, Group
  <2> QED
    BY <2>1, <2>2 DEF SceneHasNoLeak
<1>9. hidden' \in SUBSET Group
  <2>1. \A k \in Key : groups'[k] # Absent => GroupOf(k, groups'[k]) \in Group
    BY <1>6 DEF GroupOf, Group
  <2>2. hidden \in SUBSET Group
    BY DEF IInv, TypeOK
  <2> QED
    BY <2>1, <2>2 DEF Ticked, HiddenAfter
<1>10. status' \in [Key -> Status]
  <2>1. status \in [Key -> Status]
    BY DEF IInv, TypeOK
  <2>2. status' = [k \in Key |-> status'[k]]
    BY DEF Ticked, StatusAfter, Marked
  <2>3. \A k \in Key :
          \/ status'[k] \in {"not_resident", "queued", "loading", "resident", "failed"}
          \/ status'[k] = status[k]
    BY DEF Ticked, StatusAfter, Marked
  <2> QED
    BY <2>1, <2>2, <2>3 DEF Status
<1>11. nextGeneration' \in Generation
  BY CounterAfterTick
<1>12. grid' \in BOOLEAN
  BY DEF Ticked, GridKnown, SeedArrived
<1>13. CameraSquare \in Squares \cup {Nowhere}
  BY StreamingAssumption, CatalogAssumption DEF IInv, TypeOK, CameraSquare
<1>14. camera' \in Squares \cup {Nowhere} /\ current' \in Squares \cup {Nowhere}
  BY <1>13 DEF Ticked, CurrentSquare
<1>15. LoaderTypeOK'
  BY <1>3, <1>5 DEF IInv, TypeOK, LoaderTypeOK, Ticked
<1>16. auto' \in BOOLEAN /\ ring' \in BOOLEAN
  BY DEF IInv, TypeOK, Ticked
<1> QED
  BY <1>1, <1>4, <1>6, <1>7, <1>8, <1>9, <1>10, <1>11, <1>12, <1>14, <1>15, <1>16
     DEF IInv, TypeOK, Ticked

LEMMA ReconcileTickInv == IInv /\ ReconcileTick => IInv'
<1> SUFFICES ASSUME IInv, ReconcileTick PROVE IInv'
  OBVIOUS
<1>1. PICK want, uploaded : Ticked(want, uploaded)
  BY TickIsTicked
<1>2. TypeOK' /\ GenerationsIssued' /\ OutstandingIsLatest' /\ CurrentIsOutstanding'
  BY <1>1, TickTypes, TickGenerations, TickOutstandingIsLatest, TickCurrentIsOutstanding
<1>3. OnePlace' /\ NoneLost' /\ HoldingsDisjoint' /\ CancelledIsStale' /\ CancellationIsNoFailure'
  BY <1>1, TickOnePlace, TickNoneLost, TickHoldingsDisjoint, TickCancellations
<1>4. PhasesMatch'
  <2>1. ~ stopping
    BY <1>1 DEF IInv, PhasesMatch, Ticked
  <2> QED
    BY <1>1, <2>1 DEF PhasesMatch, Ticked
<1>5. StatusIsTruthful' /\ SceneHasNoLeak' /\ TerrainIsFallback' /\ PrioritiesAreFresh'
  BY <1>1, TickStatus, TickScene, TickTerrain, TickPriorities
<1> QED
  BY <1>2, <1>3, <1>4, <1>5 DEF IInv

-----------------------------------------------------------------------------
(* The theorems.                                                           *)

LEMMA NextInv == IInv /\ [Next]_vars => IInv'
<1> SUFFICES ASSUME IInv, [Next]_vars PROVE IInv'
  OBVIOUS
<1>1. CASE MoveCamera
  BY <1>1, MoveCameraInv
<1>2. CASE Tick
  BY <1>2, TakeCompletedInv, TakeStartedInv, ReconcileTickInv, NotifyInv DEF Tick
<1>3. CASE Controls
  BY <1>3, ControlsInv
<1>4. CASE BeginShutdown
  BY <1>4, BeginShutdownInv
<1>5. CASE Shutdown
  BY <1>5, NotifyInv DEF Shutdown
<1>6. CASE WorkerSteps
  BY <1>6, WorkerQuietInv, WorkerPopInv, WorkerReturnInv, WorkerPublishInv DEF WorkerSteps, Worker
<1>7. CASE SpuriousWake
  BY <1>7, WorkerQuietInv DEF SpuriousWake
<1>8. CASE UNCHANGED vars
  <2> USE <1>8 DEF vars, loaderVars, queueVars, workerVars, selectionVars, residencyVars, tickVars
  <2>1. LoaderTypeOK'
    BY DEF IInv, TypeOK, LoaderTypeOK
  <2>2. TypeOK'
    BY <2>1 DEF IInv, TypeOK
  <2>3. PhasesMatch' /\ (Busy' <=> Busy)
    BY DEF IInv, PhasesMatch, Busy
  <2> QED
    BY <2>2, <2>3, QuietStep
<1> QED
  BY <1>1, <1>2, <1>3, <1>4, <1>5, <1>6, <1>7, <1>8 DEF Next, Finished

(* The inductive invariant holds throughout every session.                 *)
THEOREM InductiveInvariant == Spec => []IInv
<1> QED
  BY InitInv, NextInv, PTL DEF Spec

(* Every variable keeps its type.                                          *)
THEOREM TypeCorrectness == Spec => []TypeOK
<1>1. IInv => TypeOK
  BY DEF IInv
<1> QED
  BY <1>1, InductiveInvariant, PTL

(* No load request is lost between the streaming system, the queue, the    *)
(* worker and the results, and none is in two of these places.             *)
THEOREM RequestsStayLive == Spec => []RequestsAreLive
<1>1. IInv => RequestsAreLive
  <2> SUFFICES ASSUME IInv, ~ stopping, NEW k \in Key, requested[k] # Absent
               PROVE  LET g == requested[k] IN
                      /\ Waits(k, g) \/ IsLoaded(k, g) \/ HasResult(k, g)
                      /\ ~ (Waits(k, g) /\ IsLoaded(k, g))
                      /\ ~ (Waits(k, g) /\ HasResult(k, g))
                      /\ ~ (IsLoaded(k, g) /\ HasResult(k, g))
    BY DEF RequestsAreLive
  <2>1. Waits(k, requested[k]) \/ IsLoaded(k, requested[k]) \/ HasResult(k, requested[k])
    BY DEF IInv, NoneLost
  <2>2. ~ (Waits(k, requested[k]) /\ IsLoaded(k, requested[k]))
    BY DEF IInv, OnePlace, Waits, IsLoaded, IsRequest, Busy, Same
  <2>3. ~ (Waits(k, requested[k]) /\ HasResult(k, requested[k]))
    BY DEF IInv, OnePlace, Waits, HasResult, IsRequest, Results, Same
  <2>4. ~ (IsLoaded(k, requested[k]) /\ HasResult(k, requested[k]))
    BY DEF IInv, OnePlace, IsLoaded, HasResult, IsRequest, Busy, Results, Same
  <2> QED
    BY <2>1, <2>2, <2>3, <2>4
<1> QED
  BY <1>1, InductiveInvariant, PTL

(* The Maps window tells the truth about every key.                        *)
THEOREM StatusStaysTruthful == Spec => []StatusIsTruthful
<1>1. IInv => StatusIsTruthful
  BY DEF IInv
<1> QED
  BY <1>1, InductiveInvariant, PTL

(* A superseded load never shows as a failure.                             *)
THEOREM CancellationsAreNoFailures == Spec => []CancellationIsNoFailure
<1>1. IInv => CancellationIsNoFailure
  BY DEF IInv
<1> QED
  BY <1>1, InductiveInvariant, PTL

(* The renderer's scene holds the groups the system knows and no others.   *)
THEOREM SceneKeepsNoLeak == Spec => []SceneHasNoLeak
<1>1. IInv => SceneHasNoLeak
  BY DEF IInv
<1> QED
  BY <1>1, InductiveInvariant, PTL

(* A Terrain is hidden exactly while its square's Detail is resident.      *)
THEOREM TerrainStaysFallback == Spec => []TerrainIsFallback
<1>1. IInv => TerrainIsFallback
  BY DEF IInv
<1> QED
  BY <1>1, InductiveInvariant, PTL

(* Every waiting request has the priority of the last frame.               *)
THEOREM PrioritiesStayFresh == Spec => []PrioritiesAreFresh
<1>1. IInv => PrioritiesAreFresh
  BY DEF IInv
<1> QED
  BY <1>1, InductiveInvariant, PTL

-----------------------------------------------------------------------------
(* The refinement.                                                         *)

LEMMA PromiseInit == Init => Promise!Init
<1> SUFFICES ASSUME Init PROVE Promise!Init
  OBVIOUS
<1>1. \A k \in Key : ResidencyOf(k) = "absent"
  BY DEF Init, ResidencyOf
<1> QED
  BY <1>1 DEF Init, Promise!Init

(* Of what the abstract state is made of, only the tick, the user's choice *)
(* of squares and the end of the session change anything.                  *)
LEMMA PromiseKept ==
  ASSUME UNCHANGED <<desired, retry, requested, groups, failed>>,
         main' \in {"stopping", "joining", "stopped"} <=> main \in {"stopping", "joining", "stopped"}
  PROVE  UNCHANGED Promise!promiseVars
<1>1. \A k \in Key : ResidencyOf(k)' = ResidencyOf(k)
  BY DEF ResidencyOf
<1> QED
  BY <1>1 DEF Promise!promiseVars

LEMMA PromiseFrame == IInv /\ ReconcileTick => Promise!Frame
<1> SUFFICES ASSUME IInv, ReconcileTick PROVE Promise!Frame
  OBVIOUS
<1>1. PICK want, uploaded : Ticked(want, uploaded)
  BY TickIsTicked
<1>2. want \in SUBSET Key
  BY <1>1, WantedAreKeys DEF IInv, Ticked
<1>3. ASSUME NEW k \in Key
      PROVE  ResidencyOf(k)' \in Promise!NextOf(k)
  <2> DEFINE asked == k \in Missing(want, uploaded)
             answered == k \in KeysOf(Accepted(want))
  <2>1. /\ groups[k] # Absent => requested[k] = Absent /\ k \notin failed
        /\ k \in failed => requested[k] = Absent
    BY DEF IInv, HoldingsDisjoint
  <2>2. /\ groups'[k] # Absent => requested'[k] = Absent /\ k \notin failed'
        /\ k \in failed' => requested'[k] = Absent
    BY <1>1, TickHoldingsDisjoint DEF HoldingsDisjoint
  <2>3. requested'[k] # Absent <=> asked \/ k \in Outstanding(want)
    BY <1>1, RequestsAfterTick DEF Generation, Absent
  <2>4. /\ k \in Outstanding(want) <=> k \in want /\ requested[k] # Absent /\ ~ answered
        /\ answered => k \in want /\ requested[k] # Absent
        /\ answered <=> k \in KeysOf(uploaded) \/ k \in KeysOf(Accepted(want) \ uploaded)
    <3>1. /\ answered => k \in want /\ requested[k] # Absent /\ k \notin Outstanding(want)
          /\ k \in want /\ requested[k] # Absent => k \in Outstanding(want) \/ answered
      BY <1>1, AcceptedResults DEF KeysOf
    <3>2. k \in Outstanding(want) => k \in want /\ requested[k] # Absent
      BY DEF Outstanding
    <3>3. KeysOf(uploaded) \subseteq KeysOf(Accepted(want))
      BY <1>1, HoldingsAfterTick
    <3>4. answered <=> k \in KeysOf(uploaded) \/ k \in KeysOf(Accepted(want) \ uploaded)
      BY <3>3 DEF KeysOf
    <3> QED
      BY <3>1, <3>2, <3>4
  <2>5. k \in Retried <=> k \in failed /\ k.square \in retry
    BY DEF Retried
  <2>6. ResidencyOf(k)' = IF requested'[k] # Absent THEN "pending"
                          ELSE IF groups'[k] # Absent THEN "resident"
                          ELSE IF k \in failed' THEN "failed" ELSE "absent"
    BY DEF ResidencyOf
  <2> HIDE DEF asked, answered
  <2>7. CASE k \notin want
    <3>1. ResidencyOf(k)' = "absent"
      BY <1>1, <2>3, <2>4, <2>6, <2>7, HoldingsAfterTick DEF asked
    <3> QED
      BY <1>1, <2>7, <3>1 DEF Promise!NextOf, Ticked
  <2>8. CASE k \in want /\ requested[k] # Absent
    <3>1. ResidencyOf(k)' \in {"pending", "resident", "failed"}
      BY <1>1, <2>3, <2>4, <2>6, <2>8, HoldingsAfterTick DEF asked
    <3> QED
      BY <1>1, <2>8, <3>1 DEF Promise!NextOf, Ticked, ResidencyOf
  <2>9. CASE k \in want /\ requested[k] = Absent /\ groups[k] # Absent
    <3>1. groups'[k] # Absent
      BY <1>1, <2>4, <2>9, HoldingsAfterTick
    <3>2. ResidencyOf(k)' = "resident"
      BY <2>2, <2>6, <3>1
    <3> QED
      BY <1>1, <2>9, <3>2 DEF Promise!NextOf, Ticked, ResidencyOf
  <2>10. CASE k \in want /\ requested[k] = Absent /\ groups[k] = Absent /\ k \in failed
    <3>1. groups'[k] = Absent
      BY <1>1, <2>4, <2>10, HoldingsAfterTick
    <3>2. CASE k.square \in retry
      <4>1. k \notin failed' /\ asked
        BY <1>1, <2>4, <2>5, <2>10, <3>1, <3>2, HoldingsAfterTick DEF asked
      <4>2. ResidencyOf(k)' = "pending"
        BY <2>3, <2>6, <4>1
      <4> QED
        BY <1>1, <1>2, <2>10, <3>2, <4>2 DEF Promise!NextOf, Ticked, ResidencyOf
    <3>3. CASE k.square \notin retry
      <4>1. k \in failed'
        BY <1>1, <2>5, <2>10, <3>3, HoldingsAfterTick
      <4>2. ResidencyOf(k)' = "failed"
        BY <2>2, <2>6, <3>1, <4>1
      <4> QED
        BY <1>1, <1>2, <2>10, <3>3, <4>2 DEF Promise!NextOf, Ticked, ResidencyOf
    <3> QED
      BY <3>2, <3>3
  <2>11. CASE k \in want /\ requested[k] = Absent /\ groups[k] = Absent /\ k \notin failed
    <3>1. groups'[k] = Absent /\ k \notin failed' /\ asked
      BY <1>1, <2>4, <2>11, HoldingsAfterTick DEF asked
    <3>2. ResidencyOf(k)' = "pending"
      BY <2>3, <2>6, <3>1
    <3> QED
      BY <1>1, <2>11, <3>2 DEF Promise!NextOf, Ticked, ResidencyOf
  <2> QED
    BY <2>7, <2>8, <2>9, <2>10, <2>11
<1>4. [k \in Key |-> ResidencyOf(k)]' \in [Key -> Promise!Residencies]
  BY DEF ResidencyOf, Promise!Residencies
<1>5. desired' \in SUBSET Key /\ {k \in Key : k.square \in retry}' = {}
  BY <1>1, <1>2 DEF Ticked
<1>6. main = "started taken" /\ main' = "reconciled"
  BY <1>1 DEF Ticked
<1> QED
  BY <1>3, <1>4, <1>5, <1>6 DEF Promise!Frame

LEMMA PromiseNext == IInv /\ [Next]_vars => [Promise!Next]_Promise!promiseVars
<1> SUFFICES ASSUME IInv, [Next]_vars PROVE [Promise!Next]_Promise!promiseVars
  OBVIOUS
<1> USE DEF loaderVars, queueVars, workerVars, selectionVars, residencyVars, tickVars
<1>1. CASE MoveCamera
  BY <1>1, PromiseKept DEF MoveCamera
<1>2. CASE TakeCompleted \/ TakeStarted \/ NotifyWorker
  BY <1>2, PromiseKept DEF TakeCompleted, TakeStarted, NotifyWorker
<1>3. CASE ReconcileTick
  BY <1>3, PromiseFrame DEF Promise!Next
<1>4. CASE Controls
  <2>1. retry \subseteq retry'
    BY <1>4 DEF Controls, NoInput, SelectSquare, UnselectSquare, SelectAll, ClearManual,
                SetAutoLoad, SetIncludeNeighbors
  <2>2. main = "notified" /\ main' = "idle"
        /\ UNCHANGED <<desired, requested, groups, failed>>
    BY <1>4 DEF Controls
  <2>3. \A k \in Key : ResidencyOf(k)' = ResidencyOf(k)
    BY <2>2 DEF ResidencyOf
  <2>4. Promise!Choose
    BY <2>1, <2>2, <2>3 DEF Promise!Choose
  <2> QED
    BY <2>4 DEF Promise!Next
<1>5. CASE BeginShutdown
  <2>1. main = "idle" /\ main' = "stopping"
        /\ UNCHANGED <<desired, retry, requested, groups, failed>>
    BY <1>5 DEF BeginShutdown
  <2>2. \A k \in Key : ResidencyOf(k)' = ResidencyOf(k)
    BY <2>1 DEF ResidencyOf
  <2>3. Promise!Close
    BY <2>1, <2>2 DEF Promise!Close
  <2> QED
    BY <2>3 DEF Promise!Next
<1>6. CASE Shutdown
  BY <1>6, PromiseKept DEF Shutdown, NotifyShutdown, Join
<1>7. CASE WorkerSteps \/ SpuriousWake \/ UNCHANGED vars
  BY <1>7, PromiseKept DEF WorkerSteps, SpuriousWake, vars
<1> QED
  BY <1>1, <1>2, <1>3, <1>4, <1>5, <1>6, <1>7 DEF Next, Tick, Finished

(* The streaming system with its queue, worker thread and generations      *)
(* implements the promise: every frame moves each key along its life cycle *)
(* and nothing else touches it.                                            *)
THEOREM StreamingKeepsPromise == Spec => ImplementsPromise
<1> QED
  BY PromiseInit, PromiseNext, InductiveInvariant, PTL DEF Spec, ImplementsPromise, Promise!Spec

-----------------------------------------------------------------------------
(***************************************************************************)
(* Live rendering. Neither of its invariants is inductive by itself. The   *)
(* strengthening LiveInv says, for every point of a frame and of an upload,*)
(* who owns each name on the GPU (Owned), which groups there are (Placed), *)
(* what is bound and what the copy says of it (Bound), what a pass has yet *)
(* to look at (Passing), and that what the renderer remembers of its last  *)
(* draw is what is bound (Remembered).                                     *)
(***************************************************************************)

Numbers(S) == IsFiniteSet(S) /\ S \subseteq Nat \ {0}

IsContext(g) ==
  /\ g = [program |-> g.program, vao |-> g.vao, framebuffer |-> g.framebuffer,
          active |-> g.active, units |-> g.units, material |-> g.material,
          vaos |-> g.vaos, textures |-> g.textures, programs |-> g.programs,
          cache |-> g.cache]
  /\ g.cache = [program |-> g.cache.program, vao |-> g.cache.vao, texture |-> g.cache.texture]
  /\ g.units = [u \in Units |-> g.units[u]]
  /\ Numbers(g.vaos)
  /\ Numbers(g.textures)

(* The live groups, the one that is being made among them.                 *)
Groups == IF pc = "upload" THEN With(live, making.square, making) ELSE live

IsGroup(s, group) ==
  /\ group = [square |-> s, id |-> group.id, meshes |-> group.meshes,
              textures |-> group.textures, programs |-> group.programs]
  /\ group.meshes \in Seq(Nat \ {0}) /\ Len(group.meshes) <= Visual[s].meshes
  /\ group.textures \in Seq(ToSet(Visual[s].textures) \cup {Neutral})
  /\ Len(group.textures) <= Len(Visual[s].textures)
  /\ group.programs \subseteq AnySource(s)

Complete(s, group) ==
  /\ Len(group.meshes) = Visual[s].meshes
  /\ Len(group.textures) = Len(Visual[s].textures)
  /\ Sources(s, FALSE) \subseteq group.programs

Typed ==
  /\ IsContext(gl)
  /\ entities = [group \in DOMAIN entities |-> entities[group]]
  /\ IsFiniteSet(DOMAIN entities) /\ DOMAIN entities \subseteq SceneSquares \X Kinds
  /\ \A group \in DOMAIN entities : entities[group] \in Nat
  /\ live = [s \in DOMAIN live |-> live[s]]
  /\ names = [key \in DOMAIN names |-> names[key]]
  /\ \A key \in DOMAIN names : names[key] \in Nat \ {0}
  /\ arrows \in Nat /\ shadow \in Nat
  /\ shaders \subseteq {"entity", "geodata"}
  /\ useShadows \in BOOLEAN /\ shadows \in BOOLEAN
  /\ pc \in {"idle", "upload", "import", "entities", "prepare", "cast", "color", "overlay"}

(* Which groups there are.                                                 *)
Placed ==
  /\ DOMAIN Groups = {s \in SceneSquares : <<s, "detail">> \in DOMAIN entities}
  /\ \A s \in SceneSquares : <<s, "geodata">> \in DOMAIN entities => s \in DOMAIN live
  /\ \A s \in DOMAIN Groups : IsGroup(s, Groups[s])
  /\ \A s \in DOMAIN live : Complete(s, live[s])
  /\ pc = "upload" => making.square \in SceneSquares \ DOMAIN live
  /\ pc = "import" => \A s \in todo : s \in DOMAIN live /\ <<s, "geodata">> \notin DOMAIN entities

(* Every name of a vertex array is of one mesh, of a scene group or of a   *)
(* live group; V are the names, E the scene groups, G the live groups.     *)
OwnMeshes(V, E, G) ==
  /\ \A v : v \in V <=> \/ v # 0 /\ \E x \in DOMAIN E : E[x] = v
                        \/ \E s \in DOMAIN G : \E i \in DOMAIN G[s].meshes : G[s].meshes[i] = v
  /\ \A x, y \in DOMAIN E : E[x] = E[y] /\ E[x] # 0 => x = y
  /\ \A s, t \in DOMAIN G :
       \A i \in DOMAIN G[s].meshes, j \in DOMAIN G[t].meshes :
         G[s].meshes[i] = G[t].meshes[j] => s = t /\ i = j
  /\ \A x \in DOMAIN E, s \in DOMAIN G : \A i \in DOMAIN G[s].meshes : E[x] # G[s].meshes[i]

(* Every texture is the arrows, the shadow map or under one key that a     *)
(* group holds; T are the textures, N the names by key, A the arrows and S *)
(* the map.                                                                *)
Holds(G, key) == \E s \in DOMAIN G : \E i \in DOMAIN G[s].textures : G[s].textures[i] = key
OwnTextures(T, N, G, A, S) ==
  /\ \A key : key \in DOMAIN N <=> Holds(G, key)
  /\ \A t : t \in T <=> (\E key \in DOMAIN N : N[key] = t) \/ (t # 0 /\ (t = A \/ t = S))
  /\ \A key, other \in DOMAIN N : N[key] = N[other] => key = other
  /\ \A key \in DOMAIN N : N[key] # A /\ N[key] # S /\ N[key] # 0
  /\ A = S => A = 0

(* Every program is a shader of kind K or of one group.                    *)
OwnPrograms(P, K, G) ==
  \A p : p \in P <=> \/ \E kind \in K : p = Shader(kind)
                     \/ \E s \in DOMAIN G : \E source \in G[s].programs : p = Program(s, source)

Owned ==
  /\ OwnMeshes(gl.vaos, entities, Groups)
  /\ OwnTextures(gl.textures, names, Groups, arrows, shadow)
  /\ OwnPrograms(gl.programs, shaders, Groups)
  /\ DOMAIN live = {} => shadow = 0
  /\ \A group \in DOMAIN entities : ShaderOf(group[2]) \in shaders
  /\ \A group \in DOMAIN entities : group[2] = "geodata" => arrows # 0

ShaderPrograms == {Shader(kind) : kind \in shaders}

(* What is bound, and what the copy says, wherever the thread is.          *)
GeodataMeshes == {entities[group] : group \in {g \in DOMAIN entities : g[2] = "geodata"}}
Bound ==
  /\ gl.framebuffer = IF pc = "cast" THEN 1 ELSE 0
  /\ pc \notin {"prepare", "cast", "color"} =>
       gl.program = gl.cache.program /\ gl.program \in ShaderPrograms \cup {None}
  /\ pc \in {"idle", "entities", "overlay", "import"} =>
       gl.active = 0 /\ gl.units[0] = gl.cache.texture /\ gl.cache.texture \in {0, arrows}
  /\ pc \in {"idle", "upload"} => gl.cache.vao \in GeodataMeshes \cup {0}
  /\ pc = "entities" => gl.cache.vao = gl.vao \/ gl.cache.vao \in GeodataMeshes \cup {0}
  /\ pc = "overlay" => gl.cache.vao = gl.vao /\ gl.vao \in GeodataMeshes \cup {0}
  /\ pc = "import" => gl.cache.vao = gl.vao /\ gl.vao = 0

(* What the pass has yet to look at is still there, and what it needs is   *)
(* made.                                                                   *)
Passing ==
  /\ pc \in {"entities", "overlay"} => todo \subseteq PassOf(pc)
  /\ pc \in {"prepare", "cast", "color"} => todo \subseteq Entries
  /\ pc \in {"prepare", "cast"} => useShadows
  /\ pc = "prepare" => \A e \in Entries \ todo :
                         ColorSource(e[1], Item(e[1], e[2]), TRUE) \in live[e[1]].programs
  /\ pc \in {"cast", "color"} /\ useShadows =>
       /\ shadow # 0
       /\ \A e \in Entries : ColorSource(e[1], Item(e[1], e[2]), TRUE) \in live[e[1]].programs
  /\ useShadows => pc \in {"prepare", "cast", "color"} /\ DOMAIN live # {}

(* The state that the last draw of the color pass left is what last says.  *)
Shows(e) ==
  LET s == e[1]
      item == Item(e[1], e[2])
  IN  /\ last = [program |-> ProgramFor(s, item), key |-> MaterialKey(s, item),
                 vao |-> live[s].meshes[item.mesh]]
      /\ gl.program = last.program /\ gl.vao = last.vao
      /\ gl.material = <<s, item.material>>
      /\ \A u \in DOMAIN ItemTextures(s, item) : gl.units[u] = ItemTextures(s, item)[u]
Remembered ==
  /\ pc \in {"prepare", "cast"} => last = Forgotten
  /\ pc = "color" => last = Forgotten \/ \E e \in Entries : Shows(e)

LiveInv ==
  /\ Typed /\ Placed /\ Owned
  /\ Bound /\ Passing /\ Remembered /\ astray = {}

(* The least number of which something holds.                              *)
LEMMA LeastNumber ==
  ASSUME NEW T \in SUBSET Nat, T # {}
  PROVE  \E m \in T : \A k \in T : m <= k
<1> DEFINE R == {p \in Nat \X Nat : p[1] < p[2]}
<1>2. IsWellFoundedOn(R, Nat)
  BY NatLessThanWellFounded DEF OpToRel
<1> HIDE DEF R
<1>3. PICK m \in T : \A y \in T : ~ (<<y, m>> \in R)
  BY <1>2, WFMin
<1>4. \A y \in T : ~ (y < m)
  BY <1>3 DEF R
<1> QED BY <1>4

(* The lowest free name is free: not all of one more than there are can be *)
(* in use.                                                                 *)
LEMMA FreshIsFree ==
  ASSUME NEW S, Numbers(S)
  PROVE  Fresh(S) \in Nat \ {0} /\ Fresh(S) \notin S
<1> DEFINE free == {n \in 1 .. Cardinality(S) + 1 : n \notin S}
<1>1. IsFiniteSet(S) /\ Cardinality(S) \in Nat
  BY FS_CardinalityType DEF Numbers
<1>2. free # {}
  <2> SUFFICES ASSUME 1 .. Cardinality(S) + 1 \subseteq S PROVE FALSE
    OBVIOUS
  <2>1. Cardinality(1 .. Cardinality(S) + 1) = Cardinality(S) + 1
    BY <1>1, FS_Interval, 1 \in Int, Cardinality(S) + 1 \in Int
  <2>2. Cardinality(1 .. Cardinality(S) + 1) <= Cardinality(S)
    BY <1>1, FS_Subset
  <2> QED
    BY <1>1, <2>1, <2>2
<1>3. free \subseteq Nat
  BY <1>1
<1>4. PICK n \in free : \A m \in free : n <= m
  BY <1>2, <1>3, LeastNumber
<1>5. n \in 1 .. Cardinality(S) + 1 /\ n \notin S /\ \A lower \in 1 .. n - 1 : lower \in S
  BY <1>1, <1>4
<1> QED
  BY <1>1, <1>5 DEF Fresh

(* There is a first unit, and a last beside it.                            *)
LEMMA FirstUnit == 0 \in Units /\ MaxUnits - 1 \in Units /\ MaxUnits - 1 # 0 /\ Units \subseteq Nat
BY UnitsAssumption DEF Units

(* What UseProgram changes.                                   *)
LEMMA UseProgramDoes ==
  ASSUME NEW g, IsContext(g), NEW p
  PROVE  LET h == UseProgram(g, p)
         IN  /\ IsContext(h)
             /\ h.program = IF p \in g.programs \cup {None} THEN p ELSE g.program
             /\ h.vao = g.vao
             /\ h.framebuffer = g.framebuffer
             /\ h.active = g.active
             /\ h.units = g.units
             /\ h.material = IF p \in g.programs \cup {None} /\ p # g.program THEN None ELSE g.material
             /\ h.vaos = g.vaos
             /\ h.textures = g.textures
             /\ h.programs = g.programs
             /\ h.cache = g.cache
BY DEF UseProgram, IsContext

(* What BindVertexArray changes.                                   *)
LEMMA BindVertexArrayDoes ==
  ASSUME NEW g, IsContext(g), NEW v
  PROVE  LET h == BindVertexArray(g, v)
         IN  /\ IsContext(h)
             /\ h.program = g.program
             /\ h.vao = IF v \in g.vaos \cup {0} THEN v ELSE g.vao
             /\ h.framebuffer = g.framebuffer
             /\ h.active = g.active
             /\ h.units = g.units
             /\ h.material = g.material
             /\ h.vaos = g.vaos
             /\ h.textures = g.textures
             /\ h.programs = g.programs
             /\ h.cache = g.cache
BY DEF BindVertexArray, IsContext

(* What BindTexture changes.                                   *)
LEMMA BindTextureDoes ==
  ASSUME NEW g, IsContext(g), NEW u, NEW t
  PROVE  LET h == BindTexture(g, u, t)
         IN  /\ IsContext(h)
             /\ h.program = g.program
             /\ h.vao = g.vao
             /\ h.framebuffer = g.framebuffer
             /\ h.active = u
             /\ \A x \in Units : x # u => h.units[x] = g.units[x]
             /\ u \in Units /\ t \in g.textures \cup {0} => h.units[u] = t
             /\ h.material = g.material
             /\ h.vaos = g.vaos
             /\ h.textures = g.textures
             /\ h.programs = g.programs
             /\ h.cache = g.cache
<1> DEFINE new == u
           next == [g.units EXCEPT ![u] = IF t \in g.textures \cup {0} THEN t ELSE None]
           k == [g EXCEPT !.active = new]
           h == [k EXCEPT !.units = next]
<1>0. BindTexture(g, u, t) = h
  BY DEF IsContext, BindTexture
<1> HIDE DEF new, next
<1>a. /\ k = [program |-> k.program, vao |-> k.vao, framebuffer |-> k.framebuffer,
              active |-> k.active, units |-> k.units, material |-> k.material,
              vaos |-> k.vaos, textures |-> k.textures, programs |-> k.programs,
              cache |-> k.cache]
      /\ k.program = g.program
      /\ k.vao = g.vao
      /\ k.framebuffer = g.framebuffer
      /\ k.active = new
      /\ k.units = g.units
      /\ k.material = g.material
      /\ k.vaos = g.vaos
      /\ k.textures = g.textures
      /\ k.programs = g.programs
      /\ k.cache = g.cache
  BY DEF IsContext
<1> HIDE DEF k
<1>1. h = [program |-> h.program, vao |-> h.vao, framebuffer |-> h.framebuffer,
           active |-> h.active, units |-> h.units, material |-> h.material,
           vaos |-> h.vaos, textures |-> h.textures, programs |-> h.programs,
           cache |-> h.cache]
  BY <1>a
<1>b. /\ h.program = k.program
      /\ h.vao = k.vao
      /\ h.framebuffer = k.framebuffer
      /\ h.active = k.active
      /\ h.units = next
      /\ h.material = k.material
      /\ h.vaos = k.vaos
      /\ h.textures = k.textures
      /\ h.programs = k.programs
      /\ h.cache = k.cache
  BY <1>a
<1> HIDE DEF h
<1>2. /\ h.program = g.program /\ h.vao = g.vao /\ h.framebuffer = g.framebuffer
      /\ h.active = u /\ h.material = g.material /\ h.vaos = g.vaos
      /\ h.textures = g.textures /\ h.programs = g.programs /\ h.cache = g.cache
      /\ h.units = [g.units EXCEPT ![u] = IF t \in g.textures \cup {0} THEN t ELSE None]
  BY <1>a, <1>b DEF IsContext, new, next
<1>3. g.units = [x \in Units |-> g.units[x]]
  BY DEF IsContext
<1>4. h.units = [x \in Units |-> IF x = u THEN (IF t \in g.textures \cup {0} THEN t ELSE None)
                                 ELSE g.units[x]]
  BY <1>0, <1>2, <1>3
<1>5. h.units = [x \in Units |-> h.units[x]]
  BY <1>4
<1>6. IsContext(h)
  BY <1>1, <1>2, <1>5 DEF IsContext
<1>7. /\ \A x \in Units : x # u => h.units[x] = g.units[x]
      /\ u \in Units /\ t \in g.textures \cup {0} => h.units[u] = t
  BY <1>4
<1> QED
  BY <1>0, <1>2, <1>6, <1>7

(* What BindFramebuffer changes.                                   *)
LEMMA BindFramebufferDoes ==
  ASSUME NEW g, IsContext(g), NEW f
  PROVE  LET h == BindFramebuffer(g, f)
         IN  /\ IsContext(h)
             /\ h.program = g.program
             /\ h.vao = g.vao
             /\ h.framebuffer = f
             /\ h.active = g.active
             /\ h.units = g.units
             /\ h.material = g.material
             /\ h.vaos = g.vaos
             /\ h.textures = g.textures
             /\ h.programs = g.programs
             /\ h.cache = g.cache
BY DEF BindFramebuffer, IsContext

(* What DeleteVertexArrays changes.                                   *)
LEMMA DeleteVertexArraysDoes ==
  ASSUME NEW g, IsContext(g), NEW gone
  PROVE  LET h == DeleteVertexArrays(g, gone)
         IN  /\ IsContext(h)
             /\ h.program = g.program
             /\ h.vao = IF g.vao \in gone THEN 0 ELSE g.vao
             /\ h.framebuffer = g.framebuffer
             /\ h.active = g.active
             /\ h.units = g.units
             /\ h.material = g.material
             /\ h.vaos = g.vaos \ gone
             /\ h.textures = g.textures
             /\ h.programs = g.programs
             /\ h.cache = g.cache
<1> DEFINE new == g.vaos \ gone
           next == IF g.vao \in gone THEN 0 ELSE g.vao
           k == [g EXCEPT !.vaos = new]
           h == [k EXCEPT !.vao = next]
<1>0. DeleteVertexArrays(g, gone) = h
  BY DEF IsContext, DeleteVertexArrays
<1> HIDE DEF new, next
<1>a. /\ k = [program |-> k.program, vao |-> k.vao, framebuffer |-> k.framebuffer,
              active |-> k.active, units |-> k.units, material |-> k.material,
              vaos |-> k.vaos, textures |-> k.textures, programs |-> k.programs,
              cache |-> k.cache]
      /\ k.program = g.program
      /\ k.vao = g.vao
      /\ k.framebuffer = g.framebuffer
      /\ k.active = g.active
      /\ k.units = g.units
      /\ k.material = g.material
      /\ k.vaos = new
      /\ k.textures = g.textures
      /\ k.programs = g.programs
      /\ k.cache = g.cache
  BY DEF IsContext
<1> HIDE DEF k
<1>1. h = [program |-> h.program, vao |-> h.vao, framebuffer |-> h.framebuffer,
           active |-> h.active, units |-> h.units, material |-> h.material,
           vaos |-> h.vaos, textures |-> h.textures, programs |-> h.programs,
           cache |-> h.cache]
  BY <1>a
<1>b. /\ h.program = k.program
      /\ h.vao = next
      /\ h.framebuffer = k.framebuffer
      /\ h.active = k.active
      /\ h.units = k.units
      /\ h.material = k.material
      /\ h.vaos = k.vaos
      /\ h.textures = k.textures
      /\ h.programs = k.programs
      /\ h.cache = k.cache
  BY <1>a
<1> HIDE DEF h
<1>2. /\ h.program = g.program /\ h.framebuffer = g.framebuffer /\ h.active = g.active
      /\ h.material = g.material /\ h.units = g.units /\ h.textures = g.textures
      /\ h.programs = g.programs /\ h.cache = g.cache
  BY <1>a, <1>b DEF IsContext, new, next
<1>3. h.vaos = g.vaos \ gone /\ h.vao = IF g.vao \in gone THEN 0 ELSE g.vao
  BY <1>a, <1>b DEF IsContext, new, next
<1>4. Numbers(h.vaos)
  BY <1>3, FS_Subset DEF IsContext, Numbers
<1>5. IsContext(h)
  BY <1>1, <1>2, <1>3, <1>4 DEF IsContext
<1> QED
  BY <1>0, <1>2, <1>3, <1>5

(* What DeleteTextures changes.                                   *)
LEMMA DeleteTexturesDoes ==
  ASSUME NEW g, IsContext(g), NEW gone
  PROVE  LET h == DeleteTextures(g, gone)
         IN  /\ IsContext(h)
             /\ h.program = g.program
             /\ h.vao = g.vao
             /\ h.framebuffer = g.framebuffer
             /\ h.active = g.active
             /\ h.units = [x \in Units |-> IF g.units[x] \in gone THEN 0 ELSE g.units[x]]
             /\ h.material = g.material
             /\ h.vaos = g.vaos
             /\ h.textures = g.textures \ gone
             /\ h.programs = g.programs
             /\ h.cache = g.cache
<1> DEFINE new == g.textures \ gone
           next == [u \in Units |-> IF g.units[u] \in gone THEN 0 ELSE g.units[u]]
           k == [g EXCEPT !.textures = new]
           h == [k EXCEPT !.units = next]
<1>0. DeleteTextures(g, gone) = h
  BY DEF IsContext, DeleteTextures
<1> HIDE DEF new, next
<1>a. /\ k = [program |-> k.program, vao |-> k.vao, framebuffer |-> k.framebuffer,
              active |-> k.active, units |-> k.units, material |-> k.material,
              vaos |-> k.vaos, textures |-> k.textures, programs |-> k.programs,
              cache |-> k.cache]
      /\ k.program = g.program
      /\ k.vao = g.vao
      /\ k.framebuffer = g.framebuffer
      /\ k.active = g.active
      /\ k.units = g.units
      /\ k.material = g.material
      /\ k.vaos = g.vaos
      /\ k.textures = new
      /\ k.programs = g.programs
      /\ k.cache = g.cache
  BY DEF IsContext
<1> HIDE DEF k
<1>1. h = [program |-> h.program, vao |-> h.vao, framebuffer |-> h.framebuffer,
           active |-> h.active, units |-> h.units, material |-> h.material,
           vaos |-> h.vaos, textures |-> h.textures, programs |-> h.programs,
           cache |-> h.cache]
  BY <1>a
<1>b. /\ h.program = k.program
      /\ h.vao = k.vao
      /\ h.framebuffer = k.framebuffer
      /\ h.active = k.active
      /\ h.units = next
      /\ h.material = k.material
      /\ h.vaos = k.vaos
      /\ h.textures = k.textures
      /\ h.programs = k.programs
      /\ h.cache = k.cache
  BY <1>a
<1> HIDE DEF h
<1>2. /\ h.program = g.program /\ h.vao = g.vao /\ h.framebuffer = g.framebuffer
      /\ h.active = g.active /\ h.material = g.material /\ h.vaos = g.vaos
      /\ h.programs = g.programs /\ h.cache = g.cache
  BY <1>a, <1>b DEF IsContext, new, next
<1>3. /\ h.textures = g.textures \ gone
      /\ h.units = [x \in Units |-> IF g.units[x] \in gone THEN 0 ELSE g.units[x]]
  BY <1>a, <1>b DEF IsContext, new, next
<1>4. Numbers(h.textures)
  BY <1>3, FS_Subset DEF IsContext, Numbers
<1>5. IsContext(h)
  BY <1>1, <1>2, <1>3, <1>4 DEF IsContext
<1> QED
  BY <1>0, <1>2, <1>3, <1>5

(* What DeletePrograms changes.                                   *)
LEMMA DeleteProgramsDoes ==
  ASSUME NEW g, IsContext(g), NEW gone
  PROVE  LET h == DeletePrograms(g, gone)
         IN  /\ IsContext(h)
             /\ h.program = g.program
             /\ h.vao = g.vao
             /\ h.framebuffer = g.framebuffer
             /\ h.active = g.active
             /\ h.units = g.units
             /\ h.material = g.material
             /\ h.vaos = g.vaos
             /\ h.textures = g.textures
             /\ h.programs = g.programs \ (gone \ {g.program})
             /\ h.cache = g.cache
BY DEF DeletePrograms, IsContext

(* What NewProgram changes.                                   *)
LEMMA NewProgramDoes ==
  ASSUME NEW g, IsContext(g), NEW p
  PROVE  LET h == NewProgram(g, p)
         IN  /\ IsContext(h)
             /\ h.program = g.program
             /\ h.vao = g.vao
             /\ h.framebuffer = g.framebuffer
             /\ h.active = g.active
             /\ h.units = g.units
             /\ h.material = g.material
             /\ h.vaos = g.vaos
             /\ h.textures = g.textures
             /\ h.programs = g.programs \cup {p}
             /\ h.cache = g.cache
BY DEF NewProgram, IsContext

(* What NewMesh changes.                                   *)
LEMMA NewMeshDoes ==
  ASSUME NEW g, IsContext(g)
  PROVE  LET h == NewMesh(g)
         IN  /\ IsContext(h)
             /\ h.program = g.program
             /\ h.vao = 0
             /\ h.framebuffer = g.framebuffer
             /\ h.active = g.active
             /\ h.units = g.units
             /\ h.material = g.material
             /\ h.vaos = g.vaos \cup {Fresh(g.vaos)}
             /\ h.textures = g.textures
             /\ h.programs = g.programs
             /\ h.cache = g.cache
<1> DEFINE new == g.vaos \cup {Fresh(g.vaos)}
           next == 0
           k == [g EXCEPT !.vaos = new]
           h == [k EXCEPT !.vao = next]
<1>0. NewMesh(g) = h
  BY DEF IsContext, NewMesh
<1> HIDE DEF new, next
<1>a. /\ k = [program |-> k.program, vao |-> k.vao, framebuffer |-> k.framebuffer,
              active |-> k.active, units |-> k.units, material |-> k.material,
              vaos |-> k.vaos, textures |-> k.textures, programs |-> k.programs,
              cache |-> k.cache]
      /\ k.program = g.program
      /\ k.vao = g.vao
      /\ k.framebuffer = g.framebuffer
      /\ k.active = g.active
      /\ k.units = g.units
      /\ k.material = g.material
      /\ k.vaos = new
      /\ k.textures = g.textures
      /\ k.programs = g.programs
      /\ k.cache = g.cache
  BY DEF IsContext
<1> HIDE DEF k
<1>1. h = [program |-> h.program, vao |-> h.vao, framebuffer |-> h.framebuffer,
           active |-> h.active, units |-> h.units, material |-> h.material,
           vaos |-> h.vaos, textures |-> h.textures, programs |-> h.programs,
           cache |-> h.cache]
  BY <1>a
<1>b. /\ h.program = k.program
      /\ h.vao = next
      /\ h.framebuffer = k.framebuffer
      /\ h.active = k.active
      /\ h.units = k.units
      /\ h.material = k.material
      /\ h.vaos = k.vaos
      /\ h.textures = k.textures
      /\ h.programs = k.programs
      /\ h.cache = k.cache
  BY <1>a
<1> HIDE DEF h
<1>2. /\ h.program = g.program /\ h.framebuffer = g.framebuffer /\ h.active = g.active
      /\ h.material = g.material /\ h.units = g.units /\ h.textures = g.textures
      /\ h.programs = g.programs /\ h.cache = g.cache
  BY <1>a, <1>b DEF IsContext, new, next
<1>3. h.vaos = g.vaos \cup {Fresh(g.vaos)} /\ h.vao = 0
  BY <1>a, <1>b DEF IsContext, new, next
<1>4. Numbers(h.vaos)
  BY <1>3, FreshIsFree, FS_AddElement DEF IsContext, Numbers
<1>5. IsContext(h)
  BY <1>1, <1>2, <1>3, <1>4 DEF IsContext
<1> QED
  BY <1>0, <1>2, <1>3, <1>5

(* Noting a program in the copy changes only that.                        *)
LEMMA CacheProgramDoes ==
  ASSUME NEW g, IsContext(g), NEW v
  PROVE  LET h == [g EXCEPT !.cache.program = v]
         IN  /\ IsContext(h)
             /\ h.program = g.program
             /\ h.vao = g.vao
             /\ h.framebuffer = g.framebuffer
             /\ h.active = g.active
             /\ h.units = g.units
             /\ h.material = g.material
             /\ h.vaos = g.vaos
             /\ h.textures = g.textures
             /\ h.programs = g.programs
             /\ h.cache = [program |-> v, vao |-> g.cache.vao, texture |-> g.cache.texture]
BY DEF IsContext

(* Noting a mesh in the copy changes only that.                           *)
LEMMA CacheVaoDoes ==
  ASSUME NEW g, IsContext(g), NEW v
  PROVE  LET h == [g EXCEPT !.cache.vao = v]
         IN  /\ IsContext(h)
             /\ h.program = g.program
             /\ h.vao = g.vao
             /\ h.framebuffer = g.framebuffer
             /\ h.active = g.active
             /\ h.units = g.units
             /\ h.material = g.material
             /\ h.vaos = g.vaos
             /\ h.textures = g.textures
             /\ h.programs = g.programs
             /\ h.cache = [program |-> g.cache.program, vao |-> v, texture |-> g.cache.texture]
BY DEF IsContext

(* Noting a texture in the copy changes only that.                        *)
LEMMA CacheTextureDoes ==
  ASSUME NEW g, IsContext(g), NEW v
  PROVE  LET h == [g EXCEPT !.cache.texture = v]
         IN  /\ IsContext(h)
             /\ h.program = g.program
             /\ h.vao = g.vao
             /\ h.framebuffer = g.framebuffer
             /\ h.active = g.active
             /\ h.units = g.units
             /\ h.material = g.material
             /\ h.vaos = g.vaos
             /\ h.textures = g.textures
             /\ h.programs = g.programs
             /\ h.cache = [program |-> g.cache.program, vao |-> g.cache.vao, texture |-> v]
BY DEF IsContext

(* What DropMeshes changes.                                   *)
LEMMA DropMeshesDoes ==
  ASSUME NEW g, IsContext(g), NEW gone
  PROVE  LET h == DropMeshes(g, gone)
         IN  /\ IsContext(h)
             /\ h.program = g.program
             /\ h.vao = IF g.vao \in gone THEN 0 ELSE g.vao
             /\ h.framebuffer = g.framebuffer
             /\ h.active = g.active
             /\ h.units = g.units
             /\ h.material = g.material
             /\ h.vaos = g.vaos \ gone
             /\ h.textures = g.textures
             /\ h.programs = g.programs
             /\ h.cache = [program |-> g.cache.program, vao |-> IF g.cache.vao \in gone THEN 0 ELSE g.cache.vao, texture |-> g.cache.texture]
<1> DEFINE v == IF g.cache.vao \in gone THEN 0 ELSE g.cache.vao
           k == [g EXCEPT !.cache.vao = v]
<1>1. DropMeshes(g, gone) = DeleteVertexArrays(k, gone)
  BY DEF DropMeshes, IsContext
<1> HIDE DEF v
<1>2. /\ IsContext(k) /\ k.vaos = g.vaos /\ k.vao = g.vao /\ k.program = g.program
      /\ k.framebuffer = g.framebuffer /\ k.active = g.active /\ k.units = g.units
      /\ k.material = g.material /\ k.textures = g.textures /\ k.programs = g.programs
      /\ k.cache = [program |-> g.cache.program, vao |-> v, texture |-> g.cache.texture]
  BY CacheVaoDoes
<1> HIDE DEF k
<1> QED
  BY <1>1, <1>2, DeleteVertexArraysDoes DEF v

(* What BindMesh changes.                                   *)
LEMMA BindMeshDoes ==
  ASSUME NEW g, IsContext(g), NEW v
  PROVE  LET h == BindMesh(g, v)
         IN  /\ IsContext(h)
             /\ h.program = g.program
             /\ h.vao = IF g.cache.vao # v /\ v \in g.vaos \cup {0} THEN v ELSE g.vao
             /\ h.framebuffer = g.framebuffer
             /\ h.active = g.active
             /\ h.units = g.units
             /\ h.material = g.material
             /\ h.vaos = g.vaos
             /\ h.textures = g.textures
             /\ h.programs = g.programs
             /\ h.cache = [program |-> g.cache.program, vao |-> v, texture |-> g.cache.texture]
<1> DEFINE k == BindVertexArray(g, v)
<1>1. CASE g.cache.vao = v
  BY <1>1 DEF BindMesh, IsContext
<1>2. CASE g.cache.vao # v
  <2>1. BindMesh(g, v) = [k EXCEPT !.cache.vao = v]
    BY <1>2 DEF BindMesh
  <2>2. /\ IsContext(k) /\ k.vaos = g.vaos /\ k.program = g.program
        /\ k.framebuffer = g.framebuffer /\ k.active = g.active /\ k.units = g.units
        /\ k.material = g.material /\ k.textures = g.textures /\ k.programs = g.programs
        /\ k.cache = g.cache /\ k.vao = IF v \in g.vaos \cup {0} THEN v ELSE g.vao
    BY BindVertexArrayDoes
  <2> HIDE DEF k
  <2> QED
    BY <1>2, <2>1, <2>2, CacheVaoDoes
<1> QED
  BY <1>1, <1>2

(* What BindTextureZero changes.                                   *)
LEMMA BindTextureZeroDoes ==
  ASSUME NEW g, IsContext(g), NEW t
  PROVE  LET h == BindTextureZero(g, t)
         IN  /\ IsContext(h)
             /\ h.program = g.program
             /\ h.vao = g.vao
             /\ h.framebuffer = g.framebuffer
             /\ h.active = IF g.cache.texture = t THEN g.active ELSE 0
             /\ g.cache.texture = t => h.units = g.units
             /\ g.cache.texture # t /\ t \in g.textures \cup {0} => h.units[0] = t
             /\ h.material = g.material
             /\ h.vaos = g.vaos
             /\ h.textures = g.textures
             /\ h.programs = g.programs
             /\ h.cache = [program |-> g.cache.program, vao |-> g.cache.vao, texture |-> t]
<1> DEFINE k == BindTexture(g, 0, t)
<1>1. CASE g.cache.texture = t
  BY <1>1 DEF BindTextureZero, IsContext
<1>2. CASE g.cache.texture # t
  <2>1. BindTextureZero(g, t) = [k EXCEPT !.cache.texture = t]
    BY <1>2 DEF BindTextureZero
  <2>2. /\ IsContext(k) /\ k.vaos = g.vaos /\ k.program = g.program /\ k.vao = g.vao
        /\ k.framebuffer = g.framebuffer /\ k.active = 0 /\ k.cache = g.cache
        /\ k.material = g.material /\ k.textures = g.textures /\ k.programs = g.programs
        /\ t \in g.textures \cup {0} => k.units[0] = t
    BY BindTextureDoes, FirstUnit
  <2> HIDE DEF k
  <2> QED
    BY <1>2, <2>1, <2>2, CacheTextureDoes
<1> QED
  BY <1>1, <1>2

(* What UnbindCurrentTexture changes.                                   *)
LEMMA UnbindCurrentTextureDoes ==
  ASSUME NEW g, IsContext(g)
  PROVE  LET h == UnbindCurrentTexture(g)
         IN  /\ IsContext(h)
             /\ h.program = g.program
             /\ h.vao = g.vao
             /\ h.framebuffer = g.framebuffer
             /\ h.active = g.active
             /\ g.cache.texture = 0 => h.units = g.units
             /\ g.cache.texture # 0 /\ g.active \in Units => h.units[g.active] = 0
             /\ h.material = g.material
             /\ h.vaos = g.vaos
             /\ h.textures = g.textures
             /\ h.programs = g.programs
             /\ h.cache = [program |-> g.cache.program, vao |-> g.cache.vao, texture |-> 0]
<1> DEFINE k == BindTexture(g, g.active, 0)
<1>1. CASE g.cache.texture = 0
  BY <1>1 DEF UnbindCurrentTexture, IsContext
<1>2. CASE g.cache.texture # 0
  <2>1. UnbindCurrentTexture(g) = [k EXCEPT !.cache.texture = 0]
    BY <1>2 DEF UnbindCurrentTexture
  <2>2. /\ IsContext(k) /\ k.vaos = g.vaos /\ k.program = g.program /\ k.vao = g.vao
        /\ k.framebuffer = g.framebuffer /\ k.active = g.active /\ k.cache = g.cache
        /\ k.material = g.material /\ k.textures = g.textures /\ k.programs = g.programs
        /\ g.active \in Units => k.units[g.active] = 0
    BY BindTextureDoes
  <2> HIDE DEF k
  <2> QED
    BY <1>2, <2>1, <2>2, CacheTextureDoes
<1> QED
  BY <1>1, <1>2

(* What BindShader changes.                                   *)
LEMMA BindShaderDoes ==
  ASSUME NEW g, IsContext(g), NEW p
  PROVE  LET h == BindShader(g, p)
         IN  /\ IsContext(h)
             /\ h.program = IF g.cache.program # p /\ p \in g.programs \cup {None} THEN p ELSE g.program
             /\ h.vao = g.vao
             /\ h.framebuffer = g.framebuffer
             /\ h.active = g.active
             /\ h.units = g.units
             /\ h.material = h.material
             /\ h.vaos = g.vaos
             /\ h.textures = g.textures
             /\ h.programs = g.programs
             /\ h.cache = [program |-> p, vao |-> g.cache.vao, texture |-> g.cache.texture]
<1> DEFINE k == UseProgram(g, p)
<1>1. CASE g.cache.program = p
  BY <1>1 DEF BindShader, IsContext
<1>2. CASE g.cache.program # p
  <2>1. BindShader(g, p) = [k EXCEPT !.cache.program = p]
    BY <1>2 DEF BindShader
  <2>2. /\ IsContext(k) /\ k.vaos = g.vaos /\ k.vao = g.vao
        /\ k.framebuffer = g.framebuffer /\ k.active = g.active /\ k.cache = g.cache
        /\ k.textures = g.textures /\ k.programs = g.programs /\ k.units = g.units
        /\ k.program = IF p \in g.programs \cup {None} THEN p ELSE g.program
    BY UseProgramDoes
  <2> HIDE DEF k
  <2> QED
    BY <1>2, <2>1, <2>2, CacheProgramDoes
<1> QED
  BY <1>1, <1>2

(* What LegacyBindingScope changes.                                   *)
LEMMA LegacyBindingScopeDoes ==
  ASSUME NEW g, IsContext(g)
  PROVE  LET h == LegacyBindingScope(g)
         IN  /\ IsContext(h)
             /\ h.program = None
             /\ h.vao = 0
             /\ h.framebuffer = g.framebuffer
             /\ h.active = 0
             /\ h.units = [x \in Units |-> IF x = 0 THEN 0 ELSE None]
             /\ h.material = h.material
             /\ h.vaos = g.vaos
             /\ h.textures = g.textures
             /\ h.programs = g.programs
             /\ h.cache = [program |-> None, vao |-> 0, texture |-> 0]
<1> DEFINE j == BindVertexArray(g, 0)
           k == UseProgram(j, None)
           l == [k EXCEPT !.active = 0]
           m == [l EXCEPT !.units = [u \in Units |-> IF u = 0 THEN 0 ELSE None]]
           n == [m EXCEPT !.cache = [program |-> None, vao |-> 0, texture |-> 0]]
<1>2. /\ IsContext(j) /\ j.vao = 0 /\ j.vaos = g.vaos /\ j.framebuffer = g.framebuffer
      /\ j.textures = g.textures /\ j.programs = g.programs
  BY BindVertexArrayDoes
<1>3. /\ IsContext(k) /\ k.vao = 0 /\ k.vaos = g.vaos /\ k.framebuffer = g.framebuffer
      /\ k.textures = g.textures /\ k.programs = g.programs /\ k.program = None
  <2> HIDE DEF j
  <2> QED
    BY <1>2, UseProgramDoes
<1>4. LegacyBindingScope(g) = n
  <2>1. LegacyBindingScope(g) = [Unbound(g) EXCEPT !.cache = [program |-> None, vao |-> 0, texture |-> 0]]
    BY DEF LegacyBindingScope, NewContext
  <2>2. Unbound(g) = [k EXCEPT !.active = 0, !.units = [u \in Units |-> IF u = 0 THEN 0 ELSE None]]
    BY DEF Unbound
  <2> HIDE DEF k
  <2>3. [k EXCEPT !.active = 0, !.units = [u \in Units |-> IF u = 0 THEN 0 ELSE None]] = m
    BY <1>3 DEF IsContext
  <2> QED
    BY <2>1, <2>2, <2>3
<1> HIDE DEF k
<1>5. /\ IsContext(l) /\ l.vao = 0 /\ l.vaos = g.vaos /\ l.framebuffer = g.framebuffer
      /\ l.textures = g.textures /\ l.programs = g.programs /\ l.program = None /\ l.active = 0
  BY <1>3 DEF IsContext
<1> HIDE DEF l
<1>6. /\ IsContext(m) /\ m.vao = 0 /\ m.vaos = g.vaos /\ m.framebuffer = g.framebuffer
      /\ m.textures = g.textures /\ m.programs = g.programs /\ m.program = None /\ m.active = 0
      /\ m.units = [u \in Units |-> IF u = 0 THEN 0 ELSE None]
  BY <1>5 DEF IsContext
<1> HIDE DEF m
<1>7. /\ IsContext(n) /\ n.vao = 0 /\ n.vaos = g.vaos /\ n.framebuffer = g.framebuffer
      /\ n.textures = g.textures /\ n.programs = g.programs /\ n.program = None /\ n.active = 0
      /\ n.units = [u \in Units |-> IF u = 0 THEN 0 ELSE None]
      /\ n.cache = [program |-> None, vao |-> 0, texture |-> 0]
  BY <1>6 DEF IsContext
<1> HIDE DEF n
<1> QED
  BY <1>4, <1>7

(* What adding a name of a texture changes.                                *)
LEMMA TextureNamed ==
  ASSUME NEW g, IsContext(g), NEW t \in Nat \ {0}
  PROVE  LET h == [g EXCEPT !.textures = @ \cup {t}]
         IN  /\ IsContext(h)
             /\ h.program = g.program /\ h.vao = g.vao /\ h.framebuffer = g.framebuffer
             /\ h.active = g.active /\ h.units = g.units /\ h.material = g.material
             /\ h.vaos = g.vaos /\ h.textures = g.textures \cup {t}
             /\ h.programs = g.programs /\ h.cache = g.cache
<1> DEFINE new == g.textures \cup {t}
           h == [g EXCEPT !.textures = new]
<1>1. Numbers(new)
  BY FS_AddElement DEF IsContext, Numbers
<1> HIDE DEF new
<1>2. /\ h.program = g.program /\ h.vao = g.vao /\ h.framebuffer = g.framebuffer
      /\ h.active = g.active /\ h.units = g.units /\ h.material = g.material
      /\ h.vaos = g.vaos /\ h.textures = new
      /\ h.programs = g.programs /\ h.cache = g.cache
  BY DEF IsContext
<1>3. h = [program |-> h.program, vao |-> h.vao, framebuffer |-> h.framebuffer,
           active |-> h.active, units |-> h.units, material |-> h.material,
           vaos |-> h.vaos, textures |-> h.textures, programs |-> h.programs,
           cache |-> h.cache]
  BY DEF IsContext
<1> HIDE DEF h
<1>4. IsContext(h)
  BY <1>1, <1>2, <1>3 DEF IsContext
<1> QED
  BY <1>2, <1>4 DEF h, new

(* What NewTexture changes.                                                *)
LEMMA NewTextureDoes ==
  ASSUME NEW g, IsContext(g)
  PROVE  LET h == NewTexture(g)
         IN  /\ IsContext(h)
             /\ h.program = g.program /\ h.vao = g.vao /\ h.framebuffer = g.framebuffer
             /\ h.active = g.active /\ h.material = g.material
             /\ g.active \in Units => h.units[g.active] = 0
             /\ h.vaos = g.vaos /\ h.textures = g.textures \cup {Fresh(g.textures)}
             /\ h.programs = g.programs /\ h.cache = g.cache
<1> DEFINE k == BindTexture(g, g.active, 0)
<1>1. NewTexture(g) = [k EXCEPT !.textures = @ \cup {Fresh(k.textures)}]
  BY DEF NewTexture
<1>2. /\ IsContext(k)
      /\ k.program = g.program /\ k.vao = g.vao /\ k.framebuffer = g.framebuffer
      /\ k.active = g.active /\ k.material = g.material
      /\ g.active \in Units => k.units[g.active] = 0
      /\ k.vaos = g.vaos /\ k.textures = g.textures
      /\ k.programs = g.programs /\ k.cache = g.cache
  BY BindTextureDoes
<1> HIDE DEF k
<1>3. Fresh(k.textures) \in Nat \ {0}
  BY <1>2, FreshIsFree DEF IsContext
<1> QED
  BY <1>1, <1>2, <1>3, TextureNamed

(* Functions.                                                              *)
LEMMA WithDoes ==
  ASSUME NEW f, NEW x, NEW value
  PROVE  LET g == With(f, x, value)
         IN  /\ DOMAIN g = DOMAIN f \cup {x} /\ g[x] = value
             /\ \A y \in DOMAIN f \ {x} : g[y] = f[y]
             /\ g = [y \in DOMAIN g |-> g[y]]
BY DEF With

(* A restriction keeps the values.                                        *)
LEMMA RestrictDoes ==
  ASSUME NEW f, NEW S, S \subseteq DOMAIN f
  PROVE  LET g == Restrict(f, S)
         IN  DOMAIN g = S /\ (\A y \in S : g[y] = f[y]) /\ g = [y \in S |-> g[y]]
BY DEF Restrict

(* Dropping an argument keeps the other values.                           *)
LEMMA WithoutDoes ==
  ASSUME NEW f, NEW x
  PROVE  LET g == Without(f, x)
         IN  /\ DOMAIN g = DOMAIN f \ {x}
             /\ \A y \in DOMAIN f \ {x} : g[y] = f[y]
             /\ g = [y \in DOMAIN f \ {x} |-> g[y]]
BY DEF Without, Restrict

(* The empty function is the one without an argument.                     *)
LEMMA EmptyFunction ==
  ASSUME NEW f, f = [x \in DOMAIN f |-> f[x]]
  PROVE  f = <<>> <=> DOMAIN f = {}
OBVIOUS

(* A key is held when a group has it among its textures.                  *)
LEMMA HeldByDoes ==
  ASSUME NEW G, NEW key
  PROVE  key \in HeldBy(G) <=> Holds(G, key)
BY DEF HeldBy, Keys, ToSet, Holds

-----------------------------------------------------------------------------
(* Meshes.                                                                 *)

LEMMA SceneMeshAdded ==
  ASSUME NEW V, NEW E, NEW G, NEW v, NEW x, OwnMeshes(V, E, G),
         v # 0, v \notin V, x \notin DOMAIN E
  PROVE  OwnMeshes(V \cup {v}, With(E, x, v), G)
<1> DEFINE F == With(E, x, v)
<1>1. DOMAIN F = DOMAIN E \cup {x} /\ F[x] = v /\ \A y \in DOMAIN E : F[y] = E[y]
  BY DEF With
<1> HIDE DEF F
<1>2. \A w : w \in V \cup {v} <=> \/ w # 0 /\ \E y \in DOMAIN F : F[y] = w
                                  \/ \E s \in DOMAIN G : \E i \in DOMAIN G[s].meshes : G[s].meshes[i] = w
  BY <1>1 DEF OwnMeshes
<1>3. \A y, z \in DOMAIN F : F[y] = F[z] /\ F[y] # 0 => y = z
  BY <1>1 DEF OwnMeshes
<1>4. \A y \in DOMAIN F, s \in DOMAIN G : \A i \in DOMAIN G[s].meshes : F[y] # G[s].meshes[i]
  BY <1>1 DEF OwnMeshes
<1> QED
  BY <1>2, <1>3, <1>4 DEF OwnMeshes, F

(* A scene group without a mesh adds no name.                             *)
LEMMA SceneGroupAdded ==
  ASSUME NEW V, NEW E, NEW G, NEW x, OwnMeshes(V, E, G), x \notin DOMAIN E,
         \A s \in DOMAIN G : \A i \in DOMAIN G[s].meshes : G[s].meshes[i] # 0
  PROVE  OwnMeshes(V, With(E, x, 0), G)
<1> DEFINE F == With(E, x, 0)
<1>1. DOMAIN F = DOMAIN E \cup {x} /\ F[x] = 0 /\ \A y \in DOMAIN E : F[y] = E[y]
  BY DEF With
<1> HIDE DEF F
<1>2. \A w : w \in V <=> \/ w # 0 /\ \E y \in DOMAIN F : F[y] = w
                         \/ \E s \in DOMAIN G : \E i \in DOMAIN G[s].meshes : G[s].meshes[i] = w
  BY <1>1 DEF OwnMeshes
<1>3. \A y, z \in DOMAIN F : F[y] = F[z] /\ F[y] # 0 => y = z
  BY <1>1 DEF OwnMeshes
<1>4. \A y \in DOMAIN F, s \in DOMAIN G : \A i \in DOMAIN G[s].meshes : F[y] # G[s].meshes[i]
  BY <1>1 DEF OwnMeshes
<1> QED
  BY <1>2, <1>3, <1>4 DEF OwnMeshes, F

(* A group of the same meshes, or another of none.                         *)
LEMMA SameMeshes ==
  ASSUME NEW V, NEW E, NEW G, NEW H, OwnMeshes(V, E, G),
         DOMAIN G \subseteq DOMAIN H,
         \A s \in DOMAIN G : H[s].meshes = G[s].meshes,
         \A s \in DOMAIN H \ DOMAIN G : DOMAIN H[s].meshes = {}
  PROVE  OwnMeshes(V, E, H)
<1>1. \A v : v \in V <=> \/ v # 0 /\ \E x \in DOMAIN E : E[x] = v
                         \/ \E s \in DOMAIN H : \E i \in DOMAIN H[s].meshes : H[s].meshes[i] = v
  BY DEF OwnMeshes
<1>2. \A s, t \in DOMAIN H :
       \A i \in DOMAIN H[s].meshes, j \in DOMAIN H[t].meshes :
         H[s].meshes[i] = H[t].meshes[j] => s = t /\ i = j
  <2> TAKE s, t \in DOMAIN H
  <2> TAKE i \in DOMAIN H[s].meshes, j \in DOMAIN H[t].meshes
  <2>1. s \in DOMAIN G /\ t \in DOMAIN G
    OBVIOUS
  <2> QED
    BY <2>1 DEF OwnMeshes
<1>3. \A x \in DOMAIN E, s \in DOMAIN H : \A i \in DOMAIN H[s].meshes : E[x] # H[s].meshes[i]
  BY DEF OwnMeshes
<1> QED
  BY <1>1, <1>2, <1>3 DEF OwnMeshes

(* A group gets another mesh.                                              *)
LEMMA LiveMeshAdded ==
  ASSUME NEW V, NEW E, NEW G, NEW H, NEW o \in DOMAIN G, NEW v, NEW k,
         OwnMeshes(V, E, G), v \notin V, v # 0, DOMAIN H = DOMAIN G,
         \A s \in DOMAIN G \ {o} : H[s].meshes = G[s].meshes,
         k \notin DOMAIN G[o].meshes,
         DOMAIN H[o].meshes = DOMAIN G[o].meshes \cup {k},
         H[o].meshes[k] = v,
         \A i \in DOMAIN G[o].meshes : H[o].meshes[i] = G[o].meshes[i]
  PROVE  OwnMeshes(V \cup {v}, E, H)
<1>0. /\ \A s \in DOMAIN G : \A i \in DOMAIN G[s].meshes : i \in DOMAIN H[s].meshes /\ H[s].meshes[i] = G[s].meshes[i]
      /\ \A s \in DOMAIN G : \A i \in DOMAIN H[s].meshes : i \in DOMAIN G[s].meshes \/ (s = o /\ i = k)
  OBVIOUS
<1>1. \A w : w \in V \cup {v} <=> \/ w # 0 /\ \E x \in DOMAIN E : E[x] = w
                        \/ \E s \in DOMAIN H : \E i \in DOMAIN H[s].meshes : H[s].meshes[i] = w
  <2> TAKE w
  <2>1. CASE w \in V
    BY <1>0, <2>1 DEF OwnMeshes
  <2>2. CASE w = v
    BY <1>0, <2>2
  <2>3. CASE w \notin V /\ w # v
    BY <1>0, <2>3 DEF OwnMeshes
  <2> QED
    BY <2>1, <2>2, <2>3
<1>2. \A s, t \in DOMAIN H :
       \A i \in DOMAIN H[s].meshes, j \in DOMAIN H[t].meshes :
         H[s].meshes[i] = H[t].meshes[j] => s = t /\ i = j
  <2> TAKE s, t \in DOMAIN H
  <2> TAKE i \in DOMAIN H[s].meshes, j \in DOMAIN H[t].meshes
  <2>1. \/ i \in DOMAIN G[s].meshes /\ H[s].meshes[i] = G[s].meshes[i] /\ G[s].meshes[i] \in V
        \/ s = o /\ i = k /\ H[s].meshes[i] = v
    BY <1>0 DEF OwnMeshes
  <2>2. \/ j \in DOMAIN G[t].meshes /\ H[t].meshes[j] = G[t].meshes[j] /\ G[t].meshes[j] \in V
        \/ t = o /\ j = k /\ H[t].meshes[j] = v
    BY <1>0 DEF OwnMeshes
  <2> QED
    BY <2>1, <2>2 DEF OwnMeshes
<1>3. \A x \in DOMAIN E, s \in DOMAIN H : \A i \in DOMAIN H[s].meshes : E[x] # H[s].meshes[i]
  <2> TAKE x \in DOMAIN E, s \in DOMAIN H
  <2> TAKE i \in DOMAIN H[s].meshes
  <2>1. E[x] = 0 \/ E[x] \in V
    BY DEF OwnMeshes
  <2>2. CASE i \in DOMAIN G[s].meshes
    BY <1>0, <2>2 DEF OwnMeshes
  <2>3. CASE s = o /\ i = k
    BY <2>1, <2>3
  <2> QED
    BY <1>0, <2>2, <2>3
<1> QED
  BY <1>1, <1>2, <1>3 DEF OwnMeshes

(* Groups go, and their meshes with them.                                  *)
LEMMA MeshesRemoved ==
  ASSUME NEW V, NEW W, NEW E, NEW F, NEW G, NEW H, OwnMeshes(V, E, G),
         DOMAIN F \subseteq DOMAIN E, \A x \in DOMAIN F : F[x] = E[x],
         DOMAIN H \subseteq DOMAIN G, \A s \in DOMAIN H : H[s].meshes = G[s].meshes,
         \A v : v \in W <=> /\ v \in V
                            /\ \A x \in DOMAIN E \ DOMAIN F : v # E[x]
                            /\ \A s \in DOMAIN G \ DOMAIN H :
                                \A i \in DOMAIN G[s].meshes : v # G[s].meshes[i]
  PROVE  OwnMeshes(W, F, H)
<1>1. ASSUME NEW v
      PROVE  v \in W <=> \/ v # 0 /\ \E x \in DOMAIN F : F[x] = v
                         \/ \E s \in DOMAIN H : \E i \in DOMAIN H[s].meshes : H[s].meshes[i] = v
  <2>1. ASSUME v \in W
        PROVE  \/ v # 0 /\ \E x \in DOMAIN F : F[x] = v
               \/ \E s \in DOMAIN H : \E i \in DOMAIN H[s].meshes : H[s].meshes[i] = v
    <3>1. v \in V
      BY <2>1
    <3>2. CASE v # 0 /\ \E x \in DOMAIN E : E[x] = v
      BY <2>1, <3>2
    <3>3. CASE \E s \in DOMAIN G : \E i \in DOMAIN G[s].meshes : G[s].meshes[i] = v
      <4>1. PICK s \in DOMAIN G : \E i \in DOMAIN G[s].meshes : G[s].meshes[i] = v
        BY <3>3
      <4>0. \A t \in DOMAIN G \ DOMAIN H : \A i \in DOMAIN G[t].meshes : v # G[t].meshes[i]
        BY <2>1
      <4>2. s \in DOMAIN H
        BY <4>0, <4>1
      <4>3. H[s].meshes = G[s].meshes
        BY <4>2
      <4> QED
        BY <4>1, <4>2, <4>3
    <3> QED
      BY <3>1, <3>2, <3>3 DEF OwnMeshes
  <2>2. ASSUME v # 0, NEW x \in DOMAIN F, F[x] = v
        PROVE  v \in W
    BY <2>2 DEF OwnMeshes
  <2>3. ASSUME NEW s \in DOMAIN H, NEW i \in DOMAIN H[s].meshes, H[s].meshes[i] = v
        PROVE  v \in W
    <3>1. s \in DOMAIN G /\ i \in DOMAIN G[s].meshes /\ G[s].meshes[i] = v
      BY <2>3
    <3>2. v \in V
      BY <3>1 DEF OwnMeshes
    <3>3. \A x \in DOMAIN E : v # E[x]
      BY <3>1 DEF OwnMeshes
    <3>4. \A t \in DOMAIN G \ DOMAIN H : \A j \in DOMAIN G[t].meshes : v # G[t].meshes[j]
      BY <3>1 DEF OwnMeshes
    <3> QED
      BY <3>2, <3>3, <3>4
  <2> QED
    BY <2>1, <2>2, <2>3
<1>2. \A s, t \in DOMAIN H :
       \A i \in DOMAIN H[s].meshes, j \in DOMAIN H[t].meshes :
         H[s].meshes[i] = H[t].meshes[j] => s = t /\ i = j
  <2> TAKE s, t \in DOMAIN H
  <2>1. s \in DOMAIN G /\ t \in DOMAIN G /\ H[s].meshes = G[s].meshes /\ H[t].meshes = G[t].meshes
    OBVIOUS
  <2> QED
    BY <2>1 DEF OwnMeshes
<1>3. \A x \in DOMAIN F, s \in DOMAIN H : \A i \in DOMAIN H[s].meshes : F[x] # H[s].meshes[i]
  BY DEF OwnMeshes
<1>4. \A x, y \in DOMAIN F : F[x] = F[y] /\ F[x] # 0 => x = y
  BY DEF OwnMeshes
<1> QED
  BY <1>1, <1>2, <1>3, <1>4 DEF OwnMeshes

-----------------------------------------------------------------------------
(* Textures.                                                               *)

LEMMA SameTextures ==
  ASSUME NEW T, NEW N, NEW G, NEW H, NEW A, NEW S, OwnTextures(T, N, G, A, S),
         DOMAIN G \subseteq DOMAIN H,
         \A s \in DOMAIN G : H[s].textures = G[s].textures,
         \A s \in DOMAIN H \ DOMAIN G : DOMAIN H[s].textures = {}
  PROVE  OwnTextures(T, N, H, A, S)
<1>1. \A key : Holds(G, key) <=> Holds(H, key)
  BY DEF Holds
<1> QED
  BY <1>1 DEF OwnTextures

(* The arrows, or the map, are made.                                       *)
LEMMA ArrowsAdded ==
  ASSUME NEW T, NEW N, NEW G, NEW S, NEW t, OwnTextures(T, N, G, 0, S), t \notin T, t # 0
  PROVE  OwnTextures(T \cup {t}, N, G, t, S)
BY DEF OwnTextures

(* The shadow map takes a new name.                                       *)
LEMMA MapAdded ==
  ASSUME NEW T, NEW N, NEW G, NEW A, NEW t, OwnTextures(T, N, G, A, 0), t \notin T, t # 0
  PROVE  OwnTextures(T \cup {t}, N, G, A, t)
BY DEF OwnTextures

(* Without the shadow map its name is free.                               *)
LEMMA MapRemoved ==
  ASSUME NEW T, NEW N, NEW G, NEW A, NEW S, OwnTextures(T, N, G, A, S)
  PROVE  OwnTextures(T \ ({S} \ {0}), N, G, A, 0)
BY DEF OwnTextures

(* A group takes a key, one that is held or a new one.                     *)
LEMMA KeyShared ==
  ASSUME NEW T, NEW N, NEW G, NEW H, NEW A, NEW S, NEW o \in DOMAIN G, NEW k, NEW key,
         OwnTextures(T, N, G, A, S), DOMAIN H = DOMAIN G,
         \A s \in DOMAIN G \ {o} : H[s].textures = G[s].textures,
         DOMAIN H[o].textures = DOMAIN G[o].textures \cup {k},
         k \notin DOMAIN G[o].textures, H[o].textures[k] = key,
         \A i \in DOMAIN G[o].textures : H[o].textures[i] = G[o].textures[i],
         key \in DOMAIN N
  PROVE  OwnTextures(T, N, H, A, S)
<1>1. ASSUME NEW other PROVE Holds(H, other) <=> Holds(G, other) \/ other = key
  <2>1. ASSUME Holds(H, other) PROVE Holds(G, other) \/ other = key
    BY <2>1 DEF Holds
  <2>2. ASSUME Holds(G, other) PROVE Holds(H, other)
    BY <2>2 DEF Holds
  <2>3. Holds(H, key)
    BY DEF Holds
  <2> QED
    BY <2>1, <2>2, <2>3
<1> QED
  BY <1>1 DEF OwnTextures

(* A key that no group held takes a new name.                             *)
LEMMA KeyAdded ==
  ASSUME NEW T, NEW N, NEW G, NEW H, NEW A, NEW S, NEW o \in DOMAIN G, NEW k, NEW key, NEW t,
         OwnTextures(T, N, G, A, S), DOMAIN H = DOMAIN G,
         \A s \in DOMAIN G \ {o} : H[s].textures = G[s].textures,
         DOMAIN H[o].textures = DOMAIN G[o].textures \cup {k},
         k \notin DOMAIN G[o].textures, H[o].textures[k] = key,
         \A i \in DOMAIN G[o].textures : H[o].textures[i] = G[o].textures[i],
         key \notin DOMAIN N, t \notin T, t # 0
  PROVE  OwnTextures(T \cup {t}, With(N, key, t), H, A, S)
<1> DEFINE M == With(N, key, t)
<1>0. DOMAIN M = DOMAIN N \cup {key} /\ M[key] = t /\ \A other \in DOMAIN N : M[other] = N[other]
  BY DEF With
<1> HIDE DEF M
<1>1. ASSUME NEW other PROVE Holds(H, other) <=> Holds(G, other) \/ other = key
  <2>1. ASSUME Holds(H, other) PROVE Holds(G, other) \/ other = key
    BY <2>1 DEF Holds
  <2>2. ASSUME Holds(G, other) PROVE Holds(H, other)
    BY <2>2 DEF Holds
  <2>3. Holds(H, key)
    BY DEF Holds
  <2> QED
    BY <2>1, <2>2, <2>3
<1>2. \A other : other \in DOMAIN M <=> Holds(H, other)
  BY <1>0, <1>1 DEF OwnTextures
<1>3. \A u : u \in T \cup {t} <=> (\E other \in DOMAIN M : M[other] = u) \/ (u # 0 /\ (u = A \/ u = S))
  BY <1>0 DEF OwnTextures
<1>4. /\ \A one, other \in DOMAIN M : M[one] = M[other] => one = other
      /\ \A one \in DOMAIN M : M[one] # A /\ M[one] # S /\ M[one] # 0
  <2>1. \A one \in DOMAIN N : N[one] \in T
    BY DEF OwnTextures
  <2>2. (A = 0 \/ A \in T) /\ (S = 0 \/ S \in T)
    BY DEF OwnTextures
  <2> QED
    BY <1>0, <2>1, <2>2 DEF OwnTextures
<1> QED
  BY <1>2, <1>3, <1>4 DEF OwnTextures, M

(* Groups go, and the textures that only they held.                        *)
LEMMA TexturesRemoved ==
  ASSUME NEW T, NEW U, NEW N, NEW M, NEW G, NEW H, NEW A, NEW S, OwnTextures(T, N, G, A, S),
         DOMAIN H \subseteq DOMAIN G, \A s \in DOMAIN H : H[s].textures = G[s].textures,
         \A key : key \in DOMAIN M <=> key \in DOMAIN N /\ Holds(H, key),
         \A key \in DOMAIN M : M[key] = N[key],
         \A t : t \in U <=> t \in T /\ \A key \in DOMAIN N \ DOMAIN M : t # N[key]
  PROVE  OwnTextures(U, M, H, A, S)
<1>1. \A key : Holds(H, key) => Holds(G, key)
  BY DEF Holds
<1>2. \A key : key \in DOMAIN M <=> Holds(H, key)
  BY <1>1 DEF OwnTextures
<1>3. ASSUME NEW t
      PROVE  t \in U <=> (\E key \in DOMAIN M : M[key] = t) \/ (t # 0 /\ (t = A \/ t = S))
  BY DEF OwnTextures
<1>4. \A key, other \in DOMAIN M : M[key] = M[other] => key = other
  BY DEF OwnTextures
<1>5. \A key \in DOMAIN M : M[key] # A /\ M[key] # S /\ M[key] # 0
  BY DEF OwnTextures
<1> QED
  BY <1>2, <1>3, <1>4, <1>5 DEF OwnTextures

-----------------------------------------------------------------------------
(* Programs.                                                               *)

LEMMA SamePrograms ==
  ASSUME NEW P, NEW K, NEW G, NEW H, OwnPrograms(P, K, G),
         DOMAIN G \subseteq DOMAIN H,
         \A s \in DOMAIN G : H[s].programs = G[s].programs,
         \A s \in DOMAIN H \ DOMAIN G : H[s].programs = {}
  PROVE  OwnPrograms(P, K, H)
BY DEF OwnPrograms

(* A shader of another kind is a program more.                            *)
LEMMA ShaderAdded ==
  ASSUME NEW P, NEW K, NEW G, NEW kind, OwnPrograms(P, K, G)
  PROVE  OwnPrograms(P \cup {Shader(kind)}, K \cup {kind}, G)
<1> SUFFICES ASSUME NEW p
             PROVE  p \in P \cup {Shader(kind)} <=>
                      \/ \E other \in K \cup {kind} : p = Shader(other)
                      \/ \E s \in DOMAIN G : \E source \in G[s].programs : p = Program(s, source)
  BY DEF OwnPrograms
<1>1. p \in P <=> \/ \E other \in K : p = Shader(other)
                  \/ \E s \in DOMAIN G : \E source \in G[s].programs : p = Program(s, source)
  BY DEF OwnPrograms
<1> QED
  BY <1>1

(* A program of a group has that group as its owner.                      *)
LEMMA ProgramAdded ==
  ASSUME NEW P, NEW K, NEW G, NEW H, NEW o \in DOMAIN G, NEW source,
         OwnPrograms(P, K, G), DOMAIN H = DOMAIN G,
         \A s \in DOMAIN G \ {o} : H[s].programs = G[s].programs,
         H[o].programs = G[o].programs \cup {source}
  PROVE  OwnPrograms(P \cup {Program(o, source)}, K, H)
<1> SUFFICES ASSUME NEW p
             PROVE  p \in P \cup {Program(o, source)} <=>
                      \/ \E other \in K : p = Shader(other)
                      \/ \E s \in DOMAIN H : \E any \in H[s].programs : p = Program(s, any)
  BY DEF OwnPrograms
<1>1. p \in P <=> \/ \E other \in K : p = Shader(other)
                  \/ \E s \in DOMAIN G : \E any \in G[s].programs : p = Program(s, any)
  BY DEF OwnPrograms
<1> QED
  BY <1>1

(* With a group go its programs, and no other of them.                    *)
LEMMA ProgramsRemoved ==
  ASSUME NEW P, NEW K, NEW G, NEW H, NEW o \in DOMAIN G,
         OwnPrograms(P, K, G), DOMAIN H = DOMAIN G \ {o}, K \subseteq {"entity", "geodata"},
         o \in SceneSquares,
         \A s \in DOMAIN H : H[s].programs = G[s].programs
  PROVE  OwnPrograms(P \ {Program(o, source) : source \in G[o].programs}, K, H)
<1>1. \A kind \in K : \A source : Shader(kind) # Program(o, source)
  BY NamesAssumption DEF Shader, Program
<1>2. \A s \in DOMAIN H : \A source, other : Program(s, source) # Program(o, other)
  BY DEF Program
<1> QED
  BY <1>1, <1>2 DEF OwnPrograms

(* Except in an upload the live groups are all the groups.                *)
LEMMA IdleGroups ==
  ASSUME pc # "upload"
  PROVE  Groups = live
BY DEF Groups

(* A group has finitely many meshes, with names that are not zero.        *)
LEMMA GroupMeshes ==
  ASSUME LiveInv
  PROVE  \A s \in DOMAIN Groups :
           /\ s \in SceneSquares
           /\ DOMAIN Groups[s].meshes = 1 .. Len(Groups[s].meshes) /\ Len(Groups[s].meshes) \in Nat
           /\ DOMAIN Groups[s].textures = 1 .. Len(Groups[s].textures) /\ Len(Groups[s].textures) \in Nat
           /\ \A i \in DOMAIN Groups[s].meshes : Groups[s].meshes[i] \in Nat \ {0}
<1> TAKE s \in DOMAIN Groups
<1>1. s \in SceneSquares /\ IsGroup(s, Groups[s])
  BY DEF LiveInv, Placed
<1>2. /\ Groups[s].meshes \in Seq(Nat \ {0})
      /\ Groups[s].textures \in Seq(ToSet(Visual[s].textures) \cup {Neutral})
  BY <1>1 DEF IsGroup
<1> QED
  BY <1>1, <1>2

(* A scene group has been added, its mesh, its shader, and the arrows if it *)
(* draws them.                                                             *)
Rendered(group) ==
  /\ IsContext(gl')
  /\ gl'.program = gl.program /\ gl'.framebuffer = gl.framebuffer
  /\ gl'.active = 0 /\ gl'.units[0] = gl.units[0] /\ gl'.cache = gl.cache
  /\ DOMAIN entities' = DOMAIN entities \cup {group}
  /\ entities' = [x \in DOMAIN entities' |-> entities'[x]]
  /\ IsFiniteSet(DOMAIN entities') /\ \A x \in DOMAIN entities' : entities'[x] \in Nat
  /\ \A x \in DOMAIN entities : entities'[x] = entities[x]
  /\ OwnMeshes(gl'.vaos, entities', Groups)
  /\ arrows' \in Nat /\ (arrows # 0 => arrows' = arrows)
  /\ group[2] = "geodata" => arrows' # 0
  /\ OwnTextures(gl'.textures, names, Groups, arrows', shadow)
  /\ shaders' = shaders \cup {ShaderOf(group[2])} /\ shaders' \subseteq {"entity", "geodata"}
  /\ OwnPrograms(gl'.programs, shaders', Groups)

(* What rendering a scene group changes (RenderGroup).                    *)
LEMMA RenderGroupDoes ==
  ASSUME LiveInv, pc \in {"idle", "import"}, NEW group \in SceneSquares \X Kinds,
         group \notin DOMAIN entities, NEW meshes \in {0, 1}, RenderGroup(group, meshes)
  PROVE  Rendered(group)
<1> DEFINE kind == ShaderOf(group[2])
           base == NewProgram(gl, Shader(kind))
           loaded == WithArrows(base, kind)
<1>0. /\ IsContext(gl) /\ gl.active = 0 /\ gl.units[0] = gl.cache.texture
      /\ gl.cache.texture \in {0, arrows} /\ arrows \in Nat
      /\ kind \in {"entity", "geodata"} /\ (kind = "geodata" <=> group[2] = "geodata")
  BY DEF LiveInv, Typed, Bound, ShaderOf, Kinds
<1>1. /\ IsContext(base) /\ base.program = gl.program /\ base.vao = gl.vao
      /\ base.framebuffer = gl.framebuffer /\ base.active = gl.active /\ base.units = gl.units
      /\ base.vaos = gl.vaos /\ base.textures = gl.textures
      /\ base.programs = gl.programs \cup {Shader(kind)} /\ base.cache = gl.cache
  BY <1>0, NewProgramDoes
<1> HIDE DEF base
<1>2. /\ IsContext(loaded) /\ loaded.program = gl.program
      /\ loaded.framebuffer = gl.framebuffer /\ loaded.active = 0
      /\ loaded.units[0] = gl.units[0]
      /\ loaded.vaos = gl.vaos /\ loaded.programs = gl.programs \cup {Shader(kind)}
      /\ loaded.cache = gl.cache
      /\ loaded.textures = IF kind = "geodata" /\ arrows = 0
                           THEN gl.textures \cup {Fresh(gl.textures)} ELSE gl.textures
  <2>1. CASE kind = "geodata" /\ arrows = 0
    <3>1. loaded = NewTexture(base)
      BY <2>1 DEF WithArrows
    <3> HIDE DEF loaded
    <3> QED
      <4>1. /\ IsContext(loaded) /\ loaded.program = base.program
            /\ loaded.framebuffer = base.framebuffer /\ loaded.active = base.active
            /\ base.active \in Units => loaded.units[base.active] = 0
            /\ loaded.vaos = base.vaos
            /\ loaded.textures = base.textures \cup {Fresh(base.textures)}
            /\ loaded.programs = base.programs /\ loaded.cache = base.cache
        BY <1>1, <3>1, NewTextureDoes
      <4>2. loaded.units[0] = 0 /\ gl.units[0] = 0
        BY <1>0, <1>1, <2>1, <4>1, FirstUnit
      <4> QED
        BY <1>0, <1>1, <2>1, <4>1, <4>2
  <2>2. CASE ~ (kind = "geodata" /\ arrows = 0)
    <3>1. loaded = base
      BY <2>2 DEF WithArrows
    <3> HIDE DEF loaded
    <3> QED
      BY <1>0, <1>1, <2>2, <3>1
  <2> QED
    BY <2>1, <2>2
<1>3. /\ shaders' = shaders \cup {kind}
      /\ arrows' = IF kind = "geodata" /\ arrows = 0 THEN Fresh(gl.textures) ELSE arrows
      /\ gl' = IF meshes = 0 THEN loaded ELSE NewMesh(loaded)
      /\ entities' = With(entities, group, IF meshes = 0 THEN 0 ELSE Fresh(gl.vaos))
  BY DEF RenderGroup, base
<1> HIDE DEF loaded
<1>4. /\ IsContext(gl') /\ gl'.program = gl.program /\ gl'.framebuffer = gl.framebuffer
      /\ gl'.active = 0 /\ gl'.units[0] = gl.units[0] /\ gl'.cache = gl.cache
      /\ gl'.vaos = IF meshes = 0 THEN gl.vaos ELSE gl.vaos \cup {Fresh(gl.vaos)}
      /\ gl'.textures = loaded.textures /\ gl'.programs = loaded.programs
  BY <1>2, <1>3, NewMeshDoes
<1>5. /\ Fresh(gl.vaos) \in Nat \ {0} /\ Fresh(gl.vaos) \notin gl.vaos
      /\ Fresh(gl.textures) \in Nat \ {0} /\ Fresh(gl.textures) \notin gl.textures
  BY <1>0, FreshIsFree DEF IsContext
<1>6. /\ DOMAIN entities' = DOMAIN entities \cup {group}
      /\ entities' = [x \in DOMAIN entities' |-> entities'[x]]
      /\ \A x \in DOMAIN entities : entities'[x] = entities[x]
      /\ entities'[group] \in Nat
  BY <1>3, <1>5 DEF With
<1>7. IsFiniteSet(DOMAIN entities') /\ \A x \in DOMAIN entities' : entities'[x] \in Nat
  BY <1>6, FS_AddElement DEF LiveInv, Typed
<1>8. OwnMeshes(gl'.vaos, entities', Groups)
  <2>1. OwnMeshes(gl.vaos, entities, Groups)
    BY DEF LiveInv, Owned
  <2>2. CASE meshes = 0
    <3>1. \A s \in DOMAIN Groups : \A i \in DOMAIN Groups[s].meshes : Groups[s].meshes[i] # 0
      BY GroupMeshes
    <3> QED
      BY <1>3, <1>4, <2>1, <2>2, <3>1, SceneGroupAdded
  <2>3. CASE meshes = 1
    BY <1>3, <1>4, <1>5, <2>1, <2>3, SceneMeshAdded
  <2> QED
    BY <2>2, <2>3
<1>9. OwnTextures(gl'.textures, names, Groups, arrows', shadow)
  <2>1. OwnTextures(gl.textures, names, Groups, arrows, shadow)
    BY DEF LiveInv, Owned
  <2>2. CASE kind = "geodata" /\ arrows = 0
    <3>1. gl'.textures = gl.textures \cup {Fresh(gl.textures)} /\ arrows' = Fresh(gl.textures)
      BY <1>2, <1>3, <1>4, <2>2
    <3> QED
      BY <1>5, <2>1, <2>2, <3>1, ArrowsAdded
  <2>3. CASE ~ (kind = "geodata" /\ arrows = 0)
    BY <1>2, <1>3, <1>4, <2>1, <2>3
  <2> QED
    BY <2>2, <2>3
<1>10. OwnPrograms(gl'.programs, shaders', Groups)
  <2>1. OwnPrograms(gl.programs, shaders, Groups)
    BY DEF LiveInv, Owned
  <2> QED
    BY <1>2, <1>3, <1>4, <2>1, ShaderAdded
<1>11. shaders' \subseteq {"entity", "geodata"}
  BY <1>0, <1>3 DEF LiveInv, Typed
<1>12. /\ arrows' \in Nat /\ (arrows # 0 => arrows' = arrows)
       /\ group[2] = "geodata" => arrows' # 0
  BY <1>0, <1>3, <1>5
<1> QED
  BY <1>3, <1>4, <1>6, <1>7, <1>8, <1>9, <1>10, <1>11, <1>12 DEF Rendered

(* Between frames nothing is being looked at.                              *)
LEMMA NoPass ==
  ASSUME pc' \in {"idle", "upload", "import"}, useShadows' = FALSE
  PROVE  Passing' /\ Remembered'
BY DEF Passing, Remembered

(* No frame is under way between frames, so no shadows are.               *)
LEMMA NoShadows ==
  ASSUME LiveInv, pc \in {"idle", "upload", "import"}
  PROVE  useShadows = FALSE
BY DEF LiveInv, Passing, Typed

(* The terrain of a square (UploadTerrain) keeps LiveInv.                 *)
LEMMA UploadTerrainKeeps ==
  ASSUME LiveInv, NEW s \in SceneSquares, UploadTerrain(s)
  PROVE  LiveInv'
<1> DEFINE group == <<s, "terrain">>
<1>0. /\ pc = "idle" /\ pc' = "idle" /\ group \notin DOMAIN entities /\ RenderGroup(group, 1)
      /\ UNCHANGED <<live, names, shadow, shadows, making, todo, last, useShadows, astray>>
  BY DEF UploadTerrain, passVars
<1>1. group \in SceneSquares \X Kinds /\ group[1] = s /\ group[2] = "terrain"
  BY DEF Kinds
<1>2. Rendered(group)
  BY <1>0, <1>1, RenderGroupDoes, 1 \in {0, 1}
<1>3. Groups = live /\ Groups' = live
  BY <1>0 DEF Groups
<1> HIDE DEF group
<1>4. Typed'
  BY <1>0, <1>1, <1>2 DEF Typed, LiveInv, Rendered
<1>5. Placed'
  <2>1. \A t \in SceneSquares : /\ <<t, "detail">> \in DOMAIN entities' <=> <<t, "detail">> \in DOMAIN entities
                                /\ <<t, "geodata">> \in DOMAIN entities' <=> <<t, "geodata">> \in DOMAIN entities
    BY <1>2 DEF group, Rendered
  <2> QED
    BY <1>0, <1>3, <2>1 DEF Placed, LiveInv
<1>6. Owned'
  BY <1>0, <1>1, <1>2, <1>3 DEF Owned, LiveInv, Rendered
<1>7. Bound'
  <2>1. GeodataMeshes \subseteq GeodataMeshes'
    BY <1>2 DEF GeodataMeshes, Rendered
  <2>2. ShaderPrograms \subseteq ShaderPrograms'
    BY <1>2 DEF ShaderPrograms, Rendered
  <2> QED
    BY <1>0, <1>2, <2>1, <2>2 DEF Bound, LiveInv, Rendered
<1>8. Passing' /\ Remembered'
  BY <1>0, NoPass, NoShadows
<1> QED
  BY <1>0, <1>4, <1>5, <1>6, <1>7, <1>8 DEF LiveInv

(* The first step of a live group (BeginDetail) keeps LiveInv.            *)
LEMMA BeginDetailKeeps ==
  ASSUME LiveInv, NEW s \in SceneSquares, NEW meshes \in {0, 1}, BeginDetail(s, meshes)
  PROVE  LiveInv'
<1> DEFINE group == <<s, "detail">>
<1>0. /\ pc = "idle" /\ pc' = "upload" /\ group \notin DOMAIN entities /\ RenderGroup(group, meshes)
      /\ UNCHANGED <<live, names, shadow, shadows, todo, last, useShadows, astray>>
      /\ making' = [square |-> s, id |-> uploads + 1, meshes |-> <<>>, textures |-> <<>>,
                    programs |-> {}]
  BY DEF BeginDetail, passVars
<1>1. group \in SceneSquares \X Kinds /\ group[1] = s /\ group[2] = "detail"
  BY DEF Kinds
<1>2. Rendered(group)
  BY <1>0, <1>1, RenderGroupDoes
<1>3. Groups = live /\ Groups' = With(live, s, making')
  BY <1>0 DEF Groups
<1> HIDE DEF group
<1>4. Typed'
  BY <1>0, <1>1, <1>2 DEF Typed, LiveInv, Rendered
<1>5. s \notin DOMAIN live
  BY <1>0, <1>3 DEF LiveInv, Placed, group
<1>6. /\ DOMAIN Groups' = DOMAIN live \cup {s} /\ Groups'[s] = making'
      /\ \A t \in DOMAIN live : Groups'[t] = live[t]
      /\ \A t \in DOMAIN live : t # s
  BY <1>3, <1>5 DEF With
<1>7. IsGroup(s, making')
  <2>1. /\ making'.square = s /\ making'.meshes = <<>> /\ making'.textures = <<>>
        /\ making'.programs = {}
        /\ making' = [square |-> s, id |-> making'.id, meshes |-> making'.meshes,
                      textures |-> making'.textures, programs |-> making'.programs]
    BY <1>0
  <2>2. Visual[s].meshes \in Nat /\ Len(Visual[s].textures) \in Nat
    <3>1. Whole(Visual[s])
      BY VisualAssumption
    <3>2. Visual[s].textures \in Seq(ToSet(Visual[s].textures))
      BY <3>1 DEF Whole
    <3> QED
      BY <3>1, <3>2 DEF Whole
  <2> QED
    BY <2>1, <2>2 DEF IsGroup
<1>8. Placed'
  <2>1. \A t \in SceneSquares : /\ <<t, "detail">> \in DOMAIN entities'
                                     <=> t = s \/ <<t, "detail">> \in DOMAIN entities
                                /\ <<t, "geodata">> \in DOMAIN entities' <=> <<t, "geodata">> \in DOMAIN entities
    BY <1>2 DEF group, Rendered
  <2>2. DOMAIN Groups' = {t \in SceneSquares : <<t, "detail">> \in DOMAIN entities'}
    BY <1>3, <1>6, <2>1 DEF Placed, LiveInv
  <2>3. \A t \in DOMAIN Groups' : IsGroup(t, Groups'[t])
    BY <1>3, <1>6, <1>7 DEF Placed, LiveInv
  <2>4. making'.square = s
    BY <1>0
  <2> QED
    BY <1>0, <1>5, <2>1, <2>2, <2>3, <2>4 DEF Placed, LiveInv
<1>9. Owned'
  <2>1. /\ DOMAIN making'.meshes = {} /\ DOMAIN making'.textures = {} /\ making'.programs = {}
    BY <1>0
  <2>2. OwnMeshes(gl'.vaos, entities', Groups')
    BY <1>2, <1>3, <1>6, <2>1, SameMeshes DEF Rendered
  <2>3. OwnTextures(gl'.textures, names', Groups', arrows', shadow')
    <3>1. names' = names /\ shadow' = shadow
      BY <1>0
    <3>2. OwnTextures(gl'.textures, names, live, arrows', shadow)
      BY <1>2, <1>3 DEF Rendered
    <3> QED
      BY <1>6, <2>1, <3>1, <3>2, SameTextures
  <2>4. OwnPrograms(gl'.programs, shaders', Groups')
    BY <1>2, <1>3, <1>6, <2>1, SamePrograms DEF Rendered
  <2> QED
    BY <1>0, <1>1, <1>2, <2>2, <2>3, <2>4 DEF Owned, LiveInv, Rendered
<1>10. Bound'
  <2>1. GeodataMeshes \subseteq GeodataMeshes'
    BY <1>2 DEF GeodataMeshes, Rendered
  <2>2. ShaderPrograms \subseteq ShaderPrograms'
    BY <1>2 DEF ShaderPrograms, Rendered
  <2> QED
    BY <1>0, <1>2, <2>1, <2>2 DEF Bound, LiveInv, Rendered
<1>11. Passing' /\ Remembered'
  BY <1>0, NoPass, NoShadows
<1> QED
  BY <1>0, <1>4, <1>8, <1>9, <1>10, <1>11 DEF LiveInv

(* While a live group is made the groups are those that are there and it.  *)
LEMMA UploadGroups ==
  ASSUME LiveInv, pc = "upload"
  PROVE  LET s == making.square
         IN  /\ s \in SceneSquares /\ s \notin DOMAIN live
             /\ DOMAIN Groups = DOMAIN live \cup {s} /\ Groups[s] = making
             /\ \A t \in DOMAIN live : t # s /\ Groups[t] = live[t]
             /\ IsGroup(s, making)
             /\ Len(making.meshes) \in Nat /\ Len(making.textures) \in Nat
             /\ DOMAIN making.meshes = 1 .. Len(making.meshes)
             /\ DOMAIN making.textures = 1 .. Len(making.textures)
             /\ Whole(Visual[s])
<1> DEFINE s == making.square
<1>1. s \in SceneSquares /\ s \notin DOMAIN live
  BY DEF LiveInv, Placed
<1>2. Groups = With(live, s, making)
  BY DEF Groups
<1>3. /\ DOMAIN Groups = DOMAIN live \cup {s} /\ Groups[s] = making
      /\ \A t \in DOMAIN live : t # s /\ Groups[t] = live[t]
  BY <1>1, <1>2 DEF With
<1> HIDE DEF s
<1>4. IsGroup(s, making)
  BY <1>3 DEF LiveInv, Placed
<1>5. /\ making.meshes \in Seq(Nat \ {0})
      /\ making.textures \in Seq(ToSet(Visual[s].textures) \cup {Neutral})
  BY <1>4 DEF IsGroup
<1>6. Whole(Visual[s])
  BY <1>1, VisualAssumption DEF s
<1> QED
  BY <1>1, <1>3, <1>4, <1>5, <1>6 DEF s

(* A step of an upload changes only the group that is made.                *)
LEMMA UploadNext ==
  ASSUME LiveInv, pc = "upload", pc' = "upload", live' = live, entities' = entities,
         making'.square = making.square, IsGroup(making.square, making')
  PROVE  /\ DOMAIN Groups' = DOMAIN Groups /\ making.square \in DOMAIN Groups
         /\ Groups'[making.square] = making'
         /\ \A t \in DOMAIN Groups \ {making.square} : Groups'[t] = Groups[t]
         /\ Placed'
<1> DEFINE s == making.square
<1>1. /\ s \in SceneSquares /\ s \notin DOMAIN live
      /\ DOMAIN Groups = DOMAIN live \cup {s} /\ Groups[s] = making
      /\ \A t \in DOMAIN live : t # s /\ Groups[t] = live[t]
  BY UploadGroups
<1>2. Groups' = With(live, s, making')
  BY DEF Groups
<1>3. /\ DOMAIN Groups' = DOMAIN live \cup {s} /\ Groups'[s] = making'
      /\ \A t \in DOMAIN live : Groups'[t] = live[t]
  BY <1>1, <1>2 DEF With
<1>4. /\ DOMAIN Groups' = DOMAIN Groups /\ s \in DOMAIN Groups
      /\ \A t \in DOMAIN Groups \ {s} : Groups'[t] = Groups[t]
  BY <1>1, <1>3
<1>5. \A t \in DOMAIN Groups' : IsGroup(t, Groups'[t])
  BY <1>3, <1>4 DEF Placed, LiveInv
<1>6. making'.square \in SceneSquares \ DOMAIN live'
  BY <1>1
<1> HIDE DEF s
<1>7. Placed'
  BY <1>4, <1>5, <1>6 DEF Placed, LiveInv
<1> QED
  BY <1>3, <1>4, <1>7 DEF s

(* What an upload does to the bindings does not matter while it lasts.     *)
LEMMA UploadBound ==
  ASSUME LiveInv, pc = "upload", pc' = "upload", gl'.framebuffer = gl.framebuffer,
         gl'.program = gl.program, gl'.cache = gl.cache, entities' = entities, shaders' = shaders
  PROVE  Bound'
<1>1. GeodataMeshes' = GeodataMeshes /\ ShaderPrograms' = ShaderPrograms
  BY DEF GeodataMeshes, ShaderPrograms
<1> QED
  BY <1>1 DEF Bound, LiveInv

(* A mesh for the group that is made keeps LiveInv.                       *)
LEMMA MakeMeshKeeps ==
  ASSUME LiveInv, MakeMesh
  PROVE  LiveInv'
<1> DEFINE s == making.square
           v == Fresh(gl.vaos)
<1>0. /\ pc = "upload" /\ pc' = "upload" /\ ~ MeshesMade
      /\ gl' = NewMesh(gl)
      /\ making' = [making EXCEPT !.meshes = Append(@, v)]
      /\ shaders' = shaders /\ arrows' = arrows /\ entities' = entities
      /\ live' = live /\ names' = names /\ shadow' = shadow /\ shadows' = shadows
      /\ todo' = todo /\ last' = last /\ useShadows' = useShadows /\ astray' = astray
  BY DEF MakeMesh, passVars, residentVars
<1>1. /\ s \in SceneSquares /\ Groups[s] = making /\ IsGroup(s, making)
      /\ Len(making.meshes) \in Nat /\ DOMAIN making.meshes = 1 .. Len(making.meshes)
      /\ Whole(Visual[s])
  BY <1>0, UploadGroups
<1>2. /\ IsContext(gl') /\ gl'.program = gl.program /\ gl'.framebuffer = gl.framebuffer
      /\ gl'.cache = gl.cache /\ gl'.vaos = gl.vaos \cup {v} /\ gl'.textures = gl.textures
      /\ gl'.programs = gl.programs
  BY <1>0, NewMeshDoes DEF LiveInv, Typed
<1>3. v \in Nat \ {0} /\ v \notin gl.vaos
  BY FreshIsFree DEF LiveInv, Typed, IsContext
<1> HIDE DEF v
<1>4. /\ making' = [square |-> s, id |-> making'.id, meshes |-> making'.meshes,
                    textures |-> making'.textures, programs |-> making'.programs]
      /\ making'.square = s /\ making'.meshes = Append(making.meshes, v)
      /\ making'.textures = making.textures /\ making'.programs = making.programs
  BY <1>0, <1>1 DEF IsGroup
<1>5. /\ making.meshes \in Seq(Nat \ {0}) /\ Len(making.meshes) <= Visual[s].meshes
      /\ Len(making.meshes) # Visual[s].meshes /\ Visual[s].meshes \in Nat
  BY <1>0, <1>1 DEF IsGroup, MeshesMade, Whole
<1> HIDE DEF s
<1>6. /\ making'.meshes \in Seq(Nat \ {0}) /\ Len(making'.meshes) = Len(making.meshes) + 1
      /\ DOMAIN making'.meshes = DOMAIN making.meshes \cup {Len(making.meshes) + 1}
      /\ Len(making.meshes) + 1 \notin DOMAIN making.meshes
      /\ making'.meshes[Len(making.meshes) + 1] = v
      /\ \A i \in DOMAIN making.meshes : making'.meshes[i] = making.meshes[i]
  BY <1>1, <1>3, <1>4, <1>5
<1>7. IsGroup(s, making')
  BY <1>1, <1>4, <1>5, <1>6 DEF IsGroup
<1>8. /\ DOMAIN Groups' = DOMAIN Groups /\ s \in DOMAIN Groups /\ Groups'[s] = making'
      /\ \A t \in DOMAIN Groups \ {s} : Groups'[t] = Groups[t]
      /\ Placed'
  BY <1>0, <1>4, <1>7, UploadNext DEF s
<1>9. Typed'
  BY <1>0, <1>2 DEF Typed, LiveInv
<1>10. Owned'
  <2>1. OwnMeshes(gl'.vaos, entities', Groups')
    <3>1. OwnMeshes(gl.vaos, entities, Groups)
      BY DEF LiveInv, Owned
    <3>2. \A t \in DOMAIN Groups \ {s} : Groups'[t].meshes = Groups[t].meshes
      BY <1>8
    <3> DEFINE k == Len(making.meshes) + 1
               H == Groups'
    <3>3. /\ k \notin DOMAIN Groups[s].meshes
          /\ DOMAIN H[s].meshes = DOMAIN Groups[s].meshes \cup {k}
          /\ H[s].meshes[k] = v
          /\ \A i \in DOMAIN Groups[s].meshes : H[s].meshes[i] = Groups[s].meshes[i]
      BY <1>1, <1>6, <1>8
    <3>4. DOMAIN H = DOMAIN Groups /\ s \in DOMAIN Groups /\ v # 0
      BY <1>3, <1>8
    <3> HIDE DEF k, H
    <3>5. OwnMeshes(gl.vaos \cup {v}, entities, H)
      BY <1>3, <3>1, <3>2, <3>3, <3>4, LiveMeshAdded DEF H
    <3> QED
      BY <1>0, <1>2, <3>5 DEF H
  <2>2. OwnTextures(gl'.textures, names', Groups', arrows', shadow')
    <3>1. \A t \in DOMAIN Groups : Groups'[t].textures = Groups[t].textures
      BY <1>1, <1>4, <1>8
    <3>2. OwnTextures(gl.textures, names, Groups', arrows, shadow)
      BY <1>8, <3>1, SameTextures DEF LiveInv, Owned
    <3> QED
      BY <1>0, <1>2, <3>2
  <2>3. OwnPrograms(gl'.programs, shaders', Groups')
    <3>1. \A t \in DOMAIN Groups : Groups'[t].programs = Groups[t].programs
      BY <1>1, <1>4, <1>8
    <3>2. OwnPrograms(gl.programs, shaders, Groups')
      BY <1>8, <3>1, SamePrograms DEF LiveInv, Owned
    <3> QED
      BY <1>0, <1>2, <3>2
  <2> QED
    BY <1>0, <2>1, <2>2, <2>3 DEF Owned, LiveInv
<1>11. Bound'
  BY <1>0, <1>2, UploadBound
<1>12. Passing' /\ Remembered'
  BY <1>0, NoPass, NoShadows
<1> QED
  BY <1>0, <1>8, <1>9, <1>10, <1>11, <1>12 DEF LiveInv

(* The keys that are held are those of the textures.                       *)
LEMMA HeldKeys ==
  ASSUME LiveInv, pc = "upload"
  PROVE  Held = DOMAIN names
<1>1. /\ DOMAIN Groups = DOMAIN live \cup {making.square} /\ Groups[making.square] = making
      /\ \A t \in DOMAIN live : Groups[t] = live[t]
  BY UploadGroups
<1>2. \A key : key \in DOMAIN names <=> Holds(Groups, key)
  BY DEF LiveInv, Owned, OwnTextures
<1>3. \A key : key \in Keys(making) <=> \E i \in DOMAIN making.textures : making.textures[i] = key
  BY DEF Keys, ToSet
<1>4. \A key : key \in HeldBy(live) <=> Holds(live, key)
  BY HeldByDoes
<1>5. \A key : Holds(Groups, key) <=> key \in HeldBy(live) \/ key \in Keys(making)
  BY <1>1, <1>3, <1>4 DEF Holds
<1> QED
  BY <1>2, <1>5 DEF Held

(* A texture for it, new, shared or neutral, keeps LiveInv.               *)
LEMMA MakeTextureKeeps ==
  ASSUME LiveInv, MakeTexture
  PROVE  LiveInv'
<1> DEFINE s == making.square
           t == Fresh(gl.textures)
           k == Len(making.textures) + 1
           wanted == Visual[s].textures[k]
<1>0. /\ pc = "upload" /\ pc' = "upload" /\ ~ TexturesMade
      /\ shaders' = shaders /\ arrows' = arrows /\ entities' = entities
      /\ live' = live /\ shadow' = shadow /\ shadows' = shadows
      /\ todo' = todo /\ last' = last /\ useShadows' = useShadows /\ astray' = astray
  BY DEF MakeTexture, passVars
<1>1. PICK key \in {wanted, Neutral} :
        /\ GetTexture(key)
        /\ making' = [making EXCEPT !.textures = Append(@, key)]
  BY DEF MakeTexture
<1>2. /\ s \in SceneSquares /\ Groups[s] = making /\ IsGroup(s, making)
      /\ Len(making.textures) \in Nat /\ DOMAIN making.textures = 1 .. Len(making.textures)
      /\ Whole(Visual[s])
  BY <1>0, UploadGroups
<1>3. t \in Nat \ {0} /\ t \notin gl.textures
  BY FreshIsFree DEF LiveInv, Typed, IsContext
<1>4. /\ making' = [square |-> s, id |-> making'.id, meshes |-> making'.meshes,
                    textures |-> making'.textures, programs |-> making'.programs]
      /\ making'.square = s /\ making'.textures = Append(making.textures, key)
      /\ making'.meshes = making.meshes /\ making'.programs = making.programs
  BY <1>1, <1>2 DEF IsGroup
<1>5. /\ making.textures \in Seq(ToSet(Visual[s].textures) \cup {Neutral})
      /\ Len(making.textures) <= Len(Visual[s].textures)
      /\ Len(making.textures) # Len(Visual[s].textures)
      /\ Visual[s].textures \in Seq(ToSet(Visual[s].textures))
  BY <1>0, <1>2 DEF IsGroup, TexturesMade, Whole
<1>6. Len(Visual[s].textures) \in Nat /\ k \in DOMAIN Visual[s].textures
  BY <1>2, <1>5
<1>7. key \in ToSet(Visual[s].textures) \cup {Neutral}
  BY <1>1, <1>6 DEF ToSet
<1> HIDE DEF t, s, wanted
<1>8. /\ making'.textures \in Seq(ToSet(Visual[s].textures) \cup {Neutral})
      /\ Len(making'.textures) = k
      /\ DOMAIN making'.textures = DOMAIN making.textures \cup {k}
      /\ k \notin DOMAIN making.textures
      /\ making'.textures[k] = key
      /\ \A i \in DOMAIN making.textures : making'.textures[i] = making.textures[i]
  BY <1>2, <1>4, <1>5, <1>7
<1>9. k <= Len(Visual[s].textures)
  BY <1>2, <1>5, <1>6
<1> HIDE DEF k
<1>10. IsGroup(s, making')
  BY <1>2, <1>4, <1>8, <1>9 DEF IsGroup
<1>11. /\ DOMAIN Groups' = DOMAIN Groups /\ s \in DOMAIN Groups /\ Groups'[s] = making'
       /\ \A o \in DOMAIN Groups \ {s} : Groups'[o] = Groups[o]
       /\ Placed'
  BY <1>0, <1>4, <1>10, UploadNext DEF s
<1>12. /\ IsContext(gl') /\ gl'.program = gl.program /\ gl'.framebuffer = gl.framebuffer
       /\ gl'.cache = gl.cache /\ gl'.vaos = gl.vaos /\ gl'.programs = gl.programs
       /\ names' = [x \in DOMAIN names' |-> names'[x]]
       /\ \A x \in DOMAIN names' : names'[x] \in Nat \ {0}
       /\ OwnTextures(gl'.textures, names', Groups', arrows', shadow')
  <2>0. IsContext(gl) /\ OwnTextures(gl.textures, names, Groups, arrows, shadow)
    BY DEF LiveInv, Typed, Owned
  <2>1. CASE key \in Held
    <3>1. gl' = gl /\ names' = names
      BY <1>1, <2>1 DEF GetTexture
    <3>2. key \in DOMAIN names
      BY <1>0, <2>1, HeldKeys
    <3>3. OwnTextures(gl.textures, names, Groups', arrows, shadow)
      BY <1>2, <1>8, <1>11, <2>0, <3>2, KeyShared
    <3> QED
      BY <1>0, <2>0, <3>1, <3>3 DEF LiveInv, Typed
  <2>2. CASE key \notin Held
    <3> DEFINE g == [gl EXCEPT !.textures = @ \cup {t}]
    <3>1. gl' = BindTexture(g, gl.active, t) /\ names' = With(names, key, t)
      BY <1>1, <2>2 DEF GetTexture, t
    <3>2. /\ IsContext(g) /\ g.program = gl.program /\ g.framebuffer = gl.framebuffer
          /\ g.cache = gl.cache /\ g.vaos = gl.vaos /\ g.programs = gl.programs
          /\ g.textures = gl.textures \cup {t}
      BY <1>3, <2>0, TextureNamed
    <3> HIDE DEF g
    <3>3. /\ IsContext(gl') /\ gl'.program = gl.program /\ gl'.framebuffer = gl.framebuffer
          /\ gl'.cache = gl.cache /\ gl'.vaos = gl.vaos /\ gl'.programs = gl.programs
          /\ gl'.textures = gl.textures \cup {t}
      <4>1. /\ IsContext(gl') /\ gl'.program = g.program /\ gl'.framebuffer = g.framebuffer
            /\ gl'.cache = g.cache /\ gl'.vaos = g.vaos /\ gl'.programs = g.programs
            /\ gl'.textures = g.textures
        BY <3>1, <3>2, BindTextureDoes
      <4> QED
        BY <3>2, <4>1
    <3>4. key \notin DOMAIN names
      BY <1>0, <2>2, HeldKeys
    <3>5. OwnTextures(gl.textures \cup {t}, With(names, key, t), Groups', arrows, shadow)
      <4> DEFINE H == Groups'
      <4>1. /\ DOMAIN H = DOMAIN Groups /\ s \in DOMAIN Groups
            /\ \A o \in DOMAIN Groups \ {s} : H[o].textures = Groups[o].textures
            /\ DOMAIN H[s].textures = DOMAIN Groups[s].textures \cup {k}
            /\ k \notin DOMAIN Groups[s].textures /\ H[s].textures[k] = key
            /\ \A i \in DOMAIN Groups[s].textures : H[s].textures[i] = Groups[s].textures[i]
        BY <1>2, <1>8, <1>11
      <4> HIDE DEF H
      <4> QED
        BY <1>3, <2>0, <3>4, <4>1, KeyAdded DEF H
    <3>6. /\ names' = [x \in DOMAIN names' |-> names'[x]]
          /\ \A x \in DOMAIN names' : names'[x] \in Nat \ {0}
      BY <1>3, <3>1 DEF With, LiveInv, Typed
    <3> QED
      BY <1>0, <3>1, <3>3, <3>5, <3>6
  <2> QED
    BY <2>1, <2>2
<1>13. Typed'
  BY <1>0, <1>12 DEF Typed, LiveInv
<1>14. Owned'
  <2>1. OwnMeshes(gl'.vaos, entities', Groups')
    BY <1>0, <1>2, <1>4, <1>11, <1>12, SameMeshes DEF LiveInv, Owned
  <2>2. OwnPrograms(gl'.programs, shaders', Groups')
    BY <1>0, <1>2, <1>4, <1>11, <1>12, SamePrograms DEF LiveInv, Owned
  <2> QED
    BY <1>0, <1>12, <2>1, <2>2 DEF Owned, LiveInv
<1>15. Bound'
  BY <1>0, <1>12, UploadBound
<1>16. Passing' /\ Remembered'
  BY <1>0, NoPass, NoShadows
<1> QED
  BY <1>0, <1>11, <1>13, <1>14, <1>15, <1>16 DEF LiveInv

(* A program for it keeps LiveInv.                                        *)
LEMMA MakeProgramKeeps ==
  ASSUME LiveInv, MakeProgram
  PROVE  LiveInv'
<1> DEFINE s == making.square
<1>0. /\ pc = "upload" /\ pc' = "upload"
      /\ shaders' = shaders /\ arrows' = arrows /\ entities' = entities
      /\ live' = live /\ names' = names /\ shadow' = shadow /\ shadows' = shadows
      /\ todo' = todo /\ last' = last /\ useShadows' = useShadows /\ astray' = astray
  BY DEF MakeProgram, passVars, residentVars
<1>1. PICK i \in DOMAIN Visual[s].items :
        /\ making' = [making EXCEPT !.programs = @ \cup {ColorSource(s, Item(s, i), FALSE)}]
        /\ gl' = NewProgram(gl, Program(s, ColorSource(s, Item(s, i), FALSE)))
  BY DEF MakeProgram
<1> DEFINE source == ColorSource(s, Item(s, i), FALSE)
<1>2. /\ s \in SceneSquares /\ Groups[s] = making /\ IsGroup(s, making)
  BY <1>0, UploadGroups
<1> HIDE DEF source
<1>3. /\ IsContext(gl') /\ gl'.program = gl.program /\ gl'.framebuffer = gl.framebuffer
      /\ gl'.cache = gl.cache /\ gl'.vaos = gl.vaos /\ gl'.textures = gl.textures
      /\ gl'.programs = gl.programs \cup {Program(s, source)}
  BY <1>1, NewProgramDoes DEF LiveInv, Typed, source
<1>4. /\ making' = [square |-> s, id |-> making'.id, meshes |-> making'.meshes,
                    textures |-> making'.textures, programs |-> making'.programs]
      /\ making'.square = s /\ making'.meshes = making.meshes
      /\ making'.textures = making.textures /\ making'.programs = making.programs \cup {source}
  BY <1>1, <1>2 DEF IsGroup, source
<1> HIDE DEF s
<1>5. IsGroup(s, making')
  <2>1. source \in AnySource(s)
    BY DEF source, AnySource, Sources
  <2> QED
    BY <1>2, <1>4, <2>1 DEF IsGroup
<1>6. /\ DOMAIN Groups' = DOMAIN Groups /\ s \in DOMAIN Groups /\ Groups'[s] = making'
      /\ \A t \in DOMAIN Groups \ {s} : Groups'[t] = Groups[t]
      /\ Placed'
  BY <1>0, <1>4, <1>5, UploadNext DEF s
<1>7. Typed'
  BY <1>0, <1>3 DEF Typed, LiveInv
<1>8. Owned'
  <2>1. OwnMeshes(gl'.vaos, entities', Groups')
    BY <1>0, <1>2, <1>3, <1>4, <1>6, SameMeshes DEF LiveInv, Owned
  <2>2. OwnTextures(gl'.textures, names', Groups', arrows', shadow')
    BY <1>0, <1>2, <1>3, <1>4, <1>6, SameTextures DEF LiveInv, Owned
  <2>3. OwnPrograms(gl'.programs, shaders', Groups')
    BY <1>0, <1>2, <1>3, <1>4, <1>6, ProgramAdded DEF LiveInv, Owned
  <2> QED
    BY <1>0, <2>1, <2>2, <2>3 DEF Owned, LiveInv
<1>9. Bound'
  BY <1>0, <1>3, UploadBound
<1>10. Passing' /\ Remembered'
  BY <1>0, NoPass, NoShadows
<1> QED
  BY <1>0, <1>6, <1>7, <1>8, <1>9, <1>10 DEF LiveInv

(* Handing the group to the renderer keeps LiveInv.                       *)
LEMMA InstallKeeps ==
  ASSUME LiveInv, Install
  PROVE  LiveInv'
<1> DEFINE s == making.square
<1>0. /\ pc = "upload" /\ pc' = "import" /\ MeshesMade /\ TexturesMade
      /\ Sources(s, FALSE) \subseteq making.programs
      /\ live' = With(live, s, making) /\ gl' = LegacyBindingScope(gl)
      /\ todo' = {s}
      /\ shaders' = shaders /\ arrows' = arrows /\ entities' = entities
      /\ names' = names /\ shadow' = shadow /\ shadows' = shadows
      /\ last' = last /\ useShadows' = useShadows /\ astray' = astray
  BY DEF Install
<1>1. /\ s \in SceneSquares /\ s \notin DOMAIN live
      /\ DOMAIN Groups = DOMAIN live \cup {s} /\ Groups[s] = making
      /\ \A t \in DOMAIN live : t # s /\ Groups[t] = live[t]
  BY <1>0, UploadGroups
<1>2. Groups' = live' /\ live' = Groups
  BY <1>0 DEF Groups
<1>3. /\ IsContext(gl') /\ gl'.program = None /\ gl'.vao = 0 /\ gl'.framebuffer = gl.framebuffer
      /\ gl'.active = 0 /\ gl'.units[0] = 0 /\ gl'.vaos = gl.vaos /\ gl'.textures = gl.textures
      /\ gl'.programs = gl.programs
      /\ gl'.cache.program = None /\ gl'.cache.vao = 0 /\ gl'.cache.texture = 0
  <2>1. IsContext(gl)
    BY DEF LiveInv, Typed
  <2>2. /\ IsContext(gl') /\ gl'.program = None /\ gl'.vao = 0 /\ gl'.framebuffer = gl.framebuffer
        /\ gl'.active = 0 /\ gl'.units = [x \in Units |-> IF x = 0 THEN 0 ELSE None]
        /\ gl'.vaos = gl.vaos /\ gl'.textures = gl.textures
        /\ gl'.programs = gl.programs
        /\ gl'.cache = [program |-> None, vao |-> 0, texture |-> 0]
    BY <1>0, <2>1, LegacyBindingScopeDoes
  <2> QED
    BY <2>2, FirstUnit
<1> HIDE DEF s
<1>4. Complete(s, making)
  BY <1>0 DEF Complete, MeshesMade, TexturesMade, s
<1>5. Typed'
  BY <1>0, <1>3 DEF Typed, LiveInv, With
<1>6. Placed'
  <2>1. \A t \in DOMAIN live' : Complete(t, live'[t])
    BY <1>1, <1>2, <1>4 DEF LiveInv, Placed
  <2>2. s \in DOMAIN live' /\ <<s, "geodata">> \notin DOMAIN entities'
    BY <1>0, <1>1, <1>2 DEF LiveInv, Placed
  <2> QED
    BY <1>0, <1>1, <1>2, <2>1, <2>2 DEF LiveInv, Placed
<1>7. Owned'
  BY <1>0, <1>1, <1>2, <1>3 DEF Owned, LiveInv
<1>8. Bound'
  BY <1>0, <1>3 DEF Bound, LiveInv
<1>9. Passing' /\ Remembered'
  BY <1>0, NoPass, NoShadows
<1> QED
  BY <1>0, <1>5, <1>6, <1>7, <1>8, <1>9 DEF LiveInv

(* What releasing a live group changes, where none of its programs is in   *)
(* use.                                                                    *)
LEMMA ReleasedDoes ==
  ASSUME NEW g, IsContext(g), NEW group, NEW held,
         \A source \in group.programs : g.program # Program(group.square, source)
  PROVE  LET h == Released(g, group, held)
             gone == {names[key] : key \in Keys(group) \ held}
         IN  /\ IsContext(h) /\ h.program = g.program /\ h.framebuffer = g.framebuffer
             /\ h.active = g.active /\ h.cache = g.cache
             /\ h.vaos = g.vaos \ ToSet(group.meshes)
             /\ h.textures = g.textures \ gone
             /\ h.programs = g.programs \ {Program(group.square, source) : source \in group.programs}
             /\ \A u \in Units : h.units[u] = IF g.units[u] \in gone THEN 0 ELSE g.units[u]
<1> DEFINE gone == {names[key] : key \in Keys(group) \ held}
           ps == {Program(group.square, source) : source \in group.programs}
           i == DeleteVertexArrays(g, ToSet(group.meshes))
           j == DeletePrograms(i, ps)
           h == DeleteTextures(j, gone)
<1>1. Released(g, group, held) = h
  BY DEF Released
<1>2. g.program \notin ps
  OBVIOUS
<1> HIDE DEF ps, gone
<1>3. /\ IsContext(i) /\ i.program = g.program /\ i.framebuffer = g.framebuffer
      /\ i.active = g.active /\ i.cache = g.cache /\ i.vaos = g.vaos \ ToSet(group.meshes)
      /\ i.textures = g.textures /\ i.programs = g.programs /\ i.units = g.units
  BY DeleteVertexArraysDoes
<1> HIDE DEF i
<1>4. /\ IsContext(j) /\ j.program = g.program /\ j.framebuffer = g.framebuffer
      /\ j.active = g.active /\ j.cache = g.cache /\ j.vaos = g.vaos \ ToSet(group.meshes)
      /\ j.textures = g.textures /\ j.programs = g.programs \ ps /\ j.units = g.units
  BY <1>2, <1>3, DeleteProgramsDoes
<1> HIDE DEF j
<1>5. /\ IsContext(h) /\ h.program = g.program /\ h.framebuffer = g.framebuffer
      /\ h.active = g.active /\ h.cache = g.cache /\ h.vaos = g.vaos \ ToSet(group.meshes)
      /\ h.textures = g.textures \ gone /\ h.programs = g.programs \ ps
      /\ h.units = [x \in Units |-> IF g.units[x] \in gone THEN 0 ELSE g.units[x]]
  BY <1>4, DeleteTexturesDoes
<1> HIDE DEF h
<1>6. \A u \in Units : h.units[u] = IF g.units[u] \in gone THEN 0 ELSE g.units[u]
  BY <1>5
<1> QED
  BY <1>1, <1>5, <1>6 DEF ps, gone

(* What is between frames in order, the copy with the bindings.            *)
InOrder(g) ==
  /\ IsContext(g) /\ g.framebuffer = 0 /\ g.active = 0
  /\ g.program = g.cache.program /\ g.program \in ShaderPrograms \cup {None}
  /\ g.units[0] = g.cache.texture /\ g.cache.texture \in {0, arrows}
  /\ g.cache.vao \in GeodataMeshes \cup {0}

(* The sink's remove, of whatever scene group: meshes go with the groups,  *)
(* and the copy does not keep their names; the map goes with the last live *)
(* group.                                                                  *)
LEMMA RemovedInOrder ==
  ASSUME LiveInv, NEW g, InOrder(g), NEW group, NEW G, RemovedFrom(g, group, G),
         shaders' = shaders, arrows' = arrows
  PROVE  /\ InOrder(gl)'
         /\ live' = G /\ names' = Restrict(names, HeldBy(G))
         /\ shadow' = IF G = <<>> THEN 0 ELSE shadow
         /\ DOMAIN entities' = DOMAIN entities \ Beside(group)
         /\ entities' = [x \in DOMAIN entities' |-> entities'[x]]
         /\ \A x \in DOMAIN entities' : entities'[x] = entities[x]
         /\ IsFiniteSet(DOMAIN entities')
         /\ gl'.vaos = g.vaos \ MeshesOf(Beside(group))
         /\ gl'.textures = IF G = <<>> THEN g.textures \ ({shadow} \ {0}) ELSE g.textures
         /\ gl'.programs = g.programs
<1> DEFINE k == IF G = <<>> THEN DeleteTextures(g, {shadow} \ {0}) ELSE g
           gone == MeshesOf(Beside(group))
<1>1. /\ live' = G /\ names' = Restrict(names, HeldBy(G))
      /\ shadow' = IF G = <<>> THEN 0 ELSE shadow
      /\ gl' = DropMeshes(k, gone)
      /\ entities' = Restrict(entities, DOMAIN entities \ Beside(group))
  BY DEF RemovedFrom
<1>2. /\ IsContext(k) /\ k.framebuffer = 0 /\ k.active = 0 /\ k.program = g.program
      /\ k.cache = g.cache /\ k.vaos = g.vaos /\ k.programs = g.programs
      /\ k.textures = IF G = <<>> THEN g.textures \ ({shadow} \ {0}) ELSE g.textures
      /\ k.units[0] = g.units[0]
  <2>1. CASE G = <<>>
    <3> DEFINE h == DeleteTextures(g, {shadow} \ {0})
    <3>1. /\ IsContext(h) /\ h.program = g.program /\ h.framebuffer = g.framebuffer
          /\ h.active = g.active /\ h.cache = g.cache /\ h.vaos = g.vaos
          /\ h.textures = g.textures \ ({shadow} \ {0}) /\ h.programs = g.programs
          /\ h.units = [x \in Units |-> IF g.units[x] \in {shadow} \ {0} THEN 0 ELSE g.units[x]]
      BY DeleteTexturesDoes DEF InOrder
    <3> HIDE DEF h
    <3>2. g.units[0] \notin {shadow} \ {0}
      BY DEF InOrder, LiveInv, Owned, OwnTextures
    <3>3. h.units[0] = g.units[0]
      BY <3>1, <3>2, FirstUnit
    <3>4. k = h
      BY <2>1 DEF h
    <3> HIDE DEF k
    <3> QED
      BY <2>1, <3>1, <3>3, <3>4 DEF InOrder
  <2>2. CASE G # <<>>
    <3>1. k = g
      BY <2>2
    <3> HIDE DEF k
    <3> QED
      BY <2>2, <3>1 DEF InOrder
  <2> QED
    BY <2>1, <2>2
<1> HIDE DEF k
<1>3. /\ IsContext(gl') /\ gl'.framebuffer = 0 /\ gl'.active = 0 /\ gl'.program = g.program
      /\ gl'.vaos = g.vaos \ gone /\ gl'.programs = g.programs /\ gl'.textures = k.textures
      /\ gl'.units[0] = g.units[0]
      /\ gl'.cache.program = g.cache.program /\ gl'.cache.texture = g.cache.texture
      /\ gl'.cache.vao = IF g.cache.vao \in gone THEN 0 ELSE g.cache.vao
  <2> HIDE DEF gone
  <2>1. /\ IsContext(gl') /\ gl'.framebuffer = k.framebuffer /\ gl'.active = k.active
        /\ gl'.program = k.program /\ gl'.vaos = k.vaos \ gone
        /\ gl'.programs = k.programs /\ gl'.textures = k.textures /\ gl'.units = k.units
        /\ gl'.cache = [program |-> k.cache.program,
                        vao |-> IF k.cache.vao \in gone THEN 0 ELSE k.cache.vao,
                        texture |-> k.cache.texture]
    BY <1>1, <1>2, DropMeshesDoes
  <2> QED
    BY <1>2, <2>1
<1>4. /\ DOMAIN entities' = DOMAIN entities \ Beside(group)
      /\ entities' = [x \in DOMAIN entities' |-> entities'[x]]
      /\ \A x \in DOMAIN entities' : entities'[x] = entities[x]
  BY <1>1 DEF Restrict
<1>5. IsFiniteSet(DOMAIN entities')
  BY <1>4, FS_Subset DEF LiveInv, Typed
<1>6. gl'.cache.vao \in GeodataMeshes' \cup {0}
  <2>1. CASE g.cache.vao \in gone \cup {0}
    BY <1>3, <2>1
  <2>2. CASE g.cache.vao \notin gone \cup {0}
    <3>1. PICK x \in DOMAIN entities : x[2] = "geodata" /\ g.cache.vao = entities[x]
      BY <2>2 DEF InOrder, GeodataMeshes
    <3>2. x \in DOMAIN entities'
      BY <1>4, <2>2, <3>1 DEF MeshesOf
    <3>3. gl'.cache.vao = entities'[x]
      BY <1>3, <1>4, <2>2, <3>1, <3>2
    <3> QED
      BY <3>1, <3>2, <3>3 DEF GeodataMeshes
  <2> QED
    BY <2>1, <2>2
<1>7. ShaderPrograms' = ShaderPrograms
  BY DEF ShaderPrograms
<1>8. InOrder(gl)'
  BY <1>3, <1>6, <1>7 DEF InOrder
<1> QED
  BY <1>1, <1>2, <1>3, <1>4, <1>5, <1>8

(* A detail goes: its live group, its volumes, its geodata.                *)
LEMMA DetailGoes ==
  ASSUME LiveInv, NEW s \in DOMAIN Groups, NEW G, NEW g, InOrder(g),
         DOMAIN G = DOMAIN Groups \ {s}, \A t \in DOMAIN G : G[t] = Groups[t],
         G = [t \in DOMAIN G |-> G[t]], \A t \in DOMAIN G : Complete(t, G[t]),
         g.vaos = gl.vaos \ ToSet(Groups[s].meshes),
         g.programs = gl.programs \ {Program(s, source) : source \in Groups[s].programs},
         g.textures = gl.textures \ {names[key] : key \in Keys(Groups[s]) \ HeldBy(G)},
         RemovedFrom(g, <<s, "detail">>, G), pc' = "idle",
         shaders' = shaders, arrows' = arrows, shadows' = shadows,
         useShadows = FALSE, useShadows' = FALSE, astray' = astray
  PROVE  LiveInv'
<1> DEFINE group == <<s, "detail">>
<1>1. /\ InOrder(gl)'
      /\ live' = G /\ names' = Restrict(names, HeldBy(G))
      /\ shadow' = IF G = <<>> THEN 0 ELSE shadow
      /\ DOMAIN entities' = DOMAIN entities \ Beside(group)
      /\ entities' = [x \in DOMAIN entities' |-> entities'[x]]
      /\ \A x \in DOMAIN entities' : entities'[x] = entities[x]
      /\ IsFiniteSet(DOMAIN entities')
      /\ gl'.vaos = g.vaos \ MeshesOf(Beside(group))
      /\ gl'.textures = IF G = <<>> THEN g.textures \ ({shadow} \ {0}) ELSE g.textures
      /\ gl'.programs = g.programs
  BY RemovedInOrder
<1>2. Beside(group) = {<<s, "detail">>, <<s, "geodata">>}
  BY DEF Beside
<1>3. Groups' = G
  BY <1>1 DEF Groups
<1> HIDE DEF group
<1>4. OwnTextures(gl.textures, names, Groups, arrows, shadow)
  BY DEF LiveInv, Owned
<1>5. /\ DOMAIN names' = HeldBy(G) /\ names' = [key \in DOMAIN names' |-> names'[key]]
      /\ \A key \in DOMAIN names' : names'[key] = names[key]
      /\ HeldBy(G) \subseteq DOMAIN names
  <2>1. \A key : Holds(G, key) => Holds(Groups, key)
    BY DEF Holds
  <2>2. HeldBy(G) \subseteq DOMAIN names
    BY <1>4, <2>1, HeldByDoes DEF OwnTextures
  <2> QED
    BY <1>1, <2>2 DEF Restrict
<1>6. Typed'
  <2>1. IsContext(gl')
    BY <1>1 DEF InOrder
  <2>2. shadow' \in Nat
    BY <1>1 DEF LiveInv, Typed
  <2>3. \A x \in DOMAIN entities' : entities'[x] \in Nat
    BY <1>1 DEF LiveInv, Typed
  <2>4. DOMAIN entities' \subseteq SceneSquares \X Kinds
    BY <1>1 DEF LiveInv, Typed
  <2>5. \A key \in DOMAIN names' : names'[key] \in Nat \ {0}
    BY <1>5 DEF LiveInv, Typed
  <2>6. live' = [t \in DOMAIN live' |-> live'[t]]
    BY <1>1
  <2>7. /\ arrows' \in Nat /\ shaders' \subseteq {"entity", "geodata"} /\ shadows' \in BOOLEAN
        /\ useShadows' \in BOOLEAN
        /\ pc' \in {"idle", "upload", "import", "entities", "prepare", "cast", "color", "overlay"}
    BY DEF LiveInv, Typed
  <2> QED
    BY <1>1, <1>5, <2>1, <2>2, <2>3, <2>4, <2>5, <2>6, <2>7 DEF Typed
<1>7. Placed'
  <2>1. \A t \in SceneSquares :
          /\ <<t, "detail">> \in DOMAIN entities' <=> t # s /\ <<t, "detail">> \in DOMAIN entities
          /\ <<t, "geodata">> \in DOMAIN entities' => t # s /\ <<t, "geodata">> \in DOMAIN entities
    BY <1>1, <1>2
  <2>2. DOMAIN Groups' = {t \in SceneSquares : <<t, "detail">> \in DOMAIN entities'}
    BY <1>3, <2>1 DEF Placed, LiveInv
  <2>3. DOMAIN live \subseteq DOMAIN Groups
    BY DEF Groups, With
  <2>4. \A t \in SceneSquares : <<t, "geodata">> \in DOMAIN entities' => t \in DOMAIN live'
    BY <1>1, <2>1, <2>3 DEF Placed, LiveInv
  <2>5. \A t \in DOMAIN Groups' : IsGroup(t, Groups'[t])
    BY <1>3 DEF Placed, LiveInv
  <2>6. \A t \in DOMAIN live' : Complete(t, live'[t])
    BY <1>1
  <2> QED
    BY <2>2, <2>4, <2>5, <2>6 DEF Placed
<1>8. Owned'
  <2>1. OwnMeshes(gl'.vaos, entities', Groups')
    <3>1. OwnMeshes(gl.vaos, entities, Groups) /\ 0 \notin gl.vaos
      BY DEF LiveInv, Owned, Typed, IsContext, Numbers
    <3>2. \A x : x \in DOMAIN entities \ DOMAIN entities' <=> x \in Beside(group) \cap DOMAIN entities
      BY <1>1
    <3>3. ASSUME NEW v
          PROVE  v \in gl'.vaos <=> /\ v \in gl.vaos
                                    /\ \A x \in DOMAIN entities \ DOMAIN entities' : v # entities[x]
                                    /\ \A t \in DOMAIN Groups \ DOMAIN G :
                                         \A i \in DOMAIN Groups[t].meshes : v # Groups[t].meshes[i]
      <4>1. v \in gl'.vaos <=> /\ v \in gl.vaos /\ v \notin ToSet(Groups[s].meshes)
                               /\ v \notin MeshesOf(Beside(group))
        BY <1>1
      <4>2. v \in ToSet(Groups[s].meshes) <=> \E i \in DOMAIN Groups[s].meshes : v = Groups[s].meshes[i]
        BY DEF ToSet
      <4>3. v \in gl.vaos =>
              (v \in MeshesOf(Beside(group)) <=> \E x \in DOMAIN entities \ DOMAIN entities' : v = entities[x])
        BY <3>1, <3>2 DEF MeshesOf
      <4>4. DOMAIN Groups \ DOMAIN G = {s}
        OBVIOUS
      <4> QED
        BY <4>1, <4>2, <4>3, <4>4
    <3> DEFINE W == gl'.vaos
               F == entities'
    <3>4. DOMAIN F \subseteq DOMAIN entities /\ \A x \in DOMAIN F : F[x] = entities[x]
      BY <1>1
    <3>5. \A v : v \in W <=> /\ v \in gl.vaos
                             /\ \A x \in DOMAIN entities \ DOMAIN F : v # entities[x]
                             /\ \A t \in DOMAIN Groups \ DOMAIN G :
                                  \A i \in DOMAIN Groups[t].meshes : v # Groups[t].meshes[i]
      BY <3>3
    <3>6. DOMAIN G \subseteq DOMAIN Groups /\ \A t \in DOMAIN G : G[t].meshes = Groups[t].meshes
      OBVIOUS
    <3> HIDE DEF W, F
    <3>7. OwnMeshes(W, F, G)
      BY ONLY <3>1, <3>4, <3>5, <3>6, MeshesRemoved
    <3> QED
      BY <1>3, <3>7 DEF W, F
  <2>2. OwnTextures(gl'.textures, names', Groups', arrows', shadow')
    <3> DEFINE M == names'
    <3>1. \A key : key \in DOMAIN M <=> key \in DOMAIN names /\ Holds(G, key)
      BY <1>5, HeldByDoes
    <3>2. \A key : key \in DOMAIN names \ DOMAIN M <=> key \in Keys(Groups[s]) \ HeldBy(G)
      <4>1. \A key : key \in DOMAIN names <=> Holds(Groups, key)
        BY <1>4 DEF OwnTextures
      <4>2. \A key : Holds(Groups, key) <=> Holds(G, key) \/ key \in Keys(Groups[s])
        BY DEF Holds, Keys, ToSet
      <4> QED
        BY <1>5, <4>1, <4>2, HeldByDoes
    <3>3. \A t : t \in g.textures <=> t \in gl.textures /\ \A key \in DOMAIN names \ DOMAIN M : t # names[key]
      BY <3>2
    <3>4. DOMAIN G \subseteq DOMAIN Groups /\ \A t \in DOMAIN G : G[t].textures = Groups[t].textures
      OBVIOUS
    <3>5. \A key \in DOMAIN M : M[key] = names[key]
      BY <1>5
    <3> HIDE DEF M
    <3>6. OwnTextures(g.textures, M, G, arrows, shadow)
      BY ONLY <1>4, <3>1, <3>3, <3>4, <3>5, TexturesRemoved
    <3>7. OwnTextures(g.textures \ ({shadow} \ {0}), M, G, arrows, 0)
      BY <3>6, MapRemoved
    <3> QED
      BY <1>1, <1>3, <3>6, <3>7 DEF M
  <2>3. OwnPrograms(gl'.programs, shaders', Groups')
    <3>1. OwnPrograms(gl.programs, shaders, Groups) /\ shaders \subseteq {"entity", "geodata"}
      BY DEF LiveInv, Owned, Typed
    <3>2. s \in SceneSquares /\ \A t \in DOMAIN G : G[t].programs = Groups[t].programs
      BY DEF LiveInv, Placed
    <3>3. OwnPrograms(g.programs, shaders, G)
      BY <3>1, <3>2, ProgramsRemoved
    <3> QED
      BY <1>1, <1>3, <3>3
  <2>4. DOMAIN live' = {} => shadow' = 0
    BY <1>1, EmptyFunction
  <2>5. /\ \A x \in DOMAIN entities' : ShaderOf(x[2]) \in shaders'
        /\ \A x \in DOMAIN entities' : x[2] = "geodata" => arrows' # 0
    BY <1>1 DEF LiveInv, Owned
  <2> QED
    BY <2>1, <2>2, <2>3, <2>4, <2>5 DEF Owned
<1>9. Bound'
  BY <1>1 DEF Bound, InOrder
<1>10. Passing' /\ Remembered'
  BY NoPass
<1> QED
  BY <1>6, <1>7, <1>8, <1>9, <1>10 DEF LiveInv

(* Between frames no program of a live group is in use.                    *)
LEMMA ProgramInUse ==
  ASSUME LiveInv, pc \in {"idle", "upload", "import"}, NEW s \in SceneSquares,
         NEW sources \in SUBSET AnySource(s)
  PROVE  gl.program \notin {Program(s, source) : source \in sources}
<1>1. gl.program \in ShaderPrograms \cup {None}
  BY DEF LiveInv, Bound
<1>2. \A source : \A kind \in shaders : Shader(kind) # Program(s, source)
  BY NamesAssumption DEF Shader, Program, LiveInv, Typed
<1>3. \A source \in sources : None # Program(s, source)
  BY NamesAssumption
<1> QED
  BY <1>1, <1>2, <1>3 DEF ShaderPrograms

(* The scope of a binding ends.                                            *)
LEMMA ScopeEnds ==
  ASSUME NEW g, IsContext(g)
  PROVE  LET h == LegacyBindingScope(g)
         IN  /\ IsContext(h) /\ h.program = None /\ h.vao = 0 /\ h.framebuffer = g.framebuffer
             /\ h.active = 0 /\ h.units[0] = 0 /\ h.vaos = g.vaos /\ h.textures = g.textures
             /\ h.programs = g.programs
             /\ h.cache.program = None /\ h.cache.vao = 0 /\ h.cache.texture = 0
<1> DEFINE h == LegacyBindingScope(g)
<1>1. /\ IsContext(h) /\ h.program = None /\ h.vao = 0 /\ h.framebuffer = g.framebuffer
      /\ h.active = 0 /\ h.units = [x \in Units |-> IF x = 0 THEN 0 ELSE None]
      /\ h.vaos = g.vaos /\ h.textures = g.textures
      /\ h.programs = g.programs
      /\ h.cache = [program |-> None, vao |-> 0, texture |-> 0]
  BY LegacyBindingScopeDoes
<1> HIDE DEF h
<1> QED
  BY <1>1, FirstUnit DEF h

(* A live group is released between frames.                                *)
LEMMA ReleasedInOrder ==
  ASSUME LiveInv, pc \in {"idle", "import"}, NEW s \in DOMAIN live, NEW held,
         gl.program \notin {Program(s, source) : source \in live[s].programs}
  PROVE  LET g == Released(gl, live[s], held)
         IN  /\ InOrder(g)
             /\ g.vaos = gl.vaos \ ToSet(live[s].meshes)
             /\ g.programs = gl.programs \ {Program(s, source) : source \in live[s].programs}
             /\ g.textures = gl.textures \ {names[key] : key \in Keys(live[s]) \ held}
<1> DEFINE g == Released(gl, live[s], held)
           gone == {names[key] : key \in Keys(live[s]) \ held}
<1>1. Groups = live
  BY DEF Groups
<1>2. live[s].square = s
  <2>1. IsGroup(s, live[s])
    BY <1>1 DEF LiveInv, Placed
  <2> HIDE DEF g
  <2> QED
    BY <2>1 DEF IsGroup
<1>3. IsContext(gl)
  BY DEF LiveInv, Typed
<1>4. \A source \in live[s].programs : gl.program # Program(live[s].square, source)
  BY <1>2
<1>5. /\ IsContext(g) /\ g.program = gl.program /\ g.framebuffer = gl.framebuffer
      /\ g.active = gl.active /\ g.cache = gl.cache
      /\ g.vaos = gl.vaos \ ToSet(live[s].meshes)
      /\ g.textures = gl.textures \ gone
      /\ g.programs = gl.programs \ {Program(live[s].square, source) : source \in live[s].programs}
      /\ \A u \in Units : g.units[u] = IF gl.units[u] \in gone THEN 0 ELSE gl.units[u]
  BY <1>3, <1>4, ReleasedDoes
<1> HIDE DEF g
<1>6. gl.units[0] \notin gone
  <2>1. gl.units[0] \in {0, arrows}
    BY DEF LiveInv, Bound
  <2>2. \A key \in Keys(live[s]) : key \in DOMAIN names
    <3>1. \A key \in Keys(live[s]) : Holds(Groups, key)
      BY <1>1 DEF Keys, ToSet, Holds
    <3> QED
      BY <3>1 DEF LiveInv, Owned, OwnTextures
  <2>3. \A key \in DOMAIN names : names[key] # 0 /\ names[key] # arrows
    BY DEF LiveInv, Owned, OwnTextures
  <2> QED
    BY <2>1, <2>2, <2>3
<1>7. InOrder(g)
  <2>1. g.units[0] = gl.units[0]
    BY <1>5, <1>6, FirstUnit
  <2>2. gl.cache.vao \in GeodataMeshes \cup {0}
    BY DEF LiveInv, Bound
  <2> QED
    BY <1>5, <2>1, <2>2 DEF InOrder, LiveInv, Bound
<1> QED
  BY <1>2, <1>5, <1>7 DEF g

(* In an import the context is as it is between frames.                   *)
LEMMA ImportIsIdle ==
  ASSUME LiveInv, pc \in {"idle", "import"}
  PROVE  InOrder(gl)
BY DEF LiveInv, Typed, Bound, InOrder

(* Removing a scene group, and the live group with it, keeps LiveInv.     *)
LEMMA RemoveGroupKeeps ==
  ASSUME LiveInv, NEW group \in SceneSquares \X Kinds, RemoveGroup(group)
  PROVE  LiveInv'
<1> DEFINE s == group[1]
           G == Without(live, s)
<1>0. /\ pc = "idle" /\ pc' = "idle" /\ group \in DOMAIN entities /\ group[2] # "geodata"
      /\ shaders' = shaders /\ arrows' = arrows /\ shadows' = shadows
      /\ useShadows' = useShadows /\ astray' = astray
      /\ IF group[2] = "detail"
         THEN RemovedFrom(Released(gl, live[s], HeldBy(G)), group, G)
         ELSE RemovedFrom(gl, group, live)
  BY DEF RemoveGroup, passVars
<1>1. Groups = live /\ useShadows = FALSE
  BY <1>0, NoShadows DEF Groups
<1>2. CASE group[2] = "detail"
  <2>1. group = <<s, "detail">> /\ s \in SceneSquares
    BY <1>2
  <2>2. s \in DOMAIN live
    BY <1>0, <1>1, <2>1 DEF LiveInv, Placed
  <2>3. /\ DOMAIN G = DOMAIN live \ {s} /\ G = [t \in DOMAIN G |-> G[t]]
        /\ \A t \in DOMAIN G : G[t] = live[t]
    BY DEF Without, Restrict
  <2> HIDE DEF G, s
  <2>4. \A t \in DOMAIN G : Complete(t, G[t])
    BY <2>3 DEF LiveInv, Placed
  <2>5. gl.program \notin {Program(s, source) : source \in live[s].programs}
    <3>1. live[s].programs \in SUBSET AnySource(s)
      BY <1>1, <2>2 DEF LiveInv, Placed, IsGroup
    <3> QED
      BY <1>0, <2>1, <3>1, ProgramInUse
  <2> DEFINE g == Released(gl, live[s], HeldBy(G))
  <2>6. /\ InOrder(g)
        /\ g.vaos = gl.vaos \ ToSet(live[s].meshes)
        /\ g.programs = gl.programs \ {Program(s, source) : source \in live[s].programs}
        /\ g.textures = gl.textures \ {names[key] : key \in Keys(live[s]) \ HeldBy(G)}
    BY <1>0, <2>2, <2>5, ReleasedInOrder
  <2>7. RemovedFrom(g, <<s, "detail">>, G)
    BY <1>0, <1>2, <2>1 DEF G, s
  <2> HIDE DEF g
  <2> QED
    BY <1>0, <1>1, <2>2, <2>3, <2>4, <2>6, <2>7, DetailGoes
<1>3. CASE group[2] # "detail"
  <2>1. RemovedFrom(gl, group, live) /\ group[2] = "terrain"
    BY <1>0, <1>3 DEF Kinds
  <2>2. InOrder(gl)
    BY <1>0, ImportIsIdle
  <2>3. /\ InOrder(gl)'
        /\ live' = live /\ names' = Restrict(names, HeldBy(live))
        /\ shadow' = IF live = <<>> THEN 0 ELSE shadow
        /\ DOMAIN entities' = DOMAIN entities \ Beside(group)
        /\ entities' = [x \in DOMAIN entities' |-> entities'[x]]
        /\ \A x \in DOMAIN entities' : entities'[x] = entities[x]
        /\ IsFiniteSet(DOMAIN entities')
        /\ gl'.vaos = gl.vaos \ MeshesOf(Beside(group))
        /\ gl'.textures = IF live = <<>> THEN gl.textures \ ({shadow} \ {0}) ELSE gl.textures
        /\ gl'.programs = gl.programs
    BY <1>0, <2>1, <2>2, RemovedInOrder
  <2>4. Beside(group) = {group}
    BY <1>3 DEF Beside
  <2>5. shadow' = shadow /\ gl'.textures = gl.textures
    <3>1. live = <<>> => shadow = 0
      BY EmptyFunction DEF LiveInv, Typed, Owned
    <3> QED
      BY <2>3, <3>1
  <2>6. names' = names
    <3>1. \A key : key \in HeldBy(live) <=> key \in DOMAIN names
      BY <1>1, HeldByDoes DEF LiveInv, Owned, OwnTextures
    <3>2. HeldBy(live) = DOMAIN names
      BY <3>1
    <3> QED
      BY <2>3, <3>2 DEF Restrict, LiveInv, Typed
  <2>7. Groups' = live
    BY <1>0, <2>3 DEF Groups
  <2>8. Typed'
    <3>1. IsContext(gl')
      BY <2>3 DEF InOrder
    <3>2. \A x \in DOMAIN entities' : entities'[x] \in Nat
      BY <2>3 DEF LiveInv, Typed
    <3>3. DOMAIN entities' \subseteq SceneSquares \X Kinds
      BY <2>3 DEF LiveInv, Typed
    <3> QED
      BY <1>0, <2>3, <2>5, <2>6, <3>1, <3>2, <3>3 DEF LiveInv, Typed
  <2>9. Placed'
    <3>1. \A t \in SceneSquares : /\ <<t, "detail">> \in DOMAIN entities' <=> <<t, "detail">> \in DOMAIN entities
                                  /\ <<t, "geodata">> \in DOMAIN entities' <=> <<t, "geodata">> \in DOMAIN entities
      BY <2>1, <2>3, <2>4
    <3> QED
      BY <1>0, <1>1, <2>3, <2>7, <3>1 DEF LiveInv, Placed
  <2>10. Owned'
    <3>1. OwnMeshes(gl'.vaos, entities', Groups')
      <4>1. OwnMeshes(gl.vaos, entities, live) /\ 0 \notin gl.vaos
        BY <1>1 DEF LiveInv, Owned, Typed, IsContext, Numbers
      <4>2. \A x : x \in DOMAIN entities \ DOMAIN entities' <=> x \in Beside(group) \cap DOMAIN entities
        BY <2>3
      <4> DEFINE W == gl'.vaos
                 F == entities'
      <4>3. \A v : v \in W <=> /\ v \in gl.vaos
                               /\ \A x \in DOMAIN entities \ DOMAIN F : v # entities[x]
                               /\ \A t \in DOMAIN live \ DOMAIN live :
                                    \A i \in DOMAIN live[t].meshes : v # live[t].meshes[i]
        BY <2>3, <4>1, <4>2 DEF MeshesOf
      <4>4. DOMAIN F \subseteq DOMAIN entities /\ \A x \in DOMAIN F : F[x] = entities[x]
        BY <2>3
      <4> HIDE DEF W, F
      <4>5. OwnMeshes(W, F, live)
        BY ONLY <4>1, <4>3, <4>4, MeshesRemoved
      <4> QED
        BY <2>7, <4>5 DEF W, F
    <3> QED
      BY <1>0, <1>1, <2>3, <2>5, <2>6, <2>7, <3>1 DEF LiveInv, Owned
  <2>11. Bound'
    BY <1>0, <2>3 DEF Bound, InOrder
  <2>12. Passing' /\ Remembered'
    BY <1>0, <1>1, NoPass
  <2> QED
    BY <1>0, <2>8, <2>9, <2>10, <2>11, <2>12 DEF LiveInv
<1> QED
  BY <1>2, <1>3

(* A throw in an upload releases what was made and keeps LiveInv.         *)
LEMMA ThrowUploadKeeps ==
  ASSUME LiveInv, ThrowUpload
  PROVE  LiveInv'
<1> DEFINE s == making.square
           h == Released(gl, making, HeldBy(live))
           g == LegacyBindingScope(h)
<1>0. /\ pc = "upload" /\ pc' = "idle"
      /\ RemovedFrom(g, <<s, "detail">>, live)
      /\ shaders' = shaders /\ arrows' = arrows /\ shadows' = shadows
      /\ useShadows' = useShadows /\ astray' = astray
  BY DEF ThrowUpload, passVars
<1>1. /\ s \in SceneSquares /\ s \notin DOMAIN live
      /\ DOMAIN Groups = DOMAIN live \cup {s} /\ Groups[s] = making
      /\ \A t \in DOMAIN live : t # s /\ Groups[t] = live[t]
  BY <1>0, UploadGroups
<1>2. useShadows = FALSE /\ IsContext(gl) /\ gl.framebuffer = 0
  BY <1>0, NoShadows DEF LiveInv, Typed, Bound
<1>3. gl.program \notin {Program(s, source) : source \in making.programs}
  <2>1. making.programs \in SUBSET AnySource(s)
    BY <1>1 DEF LiveInv, Placed, IsGroup
  <2> QED
    BY <1>0, <1>1, <2>1, ProgramInUse
<1>4. /\ IsContext(h) /\ h.framebuffer = gl.framebuffer
      /\ h.vaos = gl.vaos \ ToSet(making.meshes)
      /\ h.textures = gl.textures \ {names[key] : key \in Keys(making) \ HeldBy(live)}
      /\ h.programs = gl.programs \ {Program(s, source) : source \in making.programs}
  BY <1>2, <1>3, ReleasedDoes
<1> HIDE DEF h
<1>5. /\ IsContext(g) /\ g.program = None /\ g.framebuffer = 0 /\ g.active = 0
      /\ g.units[0] = 0 /\ g.vaos = h.vaos /\ g.textures = h.textures
      /\ g.programs = h.programs
      /\ g.cache.program = None /\ g.cache.vao = 0 /\ g.cache.texture = 0
  BY <1>2, <1>4, ScopeEnds
<1> HIDE DEF g
<1>6. InOrder(g)
  BY <1>5 DEF InOrder
<1> HIDE DEF s
<1>7. live = [t \in DOMAIN live |-> live[t]] /\ DOMAIN live = DOMAIN Groups \ {s}
  BY <1>1 DEF LiveInv, Typed
<1>8. \A t \in DOMAIN live : Complete(t, live[t])
  BY DEF LiveInv, Placed
<1>9. /\ g.vaos = gl.vaos \ ToSet(Groups[s].meshes)
      /\ g.programs = gl.programs \ {Program(s, source) : source \in Groups[s].programs}
      /\ g.textures = gl.textures \ {names[key] : key \in Keys(Groups[s]) \ HeldBy(live)}
  BY <1>1, <1>4, <1>5
<1> QED
  BY <1>0, <1>1, <1>2, <1>6, <1>7, <1>8, <1>9, DetailGoes

(* Importing the geodata of a square keeps LiveInv.                       *)
LEMMA ImportKeeps ==
  ASSUME LiveInv, Import
  PROVE  LiveInv'
<1>0. /\ pc = "import" /\ pc' = "idle" /\ shadows' = shadows
      /\ useShadows' = useShadows /\ astray' = astray
  BY DEF Import
<1>1. Groups = live /\ useShadows = FALSE
  BY <1>0, NoShadows DEF Groups
<1>2. PICK s \in todo :
       \/ UNCHANGED <<gl, residentVars, shadow, counts>>
       \/ RenderGroup(<<s, "geodata">>, 1) /\ UNCHANGED <<live, names, shadow, counts>>
       \/ /\ RemovedFrom(Released(gl, live[s], HeldBy(Without(live, s))),
                         <<s, "detail">>, Without(live, s))
          /\ Fault
          /\ UNCHANGED <<shaders, arrows>>
  BY DEF Import
<1>3. s \in DOMAIN live /\ s \in SceneSquares /\ <<s, "geodata">> \notin DOMAIN entities
  BY <1>0, <1>1 DEF LiveInv, Placed
<1>4. Passing' /\ Remembered'
  BY <1>0, <1>1, NoPass
<1>5. CASE UNCHANGED <<gl, residentVars, shadow, counts>>
  <2>1. /\ gl' = gl /\ shaders' = shaders /\ arrows' = arrows /\ entities' = entities
        /\ live' = live /\ names' = names /\ shadow' = shadow
    BY <1>5 DEF residentVars
  <2>2. Groups' = live
    BY <1>0, <2>1 DEF Groups
  <2>3. GeodataMeshes' = GeodataMeshes /\ ShaderPrograms' = ShaderPrograms
    BY <2>1 DEF GeodataMeshes, ShaderPrograms
  <2>4. Typed'
    BY <1>0, <2>1 DEF LiveInv, Typed
  <2>5. Placed'
    BY <1>0, <1>1, <2>1, <2>2 DEF LiveInv, Placed
  <2>6. Owned'
    BY <1>1, <2>1, <2>2 DEF LiveInv, Owned
  <2>7. Bound'
    BY <1>0, <2>1, <2>3 DEF LiveInv, Bound
  <2> QED
    BY <1>0, <1>4, <2>4, <2>5, <2>6, <2>7 DEF LiveInv
<1>6. CASE RenderGroup(<<s, "geodata">>, 1) /\ UNCHANGED <<live, names, shadow, counts>>
  <2> DEFINE group == <<s, "geodata">>
  <2>1. group \in SceneSquares \X Kinds /\ group[1] = s /\ group[2] = "geodata"
    BY <1>3 DEF Kinds
  <2>2. Rendered(group)
    BY <1>0, <1>3, <1>6, <2>1, RenderGroupDoes, 1 \in {0, 1}
  <2>3. live' = live /\ names' = names /\ shadow' = shadow /\ Groups' = live
    BY <1>0, <1>6 DEF Groups
  <2> HIDE DEF group
  <2>4. Typed'
    BY <1>0, <2>1, <2>2, <2>3 DEF LiveInv, Typed, Rendered
  <2>5. Placed'
    <3>1. \A t \in SceneSquares : /\ <<t, "detail">> \in DOMAIN entities' <=> <<t, "detail">> \in DOMAIN entities
                                  /\ <<t, "geodata">> \in DOMAIN entities'
                                       <=> t = s \/ <<t, "geodata">> \in DOMAIN entities
      BY <2>2 DEF group, Rendered
    <3> QED
      BY <1>0, <1>1, <1>3, <2>3, <3>1 DEF LiveInv, Placed
  <2>6. Owned'
    BY <1>1, <2>1, <2>2, <2>3 DEF LiveInv, Owned, Rendered
  <2>7. Bound'
    <3>1. GeodataMeshes \subseteq GeodataMeshes'
      BY <2>2 DEF GeodataMeshes, Rendered
    <3>2. ShaderPrograms \subseteq ShaderPrograms'
      BY <2>2 DEF ShaderPrograms, Rendered
    <3> QED
      BY <1>0, <2>2, <3>1, <3>2 DEF Bound, LiveInv, Rendered
  <2> QED
    BY <1>0, <1>4, <2>4, <2>5, <2>6, <2>7 DEF LiveInv
<1>7. CASE /\ RemovedFrom(Released(gl, live[s], HeldBy(Without(live, s))),
                          <<s, "detail">>, Without(live, s))
           /\ UNCHANGED <<shaders, arrows>>
  <2> DEFINE G == Without(live, s)
             g == Released(gl, live[s], HeldBy(G))
  <2>3. /\ DOMAIN G = DOMAIN live \ {s} /\ G = [t \in DOMAIN G |-> G[t]]
        /\ \A t \in DOMAIN G : G[t] = live[t]
    BY DEF Without, Restrict
  <2> HIDE DEF G
  <2>4. \A t \in DOMAIN G : Complete(t, G[t])
    BY <2>3 DEF LiveInv, Placed
  <2>5. gl.program \notin {Program(s, source) : source \in live[s].programs}
    <3>1. live[s].programs \in SUBSET AnySource(s)
      BY <1>1, <1>3 DEF LiveInv, Placed, IsGroup
    <3> QED
      BY <1>0, <1>3, <3>1, ProgramInUse
  <2>6. /\ InOrder(g)
        /\ g.vaos = gl.vaos \ ToSet(live[s].meshes)
        /\ g.programs = gl.programs \ {Program(s, source) : source \in live[s].programs}
        /\ g.textures = gl.textures \ {names[key] : key \in Keys(live[s]) \ HeldBy(G)}
    BY <1>0, <1>3, <2>5, ReleasedInOrder
  <2>7. RemovedFrom(g, <<s, "detail">>, G) /\ shaders' = shaders /\ arrows' = arrows
    BY <1>7 DEF G
  <2> HIDE DEF g
  <2> QED
    BY <1>0, <1>1, <1>3, <2>3, <2>4, <2>6, <2>7, DetailGoes
<1> QED
  BY <1>2, <1>5, <1>6, <1>7

(* A frame leaves the groups and what they own as they are.                *)
LEMMA SceneKept ==
  ASSUME LiveInv, pc # "upload",
         pc' \in {"idle", "entities", "prepare", "cast", "color", "overlay"},
         shaders' = shaders, arrows' = arrows, entities' = entities,
         live' = live, names' = names, shadow' = shadow,
         IsContext(gl'), gl'.vaos = gl.vaos, gl'.textures = gl.textures,
         gl'.programs = gl.programs, useShadows' \in BOOLEAN, shadows' \in BOOLEAN
  PROVE  Typed' /\ Placed' /\ Owned'
<1>1. Groups = live /\ Groups' = live
  BY DEF Groups
<1>2. Typed'
  BY DEF LiveInv, Typed
<1>3. Placed'
  BY <1>1 DEF LiveInv, Placed
<1>4. Owned'
  BY <1>1 DEF LiveInv, Owned
<1> QED
  BY <1>2, <1>3, <1>4

(* What the passes look at is of what they do not change.                 *)
LEMMA SceneSame ==
  ASSUME arrows' = arrows, entities' = entities, shaders' = shaders, live' = live
  PROVE  /\ GeodataMeshes' = GeodataMeshes /\ ShaderPrograms' = ShaderPrograms
         /\ \A pass : PassOf(pass)' = PassOf(pass)
         /\ Entries' = Entries
BY DEF GeodataMeshes, ShaderPrograms, PassOf, Entries

(* Switching shadows on or off keeps LiveInv.                             *)
LEMMA ToggleShadowsKeeps ==
  ASSUME LiveInv, ToggleShadows
  PROVE  LiveInv'
<1>0. /\ pc = "idle" /\ pc' = "idle" /\ shadows' = ~ shadows
      /\ gl' = gl /\ shaders' = shaders /\ arrows' = arrows /\ entities' = entities
      /\ live' = live /\ names' = names /\ shadow' = shadow
      /\ useShadows' = useShadows /\ astray' = astray
  BY DEF ToggleShadows, residentVars, passVars
<1>1. IsContext(gl') /\ useShadows = FALSE
  BY <1>0, NoShadows DEF LiveInv, Typed
<1>2. Typed' /\ Placed' /\ Owned'
  BY <1>0, <1>1, SceneKept
<1>3. Bound'
  BY <1>0, SceneSame DEF LiveInv, Bound
<1>4. Passing' /\ Remembered'
  BY <1>0, <1>1, NoPass
<1> QED
  BY <1>0, <1>2, <1>3, <1>4 DEF LiveInv

(* The start of a frame keeps LiveInv.                                    *)
LEMMA BeginFrameKeeps ==
  ASSUME LiveInv, BeginFrame
  PROVE  LiveInv'
<1>0. /\ pc = "idle" /\ pc' = "entities" /\ todo' = PassOf("entities") /\ shadows' = shadows
      /\ gl' = gl /\ shaders' = shaders /\ arrows' = arrows /\ entities' = entities
      /\ live' = live /\ names' = names /\ shadow' = shadow
      /\ useShadows' = useShadows /\ astray' = astray
  BY DEF BeginFrame, residentVars
<1>1. IsContext(gl') /\ useShadows = FALSE /\ shadows \in BOOLEAN
  BY <1>0, NoShadows DEF LiveInv, Typed
<1>2. Typed' /\ Placed' /\ Owned'
  BY <1>0, <1>1, SceneKept
<1>3. Bound'
  BY <1>0, SceneSame DEF LiveInv, Bound
<1>4. PassOf(pc)' = PassOf("entities")
  BY <1>0 DEF PassOf
<1>5. Passing' /\ Remembered'
  BY <1>0, <1>1, <1>4 DEF Passing, Remembered
<1> QED
  BY <1>0, <1>2, <1>3, <1>5 DEF LiveInv

(* The end of a frame keeps LiveInv.                                      *)
LEMMA EndFrameKeeps ==
  ASSUME LiveInv, EndFrame
  PROVE  LiveInv'
<1>0. /\ pc = "overlay" /\ pc' = "idle" /\ shadows' = shadows
      /\ gl' = gl /\ shaders' = shaders /\ arrows' = arrows /\ entities' = entities
      /\ live' = live /\ names' = names /\ shadow' = shadow
      /\ useShadows' = useShadows /\ astray' = astray
  BY DEF EndFrame, residentVars, passVars
<1>1. IsContext(gl') /\ useShadows = FALSE /\ shadows \in BOOLEAN
  BY <1>0 DEF LiveInv, Typed, Passing
<1>2. Typed' /\ Placed' /\ Owned'
  BY <1>0, <1>1, SceneKept
<1>3. Bound'
  BY <1>0, SceneSame DEF LiveInv, Bound
<1>4. Passing' /\ Remembered'
  BY <1>0, <1>1, NoPass
<1> QED
  BY <1>0, <1>2, <1>3, <1>4 DEF LiveInv

(* The branch of a group: its shader and its texture, bound and known to   *)
(* the copy.                                                               *)
LEMMA BranchDoes ==
  ASSUME LiveInv, pc \in {"entities", "overlay"}, NEW group \in DOMAIN entities
  PROVE  LET g == Branch(group)
             shader == Shader(ShaderOf(group[2]))
         IN  /\ IsContext(g) /\ g.program = shader /\ g.cache.program = shader
             /\ shader \in ShaderPrograms
             /\ g.framebuffer = 0 /\ g.active = 0
             /\ g.units[0] = ArrowsOf(group) /\ g.cache.texture = ArrowsOf(group)
             /\ ArrowsOf(group) \in {0, arrows}
             /\ g.vao = gl.vao /\ g.cache.vao = gl.cache.vao
             /\ g.vaos = gl.vaos /\ g.textures = gl.textures /\ g.programs = gl.programs
<1> DEFINE shader == Shader(ShaderOf(group[2]))
           shaded == BindShader(gl, shader)
           g == Branch(group)
<1>0. /\ IsContext(gl) /\ gl.program = gl.cache.program /\ gl.framebuffer = 0 /\ gl.active = 0
      /\ gl.units[0] = gl.cache.texture /\ gl.cache.texture \in {0, arrows}
  BY DEF LiveInv, Typed, Bound
<1>1. ShaderOf(group[2]) \in shaders
  BY DEF LiveInv, Owned
<1>2. shader \in ShaderPrograms /\ shader \in gl.programs
  BY <1>1 DEF ShaderPrograms, LiveInv, Owned, OwnPrograms
<1>3. ArrowsOf(group) \in {0, arrows} /\ (ArrowsOf(group) # 0 => arrows \in gl.textures)
  BY DEF ArrowsOf, LiveInv, Owned, OwnTextures
<1>4. g = IF ArrowsOf(group) = 0 THEN UnbindCurrentTexture(shaded)
                                 ELSE BindTextureZero(shaded, arrows)
  BY DEF Branch
<1> HIDE DEF shader, g
<1>5. /\ IsContext(shaded) /\ shaded.program = shader /\ shaded.vao = gl.vao
      /\ shaded.framebuffer = 0 /\ shaded.active = 0 /\ shaded.units = gl.units
      /\ shaded.vaos = gl.vaos /\ shaded.textures = gl.textures
      /\ shaded.programs = gl.programs
      /\ shaded.cache.program = shader /\ shaded.cache.vao = gl.cache.vao
      /\ shaded.cache.texture = gl.cache.texture
  <2>1. /\ IsContext(shaded) /\ shaded.vao = gl.vao /\ shaded.framebuffer = gl.framebuffer
        /\ shaded.program = IF gl.cache.program # shader /\ shader \in gl.programs \cup {None}
                            THEN shader ELSE gl.program
        /\ shaded.active = gl.active /\ shaded.units = gl.units
        /\ shaded.vaos = gl.vaos /\ shaded.textures = gl.textures
        /\ shaded.programs = gl.programs
        /\ shaded.cache = [program |-> shader, vao |-> gl.cache.vao, texture |-> gl.cache.texture]
    BY <1>0, BindShaderDoes
  <2> HIDE DEF shaded
  <2> QED
    BY <1>0, <1>2, <2>1
<1> HIDE DEF shaded
<1>6. CASE ArrowsOf(group) = 0
  <2>1. g = UnbindCurrentTexture(shaded)
    BY <1>4, <1>6
  <2>2. /\ IsContext(g) /\ g.program = shaded.program /\ g.vao = shaded.vao
        /\ g.framebuffer = shaded.framebuffer /\ g.active = shaded.active
        /\ shaded.cache.texture = 0 => g.units = shaded.units
        /\ shaded.cache.texture # 0 /\ shaded.active \in Units => g.units[shaded.active] = 0
        /\ g.vaos = shaded.vaos /\ g.textures = shaded.textures /\ g.programs = shaded.programs
        /\ g.cache = [program |-> shaded.cache.program, vao |-> shaded.cache.vao, texture |-> 0]
    BY <1>5, <2>1, UnbindCurrentTextureDoes
  <2>3. g.units[0] = 0
    BY <1>0, <1>5, <2>2, FirstUnit
  <2> QED
    BY <1>2, <1>5, <1>6, <2>2, <2>3 DEF g, shader
<1>7. CASE ArrowsOf(group) # 0
  <2>1. g = BindTextureZero(shaded, arrows) /\ ArrowsOf(group) = arrows
    BY <1>3, <1>4, <1>7
  <2>2. /\ IsContext(g) /\ g.program = shaded.program /\ g.vao = shaded.vao
        /\ g.framebuffer = shaded.framebuffer
        /\ g.active = IF shaded.cache.texture = arrows THEN shaded.active ELSE 0
        /\ shaded.cache.texture = arrows => g.units = shaded.units
        /\ shaded.cache.texture # arrows /\ arrows \in shaded.textures \cup {0} => g.units[0] = arrows
        /\ g.vaos = shaded.vaos /\ g.textures = shaded.textures /\ g.programs = shaded.programs
        /\ g.cache = [program |-> shaded.cache.program, vao |-> shaded.cache.vao,
                      texture |-> arrows]
    BY <1>5, <2>1, BindTextureZeroDoes
  <2>3. g.units[0] = arrows
    BY <1>0, <1>3, <1>5, <1>7, <2>2
  <2> QED
    BY <1>2, <1>5, <2>1, <2>2, <2>3 DEF g, shader
<1> QED
  BY <1>6, <1>7

(* A draw of a scene group that is there sees its own mesh.                *)
LEMMA MeshBound ==
  ASSUME LiveInv, pc \in {"entities", "overlay"}, NEW group \in PassOf(pc),
         NEW g, IsContext(g), g.vao = gl.vao, g.cache.vao = gl.cache.vao, g.vaos = gl.vaos
  PROVE  BindMesh(g, entities[group]).vao = entities[group]
<1> DEFINE v == entities[group]
<1>1. group \in DOMAIN entities /\ v # 0 /\ (group[2] = "geodata" <=> pc = "overlay")
  BY DEF PassOf
<1>2. v \in gl.vaos
  BY <1>1 DEF LiveInv, Owned, OwnMeshes
<1>3. gl.cache.vao = v => gl.vao = v
  <2>1. pc = "entities" => v \notin GeodataMeshes
    BY <1>1 DEF GeodataMeshes, LiveInv, Owned, OwnMeshes
  <2> QED
    BY <1>1, <2>1 DEF LiveInv, Bound
<1>4. BindMesh(g, v).vao = IF g.cache.vao # v /\ v \in g.vaos \cup {0} THEN v ELSE g.vao
  BY BindMeshDoes
<1> QED
  BY <1>2, <1>3, <1>4

(* A draw of the scene renderer keeps LiveInv and is of its own.          *)
LEMMA DrawEntityKeeps ==
  ASSUME LiveInv, DrawEntity
  PROVE  LiveInv'
<1>0. /\ pc \in {"entities", "overlay"} /\ pc' = pc /\ shadows' = shadows
      /\ shaders' = shaders /\ arrows' = arrows /\ entities' = entities
      /\ live' = live /\ names' = names /\ shadow' = shadow
      /\ useShadows' = useShadows
  BY DEF DrawEntity, residentVars
<1>1. PICK group \in todo :
       /\ \/ /\ gl' = BindMesh(Branch(group), entities[group])
             /\ Draws(Sees(gl', {0}),
                      Wants(Shader(ShaderOf(group[2])), entities[group], 0, gl'.material,
                            [u \in {0} |-> ArrowsOf(group)]))
          \/ gl' \in {gl, Branch(group)} /\ UNCHANGED astray
       /\ todo' = todo \ {group}
  BY DEF DrawEntity
<1>2. group \in PassOf(pc) /\ todo' \subseteq PassOf(pc)
  BY <1>0, <1>1 DEF LiveInv, Passing
<1> DEFINE g == Branch(group)
           shader == Shader(ShaderOf(group[2]))
           v == entities[group]
<1>3. /\ group \in DOMAIN entities /\ v # 0 /\ (pc = "overlay" => group[2] = "geodata")
  BY <1>2 DEF PassOf
<1>4. /\ IsContext(g) /\ g.program = shader /\ g.cache.program = shader
      /\ shader \in ShaderPrograms /\ g.framebuffer = 0 /\ g.active = 0
      /\ g.units[0] = ArrowsOf(group) /\ g.cache.texture = ArrowsOf(group)
      /\ ArrowsOf(group) \in {0, arrows}
      /\ g.vao = gl.vao /\ g.cache.vao = gl.cache.vao
      /\ g.vaos = gl.vaos /\ g.textures = gl.textures /\ g.programs = gl.programs
  BY <1>0, <1>3, BranchDoes
<1>5. useShadows = FALSE /\ shadows \in BOOLEAN /\ IsContext(gl)
  BY <1>0 DEF LiveInv, Passing, Typed
<1> HIDE DEF g, shader
<1>6. Passing' /\ Remembered'
  <2>1. PassOf(pc)' = PassOf(pc)
    BY <1>0 DEF PassOf
  <2> QED
    BY <1>0, <1>2, <1>5, <2>1 DEF Passing, Remembered
<1>7. CASE gl' = gl /\ astray' = astray
  <2>1. Typed' /\ Placed' /\ Owned'
    BY <1>0, <1>5, <1>7, SceneKept
  <2>2. Bound'
    BY <1>0, <1>7, SceneSame DEF LiveInv, Bound
  <2> QED
    BY <1>6, <1>7, <2>1, <2>2 DEF LiveInv
<1>8. CASE gl' = g /\ astray' = astray
  <2>1. Typed' /\ Placed' /\ Owned'
    BY <1>0, <1>4, <1>5, <1>8, SceneKept
  <2>2. Bound'
    BY <1>0, <1>4, <1>8, SceneSame DEF LiveInv, Bound
  <2> QED
    BY <1>6, <1>8, <2>1, <2>2 DEF LiveInv
<1>9. CASE /\ gl' = BindMesh(g, v)
           /\ Draws(Sees(gl', {0}), Wants(shader, v, 0, gl'.material, [u \in {0} |-> ArrowsOf(group)]))
  <2> HIDE DEF v
  <2>1. /\ IsContext(gl') /\ gl'.program = g.program /\ gl'.framebuffer = g.framebuffer
        /\ gl'.active = g.active /\ gl'.units = g.units
        /\ gl'.vaos = g.vaos /\ gl'.textures = g.textures /\ gl'.programs = g.programs
        /\ gl'.cache = [program |-> g.cache.program, vao |-> v, texture |-> g.cache.texture]
    BY <1>4, <1>9, BindMeshDoes
  <2>2. gl'.vao = v
    BY <1>0, <1>2, <1>4, <1>9, MeshBound DEF v
  <2>3. Typed' /\ Placed' /\ Owned'
    BY <1>0, <1>4, <1>5, <2>1, SceneKept
  <2>4. pc = "overlay" => v \in GeodataMeshes
    BY <1>3 DEF GeodataMeshes, v
  <2>5. Bound'
    BY <1>0, <1>4, <2>1, <2>2, <2>4, SceneSame DEF LiveInv, Bound
  <2>6. astray' = {}
    <3>1. [u \in {0} |-> gl'.units[u]] = [u \in {0} |-> ArrowsOf(group)]
      BY <1>4, <2>1
    <3>2. Sees(gl', {0}) = Wants(shader, v, 0, gl'.material, [u \in {0} |-> ArrowsOf(group)])
      BY <1>4, <2>1, <2>2, <3>1 DEF Sees, Wants
    <3> QED
      BY <1>9, <3>2 DEF Draws
  <2> QED
    BY <1>6, <2>3, <2>5, <2>6 DEF LiveInv
<1> QED
  BY <1>1, <1>7, <1>8, <1>9 DEF g, shader

(* What an item of the live scene refers to is there.                      *)
LEMMA ItemOf ==
  ASSUME LiveInv, pc \in {"prepare", "cast", "color"}, NEW e \in Entries
  PROVE  LET s == e[1]
             item == Item(e[1], e[2])
         IN  /\ e = <<e[1], e[2]>> /\ s \in DOMAIN live /\ s \in SceneSquares
             /\ Groups = live /\ IsGroup(s, live[s]) /\ Complete(s, live[s])
             /\ e[2] \in DOMAIN Visual[s].items
             /\ Whole(Visual[s])
             /\ item.mesh \in 1 .. Visual[s].meshes
             /\ item.material \in 0 .. Len(Visual[s].materials)
             /\ item.layer \in BOOLEAN
             /\ item.layer => item.mask \in DOMAIN Visual[s].textures
<1> DEFINE s == e[1]
           item == Item(e[1], e[2])
<1>1. PICK t \in DOMAIN live : e \in {t} \X DOMAIN Visual[t].items
  BY DEF Entries
<1>2. e = <<e[1], e[2]>> /\ s \in DOMAIN live /\ e[2] \in DOMAIN Visual[s].items
  BY <1>1
<1>3. Groups = live
  BY DEF Groups
<1>4. s \in SceneSquares /\ IsGroup(s, live[s]) /\ Complete(s, live[s])
  BY <1>2, <1>3 DEF LiveInv, Placed
<1>5. Whole(Visual[s])
  BY <1>4, VisualAssumption
<1> HIDE DEF s
<1>6. item \in [mesh : 1 .. Visual[s].meshes,
                material : 0 .. Len(Visual[s].materials), layer : BOOLEAN, terrain : BOOLEAN,
                mask : {0} \cup DOMAIN Visual[s].textures, alpha : BOOLEAN]
  <2> DEFINE R == [mesh : 1 .. Visual[s].meshes,
                   material : 0 .. Len(Visual[s].materials), layer : BOOLEAN, terrain : BOOLEAN,
                   mask : {0} \cup DOMAIN Visual[s].textures, alpha : BOOLEAN]
  <2>1. Visual[s].items \in Seq(R)
    BY <1>5 DEF Whole
  <2> HIDE DEF R
  <2>2. Visual[s].items[e[2]] \in R
    BY <1>2, <2>1
  <2> QED
    BY <2>2 DEF R, Item, s
<1>7. item.layer => item.mask # 0
  BY <1>2, <1>5 DEF Whole, Item, s
<1> HIDE DEF item
<1> QED
  BY <1>2, <1>3, <1>4, <1>5, <1>6, <1>7 DEF s, item

(* What an upload lets a material keep fits beside a mask and the map.     *)
LEMMA SamplesFit ==
  ASSUME NEW s \in SceneSquares, NEW m \in 0 .. Len(Visual[s].materials), Whole(Visual[s])
  PROVE  /\ Samples(s, m) \in Seq(DOMAIN Visual[s].textures)
         /\ Len(Samples(s, m)) \in Nat /\ Len(Samples(s, m)) + 2 <= MaxUnits
         /\ Samples(s, m) = <<>> <=> Len(Samples(s, m)) = 0
<1> DEFINE T == DOMAIN Visual[s].textures
<1>1. CASE m = 0
  <2>1. Samples(s, m) = <<>>
    BY <1>1 DEF Samples
  <2> QED
    BY <2>1, UnitsAssumption
<1>2. CASE m # 0
  <2> DEFINE R == [samples : Seq(T), masked : BOOLEAN]
             wanted == Visual[s].materials[m].samples
  <2>1. Visual[s].materials \in Seq(R)
    BY DEF Whole
  <2> HIDE DEF R
  <2>2. Visual[s].materials[m] \in R
    BY <1>2, <2>1
  <2>3. wanted \in Seq(T)
    BY <2>2 DEF R
  <2>4. Samples(s, m) = IF Fits(wanted) THEN wanted ELSE <<>>
    BY <1>2 DEF Samples
  <2> HIDE DEF wanted, T
  <2>5. CASE Fits(wanted)
    BY <2>3, <2>4, <2>5 DEF Fits, T
  <2>6. CASE ~ Fits(wanted)
    <3>1. Samples(s, m) = <<>>
      BY <2>4, <2>6
    <3> QED
      BY <3>1, UnitsAssumption
  <2> QED
    BY <2>5, <2>6
<1> QED
  BY <1>1, <1>2

(* A texture of a whole group has a name.                                  *)
LEMMA NameInUse ==
  ASSUME LiveInv, pc \in {"prepare", "cast", "color"}, NEW s \in DOMAIN live,
         NEW t \in DOMAIN Visual[s].textures
  PROVE  Name(s, t) \in gl.textures
<1>1. Groups = live
  BY DEF Groups
<1>2. s \in SceneSquares /\ IsGroup(s, live[s]) /\ Complete(s, live[s])
  BY <1>1 DEF LiveInv, Placed
<1>3. Visual[s].textures \in Seq(ToSet(Visual[s].textures))
  BY <1>2, VisualAssumption DEF Whole
<1>4. /\ live[s].textures \in Seq(ToSet(Visual[s].textures) \cup {Neutral})
      /\ Len(live[s].textures) = Len(Visual[s].textures)
  BY <1>2 DEF IsGroup, Complete
<1>5. t \in DOMAIN live[s].textures
  BY <1>3, <1>4
<1>6. Holds(Groups, live[s].textures[t])
  BY <1>1, <1>5 DEF Holds
<1> QED
  BY <1>6 DEF Name, LiveInv, Owned, OwnTextures

(* A mesh of a whole group has a name.                                     *)
LEMMA MeshInUse ==
  ASSUME LiveInv, pc \in {"prepare", "cast", "color"}, NEW s \in DOMAIN live,
         NEW m \in 1 .. Visual[s].meshes
  PROVE  live[s].meshes[m] \in gl.vaos /\ live[s].meshes[m] # 0
<1>1. Groups = live
  BY DEF Groups
<1>2. IsGroup(s, live[s]) /\ Complete(s, live[s])
  BY <1>1 DEF LiveInv, Placed
<1>3. live[s].meshes \in Seq(Nat \ {0}) /\ Len(live[s].meshes) = Visual[s].meshes
  BY <1>2 DEF IsGroup, Complete
<1>4. m \in DOMAIN live[s].meshes
  BY <1>3
<1> QED
  BY <1>1, <1>3, <1>4 DEF LiveInv, Owned, OwnMeshes

(* The samples of a material have names, and a unit each.                  *)
LEMMA NamedDoes ==
  ASSUME LiveInv, pc \in {"prepare", "cast", "color"}, NEW s \in DOMAIN live,
         NEW samples \in Seq(DOMAIN Visual[s].textures), Len(samples) + 2 <= MaxUnits
  PROVE  /\ Len(samples) \in Nat /\ MaxUnits \in Nat
         /\ DOMAIN Named(s, samples) = {u \in Units : u < Len(samples)}
         /\ \A u \in Units : u < Len(samples) => Named(s, samples)[u] \in gl.textures
         /\ Named(s, samples) = [u \in DOMAIN Named(s, samples) |-> Named(s, samples)[u]]
<1>1. Len(samples) \in Nat /\ MaxUnits \in Nat
  BY UnitsAssumption
<1>2. 0 .. Len(samples) - 1 = {u \in Units : u < Len(samples)}
  BY <1>1 DEF Units
<1>3. DOMAIN Named(s, samples) = {u \in Units : u < Len(samples)}
  BY <1>2 DEF Named
<1>4. ASSUME NEW u \in Units, u < Len(samples)
      PROVE  Named(s, samples)[u] \in gl.textures
  <2>1. u + 1 \in DOMAIN samples
    BY <1>1, <1>4 DEF Units
  <2>2. samples[u + 1] \in DOMAIN Visual[s].textures
    BY <2>1
  <2>3. Named(s, samples)[u] = Name(s, samples[u + 1])
    BY <1>2, <1>4 DEF Named
  <2> QED
    BY <2>2, <2>3, NameInUse
<1>5. Named(s, samples) = [u \in DOMAIN Named(s, samples) |-> Named(s, samples)[u]]
  BY DEF Named
<1> QED
  BY <1>1, <1>3, <1>4, <1>5

(* What binding the textures of a material changes.                        *)
LEMMA BindTexturesDoes ==
  ASSUME NEW g, IsContext(g), NEW s, NEW samples, Len(samples) \in Nat, MaxUnits \in Nat,
         \A u \in Units : u < Len(samples) => Named(s, samples)[u] \in g.textures
  PROVE  LET h == BindTextures(g, s, samples)
         IN  /\ IsContext(h) /\ h.program = g.program /\ h.vao = g.vao
             /\ h.framebuffer = g.framebuffer /\ h.material = g.material
             /\ h.vaos = g.vaos /\ h.textures = g.textures /\ h.programs = g.programs
             /\ h.cache = g.cache
             /\ \A u \in Units : u < Len(samples) => h.units[u] = Named(s, samples)[u]
             /\ \A u \in Units : u >= Len(samples) => h.units[u] = g.units[u]
<1> DEFINE new == IF samples = <<>> THEN g.active ELSE Len(samples) - 1
           next == [u \in Units |-> IF u >= Len(samples) THEN g.units[u]
                                    ELSE BindTexture(g, u, Named(s, samples)[u]).units[u]]
           k == [g EXCEPT !.active = new]
           h == [k EXCEPT !.units = next]
<1>0. BindTextures(g, s, samples) = h
  BY DEF IsContext, BindTextures
<1>1. ASSUME NEW u \in Units
      PROVE  next[u] = IF u >= Len(samples) THEN g.units[u] ELSE Named(s, samples)[u]
  <2>1. CASE u >= Len(samples)
    BY <2>1
  <2>2. CASE ~ (u >= Len(samples))
    <3>1. Named(s, samples)[u] \in g.textures
      BY <2>2 DEF Units
    <3>2. BindTexture(g, u, Named(s, samples)[u]).units[u] = Named(s, samples)[u]
      BY <3>1, BindTextureDoes
    <3> QED
      BY <2>2, <3>2
  <2> QED
    BY <2>1, <2>2
<1>2. next = [u \in Units |-> next[u]]
  OBVIOUS
<1> HIDE DEF new, next
<1>3. /\ k = [program |-> k.program, vao |-> k.vao, framebuffer |-> k.framebuffer,
              active |-> k.active, units |-> k.units, material |-> k.material,
              vaos |-> k.vaos, textures |-> k.textures, programs |-> k.programs,
              cache |-> k.cache]
      /\ k.program = g.program /\ k.vao = g.vao /\ k.framebuffer = g.framebuffer
      /\ k.material = g.material /\ k.vaos = g.vaos /\ k.textures = g.textures
      /\ k.programs = g.programs /\ k.cache = g.cache
  BY DEF IsContext
<1> HIDE DEF k
<1>4. /\ h = [program |-> h.program, vao |-> h.vao, framebuffer |-> h.framebuffer,
              active |-> h.active, units |-> h.units, material |-> h.material,
              vaos |-> h.vaos, textures |-> h.textures, programs |-> h.programs,
              cache |-> h.cache]
      /\ h.program = k.program /\ h.vao = k.vao /\ h.framebuffer = k.framebuffer
      /\ h.material = k.material /\ h.vaos = k.vaos /\ h.textures = k.textures
      /\ h.programs = k.programs /\ h.cache = k.cache /\ h.units = next
  BY <1>3
<1> HIDE DEF h
<1>5. h.units = [u \in Units |-> h.units[u]]
  BY <1>2, <1>4
<1>6. IsContext(h)
  BY <1>3, <1>4, <1>5 DEF IsContext
<1>7. /\ \A u \in Units : u < Len(samples) => h.units[u] = Named(s, samples)[u]
      /\ \A u \in Units : u >= Len(samples) => h.units[u] = g.units[u]
  BY <1>1, <1>4 DEF Units
<1> QED
  BY <1>0, <1>3, <1>4, <1>6, <1>7

(* What setting the uniforms of a material changes.                        *)
LEMMA MaterialDoes ==
  ASSUME NEW g, IsContext(g), NEW v
  PROVE  LET h == [g EXCEPT !.material = v]
         IN  /\ IsContext(h) /\ h.program = g.program /\ h.vao = g.vao
             /\ h.framebuffer = g.framebuffer /\ h.material = v /\ h.units = g.units
             /\ h.vaos = g.vaos /\ h.textures = g.textures /\ h.programs = g.programs
             /\ h.cache = g.cache
BY DEF IsContext

(* The start of the live renderer keeps LiveInv.                          *)
LEMMA BeginLiveKeeps ==
  ASSUME LiveInv, BeginLive
  PROVE  LiveInv'
<1>0. /\ pc = "entities" /\ useShadows' = (shadows /\ live # <<>>)
      /\ IF shadows THEN gl' = gl /\ shadow' = shadow
         ELSE gl' = DeleteTextures(gl, {shadow} \ {0}) /\ shadow' = 0
      /\ pc' = IF useShadows' THEN "prepare" ELSE "color"
      /\ todo' = Entries /\ last' = Forgotten /\ shadows' = shadows
      /\ shaders' = shaders /\ arrows' = arrows /\ entities' = entities
      /\ live' = live /\ names' = names /\ astray' = astray
  BY DEF BeginLive, residentVars
<1>1. Groups = live /\ Groups' = live
  BY <1>0 DEF Groups
<1>2. /\ IsContext(gl') /\ gl'.vaos = gl.vaos /\ gl'.programs = gl.programs
      /\ gl'.framebuffer = 0
      /\ gl'.textures = IF shadows THEN gl.textures ELSE gl.textures \ ({shadow} \ {0})
  <2>1. IsContext(gl) /\ gl.framebuffer = 0
    BY <1>0 DEF LiveInv, Typed, Bound
  <2> DEFINE h == DeleteTextures(gl, {shadow} \ {0})
  <2>2. /\ IsContext(h) /\ h.vaos = gl.vaos /\ h.programs = gl.programs
        /\ h.framebuffer = gl.framebuffer /\ h.textures = gl.textures \ ({shadow} \ {0})
        /\ h.units = [x \in Units |-> IF gl.units[x] \in {shadow} \ {0} THEN 0 ELSE gl.units[x]]
    BY <2>1, DeleteTexturesDoes
  <2>3. gl' = IF shadows THEN gl ELSE h
    BY <1>0
  <2> HIDE DEF h
  <2> QED
    BY <2>1, <2>2, <2>3
<1>3. OwnTextures(gl'.textures, names, live, arrows, shadow')
  <2>1. OwnTextures(gl.textures, names, live, arrows, shadow)
    BY <1>1 DEF LiveInv, Owned
  <2> QED
    BY <1>0, <1>2, <2>1, MapRemoved
<1>4. shadows \in BOOLEAN /\ useShadows' \in BOOLEAN /\ shadow' \in Nat
  BY <1>0 DEF LiveInv, Typed
<1>5. Typed'
  BY <1>0, <1>2, <1>4 DEF LiveInv, Typed
<1>6. Placed'
  BY <1>0, <1>1 DEF LiveInv, Placed
<1>7. Owned'
  BY <1>0, <1>1, <1>2, <1>3 DEF LiveInv, Owned
<1>8. Bound'
  BY <1>0, <1>2 DEF Bound
<1>9. Entries' = Entries
  BY <1>0, SceneSame
<1>10. Passing'
  <2>1. useShadows' => DOMAIN live # {}
    BY <1>0, EmptyFunction DEF LiveInv, Typed
  <2> QED
    BY <1>0, <1>4, <1>9, <2>1 DEF Passing
<1>11. Remembered'
  BY <1>0 DEF Remembered
<1> QED
  BY <1>0, <1>5, <1>6, <1>7, <1>8, <1>10, <1>11 DEF LiveInv

(* A live group gets another program.                                      *)
LEMMA ProgramMade ==
  ASSUME LiveInv, pc \in {"prepare", "cast"}, pc' = pc, NEW s \in DOMAIN live,
         NEW source \in AnySource(s), WithLiveProgram(s, source),
         shaders' = shaders, arrows' = arrows, entities' = entities, names' = names,
         shadow' = shadow, shadows' = shadows, useShadows' = useShadows,
         IsContext(gl'), gl'.vaos = gl.vaos, gl'.textures = gl.textures,
         gl'.programs = gl.programs \cup {Program(s, source)}
  PROVE  /\ Typed' /\ Placed' /\ Owned'
         /\ DOMAIN live' = DOMAIN live /\ source \in live'[s].programs
         /\ \A t \in DOMAIN live : live[t].programs \subseteq live'[t].programs
         /\ Entries' = Entries
<1>1. Groups = live /\ Groups' = live'
  BY DEF Groups
<1>2. /\ DOMAIN live' = DOMAIN live /\ live' = [t \in DOMAIN live' |-> live'[t]]
      /\ \A t \in DOMAIN live \ {s} : live'[t] = live[t]
      /\ live'[s] = [live[s] EXCEPT !.programs = @ \cup {source}]
  BY DEF WithLiveProgram, LiveInv, Typed
<1>3. IsGroup(s, live[s]) /\ Complete(s, live[s])
  BY <1>1 DEF LiveInv, Placed
<1>4. /\ live'[s] = [square |-> s, id |-> live'[s].id, meshes |-> live'[s].meshes,
                     textures |-> live'[s].textures, programs |-> live'[s].programs]
      /\ live'[s].meshes = live[s].meshes /\ live'[s].textures = live[s].textures
      /\ live'[s].programs = live[s].programs \cup {source}
  <2> DEFINE old == live[s]
             new == live'[s]
  <2>1. /\ old = [square |-> s, id |-> old.id, meshes |-> old.meshes,
                  textures |-> old.textures, programs |-> old.programs]
        /\ new = [old EXCEPT !.programs = @ \cup {source}]
    BY <1>2, <1>3 DEF IsGroup
  <2> HIDE DEF old, new
  <2>2. /\ new = [square |-> s, id |-> new.id, meshes |-> new.meshes,
                  textures |-> new.textures, programs |-> new.programs]
        /\ new.meshes = old.meshes /\ new.textures = old.textures
        /\ new.programs = old.programs \cup {source}
    BY <2>1
  <2> QED
    BY <2>2 DEF old, new
<1>5. IsGroup(s, live'[s]) /\ Complete(s, live'[s])
  BY <1>3, <1>4 DEF IsGroup, Complete
<1>6. \A t \in DOMAIN live' : IsGroup(t, live'[t]) /\ Complete(t, live'[t])
  BY <1>1, <1>2, <1>5 DEF LiveInv, Placed
<1>7. Typed'
  BY <1>2 DEF LiveInv, Typed
<1>8. Placed'
  BY <1>1, <1>2, <1>6 DEF LiveInv, Placed
<1>9. /\ \A t \in DOMAIN live : live'[t].meshes = live[t].meshes /\ live'[t].textures = live[t].textures
      /\ \A t \in DOMAIN live \ {s} : live'[t].programs = live[t].programs
      /\ live'[s].programs = live[s].programs \cup {source}
  BY <1>2, <1>4
<1>10. Owned'
  <2>1. OwnMeshes(gl'.vaos, entities', Groups')
    BY <1>1, <1>2, <1>9, SameMeshes DEF LiveInv, Owned
  <2>2. OwnTextures(gl'.textures, names', Groups', arrows', shadow')
    BY <1>1, <1>2, <1>9, SameTextures DEF LiveInv, Owned
  <2>3. OwnPrograms(gl'.programs, shaders', Groups')
    <3> DEFINE H == live'
    <3>1. OwnPrograms(gl.programs, shaders, live)
      BY <1>1 DEF LiveInv, Owned
    <3>2. /\ DOMAIN H = DOMAIN live /\ H[s].programs = live[s].programs \cup {source}
          /\ \A t \in DOMAIN live \ {s} : H[t].programs = live[t].programs
      BY <1>2, <1>9
    <3> HIDE DEF H
    <3>3. OwnPrograms(gl.programs \cup {Program(s, source)}, shaders, H)
      BY <3>1, <3>2, ProgramAdded
    <3> QED
      BY <1>1, <3>3 DEF H
  <2> QED
    BY <1>2, <2>1, <2>2, <2>3 DEF LiveInv, Owned
<1>11. Entries' = Entries
  BY <1>2 DEF Entries
<1> QED
  BY <1>2, <1>7, <1>8, <1>9, <1>10, <1>11

(* Making the shadowed program of an item keeps LiveInv.                  *)
LEMMA PrepareShadowKeeps ==
  ASSUME LiveInv, PrepareShadow
  PROVE  LiveInv'
<1>0. /\ pc = "prepare" /\ pc' = "prepare"
      /\ shaders' = shaders /\ arrows' = arrows /\ entities' = entities /\ names' = names
      /\ shadow' = shadow /\ shadows' = shadows /\ useShadows' = useShadows
      /\ last' = last /\ astray' = astray
  BY DEF PrepareShadow
<1>1. PICK e \in todo :
        /\ todo' = todo \ {e}
        /\ WithLiveProgram(e[1], ColorSource(e[1], Item(e[1], e[2]), TRUE))
        /\ gl' = NewProgram(gl, Program(e[1], ColorSource(e[1], Item(e[1], e[2]), TRUE)))
  BY DEF PrepareShadow
<1> DEFINE s == e[1]
           source == ColorSource(e[1], Item(e[1], e[2]), TRUE)
<1>2. e \in Entries /\ todo \subseteq Entries
  BY <1>0, <1>1 DEF LiveInv, Passing
<1>3. s \in DOMAIN live /\ e[2] \in DOMAIN Visual[s].items
  BY <1>0, <1>2, ItemOf
<1>4. source \in AnySource(s)
  BY <1>3 DEF AnySource, Sources
<1> HIDE DEF source, s
<1>5. /\ IsContext(gl') /\ gl'.framebuffer = gl.framebuffer /\ gl'.vaos = gl.vaos
      /\ gl'.textures = gl.textures /\ gl'.programs = gl.programs \cup {Program(s, source)}
  BY <1>1, NewProgramDoes DEF LiveInv, Typed, s, source
<1>6. /\ Typed' /\ Placed' /\ Owned'
      /\ DOMAIN live' = DOMAIN live /\ source \in live'[s].programs
      /\ \A t \in DOMAIN live : live[t].programs \subseteq live'[t].programs
      /\ Entries' = Entries
  <2>1. WithLiveProgram(s, source)
    BY <1>1 DEF s, source
  <2> QED
    BY <1>0, <1>3, <1>4, <1>5, <2>1, ProgramMade
<1>7. Bound'
  BY <1>0, <1>5 DEF LiveInv, Bound
<1>8. Passing'
  <2>1. ASSUME NEW f \in Entries \ todo'
        PROVE  ColorSource(f[1], Item(f[1], f[2]), TRUE) \in live'[f[1]].programs
    <3>1. CASE f = e
      BY <1>6, <3>1 DEF s, source
    <3>2. CASE f \notin todo
      <4>1. f[1] \in DOMAIN live
        BY <1>0, ItemOf
      <4>2. ColorSource(f[1], Item(f[1], f[2]), TRUE) \in live[f[1]].programs
        BY <1>0, <3>2 DEF LiveInv, Passing
      <4> QED
        BY <1>6, <4>1, <4>2
    <3> QED
      BY <1>1, <3>1, <3>2
  <2> QED
    BY <1>0, <1>1, <1>2, <1>6, <2>1 DEF LiveInv, Passing
<1>9. Remembered'
  BY <1>0 DEF LiveInv, Remembered
<1> QED
  BY <1>0, <1>6, <1>7, <1>8, <1>9 DEF LiveInv

(* The start of the shadow pass keeps LiveInv.                            *)
LEMMA BeginCastKeeps ==
  ASSUME LiveInv, BeginCast
  PROVE  LiveInv'
<1> DEFINE t == shadow'
           named == [gl EXCEPT !.textures = @ \cup {t}]
           made == BindTexture(named, gl.active, t)
           base == IF shadow = 0 THEN made ELSE gl
<1>0. /\ pc = "prepare" /\ pc' = "cast" /\ todo = {} /\ todo' = Casters
      /\ shadow' = IF shadow = 0 THEN Fresh(gl.textures) ELSE shadow
      /\ gl' = BindFramebuffer(base, 1)
      /\ shaders' = shaders /\ arrows' = arrows /\ entities' = entities
      /\ live' = live /\ names' = names /\ shadows' = shadows
      /\ useShadows' = useShadows /\ last' = last /\ astray' = astray
  BY DEF BeginCast, residentVars
<1>1. Groups = live /\ Groups' = live
  BY <1>0 DEF Groups
<1>2. IsContext(gl) /\ OwnTextures(gl.textures, names, live, arrows, shadow) /\ shadow \in Nat
  BY <1>1 DEF LiveInv, Typed, Owned
<1>3. Fresh(gl.textures) \in Nat \ {0} /\ Fresh(gl.textures) \notin gl.textures
  BY <1>2, FreshIsFree DEF IsContext
<1>4. t \in Nat \ {0}
  BY <1>0, <1>2, <1>3
<1> HIDE DEF t
<1>5. /\ IsContext(base) /\ base.vaos = gl.vaos /\ base.programs = gl.programs
      /\ base.textures = IF shadow = 0 THEN gl.textures \cup {t} ELSE gl.textures
  <2>1. IsContext(named) /\ named.vaos = gl.vaos /\ named.programs = gl.programs
        /\ named.textures = gl.textures \cup {t}
    BY <1>2, <1>4, TextureNamed
  <2> HIDE DEF named
  <2>2. IsContext(made) /\ made.vaos = gl.vaos /\ made.programs = gl.programs
        /\ made.textures = gl.textures \cup {t}
    BY <2>1, BindTextureDoes
  <2> HIDE DEF made
  <2> QED
    BY <1>2, <2>2
<1> HIDE DEF base
<1>6. /\ IsContext(gl') /\ gl'.vaos = gl.vaos /\ gl'.programs = gl.programs
      /\ gl'.framebuffer = 1
      /\ gl'.textures = IF shadow = 0 THEN gl.textures \cup {t} ELSE gl.textures
  BY <1>0, <1>5, BindFramebufferDoes
<1>7. OwnTextures(gl'.textures, names, live, arrows, shadow')
  <2>1. CASE shadow = 0
    <3>1. OwnTextures(gl.textures \cup {t}, names, live, arrows, t)
      BY <1>0, <1>2, <1>3, <2>1, MapAdded DEF t
    <3> QED
      BY <1>6, <2>1, <3>1 DEF t
  <2>2. CASE shadow # 0
    BY <1>0, <1>2, <1>6, <2>2
  <2> QED
    BY <2>1, <2>2
<1>8. useShadows /\ DOMAIN live # {}
  BY <1>0 DEF LiveInv, Passing
<1>9. Typed'
  BY <1>0, <1>4, <1>6 DEF LiveInv, Typed, t
<1>10. Placed'
  BY <1>0, <1>1 DEF LiveInv, Placed
<1>11. Owned'
  BY <1>0, <1>1, <1>6, <1>7, <1>8 DEF LiveInv, Owned
<1>12. Bound'
  BY <1>0, <1>6 DEF Bound
<1>13. Passing'
  <2>1. Entries' = Entries /\ Casters \subseteq Entries
    BY <1>0, SceneSame DEF Casters
  <2>2. \A e \in Entries : ColorSource(e[1], Item(e[1], e[2]), TRUE) \in live[e[1]].programs
    BY <1>0 DEF LiveInv, Passing
  <2>3. shadow' # 0
    BY <1>4 DEF t
  <2> QED
    BY <1>0, <1>8, <2>1, <2>2, <2>3 DEF Passing
<1>14. Remembered'
  BY <1>0 DEF LiveInv, Remembered
<1> QED
  BY <1>0, <1>9, <1>10, <1>11, <1>12, <1>13, <1>14 DEF LiveInv

(* Passing over an item keeps LiveInv.                                    *)
LEMMA SkipKeeps ==
  ASSUME LiveInv, Skip
  PROVE  LiveInv'
<1>0. /\ pc \in {"cast", "color"} /\ pc' = pc /\ todo' \subseteq todo
      /\ gl' = gl /\ shadow' = shadow
      /\ shaders' = shaders /\ arrows' = arrows /\ entities' = entities
      /\ live' = live /\ names' = names /\ shadows' = shadows
      /\ useShadows' = useShadows /\ last' = last /\ astray' = astray
  BY DEF Skip, residentVars
<1>1. Typed' /\ Placed' /\ Owned'
  BY <1>0, SceneKept DEF LiveInv, Typed
<1>2. Bound'
  BY <1>0 DEF LiveInv, Bound
<1>3. Entries' = Entries
  BY <1>0, SceneSame
<1>4. Passing'
  BY <1>0, <1>3 DEF LiveInv, Passing
<1>5. Remembered'
  <2>1. \A e : Shows(e)' = Shows(e)
    BY <1>0 DEF Shows, ProgramFor, MaterialKey, ItemTextures, Named, Name
  <2> QED
    BY <1>0, <1>3, <2>1 DEF LiveInv, Remembered
<1> QED
  BY <1>0, <1>1, <1>2, <1>4, <1>5 DEF LiveInv

(* The start of the color pass, with shadows or without, keeps LiveInv.   *)
LEMMA BeginColorKeeps ==
  ASSUME LiveInv, pc \in {"prepare", "cast"}, NEW with \in BOOLEAN, BeginColor(with),
         with => pc = "cast"
  PROVE  LiveInv'
<1>0. /\ pc' = "color" /\ todo' = Entries /\ gl' = BindFramebuffer(gl, 0)
      /\ useShadows' = with /\ shadow' = shadow
      /\ shaders' = shaders /\ arrows' = arrows /\ entities' = entities
      /\ live' = live /\ names' = names /\ shadows' = shadows
      /\ last' = last /\ astray' = astray
  BY DEF BeginColor, residentVars
<1>1. /\ IsContext(gl') /\ gl'.vaos = gl.vaos /\ gl'.textures = gl.textures
      /\ gl'.programs = gl.programs /\ gl'.framebuffer = 0
  BY <1>0, BindFramebufferDoes DEF LiveInv, Typed
<1>2. Typed' /\ Placed' /\ Owned'
  BY <1>0, <1>1, SceneKept DEF LiveInv, Typed
<1>3. Bound'
  BY <1>0, <1>1 DEF Bound
<1>4. Entries' = Entries
  BY <1>0, SceneSame
<1>5. Passing'
  BY <1>0, <1>4 DEF LiveInv, Passing
<1>6. Remembered'
  BY <1>0 DEF LiveInv, Remembered
<1> QED
  BY <1>0, <1>2, <1>3, <1>5, <1>6 DEF LiveInv

(* The end of the live renderer gives the bindings back and keeps         *)
(* LiveInv.                                                               *)
LEMMA EndLiveKeeps ==
  ASSUME LiveInv, EndLive
  PROVE  LiveInv'
<1>0. /\ pc = "color" /\ pc' = "overlay" /\ todo' = PassOf("overlay")
      /\ gl' = LegacyBindingScope(gl)
      /\ shadows' = (shadows /\ (live = <<>> \/ useShadows))
      /\ names' = Restrict(names, HeldBy(live)) /\ shadow' = shadow
      /\ shaders' = shaders /\ arrows' = arrows /\ entities' = entities
      /\ live' = live /\ useShadows' = FALSE /\ astray' = astray
  BY DEF EndLive
<1>1. Groups = live
  BY <1>0 DEF Groups
<1>2. names' = names
  <2>1. \A key : key \in HeldBy(live) <=> key \in DOMAIN names
    BY <1>1, HeldByDoes DEF LiveInv, Owned, OwnTextures
  <2>2. HeldBy(live) = DOMAIN names
    BY <2>1
  <2> QED
    BY <1>0, <2>2 DEF Restrict, LiveInv, Typed
<1>3. /\ IsContext(gl') /\ gl'.program = None /\ gl'.vao = 0
      /\ gl'.framebuffer = gl.framebuffer /\ gl'.active = 0 /\ gl'.units[0] = 0
      /\ gl'.vaos = gl.vaos /\ gl'.textures = gl.textures /\ gl'.programs = gl.programs
      /\ gl'.cache.program = None /\ gl'.cache.vao = 0 /\ gl'.cache.texture = 0
  BY <1>0, ScopeEnds DEF LiveInv, Typed
<1>4. shadows' \in BOOLEAN
  BY <1>0
<1>5. Typed' /\ Placed' /\ Owned'
  BY <1>0, <1>2, <1>3, <1>4, SceneKept
<1>6. Bound'
  BY <1>0, <1>3 DEF LiveInv, Bound
<1>7. PassOf(pc)' = PassOf("overlay")
  BY <1>0 DEF PassOf
<1>8. Passing' /\ Remembered'
  BY <1>0, <1>7 DEF Passing, Remembered
<1> QED
  BY <1>0, <1>5, <1>6, <1>8 DEF LiveInv

(* No program of the live scene is None.                                   *)
LEMMA ProgramNamed ==
  ASSUME NEW s \in SceneSquares, NEW i \in DOMAIN Visual[s].items, NEW shaded \in BOOLEAN
  PROVE  /\ ColorSource(s, Item(s, i), shaded) \in AnySource(s)
         /\ Program(s, ColorSource(s, Item(s, i), shaded)) # None
         /\ DepthSource(s, Item(s, i)) \in AnySource(s)
<1>1. ColorSource(s, Item(s, i), shaded) \in AnySource(s)
  BY DEF AnySource, Sources
<1>2. DepthSource(s, Item(s, i)) \in AnySource(s)
  BY DEF AnySource
<1> QED
  BY <1>1, <1>2, NamesAssumption

(* The depth program of an item samples few enough textures.              *)
LEMMA DepthSamples ==
  ASSUME NEW s \in SceneSquares, NEW i \in DOMAIN Visual[s].items, Whole(Visual[s]),
         Item(s, i).material \in 0 .. Len(Visual[s].materials)
  PROVE  LET samples == DepthSource(s, Item(s, i)).depth
         IN  samples \in Seq(DOMAIN Visual[s].textures) /\ Len(samples) + 2 <= MaxUnits
<1> DEFINE item == Item(s, i)
           samples == DepthSource(s, item).depth
           wanted == Samples(s, item.material)
           T == DOMAIN Visual[s].textures
<1>1. wanted \in Seq(T) /\ Len(wanted) + 2 <= MaxUnits
  BY SamplesFit
<1>2. samples = wanted \/ samples = <<>>
  BY DEF DepthSource
<1> HIDE DEF wanted, samples, T
<1>3. samples \in Seq(T) /\ Len(samples) + 2 <= MaxUnits
  <2>1. CASE samples = wanted
    BY <1>1, <2>1
  <2>2. CASE samples = <<>>
    <3>1. samples \in Seq(T) /\ Len(samples) = 0
      BY <2>2
    <3> QED
      BY <3>1, UnitsAssumption
  <2> QED
    BY <1>2, <2>1, <2>2
<1> QED
  BY <1>3 DEF samples, T

(* A draw into the shadow map keeps LiveInv and is of its own.            *)
LEMMA CastKeeps ==
  ASSUME LiveInv, Cast
  PROVE  LiveInv'
<1>0. /\ pc = "cast" /\ pc' = "cast"
      /\ shaders' = shaders /\ arrows' = arrows /\ entities' = entities /\ names' = names
      /\ shadow' = shadow /\ shadows' = shadows /\ useShadows' = useShadows /\ last' = last
  BY DEF Cast
<1>1. PICK e \in todo : CastItem(e[1], Item(e[1], e[2])) /\ todo' = todo \ {e}
  BY DEF Cast
<1> DEFINE s == e[1]
           i == e[2]
           item == Item(s, i)
           source == DepthSource(s, item)
           program == Program(s, source)
           mesh == live[s].meshes[item.mesh]
           material == <<s, item.material>>
           wants == Named(s, source.depth)
           g1 == NewProgram(gl, program)
           g2 == UseProgram(g1, program)
           g3 == BindTextures(g2, s, source.depth)
           g4 == [g3 EXCEPT !.material = material]
<1>2. e \in Entries /\ todo \subseteq Entries
  BY <1>0, <1>1 DEF LiveInv, Passing
<1>3. /\ s \in DOMAIN live /\ s \in SceneSquares /\ i \in DOMAIN Visual[s].items
      /\ Whole(Visual[s]) /\ item.mesh \in 1 .. Visual[s].meshes
      /\ item.material \in 0 .. Len(Visual[s].materials)
  BY <1>0, <1>2, ItemOf
<1>4. source \in AnySource(s)
  BY <1>3, ProgramNamed
<1>5. /\ source.depth \in Seq(DOMAIN Visual[s].textures)
      /\ Len(source.depth) + 2 <= MaxUnits
  BY <1>3, DepthSamples
<1>6. mesh \in gl.vaos
  BY <1>0, <1>3, MeshInUse
<1>7. /\ WithLiveProgram(s, source)
      /\ gl' = BindVertexArray(g4, mesh)
      /\ Draws(Sees(gl', DOMAIN wants), Wants(program, mesh, 1, material, wants))
  BY <1>1 DEF CastItem
<1> HIDE DEF source
<1> DEFINE samples == source.depth
<1>8. /\ Len(samples) \in Nat /\ MaxUnits \in Nat
      /\ DOMAIN wants = {u \in Units : u < Len(samples)}
      /\ \A u \in Units : u < Len(samples) => wants[u] \in gl.textures
      /\ wants = [u \in DOMAIN wants |-> wants[u]]
  BY <1>0, <1>3, <1>5, NamedDoes
<1> HIDE DEF s, item, program, mesh, material, samples
<1>9. /\ IsContext(g1) /\ g1.framebuffer = gl.framebuffer /\ g1.vaos = gl.vaos
      /\ g1.textures = gl.textures /\ g1.programs = gl.programs \cup {program}
  BY NewProgramDoes DEF LiveInv, Typed
<1> HIDE DEF g1
<1>10. /\ IsContext(g2) /\ g2.framebuffer = gl.framebuffer /\ g2.vaos = gl.vaos
       /\ g2.textures = gl.textures /\ g2.programs = gl.programs \cup {program}
       /\ g2.program = program
  <2>1. /\ IsContext(g2) /\ g2.framebuffer = g1.framebuffer /\ g2.vaos = g1.vaos
        /\ g2.textures = g1.textures /\ g2.programs = g1.programs
        /\ g2.program = IF program \in g1.programs \cup {None} THEN program ELSE g1.program
    BY <1>9, UseProgramDoes
  <2> QED
    BY <1>9, <2>1
<1> HIDE DEF g2
<1>11. /\ IsContext(g3) /\ g3.framebuffer = g2.framebuffer /\ g3.vaos = g2.vaos
       /\ g3.textures = g2.textures /\ g3.programs = g2.programs
       /\ g3.program = g2.program
       /\ \A u \in Units : u < Len(samples) => g3.units[u] = wants[u]
  <2>1. \A u \in Units : u < Len(samples) => Named(s, samples)[u] \in g2.textures
    BY <1>8, <1>10 DEF samples
  <2>2. g3 = BindTextures(g2, s, samples) /\ wants = Named(s, samples)
    BY DEF samples
  <2> HIDE DEF g3, wants
  <2> QED
    BY <1>8, <1>10, <2>1, <2>2, BindTexturesDoes
<1> HIDE DEF g3
<1>12. /\ IsContext(g4) /\ g4.framebuffer = g3.framebuffer /\ g4.vaos = g3.vaos
       /\ g4.textures = g3.textures /\ g4.programs = g3.programs
       /\ g4.program = g3.program /\ g4.units = g3.units /\ g4.material = material
  BY <1>11, MaterialDoes
<1> HIDE DEF g4
<1>13. /\ IsContext(gl') /\ gl'.framebuffer = g4.framebuffer /\ gl'.vaos = g4.vaos
       /\ gl'.textures = g4.textures /\ gl'.programs = g4.programs
       /\ gl'.program = g4.program /\ gl'.units = g4.units /\ gl'.material = g4.material
       /\ gl'.vao = mesh
  <2>1. mesh \in g4.vaos
    BY <1>6, <1>10, <1>11, <1>12
  <2> QED
    BY <1>7, <1>12, <2>1, BindVertexArrayDoes
<1> HIDE DEF wants
<1>14. astray' = {}
  <2>1. gl'.framebuffer = 1
    BY <1>0, <1>10, <1>11, <1>12, <1>13 DEF LiveInv, Bound
  <2>2. [u \in DOMAIN wants |-> gl'.units[u]] = wants
    BY <1>8, <1>11, <1>12, <1>13
  <2>3. Sees(gl', DOMAIN wants) = Wants(program, mesh, 1, material, wants)
    BY <1>10, <1>11, <1>12, <1>13, <2>1, <2>2 DEF Sees, Wants
  <2> QED
    BY <1>7, <2>3 DEF Draws
<1>15. /\ Typed' /\ Placed' /\ Owned'
       /\ DOMAIN live' = DOMAIN live
       /\ \A t \in DOMAIN live : live[t].programs \subseteq live'[t].programs
       /\ Entries' = Entries
  <2>1. /\ gl'.vaos = gl.vaos /\ gl'.textures = gl.textures
        /\ gl'.programs = gl.programs \cup {Program(s, source)}
    BY <1>10, <1>11, <1>12, <1>13 DEF program
  <2>2. s \in DOMAIN live /\ source \in AnySource(s)
    BY <1>3, <1>4
  <2>3. WithLiveProgram(s, source) /\ IsContext(gl')
    BY <1>7, <1>13
  <2> QED
    BY <1>0, <2>1, <2>2, <2>3, ProgramMade
<1>16. Bound'
  BY <1>0, <1>10, <1>11, <1>12, <1>13 DEF LiveInv, Bound
<1>17. Passing'
  <2>1. ASSUME NEW f \in Entries
        PROVE  ColorSource(f[1], Item(f[1], f[2]), TRUE) \in live'[f[1]].programs
    <3>1. f[1] \in DOMAIN live
      BY <1>0, ItemOf
    <3>2. ColorSource(f[1], Item(f[1], f[2]), TRUE) \in live[f[1]].programs
      BY <1>0 DEF LiveInv, Passing
    <3> QED
      BY <1>15, <3>1, <3>2
  <2> QED
    BY <1>0, <1>1, <1>2, <1>15, <2>1 DEF LiveInv, Passing
<1>18. Remembered'
  BY <1>0 DEF LiveInv, Remembered
<1> QED
  BY <1>14, <1>15, <1>16, <1>17, <1>18 DEF LiveInv

(* What setting a program changes.                                         *)
LEMMA SetProgramDoes ==
  ASSUME LiveInv, NEW g, IsContext(g), NEW program \in g.programs,
         shadow \in g.textures \cup {0}
  PROVE  LET h == SetProgram(g, program)
         IN  /\ IsContext(h) /\ h.program = program /\ h.vao = g.vao
             /\ h.framebuffer = g.framebuffer /\ h.vaos = g.vaos /\ h.textures = g.textures
             /\ h.programs = g.programs
             /\ useShadows => h.units[MaxUnits - 1] = shadow
<1> DEFINE used == UseProgram(g, program)
           h == SetProgram(g, program)
<1>1. /\ IsContext(used) /\ used.program = program /\ used.vao = g.vao
      /\ used.framebuffer = g.framebuffer /\ used.vaos = g.vaos /\ used.textures = g.textures
      /\ used.programs = g.programs
  BY UseProgramDoes
<1>2. h = IF useShadows THEN BindTexture(used, MaxUnits - 1, shadow) ELSE used
  BY DEF SetProgram
<1> HIDE DEF used, h
<1>3. CASE useShadows
  <2>1. h = BindTexture(used, MaxUnits - 1, shadow)
    BY <1>2, <1>3
  <2>2. /\ IsContext(h) /\ h.program = used.program /\ h.vao = used.vao
        /\ h.framebuffer = used.framebuffer /\ h.vaos = used.vaos
        /\ h.textures = used.textures /\ h.programs = used.programs
        /\ MaxUnits - 1 \in Units /\ shadow \in used.textures \cup {0} => h.units[MaxUnits - 1] = shadow
    BY <1>1, <2>1, BindTextureDoes
  <2> QED
    BY <1>1, <2>2, FirstUnit DEF h
<1>4. CASE ~ useShadows
  BY <1>1, <1>2, <1>4 DEF h
<1> QED
  BY <1>3, <1>4

(* What setting a material changes.                                        *)
LEMMA SetMaterialDoes ==
  ASSUME NEW g, IsContext(g), NEW s, NEW item, NEW samples, samples = Samples(s, item.material),
         Len(samples) \in Nat, Len(samples) + 2 <= MaxUnits, item.layer \in BOOLEAN,
         \A u \in Units : u < Len(samples) => Named(s, samples)[u] \in g.textures,
         item.layer => Name(s, item.mask) \in g.textures
  PROVE  LET h == SetMaterial(g, s, item)
         IN  /\ IsContext(h) /\ h.program = g.program /\ h.vao = g.vao
             /\ h.framebuffer = g.framebuffer /\ h.vaos = g.vaos /\ h.textures = g.textures
             /\ h.programs = g.programs /\ h.material = <<s, item.material>>
             /\ \A u \in Units : u < Len(samples) => h.units[u] = Named(s, samples)[u]
             /\ item.layer => h.units[Len(samples)] = Name(s, item.mask)
             /\ \A u \in Units : u > Len(samples) => h.units[u] = g.units[u]
<1> DEFINE n == Len(samples)
           k == [g EXCEPT !.material = <<s, item.material>>]
           bound == BindTextures(k, s, samples)
           h == SetMaterial(g, s, item)
<1>1. h = IF item.layer THEN BindTexture(bound, n, Name(s, item.mask)) ELSE bound
  BY DEF SetMaterial
<1>2. MaxUnits \in Nat /\ n \in Units
  BY UnitsAssumption DEF Units
<1> HIDE DEF h
<1>3. /\ IsContext(k) /\ k.program = g.program /\ k.vao = g.vao
      /\ k.framebuffer = g.framebuffer /\ k.vaos = g.vaos /\ k.textures = g.textures
      /\ k.programs = g.programs /\ k.material = <<s, item.material>> /\ k.units = g.units
  <2> DEFINE v == <<s, item.material>>
  <2> HIDE DEF v
  <2>1. LET made == [g EXCEPT !.material = v]
        IN  /\ IsContext(made) /\ made.program = g.program /\ made.vao = g.vao
            /\ made.framebuffer = g.framebuffer /\ made.material = v /\ made.units = g.units
            /\ made.vaos = g.vaos /\ made.textures = g.textures
            /\ made.programs = g.programs /\ made.cache = g.cache
    BY MaterialDoes
  <2> QED
    BY <2>1 DEF v
<1> HIDE DEF k
<1>4. /\ IsContext(bound) /\ bound.program = k.program /\ bound.vao = k.vao
      /\ bound.framebuffer = k.framebuffer /\ bound.vaos = k.vaos /\ bound.textures = k.textures
      /\ bound.programs = k.programs /\ bound.material = k.material
      /\ \A u \in Units : u < n => bound.units[u] = Named(s, samples)[u]
      /\ \A u \in Units : u >= n => bound.units[u] = k.units[u]
  <2>1. \A u \in Units : u < Len(samples) => Named(s, samples)[u] \in k.textures
    BY <1>3
  <2> QED
    BY <1>2, <1>3, <2>1, BindTexturesDoes
<1> HIDE DEF bound, n
<1>5. CASE item.layer
  <2>1. h = BindTexture(bound, n, Name(s, item.mask))
    BY <1>1, <1>5
  <2>2. /\ IsContext(h) /\ h.program = bound.program /\ h.vao = bound.vao
        /\ h.framebuffer = bound.framebuffer /\ h.vaos = bound.vaos
        /\ h.textures = bound.textures /\ h.programs = bound.programs
        /\ h.material = bound.material
        /\ \A u \in Units : u # n => h.units[u] = bound.units[u]
        /\ n \in Units /\ Name(s, item.mask) \in bound.textures \cup {0} => h.units[n] = Name(s, item.mask)
    BY <1>4, <2>1, BindTextureDoes
  <2>3. h.units[n] = Name(s, item.mask)
    BY <1>2, <1>3, <1>4, <1>5, <2>2
  <2>4. \A u \in Units : u < n => h.units[u] = Named(s, samples)[u]
    BY <1>2, <1>4, <2>2 DEF n, Units
  <2>5. \A u \in Units : u > n => h.units[u] = g.units[u]
    BY <1>2, <1>3, <1>4, <2>2 DEF n, Units
  <2> QED
    BY <1>3, <1>4, <2>2, <2>3, <2>4, <2>5 DEF h, n
<1>6. CASE ~ item.layer
  <2>1. h = bound
    BY <1>1, <1>6
  <2>2. \A u \in Units : u > n => h.units[u] = g.units[u]
    BY <1>2, <1>3, <1>4, <2>1 DEF n, Units
  <2> QED
    BY <1>3, <1>4, <1>6, <2>1, <2>2 DEF h, n
<1> QED
  BY <1>5, <1>6

(* The units of an item: those of its material, the one of its mask, the   *)
(* last for the shadow map.                                                *)
LEMMA ItemTexturesDoes ==
  ASSUME NEW s, NEW item, NEW samples, samples = Samples(s, item.material),
         Len(samples) \in Nat, Len(samples) + 2 <= MaxUnits, item.layer \in BOOLEAN,
         useShadows \in BOOLEAN
  PROVE  LET textures == ItemTextures(s, item)
         IN  /\ \A u : u \in DOMAIN textures <=>
                         /\ u \in Units
                         /\ \/ u < Len(samples)
                            \/ item.layer /\ u = Len(samples)
                            \/ useShadows /\ u = MaxUnits - 1
             /\ \A u \in Units : u < Len(samples) => textures[u] = Named(s, samples)[u]
             /\ item.layer => textures[Len(samples)] = Name(s, item.mask)
             /\ useShadows => textures[MaxUnits - 1] = shadow
<1>1. MaxUnits \in Nat /\ Len(samples) \in Units /\ MaxUnits - 1 \in Units
  BY UnitsAssumption DEF Units
<1>2. ~ (MaxUnits - 1 < Len(samples)) /\ MaxUnits - 1 # Len(samples)
  BY <1>1
<1>3. ItemTextures(s, item) =
        [u \in {v \in Units : \/ v < Len(samples)
                              \/ item.layer /\ v = Len(samples)
                              \/ useShadows /\ v = MaxUnits - 1} |->
           IF u < Len(samples) THEN Named(s, samples)[u]
           ELSE IF item.layer /\ u = Len(samples) THEN Name(s, item.mask)
           ELSE shadow]
  BY DEF ItemTextures
<1> QED
  BY <1>1, <1>2, <1>3

(* What the last draw of the pass left, an item of the same program, of the*)
(* same material, of the same mesh finds.                                  *)
LEMMA Recalled ==
  ASSUME LiveInv, pc = "color", NEW e \in Entries
  PROVE  LET s == e[1]
             item == Item(e[1], e[2])
         IN  /\ last.program = ProgramFor(s, item) =>
                  /\ gl.program = ProgramFor(s, item)
                  /\ useShadows => gl.units[MaxUnits - 1] = shadow
             /\ last.program = ProgramFor(s, item) /\ last.key = MaterialKey(s, item) =>
                  /\ gl.material = <<s, item.material>>
                  /\ \A u \in DOMAIN ItemTextures(s, item) :
                       gl.units[u] = ItemTextures(s, item)[u]
             /\ last.vao = live[s].meshes[item.mesh] => gl.vao = live[s].meshes[item.mesh]
<1> DEFINE s == e[1]
           item == Item(e[1], e[2])
           mesh == live[s].meshes[item.mesh]
<1>1. /\ s \in DOMAIN live /\ s \in SceneSquares /\ e[2] \in DOMAIN Visual[s].items
      /\ item.mesh \in 1 .. Visual[s].meshes
  BY ItemOf
<1>2. mesh # 0
  BY <1>1, MeshInUse
<1>3. useShadows \in BOOLEAN
  BY DEF LiveInv, Typed
<1>4. ProgramFor(s, item) # None
  BY <1>1, <1>3, ProgramNamed DEF ProgramFor
<1>5. CASE last = Forgotten
  BY <1>2, <1>4, <1>5 DEF Forgotten
<1>6. CASE last # Forgotten
  <2>1. PICK f \in Entries : Shows(f)
    BY <1>6 DEF LiveInv, Remembered
  <2> DEFINE t == f[1]
             other == Item(f[1], f[2])
             samples == Samples(t, other.material)
  <2>2. /\ last.program = ProgramFor(t, other) /\ last.key = MaterialKey(t, other)
        /\ gl.program = last.program /\ gl.vao = last.vao
        /\ gl.material = <<t, other.material>>
        /\ \A u \in DOMAIN ItemTextures(t, other) : gl.units[u] = ItemTextures(t, other)[u]
    BY <2>1 DEF Shows
  <2>3. /\ t \in SceneSquares /\ Whole(Visual[t]) /\ other.layer \in BOOLEAN
        /\ other.material \in 0 .. Len(Visual[t].materials)
    BY ItemOf
  <2>4. Len(samples) \in Nat /\ Len(samples) + 2 <= MaxUnits
    BY <2>3, SamplesFit
  <2>5. useShadows => gl.units[MaxUnits - 1] = shadow
    <3>1. useShadows => /\ MaxUnits - 1 \in DOMAIN ItemTextures(t, other)
                        /\ ItemTextures(t, other)[MaxUnits - 1] = shadow
      <4> HIDE DEF t, other
      <4> DEFINE m == Samples(t, other.material)
                 textures == ItemTextures(t, other)
      <4>1. /\ useShadows /\ MaxUnits - 1 \in Units => MaxUnits - 1 \in DOMAIN textures
            /\ useShadows => textures[MaxUnits - 1] = shadow
        BY <1>3, <2>3, <2>4, ItemTexturesDoes
      <4> HIDE DEF textures
      <4>2. useShadows => MaxUnits - 1 \in DOMAIN textures
        BY <4>1, FirstUnit
      <4> QED
        BY <4>1, <4>2 DEF textures
    <3> QED
      BY <2>2, <3>1
  <2>6. ASSUME last.key = MaterialKey(s, item)
        PROVE  /\ gl.material = <<s, item.material>>
               /\ \A u \in DOMAIN ItemTextures(s, item) :
                    gl.units[u] = ItemTextures(s, item)[u]
    <3>1. /\ t = s /\ other.material = item.material /\ other.layer = item.layer
          /\ other.mask = item.mask
      BY <2>2, <2>6 DEF MaterialKey
    <3>2. ItemTextures(t, other) = ItemTextures(s, item)
      <4> HIDE DEF s, item, t, other
      <4> QED
        BY <3>1 DEF ItemTextures
    <3> QED
      BY <2>2, <3>1, <3>2
  <2> QED
    BY <2>2, <2>5, <2>6
<1> QED
  BY <1>5, <1>6

(* The program of an item, and its samples, are there before its draw.     *)
LEMMA ItemReady ==
  ASSUME LiveInv, pc = "color", NEW e \in Entries
  PROVE  LET s == e[1]
             item == Item(e[1], e[2])
             samples == Samples(s, item.material)
         IN  /\ ProgramFor(s, item) \in gl.programs
             /\ live[s].meshes[item.mesh] \in gl.vaos
             /\ Len(samples) \in Nat /\ Len(samples) + 2 <= MaxUnits
             /\ item.layer \in BOOLEAN
             /\ \A u \in Units : u < Len(samples) => Named(s, samples)[u] \in gl.textures
             /\ item.layer => Name(s, item.mask) \in gl.textures
             /\ shadow \in gl.textures \cup {0}
<1> DEFINE s == e[1]
           item == Item(e[1], e[2])
           samples == Samples(s, item.material)
<1>1. /\ e = <<e[1], e[2]>> /\ s \in DOMAIN live /\ s \in SceneSquares /\ Groups = live
      /\ Complete(s, live[s])
      /\ e[2] \in DOMAIN Visual[s].items /\ Whole(Visual[s])
      /\ item.mesh \in 1 .. Visual[s].meshes
      /\ item.material \in 0 .. Len(Visual[s].materials)
      /\ item.layer \in BOOLEAN
      /\ item.layer => item.mask \in DOMAIN Visual[s].textures
  BY ItemOf
<1>2. ProgramFor(s, item) \in gl.programs
  <2>1. useShadows \in BOOLEAN
    BY DEF LiveInv, Typed
  <2>2. ColorSource(s, item, useShadows) \in live[s].programs
    <3>1. CASE useShadows = TRUE
      BY <3>1 DEF LiveInv, Passing
    <3>2. CASE useShadows = FALSE
      BY <1>1, <3>2 DEF Complete, Sources
    <3> QED
      BY <2>1, <3>1, <3>2
  <2> QED
    BY <1>1, <2>2 DEF ProgramFor, LiveInv, Owned, OwnPrograms
<1>3. live[s].meshes[item.mesh] \in gl.vaos
  BY <1>1, MeshInUse
<1>4. samples \in Seq(DOMAIN Visual[s].textures) /\ Len(samples) + 2 <= MaxUnits
  BY <1>1, SamplesFit
<1>5. /\ Len(samples) \in Nat
      /\ \A u \in Units : u < Len(samples) => Named(s, samples)[u] \in gl.textures
  <2> HIDE DEF samples
  <2> QED
    BY <1>1, <1>4, NamedDoes
<1>6. item.layer => Name(s, item.mask) \in gl.textures
  BY <1>1, NameInUse
<1>7. shadow \in gl.textures \cup {0}
  BY DEF LiveInv, Owned, OwnTextures
<1> QED
  BY <1>1, <1>2, <1>3, <1>4, <1>5, <1>6, <1>7

(* A draw of the color pass keeps LiveInv and is of its own, whatever the *)
(* draw before it left bound.                                             *)
LEMMA DrawItemKeeps ==
  ASSUME LiveInv, DrawItem
  PROVE  LiveInv'
<1>0. /\ pc = "color" /\ pc' = "color"
      /\ shaders' = shaders /\ arrows' = arrows /\ entities' = entities /\ names' = names
      /\ live' = live /\ shadow' = shadow /\ shadows' = shadows /\ useShadows' = useShadows
  BY DEF DrawItem, residentVars
<1>1. PICK e \in todo : Paint(e[1], Item(e[1], e[2])) /\ todo' = todo \ {e}
  BY DEF DrawItem
<1> DEFINE s == e[1]
           item == Item(e[1], e[2])
           program == ProgramFor(s, item)
           key == MaterialKey(s, item)
           mesh == live[s].meshes[item.mesh]
           samples == Samples(s, item.material)
           material == <<s, item.material>>
           programChanged == last.program # program
           materialChanged == programChanged \/ last.key # key
           ready == IF programChanged THEN SetProgram(gl, program) ELSE gl
           set == IF materialChanged THEN SetMaterial(ready, s, item) ELSE ready
           wants == ItemTextures(s, item)
<1>2. e \in Entries /\ todo \subseteq Entries
  BY <1>0, <1>1 DEF LiveInv, Passing
<1>3. /\ gl' = IF last.vao # mesh THEN BindVertexArray(set, mesh) ELSE set
      /\ last' = [program |-> program, key |-> key, vao |-> mesh]
      /\ Draws(Sees(gl', DOMAIN wants), Wants(program, mesh, 0, material, wants))
  BY <1>1 DEF Paint
<1>4. /\ program \in gl.programs /\ mesh \in gl.vaos
      /\ Len(samples) \in Nat /\ Len(samples) + 2 <= MaxUnits
      /\ item.layer \in BOOLEAN
      /\ \A u \in Units : u < Len(samples) => Named(s, samples)[u] \in gl.textures
      /\ item.layer => Name(s, item.mask) \in gl.textures
      /\ shadow \in gl.textures \cup {0}
  BY <1>0, <1>2, ItemReady
<1>5. /\ ~ programChanged =>
           /\ gl.program = program
           /\ useShadows => gl.units[MaxUnits - 1] = shadow
      /\ ~ materialChanged =>
           /\ gl.material = material
           /\ \A u \in DOMAIN wants : gl.units[u] = wants[u]
      /\ last.vao = mesh => gl.vao = mesh
  BY <1>0, <1>2, Recalled
<1>6. IsContext(gl) /\ useShadows \in BOOLEAN /\ gl.framebuffer = 0
  BY <1>0 DEF LiveInv, Typed, Bound
<1>7. /\ \A u : u \in DOMAIN wants <=>
                  /\ u \in Units
                  /\ \/ u < Len(samples)
                     \/ item.layer /\ u = Len(samples)
                     \/ useShadows /\ u = MaxUnits - 1
      /\ \A u \in Units : u < Len(samples) => wants[u] = Named(s, samples)[u]
      /\ item.layer => wants[Len(samples)] = Name(s, item.mask)
      /\ useShadows => wants[MaxUnits - 1] = shadow
  BY <1>4, <1>6, ItemTexturesDoes
<1>8. wants = [u \in DOMAIN wants |-> wants[u]]
  BY DEF ItemTextures
<1>9. samples = Samples(s, item.material)
  OBVIOUS
<1> HIDE DEF s, item, program, key, mesh, samples, wants, programChanged, materialChanged
<1>10. /\ IsContext(ready) /\ ready.program = program /\ ready.vao = gl.vao
       /\ ready.framebuffer = 0 /\ ready.vaos = gl.vaos /\ ready.textures = gl.textures
       /\ ready.programs = gl.programs
       /\ useShadows => ready.units[MaxUnits - 1] = shadow
  <2> DEFINE h == SetProgram(gl, program)
  <2>1. /\ IsContext(h) /\ h.program = program /\ h.vao = gl.vao
        /\ h.framebuffer = gl.framebuffer /\ h.vaos = gl.vaos /\ h.textures = gl.textures
        /\ h.programs = gl.programs
        /\ useShadows => h.units[MaxUnits - 1] = shadow
    BY <1>4, <1>6, SetProgramDoes
  <2> HIDE DEF h
  <2>2. ready = IF programChanged THEN h ELSE gl
    BY DEF h
  <2> HIDE DEF ready
  <2> QED
    BY <1>5, <1>6, <2>1, <2>2
<1>11. ~ programChanged => ready = gl
  OBVIOUS
<1>12. programChanged => materialChanged
  BY DEF materialChanged
<1> HIDE DEF ready
<1>13. /\ IsContext(set) /\ set.program = program /\ set.vao = gl.vao
       /\ set.framebuffer = 0 /\ set.vaos = gl.vaos /\ set.textures = gl.textures
       /\ set.programs = gl.programs /\ set.material = material
       /\ \A u \in DOMAIN wants : set.units[u] = wants[u]
  <2> DEFINE h == SetMaterial(ready, s, item)
  <2>1. CASE materialChanged
    <3>1. /\ IsContext(h) /\ h.program = ready.program /\ h.vao = ready.vao
          /\ h.framebuffer = ready.framebuffer /\ h.vaos = ready.vaos
          /\ h.textures = ready.textures
          /\ h.programs = ready.programs /\ h.material = material
          /\ \A u \in Units : u < Len(samples) => h.units[u] = Named(s, samples)[u]
          /\ item.layer => h.units[Len(samples)] = Name(s, item.mask)
          /\ \A u \in Units : u > Len(samples) => h.units[u] = ready.units[u]
      BY <1>4, <1>9, <1>10, SetMaterialDoes
    <3>2. set = h
      BY <2>1
    <3> HIDE DEF h, set, material
    <3>3. ASSUME NEW u \in DOMAIN wants
          PROVE  h.units[u] = wants[u]
      <4>1. u \in Units /\ MaxUnits \in Nat
        BY <1>7, UnitsAssumption
      <4>2. CASE u < Len(samples)
        BY <1>7, <3>1, <4>1, <4>2
      <4>3. CASE item.layer /\ u = Len(samples)
        BY <1>7, <3>1, <4>3
      <4>4. CASE useShadows /\ u = MaxUnits - 1
        <5>1. u > Len(samples)
          BY <1>4, <4>1, <4>4
        <5> QED
          BY <1>7, <1>10, <3>1, <4>1, <4>4, <5>1
      <4> QED
        BY <1>7, <4>2, <4>3, <4>4
    <3> QED
      BY <1>10, <3>1, <3>2, <3>3
  <2>2. CASE ~ materialChanged
    <3>1. set = gl
      BY <1>11, <1>12, <2>2
    <3> HIDE DEF set, material
    <3>2. ready = gl
      BY <1>11, <1>12, <2>2
    <3> QED
      BY <1>5, <1>10, <2>2, <3>1, <3>2
  <2> QED
    BY <2>1, <2>2
<1> HIDE DEF set, material
<1>14. /\ IsContext(gl') /\ gl'.program = program /\ gl'.vao = mesh
       /\ gl'.framebuffer = 0 /\ gl'.vaos = gl.vaos /\ gl'.textures = gl.textures
       /\ gl'.programs = gl.programs /\ gl'.material = material
       /\ \A u \in DOMAIN wants : gl'.units[u] = wants[u]
  <2>1. CASE last.vao # mesh
    <3>1. gl' = BindVertexArray(set, mesh)
      BY <1>3, <2>1
    <3>2. /\ IsContext(gl') /\ gl'.program = set.program
          /\ gl'.vao = IF mesh \in set.vaos \cup {0} THEN mesh ELSE set.vao
          /\ gl'.framebuffer = set.framebuffer /\ gl'.vaos = set.vaos
          /\ gl'.textures = set.textures /\ gl'.units = set.units
          /\ gl'.programs = set.programs /\ gl'.material = set.material
      BY <1>13, <3>1, BindVertexArrayDoes
    <3> QED
      BY <1>4, <1>13, <3>2
  <2>2. CASE last.vao = mesh
    <3>1. gl' = set
      BY <1>3, <2>2
    <3> QED
      BY <1>5, <1>13, <2>2, <3>1
  <2> QED
    BY <2>1, <2>2
<1>15. astray' = {}
  <2>1. [u \in DOMAIN wants |-> gl'.units[u]] = wants
    BY <1>8, <1>14
  <2>2. Sees(gl', DOMAIN wants) = Wants(program, mesh, 0, material, wants)
    BY <1>14, <2>1 DEF Sees, Wants
  <2> QED
    BY <1>3, <2>2 DEF Draws
<1>16. Typed' /\ Placed' /\ Owned'
  <2>1. shadows \in BOOLEAN
    BY DEF LiveInv, Typed
  <2> QED
    BY <1>0, <1>6, <1>14, <2>1, SceneKept
<1>17. Bound'
  BY <1>0, <1>14 DEF Bound
<1>18. Entries' = Entries
  BY <1>0, SceneSame
<1>19. Passing'
  BY <1>0, <1>1, <1>2, <1>18 DEF LiveInv, Passing
<1>20. Remembered'
  <2>1. /\ ProgramFor(s, item)' = program /\ MaterialKey(s, item)' = key
        /\ (live[s].meshes[item.mesh])' = mesh
        /\ ItemTextures(s, item)' = wants
    BY <1>0 DEF program, key, mesh, wants, ProgramFor, MaterialKey, ItemTextures, Named, Name
  <2>2. last'.program = program /\ last'.vao = mesh
    BY <1>3
  <2>3. Shows(e)'
    BY <1>3, <1>14, <2>1, <2>2 DEF Shows, s, item, material
  <2> QED
    BY <1>0, <1>2, <1>18, <2>3 DEF Remembered
<1> QED
  BY <1>15, <1>16, <1>17, <1>19, <1>20 DEF LiveInv

(* LiveInv holds at first.                                                *)
LEMMA LiveStarts ==
  ASSUME LiveInit
  PROVE  LiveInv
<1>1. /\ gl = NewContext /\ shaders = {} /\ arrows = 0 /\ entities = <<>> /\ live = <<>>
      /\ names = <<>> /\ shadow = 0 /\ shadows = FALSE /\ useShadows = FALSE
      /\ pc = "idle" /\ todo = {} /\ last = Forgotten /\ astray = {}
  BY DEF LiveInit
<1>2. DOMAIN entities = {} /\ DOMAIN live = {} /\ DOMAIN names = {}
  BY <1>1
<1>3. Groups = live
  BY <1>1 DEF Groups
<1>4. /\ gl.program = None /\ gl.vao = 0 /\ gl.framebuffer = 0 /\ gl.active = 0
      /\ gl.units = [u \in Units |-> 0] /\ gl.vaos = {} /\ gl.textures = {}
      /\ gl.programs = {} /\ gl.cache.program = None /\ gl.cache.vao = 0
      /\ gl.cache.texture = 0
  BY <1>1 DEF NewContext
<1>5. IsContext(gl)
  <2>1. Numbers({})
    BY FS_EmptySet DEF Numbers
  <2>2. gl = [program |-> None, vao |-> 0, framebuffer |-> 0, active |-> 0,
              units |-> [u \in Units |-> 0], material |-> None,
              vaos |-> {}, textures |-> {}, programs |-> {},
              cache |-> [program |-> None, vao |-> 0, texture |-> 0]]
    BY <1>1 DEF NewContext
  <2> QED
    BY <2>1, <2>2 DEF IsContext
<1>6. Typed
  <2>1. IsFiniteSet(DOMAIN entities)
    BY <1>2, FS_EmptySet
  <2>2. <<>> = [x \in {} |-> 0]
    OBVIOUS
  <2>3. /\ entities = [group \in DOMAIN entities |-> entities[group]]
        /\ live = [s \in DOMAIN live |-> live[s]]
        /\ names = [key \in DOMAIN names |-> names[key]]
    BY <1>1, <2>2
  <2> QED
    BY <1>1, <1>2, <1>5, <2>1, <2>3 DEF Typed
<1>7. Placed
  BY <1>1, <1>2, <1>3 DEF Placed
<1>8. Owned
  <2>1. OwnMeshes(gl.vaos, entities, Groups)
    BY <1>2, <1>3, <1>4 DEF OwnMeshes
  <2>2. OwnTextures(gl.textures, names, Groups, arrows, shadow)
    BY <1>1, <1>2, <1>3, <1>4 DEF OwnTextures, Holds
  <2>3. OwnPrograms(gl.programs, shaders, Groups)
    BY <1>1, <1>2, <1>3, <1>4 DEF OwnPrograms
  <2> QED
    BY <1>1, <1>2, <2>1, <2>2, <2>3 DEF Owned
<1>9. Bound
  BY <1>1, <1>4, FirstUnit DEF Bound
<1>10. Passing /\ Remembered
  BY <1>1 DEF Passing, Remembered
<1> QED
  BY <1>1, <1>6, <1>7, <1>8, <1>9, <1>10 DEF LiveInv

(* LiveInv is about these variables only.                                 *)
LEMMA LiveStutters ==
  ASSUME LiveInv, UNCHANGED liveVars
  PROVE  LiveInv'
<1>1. /\ gl' = gl /\ shaders' = shaders /\ arrows' = arrows /\ entities' = entities
      /\ live' = live /\ names' = names /\ shadow' = shadow /\ shadows' = shadows
      /\ useShadows' = useShadows /\ pc' = pc /\ making' = making /\ todo' = todo
      /\ last' = last /\ astray' = astray
  BY DEF liveVars, residentVars, passVars
<1>2. Groups' = Groups
  BY <1>1 DEF Groups
<1>3. Typed'
  BY <1>1 DEF LiveInv, Typed
<1>4. Placed'
  BY <1>1, <1>2 DEF LiveInv, Placed
<1>5. Owned'
  BY <1>1, <1>2 DEF LiveInv, Owned
<1>6. Bound'
  BY <1>1, SceneSame DEF LiveInv, Bound
<1>7. Entries' = Entries /\ PassOf(pc)' = PassOf(pc)
  BY <1>1 DEF Entries, PassOf
<1>8. Passing'
  BY <1>1, <1>7 DEF LiveInv, Passing
<1>9. \A e : Shows(e)' = Shows(e)
  BY <1>1 DEF Shows, ProgramFor, MaterialKey, ItemTextures, Named, Name
<1>10. Remembered'
  BY <1>1, <1>7, <1>9 DEF LiveInv, Remembered
<1> QED
  BY <1>1, <1>3, <1>4, <1>5, <1>6, <1>8, <1>10 DEF LiveInv

(* Every step keeps LiveInv.                                              *)
LEMMA LiveStepKeeps ==
  ASSUME LiveInv, [LiveNext]_liveVars
  PROVE  LiveInv'
<1>1. CASE Streams
  <2>1. ASSUME NEW s \in SceneSquares, UploadTerrain(s) PROVE LiveInv'
    BY <2>1, UploadTerrainKeeps
  <2>2. ASSUME NEW s \in SceneSquares, NEW meshes \in {0, 1}, BeginDetail(s, meshes)
        PROVE  LiveInv'
    BY <2>2, BeginDetailKeeps
  <2>3. ASSUME NEW group \in SceneSquares \X Kinds, RemoveGroup(group) PROVE LiveInv'
    BY <2>3, RemoveGroupKeeps
  <2> QED
    BY <1>1, <2>1, <2>2, <2>3, MakeMeshKeeps, MakeTextureKeeps, MakeProgramKeeps, InstallKeeps,
       ImportKeeps, ThrowUploadKeeps DEF Streams
<1>2. CASE Frames
  <2>1. CASE EndCast
    <3>1. pc = "cast" /\ BeginColor(TRUE)
      BY <2>1 DEF EndCast
    <3> QED
      BY <3>1, BeginColorKeeps
  <2>2. CASE ThrowShadow
    <3>1. pc \in {"prepare", "cast"} /\ BeginColor(FALSE)
      BY <2>2 DEF ThrowShadow
    <3> QED
      BY <3>1, BeginColorKeeps
  <2> QED
    BY <1>2, <2>1, <2>2, BeginFrameKeeps, DrawEntityKeeps, BeginLiveKeeps, PrepareShadowKeeps,
       BeginCastKeeps, CastKeeps, SkipKeeps, DrawItemKeeps, EndLiveKeeps, EndFrameKeeps
       DEF Frames
<1>3. CASE ToggleShadows
  BY <1>3, ToggleShadowsKeeps
<1>4. CASE UNCHANGED liveVars
  BY <1>4, LiveStutters
<1> QED
  BY <1>1, <1>2, <1>3, <1>4 DEF LiveNext

(* In every state of the preview each name on the GPU has one owner, the   *)
(* bindings and the copy of them are what the point of the frame allows,   *)
(* what a pass has yet to look at is still there, and what the renderer    *)
(* remembers of its last draw is what is bound.                            *)
THEOREM LiveInvariant == LiveSpec => []LiveInv
<1>1. LiveInit => LiveInv
  BY LiveStarts
<1>2. LiveInv /\ [LiveNext]_liveVars => LiveInv'
  BY LiveStepKeeps
<1> QED
  BY <1>1, <1>2, PTL DEF LiveSpec

(* Every item fits the texture units.                                     *)
LEMMA ItemsFit ==
  ASSUME LiveInv, pc = "color", NEW e \in todo
  PROVE  Needed(e[1], Item(e[1], e[2])) <= Room
<1> DEFINE item == Item(e[1], e[2])
           n == Len(Samples(e[1], item.material))
<1>1. e \in Entries /\ useShadows \in BOOLEAN
  BY DEF LiveInv, Passing, Typed
<1>2. n \in Nat /\ n + 2 <= MaxUnits /\ item.layer \in BOOLEAN
  BY <1>1, ItemReady
<1>3. Needed(e[1], item) = n + (IF item.layer THEN 1 ELSE 0)
  BY DEF Needed
<1> HIDE DEF n, item
<1> QED
  BY <1>1, <1>2, <1>3, UnitsAssumption DEF Room, item

(* No draw call, of either renderer, ever finds another's program, mesh,   *)
(* target, texture or material bound, and none is refused for want of      *)
(* units, for every scene and any number of texture units above two.       *)
THEOREM DrawsAreTheirOwn == LiveSpec => []DrawsSeeTheirOwn
<1>1. ASSUME LiveInv PROVE DrawsSeeTheirOwn
  <2>1. pc \in {"overlay", "import"} => Agrees(gl)
    <3>1. gl.cache = [program |-> gl.cache.program, vao |-> gl.cache.vao, texture |-> gl.cache.texture]
      BY <1>1 DEF LiveInv, Typed, IsContext
    <3> QED
      BY <1>1, <3>1 DEF Agrees, LiveInv, Bound
  <2>2. pc = "color" => \A e \in todo : Needed(e[1], Item(e[1], e[2])) <= Room
    BY <1>1, ItemsFit
  <2> QED
    BY <1>1, <2>1, <2>2 DEF DrawsSeeTheirOwn, LiveInv
<1> QED
  BY <1>1, LiveInvariant, PTL

(* A set and its image under what tells its elements apart are of a size.  *)
LEMMA ImageSize ==
  ASSUME NEW S, NEW T, IsFiniteSet(T), NEW f \in [S -> T],
         \A x, y \in S : f[x] = f[y] => x = y,
         \A t \in T : \E x \in S : f[x] = t
  PROVE  IsFiniteSet(S) /\ Cardinality(T) = Cardinality(S)
<1>1. f \in Bijection(S, T)
  BY DEF Bijection, Injection, Surjection, IsInjective
<1>2. ExistsBijection(S, T)
  BY <1>1 DEF ExistsBijection
<1>3. ExistsBijection(T, S)
  BY <1>2, Fun_ExistsBijSymmetric
<1> QED
  BY <1>3, FS_Bijection

(* The sizes of sets that share nothing add up.                           *)
LEMMA DisjointSizes ==
  ASSUME NEW A, NEW B, IsFiniteSet(A), IsFiniteSet(B), A \cap B = {}
  PROVE  Cardinality(A \cup B) = Cardinality(A) + Cardinality(B)
<1>1. Cardinality(A \cup B) = Cardinality(A) + Cardinality(B) - Cardinality(A \cap B)
  BY FS_Union
<1>2. Cardinality(A \cap B) = 0
  BY FS_EmptySet
<1>3. Cardinality(A) \in Nat /\ Cardinality(B) \in Nat
  BY FS_CardinalityType
<1> QED
  BY <1>1, <1>2, <1>3

(* Between frames the meshes are those of the groups, one name each.      *)
LEMMA MeshesCounted ==
  ASSUME LiveInv, pc = "idle"
  PROVE  /\ gl.vaos = Vaos \ {0}
         /\ Cardinality(gl.vaos) = Cardinality(MeshGroups) + Cardinality(LiveMeshes)
<1>1. OwnMeshes(gl.vaos, entities, live) /\ 0 \notin gl.vaos /\ IsFiniteSet(gl.vaos)
  BY IdleGroups DEF LiveInv, Owned, Typed, IsContext, Numbers
<1> DEFINE A == {entities[group] : group \in MeshGroups}
           B == UNION {ToSet(live[s].meshes) : s \in DOMAIN live}
<1>2. \A v : v \in B <=> \E s \in DOMAIN live : \E i \in DOMAIN live[s].meshes : live[s].meshes[i] = v
  BY DEF ToSet
<1>3. \A v : v \in A <=> v # 0 /\ \E group \in DOMAIN entities : entities[group] = v
  BY DEF MeshGroups
<1>4. gl.vaos = A \cup B
  <2> HIDE DEF A, B
  <2> QED
    BY <1>1, <1>2, <1>3 DEF OwnMeshes
<1>5. gl.vaos = Vaos \ {0}
  <2>1. Vaos \ {0} = A \cup B
    <3>1. \A v : v \in Vaos <=> (\E group \in DOMAIN entities : entities[group] = v) \/ v \in B
      BY DEF Vaos
    <3>2. 0 \notin B
      BY <1>1, <1>4
    <3> HIDE DEF A, B
    <3> QED
      BY <1>3, <3>1, <3>2
  <2> QED
    BY <1>4, <2>1
<1>6. A \cap B = {}
  <2> HIDE DEF A, B
  <2> QED
    BY <1>1, <1>2, <1>3 DEF OwnMeshes
<1>7. IsFiniteSet(A) /\ IsFiniteSet(B)
  BY <1>1, <1>4, FS_Subset
<1>8. Cardinality(A) = Cardinality(MeshGroups)
  <2> DEFINE f == [group \in MeshGroups |-> entities[group]]
  <2>1. f \in [MeshGroups -> A]
    OBVIOUS
  <2>2. \A x, y \in MeshGroups : f[x] = f[y] => x = y
    BY <1>1 DEF OwnMeshes, MeshGroups
  <2>3. \A v \in A : \E x \in MeshGroups : f[x] = v
    OBVIOUS
  <2> HIDE DEF f, A
  <2> QED
    BY <1>7, <2>1, <2>2, <2>3, ImageSize
<1>9. Cardinality(B) = Cardinality(LiveMeshes)
  <2> DEFINE f == [p \in LiveMeshes |-> live[p[1]].meshes[p[2]]]
  <2>0. \A p : p \in LiveMeshes <=> \E s \in DOMAIN live : \E i \in DOMAIN live[s].meshes : p = <<s, i>>
    BY DEF LiveMeshes
  <2>1. \A p \in LiveMeshes : f[p] \in B
    BY <1>2, <2>0
  <2>2. f \in [LiveMeshes -> B]
    <3> HIDE DEF B
    <3> QED
      BY <2>1
  <2>3. \A x, y \in LiveMeshes : f[x] = f[y] => x = y
    BY <1>1, <2>0 DEF OwnMeshes
  <2>4. \A v \in B : \E x \in LiveMeshes : f[x] = v
    <3> TAKE v \in B
    <3>0. PICK s \in DOMAIN live : \E i \in DOMAIN live[s].meshes : live[s].meshes[i] = v
      BY <1>2
    <3>1. PICK i \in DOMAIN live[s].meshes : live[s].meshes[i] = v
      BY <3>0
    <3>2. <<s, i>> \in LiveMeshes
      BY <2>0
    <3>3. f[<<s, i>>] = v
      BY <3>1, <3>2
    <3> QED
      BY <3>2, <3>3
  <2> HIDE DEF f, B
  <2> QED
    BY <1>7, <2>2, <2>3, <2>4, ImageSize
<1> HIDE DEF A, B
<1> QED
  BY <1>4, <1>5, <1>6, <1>7, <1>8, <1>9, DisjointSizes

(* Between frames the textures are those in use, one name each.           *)
LEMMA TexturesCounted ==
  ASSUME LiveInv, pc = "idle"
  PROVE  /\ gl.textures = Textures \ {0}
         /\ Cardinality(gl.textures) = Cardinality(Held) + Cardinality({arrows, shadow} \ {0})
<1>1. OwnTextures(gl.textures, names, live, arrows, shadow) /\ IsFiniteSet(gl.textures)
  BY IdleGroups DEF LiveInv, Owned, Typed, IsContext, Numbers
<1>2. Held = DOMAIN names
  <2>1. Held = HeldBy(live)
    BY DEF Held
  <2>2. \A key : key \in HeldBy(live) <=> key \in DOMAIN names
    BY <1>1, HeldByDoes DEF OwnTextures
  <2> QED
    BY <2>1, <2>2
<1> DEFINE A == {names[key] : key \in Held}
           B == {arrows, shadow} \ {0}
<1>3. gl.textures = A \cup B /\ A \cap B = {} /\ 0 \notin A
  BY <1>1, <1>2 DEF OwnTextures
<1>4. gl.textures = Textures \ {0}
  BY <1>3 DEF Textures
<1>5. IsFiniteSet(A) /\ IsFiniteSet(B)
  BY <1>1, <1>3, FS_Subset
<1>6. Cardinality(A) = Cardinality(Held)
  <2> DEFINE f == [key \in Held |-> names[key]]
  <2>1. f \in [Held -> A]
    OBVIOUS
  <2>2. \A x, y \in Held : f[x] = f[y] => x = y
    BY <1>1, <1>2 DEF OwnTextures
  <2>3. \A t \in A : \E x \in Held : f[x] = t
    OBVIOUS
  <2> HIDE DEF f, A
  <2> QED
    BY <1>5, <2>1, <2>2, <2>3, ImageSize
<1> HIDE DEF A
<1> QED
  BY <1>3, <1>4, <1>5, <1>6, DisjointSizes

(* Between frames the GPU holds exactly what the resident groups need, each*)
(* mesh and each texture under a name of its own, whatever has been loaded,*)
(* removed, has failed or has thrown; a square has its live group, and its *)
(* geodata, with its scene group and not without; and no shadow map        *)
(* outlives the last live group.                                           *)
THEOREM NothingIsLeaked == LiveSpec => []GpuHoldsResidents
<1>1. ASSUME LiveInv, pc = "idle"
      PROVE  /\ gl.programs = Programs
             /\ DOMAIN live = {s \in SceneSquares : <<s, "detail">> \in DOMAIN entities}
             /\ \A s \in SceneSquares :
                  <<s, "geodata">> \in DOMAIN entities => <<s, "detail">> \in DOMAIN entities
             /\ live = <<>> => shadow = 0
  <2>1. Groups = live
    BY <1>1, IdleGroups
  <2>2. OwnPrograms(gl.programs, shaders, live)
    BY <1>1, <2>1 DEF LiveInv, Owned
  <2>3. \A p : p \in Programs <=> p \in gl.programs
    BY <2>2 DEF OwnPrograms, Programs
  <2>4. live = <<>> => shadow = 0
    BY <1>1 DEF LiveInv, Owned
  <2> QED
    BY <1>1, <2>1, <2>3, <2>4 DEF LiveInv, Placed
<1>2. ASSUME LiveInv PROVE GpuHoldsResidents
  BY <1>1, <1>2, MeshesCounted, TexturesCounted DEF GpuHoldsResidents
<1> QED
  BY <1>2, LiveInvariant, PTL
=============================================================================
