---------------------------- MODULE MapStreaming ----------------------------
(***************************************************************************)
(* The preview's map streaming: the user's selection, the camera, the      *)
(* streaming system that reconciles the renderer's scene with them once    *)
(* per frame, and the loader of MapLoading serving it from its own thread. *)
(*                                                                         *)
(* The main thread's tick takes the loader's mutex three times (completed, *)
(* started, reconcile); the worker runs between any two of them. The calls *)
(* of is_current in between read only what reconcile itself writes, so     *)
(* they are part of the last step.                                         *)
(***************************************************************************)
EXTENDS MapLoading

CONSTANTS
  Squares,       (* where the camera can be: the catalog and its outside    *)
  Startup,       (* the squares of the maps named on the command line       *)
  MaxGeneration, (* bound: the user acts while nextGeneration is at most it *)
  Inputs,        (* bound: the kinds of user input that a run explores      *)
  MayClose       (* the session can end: explored in a run of its own       *)

ASSUME StreamingAssumption ==
  /\ Catalog \subseteq Squares
  /\ Squares \subseteq Int \X Int
  /\ Startup \subseteq Catalog
  /\ Seed \in Startup
  /\ MaxGeneration \in Nat
  /\ Inputs \subseteq {"camera", "squares", "all", "auto", "ring"}
  /\ MayClose \in BOOLEAN

VARIABLES
  manual, retry, auto, ring,   (* the selection: chosen squares, squares     *)
                               (* chosen again, the two switches             *)
  camera,                      (* the square under the camera, Nowhere until *)
                               (* the grid transform can tell               *)
  current,                     (* the selection's current square             *)
  grid,                        (* the grid transform is known                *)
  status,                      (* what the Maps window reports for a key     *)
  desired,                     (* the keys the last tick wanted              *)
  groups,                      (* key -> its scene group, or Absent          *)
  requested,                   (* key -> generation asked for, or Absent     *)
  failed,                      (* keys whose load or upload failed           *)
  nextGeneration,
  scene,                       (* the groups alive in the renderer           *)
  hidden,                      (* those among them that are not drawn        *)
  main,                        (* where the main thread is                   *)
  taken, begun                 (* the results and the started requests that  *)
                               (* the running tick has taken                 *)

selectionVars == <<manual, retry, auto, ring>>
residencyVars == <<current, grid, status, desired, groups, requested, failed,
                   nextGeneration, scene, hidden>>
tickVars == <<main, taken, begun>>
vars == <<loaderVars, selectionVars, camera, residencyVars, tickVars>>

Status == {"not_resident", "queued", "loading", "resident", "failed"}

(* A scene group is named by its key and the generation that filled it:    *)
(* two uploads never yield the same group.                                 *)
Group == [key : Key, generation : Generation]

FirstGeneration == 1

GroupOf(k, g) == [key |-> k, generation |-> g]

TypeOK ==
  /\ LoaderTypeOK
  /\ manual \in SUBSET Catalog
  /\ retry \in SUBSET Catalog
  /\ auto \in BOOLEAN
  /\ ring \in BOOLEAN
  /\ camera \in Squares \cup {Nowhere}
  /\ current \in Squares \cup {Nowhere}
  /\ grid \in BOOLEAN
  /\ status \in [Key -> Status]
  /\ desired \in SUBSET Key
  /\ groups \in [Key -> Generation \cup {Absent}]
  /\ requested \in [Key -> Generation \cup {Absent}]
  /\ failed \in SUBSET Key
  /\ nextGeneration \in Generation
  /\ scene \in SUBSET Group
  /\ hidden \in SUBSET Group
  /\ main \in {"idle", "completed taken", "started taken", "reconciled",
               "notified", "stopping", "joining", "stopped"}
  /\ taken \in SUBSET Result
  /\ begun \in SUBSET Request

Init ==
  /\ LoaderInit
  /\ manual = Startup
  /\ retry = Startup
  /\ auto = TRUE
  /\ ring = TRUE
  /\ camera = Nowhere
  /\ current = Nowhere
  /\ grid = FALSE
  /\ status = [k \in Key |-> "not_resident"]
  /\ desired = {}
  /\ groups = [k \in Key |-> Absent]
  /\ requested = [k \in Key |-> Absent]
  /\ failed = {}
  /\ nextGeneration = FirstGeneration
  /\ scene = {}
  /\ hidden = {}
  /\ main = "idle"
  /\ taken = {}
  /\ begun = {}

-----------------------------------------------------------------------------
(* A frame: the camera moves, the tick runs, and then the check boxes and  *)
(* buttons of the Maps and Rendering windows are drawn. One mouse operates *)
(* at most one of them in a frame.                                         *)

UserMayAct == nextGeneration <= MaxGeneration

MoveCamera ==
  /\ main = "idle"
  /\ UserMayAct
  /\ "camera" \in Inputs
  /\ grid
  /\ camera' \in Squares
  /\ UNCHANGED <<loaderVars, selectionVars, residencyVars, tickVars>>

SelectSquare ==
  /\ "squares" \in Inputs
  /\ \E c \in Catalog \ manual :
       /\ manual' = manual \cup {c}
       /\ retry' = retry \cup {c}
  /\ UNCHANGED <<auto, ring>>

UnselectSquare ==
  /\ "squares" \in Inputs
  /\ \E c \in manual : manual' = manual \ {c}
  /\ UNCHANGED <<retry, auto, ring>>

(* Select All asks for no retry.                                           *)
SelectAll ==
  /\ "all" \in Inputs
  /\ manual' = Catalog
  /\ UNCHANGED <<retry, auto, ring>>

ClearManual ==
  /\ "all" \in Inputs
  /\ manual' = {}
  /\ UNCHANGED <<retry, auto, ring>>

SetAutoLoad ==
  /\ "auto" \in Inputs
  /\ auto' = ~ auto
  /\ UNCHANGED <<manual, retry, ring>>

(* The check box is disabled while automatic loading is off.               *)
SetIncludeNeighbors ==
  /\ "ring" \in Inputs
  /\ auto
  /\ ring' = ~ ring
  /\ UNCHANGED <<manual, retry, auto>>

NoInput == UNCHANGED selectionVars

Controls ==
  /\ main = "notified"
  /\ \/ NoInput
     \/ /\ UserMayAct
        /\ \/ SelectSquare
           \/ UnselectSquare
           \/ SelectAll
           \/ ClearManual
           \/ SetAutoLoad
           \/ SetIncludeNeighbors
  /\ main' = "idle"
  /\ UNCHANGED <<loaderVars, camera, residencyVars, taken, begun>>

-----------------------------------------------------------------------------
(* The tick.                                                               *)

TakeCompleted ==
  /\ main = "idle"
  /\ taken' = completed
  /\ completed' = {}
  /\ main' = "completed taken"
  /\ UNCHANGED <<queueVars, started, stopping, workerVars, selectionVars,
                 camera, residencyVars, begun>>

(* Mutant of TakeStarted: the list is copied, not swapped, and its notices *)
(* come back in the next tick.                                             *)
TakeStartedCopy ==
  /\ main = "completed taken"
  /\ begun' = started
  /\ main' = "started taken"
  /\ UNCHANGED <<loaderVars, selectionVars, camera, residencyVars, taken>>

TakeStarted ==
  /\ main = "completed taken"
  /\ begun' = started
  /\ started' = {}
  /\ main' = "started taken"
  /\ UNCHANGED <<queueVars, completed, stopping, workerVars, selectionVars,
                 camera, residencyVars, taken>>

(* The seed terrain has arrived with a usable bounding box: the grid is    *)
(* known from now on and the camera is put over the seed square.           *)
SeedArrived ==
  /\ ~ grid
  /\ \E r \in taken : /\ r.request.key = SeedTerrain
                      /\ r.outcome = "map"
                      /\ IsCurrent(r.request)

GridKnown == grid \/ SeedArrived
CameraSquare == IF SeedArrived THEN Seed ELSE camera
CurrentSquare == IF GridKnown THEN CameraSquare ELSE Nowhere

Wanted == DesiredKeys(manual, CurrentSquare, auto, ring)

(* Mutant of Retried: every frame tries every failure again.               *)
RetriedAlways == failed

(* Failures the user asked to try again by selecting the square anew.      *)
Retried == {k \in failed : k.square \in retry}

(* The result of the request that is outstanding for its key, once the     *)
(* requests for keys that are no longer wanted have been given up.         *)
Owns(r, want) ==
  /\ r.request.key \in want
  /\ requested[r.request.key] = r.request.generation

Accepted(want) == {r \in taken : Owns(r, want) /\ IsCurrent(r.request)}

(* Accepted results that are handed to the renderer: a payload, and not a  *)
(* seed terrain that leaves the grid unknown.                              *)
Uploadable(want) ==
  {r \in Accepted(want) :
     /\ r.outcome \in Payloads
     /\ r.request.key = SeedTerrain => GridKnown}

KeysOf(results) == {r.request.key : r \in results}

(* Requests that stay outstanding, and requests that are given up.         *)
Outstanding(want) ==
  {k \in want : /\ requested[k] # Absent
                /\ \A r \in taken : r.request.key = k => ~ Owns(r, want)}

Cancelled(want) == {k \in Key \ want : requested[k] # Absent}

(* What the tick leaves behind, given the results that were uploaded.      *)
GroupsAfter(want, uploaded) ==
  [k \in Key |->
     IF k \notin want THEN Absent
     ELSE IF k \in KeysOf(uploaded) THEN requested[k]
     ELSE groups[k]]

FailedAfter(want, uploaded) ==
  ((failed \ Retried) \cap want) \cup KeysOf(Accepted(want) \ uploaded)

(* Mutant of SceneAfter: a group that is no longer wanted is forgotten     *)
(* without being removed from the scene.                                   *)
SceneNothingRemoved(want, uploaded) ==
  scene \cup {GroupOf(r.request.key, r.request.generation) : r \in uploaded}

SceneAfter(want, uploaded) ==
  (scene \ {GroupOf(k, groups[k]) : k \in {j \in Key \ want : groups[j] # Absent}})
    \cup {GroupOf(r.request.key, r.request.generation) : r \in uploaded}

(* Each Terrain group is hidden while the same square's Detail is there.   *)
Covered(k, after) == k.layer = "terrain" /\ after[Detail(k.square)] # Absent

(* Mutant of HiddenAfter: a Terrain is hidden when its Detail arrives and  *)
(* never shown again.                                                      *)
HiddenForGood(after, groupsLeft) ==
  (hidden \cap groupsLeft)
    \cup {GroupOf(k, after[k]) : k \in {j \in Key : after[j] # Absent /\ Covered(j, after)}}

HiddenAfter(after, groupsLeft) ==
  LET terrain == {k \in Key : k.layer = "terrain" /\ after[k] # Absent}
      untouched == (hidden \cap groupsLeft) \ {GroupOf(k, after[k]) : k \in terrain}
  IN  untouched \cup {GroupOf(k, after[k]) : k \in {j \in terrain : Covered(j, after)}}

(* Wanted keys with nothing resident, failed or outstanding are asked for, *)
(* Detail first, each under a generation of its own.                       *)
Missing(want, uploaded) ==
  {k \in want \ (FailedAfter(want, uploaded) \cup Outstanding(want)) :
     GroupsAfter(want, uploaded)[k] = Absent}

EnqueuedBefore(j, k) ==
  \/ j.layer = "detail" /\ k.layer = "terrain"
  \/ j.layer = k.layer /\ SquareBefore(j.square, k.square)

(* Mutant of RequestedAfter: a key is asked for under the same generation  *)
(* every time.                                                             *)
RequestedUnderOne(want, missing) ==
  [k \in Key |-> IF k \in missing \cup Outstanding(want) THEN FirstGeneration ELSE Absent]

RequestedAfter(want, missing) ==
  [k \in Key |->
     IF k \in missing
       THEN nextGeneration + Cardinality({j \in missing : EnqueuedBefore(j, k)})
       ELSE IF k \in Outstanding(want) THEN requested[k] ELSE Absent]

(* Every outstanding request is sent again with the priority of this       *)
(* frame's camera; the queue refreshes the entry or ignores it.            *)
Sent(want, missing) ==
  [k \in missing \cup Outstanding(want) |->
     [key |-> k,
      generation |-> RequestedAfter(want, missing)[k],
      priority |-> PriorityOf(k, want, CurrentSquare)]]

Marked(statuses, keys, value) ==
  [k \in Key |-> IF k \in keys THEN value ELSE statuses[k]]

(* The calls of set_status in their order.                                 *)
StatusAfter(want, uploaded, missing) ==
  LET begunKeys == {r.key : r \in {b \in begun : IsCurrent(b) /\ b.key \in want}}
      given == {k \in Key \ want :
                  groups[k] # Absent \/ k \in failed \ Retried \/ requested[k] # Absent}
      retried == Marked(status, Retried, "not_resident")
      loading == Marked(retried, begunKeys, "loading")
      dropped == Marked(loading, given, "not_resident")
      shown   == Marked(dropped, KeysOf(uploaded), "resident")
      broken  == Marked(shown, KeysOf(Accepted(want) \ uploaded), "failed")
  IN  Marked(broken, missing, "queued")

(* The rest of tick. Some uploads may throw: uploaded holds those that do  *)
(* not; a failed upload has removed its partial group again.               *)
ReconcileTick ==
  /\ main = "started taken"
  /\ \E want \in {Wanted} :
     \E uploaded \in SUBSET Uploadable(want) :
     \E missing \in {Missing(want, uploaded)}, after \in {GroupsAfter(want, uploaded)},
        alive \in {SceneAfter(want, uploaded)} :
       /\ desired' = want
       /\ groups' = after
       /\ failed' = FailedAfter(want, uploaded)
       /\ scene' = alive
       /\ hidden' = HiddenAfter(after, alive)
       /\ requested' = RequestedAfter(want, missing)
       /\ nextGeneration' = nextGeneration + Cardinality(missing)
       /\ status' = StatusAfter(want, uploaded, missing)
       /\ Reconcile(Sent(want, missing), Cancelled(want))
  /\ grid' = GridKnown
  /\ camera' = CameraSquare
  /\ current' = CurrentSquare
  /\ retry' = {}
  /\ taken' = {}
  /\ begun' = {}
  /\ main' = "reconciled"
  /\ UNCHANGED <<started, completed, stopping, workerVars, manual, auto, ring>>

(* Mutant of NotifyWorker: reconcile forgets to notify.                    *)
NotifyNobody ==
  /\ main = "reconciled"
  /\ main' = "notified"
  /\ UNCHANGED <<loaderVars, selectionVars, camera, residencyVars, taken, begun>>

NotifyWorker ==
  /\ main = "reconciled"
  /\ Notify
  /\ main' = "notified"
  /\ UNCHANGED <<queueVars, started, completed, stopping, job, outcome,
                 selectionVars, camera, residencyVars, taken, begun>>

Tick == TakeCompleted \/ TakeStarted \/ ReconcileTick \/ NotifyWorker

-----------------------------------------------------------------------------
(* The session ends: the loader is destroyed with the streaming system.    *)

BeginShutdown ==
  /\ MayClose
  /\ main = "idle"
  /\ stopping' = TRUE
  /\ pending' = {}
  /\ main' = "stopping"
  /\ UNCHANGED <<latest, started, completed, workerVars, selectionVars, camera,
                 residencyVars, taken, begun>>

(* Mutant of NotifyShutdown: the destructor joins without a notification.  *)
NotifyNobodyAtShutdown ==
  /\ main = "stopping"
  /\ main' = "joining"
  /\ UNCHANGED <<loaderVars, selectionVars, camera, residencyVars, taken, begun>>

NotifyShutdown ==
  /\ main = "stopping"
  /\ Notify
  /\ main' = "joining"
  /\ UNCHANGED <<queueVars, started, completed, stopping, job, outcome,
                 selectionVars, camera, residencyVars, taken, begun>>

Join ==
  /\ main = "joining"
  /\ phase = "exited"
  /\ main' = "stopped"
  /\ UNCHANGED <<loaderVars, selectionVars, camera, residencyVars, taken, begun>>

Shutdown == NotifyShutdown \/ Join

(* The session is over; nothing is left to run.                            *)
Finished == main = "stopped" /\ UNCHANGED vars

-----------------------------------------------------------------------------

WorkerSteps ==
  /\ Worker
  /\ UNCHANGED <<selectionVars, camera, residencyVars, tickVars>>

SpuriousWake ==
  /\ WorkerSpuriousWake
  /\ UNCHANGED <<selectionVars, camera, residencyVars, tickVars>>

Next ==
  \/ MoveCamera
  \/ Tick
  \/ Controls
  \/ BeginShutdown
  \/ Shutdown
  \/ WorkerSteps
  \/ SpuriousWake
  \/ Finished

Spec == Init /\ [][Next]_vars

(* The frame loop runs on, a destructor runs to its end, and the worker    *)
(* thread is scheduled: a load returns. Nothing makes the user act.        *)
FairSpec ==
  /\ Spec
  /\ WF_vars(Tick \/ Controls)
  /\ WF_vars(Shutdown)
  /\ WF_vars(WorkerSteps)

-----------------------------------------------------------------------------
(* What a correct streaming system guarantees.                             *)

(* The places where an answer to the request of generation g for k can     *)
(* still come from: the queue, the worker, or a result on its way.         *)
IsRequest(r, k, g) == r.key = k /\ r.generation = g

Waits(k, g) == \E p \in pending : IsRequest(p, k, g)
IsLoaded(k, g) == phase \in {"loading", "returned"} /\ IsRequest(job, k, g)
HasResult(k, g) == \E r \in completed \cup taken : IsRequest(r.request, k, g)

(* No request is lost and none is answered twice: what the system believes *)
(* to be outstanding is, at every moment and across every interleaving     *)
(* with the worker, in exactly one place that will answer it (until the    *)
(* session ends, when the queue is dropped).                               *)
RequestsAreLive ==
  ~ stopping =>
    \A k \in Key : requested[k] # Absent =>
      LET g == requested[k] IN
      /\ Waits(k, g) \/ IsLoaded(k, g) \/ HasResult(k, g)
      /\ ~ (Waits(k, g) /\ IsLoaded(k, g))
      /\ ~ (Waits(k, g) /\ HasResult(k, g))
      /\ ~ (IsLoaded(k, g) /\ HasResult(k, g))

(* What the Maps window reports about a key is what the system holds for   *)
(* it: set_status is called all over the tick, and a late "started" notice *)
(* must not overwrite a resident or failed key with "loading".             *)
StatusIsTruthful ==
  \A k \in Key :
    /\ status[k] = "resident" <=> groups[k] # Absent
    /\ status[k] = "failed" <=> k \in failed
    /\ status[k] \in {"queued", "loading"} <=> requested[k] # Absent

(* Nothing leaks: the groups alive in the renderer are those the system    *)
(* still knows, so each can be removed when its key is no longer wanted.   *)
SceneHasNoLeak ==
  scene = {GroupOf(k, groups[k]) : k \in {j \in Key : groups[j] # Absent}}

(* A square is never blank and never drawn twice: its Terrain is hidden    *)
(* exactly while its Detail is resident, whatever order the two arrive,    *)
(* fail and go in.                                                         *)
TerrainIsFallback ==
  \A c \in Catalog :
    groups[Terrain(c)] # Absent =>
      (GroupOf(Terrain(c), groups[Terrain(c)]) \in hidden
         <=> groups[Detail(c)] # Absent)

(* The queue serves this frame's needs: every waiting request has the      *)
(* priority that the camera and the selection of the last tick give it.    *)
PrioritiesAreFresh ==
  \A p \in pending : p.priority = PriorityOf(p.key, desired, current)

(* The user never sees a cancellation as a failure: a load that gave up    *)
(* because it was superseded reports to nobody. Tick marks a key failed    *)
(* for any exception, so the worker's second look at the queue must drop   *)
(* this one, even when the key was asked for again in the meantime.        *)
CancellationIsNoFailure ==
  \A r \in completed \cup taken : r.outcome # "cancelled"

-----------------------------------------------------------------------------
(* The streaming system keeps the promise of ResidencyPromise.             *)

ResidencyOf(k) ==
  IF requested[k] # Absent THEN "pending"
  ELSE IF groups[k] # Absent THEN "resident"
  ELSE IF k \in failed THEN "failed"
  ELSE "absent"

Promise == INSTANCE ResidencyPromise WITH
  Keys <- Key,
  wanted <- desired,
  again <- {k \in Key : k.square \in retry},
  residency <- [k \in Key |-> ResidencyOf(k)],
  open <- main \notin {"stopping", "joining", "stopped"}

(* Seen from the scene, each frame moves every key along the abstract life *)
(* cycle absent, pending, resident or failed, all keys at once.            *)
ImplementsPromise == Promise!Spec

(* Every key that is waited for is settled: it becomes resident or fails,  *)
(* or is given up, unless the session ends. No wake-up of the worker and   *)
(* no request may get lost for this.                                       *)
PendingKeysSettle == Promise!PendingKeysSettle

(* The destructor ends: the worker notices that it has to stop wherever it *)
(* is, asleep or loading, and is joined.                                   *)
ShutdownCompletes == stopping ~> main = "stopped"

=============================================================================
