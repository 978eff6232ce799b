--------------------------- MODULE PathfindingLab ---------------------------
(***************************************************************************)
(* The Pathfinding Lab window: the navigation data it loads on a thread of *)
(* its own, the endpoints picked on it, and the query they are submitted   *)
(* in.  Everything runs in the frame of the UI thread but the load itself; *)
(* a frame polls the controller and the loader and then serves one input.  *)
(* The controller is seen as RouteQuery shows it: a query is active and    *)
(* ends, with an answer or without.                                        *)
(***************************************************************************)
EXTENDS Integers, FiniteSets

CONSTANTS
  Files,        (* what the map and file fields of the window can name       *)
  Blank,        (* the selection of nothing                                  *)
  MapsAlone,    (* the selections of a map and no file                       *)
  Spots,        (* surfaces that a click can find                            *)
  Searches,     (* search limits                                             *)
  Profiles,     (* backend profiles, with the benchmark counts               *)
  Cases,        (* saved cases: files, endpoints, search, baseline           *)
  MaxRevision,  (* bound: inputs that count as a revision                    *)
  None          (* no data, no point, no case                                *)

(* What the window and the loader hold: requests, loads under way or ready,*)
(* data, and endpoints, which tell what data or case they belong to.       *)
Request == [files : Files, case : Cases \cup {None}]
Load == [request : Request, generation : Nat, found : {"loading", "data", "error"}]
Dataset == [files : Files, case : Cases \cup {None}, generation : Nat]
Endpoint == [spot : Spots, of : [generation : Nat] \cup Cases]

LabAssumption ==
  /\ Blank \in Files /\ MapsAlone \subseteq Files
  /\ Cases \subseteq [files : Files, a : Spots, b : Spots, search : Searches,
                      baseline : {"none", "saved"}]
  /\ MaxRevision \in Nat
  /\ None \notin Cases \cup Request \cup Load \cup Dataset \cup Endpoint
ASSUME LabAssumption

VARIABLES
  fields,      (* map, L2J and Navmesh files as selected                     *)
  loadedCase,  (* loaded_case                                                *)
  baseline,    (* expected_backends: none, of a saved case, or recorded from *)
               (* the answer on display                                      *)
  settings,    (* search limits, and profile with benchmark counts           *)
  generation,  (* m_generation of the loader                                 *)
  pending,     (* m_pending: [files, case], or None                          *)
  load,        (* m_future: the load under way or ready, or None             *)
  dataset,     (* the data on display: [files, case, generation], or None    *)
  a, b,        (* the endpoints: [spot, of], where of tells the data they    *)
               (* were picked on, or the case they came with                 *)
  top,         (* Top view                                                   *)
  picking,     (* none, a or b                                               *)
  candidates,  (* floors offered for the point that is picked                *)
  error,       (* the message of the window: none or some                    *)
  revision,    (* counts what makes an answer old                            *)
  submitted,   (* the revision of the query started last                     *)
  active,      (* controller.active()                                        *)
  asked,       (* submitted_case() with its settings, or None                *)
  answered     (* controller.results() is not empty                          *)

inputVars == <<fields, loadedCase, baseline, settings>>
loaderVars == <<generation, pending, load>>
pickVars == <<top, picking, candidates>>
queryVars == <<submitted, active, asked, answered>>
vars == <<inputVars, loaderVars, dataset, a, b, pickVars, error, revision, queryVars>>

Settings == [search : Searches, profile : Profiles]

Init ==
  /\ fields = Blank /\ settings \in Settings
  /\ loadedCase = None /\ baseline = "none"
  /\ generation = 0 /\ pending = None /\ load = None
  /\ dataset = None /\ a = None /\ b = None
  /\ top = FALSE /\ picking = "none" /\ candidates = {}
  /\ error = "none"
  /\ revision = 0 /\ submitted = 0
  /\ active = FALSE /\ asked = None /\ answered = FALSE

(* An input of the user that counts as a revision.                         *)
Revises ==
  /\ revision < MaxRevision
  /\ revision' = revision + 1

-----------------------------------------------------------------------------
(* The loader.                                                             *)

LoaderActive == pending # None \/ load # None

(* request(): replaces what waits; a load under way goes on.               *)
Requests(request) ==
  /\ generation' = generation + 1
  /\ pending' = request
  /\ UNCHANGED load

Invalidates ==
  /\ generation' = generation + 1
  /\ pending' = None
  /\ UNCHANGED load

(* What waits is launched under the generation of this moment.             *)
Launched ==
  IF pending = None THEN None
  ELSE [request |-> pending, generation |-> generation, found |-> "loading"]

(* The thread: data, or an exception, of a saved case also for files that  *)
(* have changed since.                                                     *)
LoadReturns ==
  /\ load # None /\ load.found = "loading"
  /\ \E found \in {"data", "error"} : load' = [load EXCEPT !.found = found]
  /\ UNCHANGED <<inputVars, generation, pending, dataset, a, b, pickVars, error, revision, queryVars>>

(* Mutant of Wanted: whatever is ready is shown.                           *)
WantedAnyway == TRUE

Wanted == load.generation = generation

(* Mutant of IsReady: a load that nobody waits for is never collected.     *)
IsReadyAndWanted == load # None /\ load.found # "loading" /\ Wanted

IsReady == load # None /\ load.found # "loading"

(* poll() collects what is ready and launches what waits; the window takes *)
(* the data, with the endpoints of the case if there is one.               *)
PollLoaded ==
  /\ IsReady /\ Wanted
  /\ pending' = None
  /\ load' = Launched
  /\ IF load.found = "data"
       THEN /\ dataset' = [files |-> load.request.files, case |-> load.request.case,
                           generation |-> load.generation]
            /\ IF loadedCase # None
                 THEN /\ a' = [spot |-> loadedCase.a, of |-> loadedCase]
                      /\ b' = [spot |-> loadedCase.b, of |-> loadedCase]
                 ELSE UNCHANGED <<a, b>>
            /\ revision' = revision + 1
            /\ error' = "none"
       ELSE /\ dataset' = None
            /\ error' = "some"
            /\ UNCHANGED <<a, b, revision>>
  /\ UNCHANGED <<inputVars, generation, pickVars, queryVars>>

PollOutdated ==
  /\ IsReady /\ ~ Wanted
  /\ pending' = None
  /\ load' = Launched
  /\ UNCHANGED <<inputVars, generation, dataset, a, b, pickVars, error, revision, queryVars>>

PollLaunch ==
  /\ load = None /\ pending # None
  /\ pending' = None
  /\ load' = Launched
  /\ UNCHANGED <<inputVars, generation, dataset, a, b, pickVars, error, revision, queryVars>>

PollLoader == PollLoaded \/ PollOutdated \/ PollLaunch

-----------------------------------------------------------------------------
(* Choosing data; not while a query runs.                                  *)

(* clear_points().                                                         *)
ClearsPoints ==
  /\ Revises
  /\ a' = None /\ b' = None
  /\ candidates' = {} /\ picking' = "none"

(* Mutant of Drops: the endpoints stay.                                    *)
DropsDataAlone ==
  /\ Revises
  /\ dataset' = None
  /\ candidates' = {} /\ picking' = "none"
  /\ UNCHANGED <<a, b>>

Drops == ClearsPoints /\ dataset' = None

(* A field is edited: nothing of the old files remains.                    *)
ChangeFields ==
  /\ ~ active
  /\ fields' \in Files
  /\ Invalidates
  /\ Drops
  /\ loadedCase' = None /\ baseline' = "none"
  /\ UNCHANGED <<settings, top, error, queryVars>>

(* default_navigation_map(): while nothing is chosen, the map field takes  *)
(* the map under the camera.                                               *)
FollowCamera ==
  /\ fields = Blank /\ fields' \in MapsAlone
  /\ dataset = None /\ loadedCase = None /\ ~ LoaderActive
  /\ UNCHANGED <<loadedCase, baseline, settings, loaderVars, dataset, a, b, pickVars, error,
                 revision, queryVars>>

LoadData ==
  /\ ~ active
  /\ loadedCase' = None /\ baseline' = "none"
  /\ Drops
  /\ Requests([files |-> fields, case |-> None])
  /\ error' = "none"
  /\ UNCHANGED <<fields, settings, top, queryVars>>

LoadCase ==
  /\ ~ active
  /\ \E case \in Cases :
       /\ loadedCase' = case
       /\ settings' = [settings EXCEPT !.search = case.search]
       /\ baseline' = case.baseline
       /\ fields' = case.files
       /\ Requests([files |-> case.files, case |-> case])
  /\ Drops
  /\ error' = "none"
  /\ UNCHANGED <<top, queryVars>>

(* The files of the case have changed: take them as they are, and keep its *)
(* endpoints for a new comparison.                                         *)
Adopt ==
  /\ ~ active
  /\ loadedCase # None /\ dataset = None /\ ~ LoaderActive /\ error = "some"
  /\ Drops
  /\ Requests([files |-> fields, case |-> None])
  /\ error' = "none"
  /\ UNCHANGED <<inputVars, top, queryVars>>

ChangeSettings ==
  /\ ~ active
  /\ settings' \in Settings
  /\ Revises
  /\ UNCHANGED <<fields, loadedCase, baseline, loaderVars, dataset, a, b, pickVars, error, queryVars>>

AcceptBackends ==
  /\ ~ active
  /\ baseline # "none"
  /\ baseline' = "none"
  /\ Revises
  /\ UNCHANGED <<fields, loadedCase, settings, loaderVars, dataset, a, b, pickVars, error, queryVars>>

-----------------------------------------------------------------------------
(* Picking endpoints; also while a query runs.                             *)

ToggleTop ==
  /\ top' = ~ top
  /\ candidates' = {} /\ picking' = "none"
  /\ UNCHANGED <<inputVars, loaderVars, dataset, a, b, error, revision, queryVars>>

Pickable == dataset # None /\ top /\ ~ LoaderActive

Pick ==
  /\ Pickable
  /\ picking' \in {"a", "b"}
  /\ candidates' = {}
  /\ UNCHANGED <<inputVars, loaderVars, dataset, a, b, top, error, revision, queryVars>>

(* Mutant of Chooses: a point is replaced and no revision counted.         *)
ChoosesQuietly(point) ==
  /\ UNCHANGED revision
  /\ IF picking = "a"
       THEN a' = point /\ picking' = "b" /\ UNCHANGED b
       ELSE b' = point /\ picking' = "none" /\ UNCHANGED a
  /\ candidates' = {}

(* choose_floor(): after A it is B's turn.                                 *)
Chooses(point) ==
  /\ Revises
  /\ IF picking = "a"
       THEN a' = point /\ picking' = "b" /\ UNCHANGED b
       ELSE b' = point /\ picking' = "none" /\ UNCHANGED a
  /\ candidates' = {}

DataTag == [generation |-> dataset.generation]

(* A click: no surface, one, or several to choose from.                    *)
Click ==
  /\ top /\ picking # "none" /\ dataset # None /\ candidates = {}
  /\ \E found \in SUBSET [spot : Spots, of : {DataTag}] :
       /\ error' = IF found = {} THEN "some" ELSE "none"
       /\ IF Cardinality(found) = 1
            THEN \E point \in found : Chooses(point)
            ELSE candidates' = found /\ UNCHANGED <<a, b, picking, revision>>
  /\ UNCHANGED <<inputVars, loaderVars, dataset, top, queryVars>>

ChooseFloor ==
  /\ picking # "none"
  /\ \E point \in candidates : Chooses(point)
  /\ UNCHANGED <<inputVars, loaderVars, dataset, top, error, queryVars>>

Escape ==
  /\ picking' = "none" /\ candidates' = {}
  /\ UNCHANGED <<inputVars, loaderVars, dataset, a, b, top, error, revision, queryVars>>

Swap ==
  /\ Pickable
  /\ Revises
  /\ a' = b /\ b' = a
  /\ candidates' = {}
  /\ UNCHANGED <<inputVars, loaderVars, dataset, top, picking, error, queryVars>>

Clear ==
  /\ Pickable
  /\ ClearsPoints
  /\ UNCHANGED <<inputVars, loaderVars, dataset, top, error, queryVars>>

-----------------------------------------------------------------------------
(* The query.                                                              *)

Ready == ~ active /\ dataset # None /\ a # None /\ b # None

Query == [data |-> dataset, from |-> a, to |-> b, settings |-> settings, baseline |-> baseline]

Submits == submitted' = revision

(* controller.start(): the answer before is gone in any case.              *)
FindPath ==
  /\ Ready
  /\ answered' = FALSE
  /\ \/ active' = TRUE /\ asked' = Query /\ Submits
     \/ active' = FALSE /\ asked' \in {asked, Query} /\ UNCHANGED submitted
  /\ UNCHANGED <<inputVars, loaderVars, dataset, a, b, pickVars, error, revision>>

(* A case or profile that cannot be read, a query that route() refuses     *)
(* (equal endpoints, a case that does not validate), a file not written.   *)
Complain ==
  /\ ~ active
  /\ error' = "some"
  /\ UNCHANGED <<inputVars, loaderVars, dataset, a, b, pickVars, revision, queryVars>>

QueryEnds ==
  /\ active
  /\ active' = FALSE
  /\ answered' \in BOOLEAN
  /\ UNCHANGED <<inputVars, loaderVars, dataset, a, b, pickVars, error, revision, submitted, asked>>

(* The backends of an answer that is not old become the baseline.          *)
SaveCase ==
  /\ Ready
  /\ baseline' = IF revision = submitted /\ answered THEN "recorded" ELSE baseline
  /\ UNCHANGED <<fields, loadedCase, settings, loaderVars, dataset, a, b, pickVars, error,
                 revision, queryVars>>

-----------------------------------------------------------------------------

Next ==
  \/ LoadReturns \/ PollLoader
  \/ ChangeFields \/ FollowCamera \/ LoadData \/ LoadCase \/ Adopt \/ ChangeSettings \/ AcceptBackends
  \/ ToggleTop \/ Pick \/ Click \/ ChooseFloor \/ Escape \/ Swap \/ Clear
  \/ FindPath \/ Complain \/ QueryEnds \/ SaveCase

Spec == Init /\ [][Next]_vars

(* Every frame polls the loader, and reading files comes to an end.        *)
FairSpec ==
  /\ Spec
  /\ WF_vars(PollLoader)
  /\ WF_vars(LoadReturns)

-----------------------------------------------------------------------------

Generations == 0 .. MaxRevision + 1

InputsOK ==
  /\ fields \in Files /\ settings \in Settings
  /\ loadedCase \in Cases \cup {None}
  /\ baseline \in {"none", "saved", "recorded"}

LoaderOK ==
  /\ generation \in Nat
  /\ pending \in Request \cup {None}
  /\ load \in Load \cup {None}
  /\ dataset \in Dataset \cup {None}

PointsOK ==
  /\ a \in Endpoint \cup {None} /\ b \in Endpoint \cup {None}
  /\ picking \in {"none", "a", "b"}
  /\ candidates \subseteq Endpoint

FlagsOK == error \in {"none", "some"} /\ {top, active, answered} \subseteq BOOLEAN

RevisionsOK == revision \in 0 .. MaxRevision + 1 /\ submitted \in 0 .. revision

(* Every variable holds a value of its kind, and no query is of a revision *)
(* that has not been there.                                                *)
TypeOK == InputsOK /\ LoaderOK /\ PointsOK /\ FlagsOK /\ RevisionsOK

(* The data on display is what the fields of the window name now and what  *)
(* was requested last, however late loads return; and a case that is still *)
(* waiting for its data is either being loaded or has reported an error,   *)
(* so that its files can be adopted.                                       *)
DataIsCurrent ==
  /\ dataset # None =>
       /\ dataset.files = fields /\ dataset.generation = generation
       /\ dataset.case \in {loadedCase, None}
  /\ loadedCase # None /\ dataset = None => LoaderActive \/ error = "some"

(* Endpoints, and the floors offered for one, belong to the data on        *)
(* display: they were picked on it, or came with the case it is loaded for.*)
PointsFitData ==
  \A p \in ({a, b} \ {None}) \cup candidates :
    /\ dataset # None
    /\ p.of = DataTag \/ (loadedCase # None /\ p.of = loadedCase)

(* An answer that is not drawn as old answers the question that the window *)
(* would submit now.  (Saving the case records the backends of this very   *)
(* answer and does not make it old.)                                       *)
AnswerIsFresh ==
  answered /\ revision = submitted =>
    asked = [Query EXCEPT !.baseline = IF @ = "recorded" THEN asked.baseline ELSE @]

(* Data that is asked for arrives or fails, unless something else is asked *)
(* for meanwhile: an outdated load may delay it and not keep it waiting.   *)
Loading == pending # None \/ (load # None /\ load.generation = generation)
LoadsSettle ==
  \A g \in Generations : Loading /\ generation = g ~> generation # g \/ ~ Loading

=============================================================================
