------------------------ MODULE PathfindingLabProofs ------------------------
(***************************************************************************)
(* Proofs of the safety properties of PathfindingLab, for all files,       *)
(* surfaces, settings, cases and revisions.                                *)
(***************************************************************************)
EXTENDS PathfindingLab, TLAPS

(* What is asked for and not outdated.                                     *)
Awaited == IF pending # None THEN pending ELSE load.request

(* Every generation is a revision, a load belongs to one that was there,   *)
(* and what waits makes every load outdated.                               *)
InOrder ==
  /\ generation <= revision
  /\ load # None => load.generation <= generation
  /\ load # None /\ pending # None => load.generation < generation

(* Nothing is on display while something is asked for, and that is what    *)
(* the fields name.                                                        *)
LoadsWhatIsNamed ==
  Loading =>
    /\ revision <= MaxRevision
    /\ dataset = None
    /\ Awaited.files = fields
    /\ Awaited.case \in {loadedCase, None}

CaseIsServed == loadedCase # None /\ dataset = None => Loading \/ error = "some"

(* As AnswerIsFresh, already while the query runs.                         *)
QuestionIsFresh ==
  (active \/ answered) /\ revision = submitted =>
    /\ dataset # None
    /\ asked = [data |-> dataset, from |-> a, to |-> b, settings |-> settings,
                baseline |-> IF baseline = "recorded" THEN asked.baseline ELSE baseline]

LabInv ==
  /\ TypeOK
  /\ InOrder
  /\ LoadsWhatIsNamed
  /\ DataIsCurrent
  /\ CaseIsServed
  /\ PointsFitData
  /\ QuestionIsFresh

-----------------------------------------------------------------------------
(* The constants.                                                          *)

LEMMA RevisionsEnd == MaxRevision \in Nat
BY LabAssumption DEF LabAssumption

LEMMA NoneIsNothing ==
  None \notin Cases /\ None \notin Request /\ None \notin Load
    /\ None \notin Dataset /\ None \notin Endpoint
BY LabAssumption DEF LabAssumption

LEMMA CaseParts ==
  ASSUME NEW case \in Cases
  PROVE  /\ case.files \in Files /\ case.a \in Spots /\ case.b \in Spots
         /\ case.search \in Searches /\ case.baseline \in {"none", "saved"}
BY LabAssumption DEF LabAssumption

LEMMA MapsAreFiles == Blank \in Files /\ MapsAlone \subseteq Files
BY LabAssumption DEF LabAssumption

-----------------------------------------------------------------------------
(* What several actions have in common.                                    *)

LEMMA InitInv == Init => LabInv
<1> SUFFICES ASSUME Init PROVE LabInv
  OBVIOUS
<1> USE DEF Init
<1>1. TypeOK
  <2>1. InputsOK /\ LoaderOK /\ PointsOK
    BY MapsAreFiles DEF InputsOK, LoaderOK, PointsOK
  <2>2. FlagsOK
    BY DEF FlagsOK
  <2>3. RevisionsOK
    BY RevisionsEnd DEF RevisionsOK
  <2> QED
    BY <2>1, <2>2, <2>3 DEF TypeOK
<1>2. InOrder /\ LoadsWhatIsNamed /\ DataIsCurrent /\ CaseIsServed
  BY DEF InOrder, LoadsWhatIsNamed, Loading, DataIsCurrent, CaseIsServed
<1>3. PointsFitData /\ QuestionIsFresh
  BY DEF PointsFitData, QuestionIsFresh
<1> QED
  BY <1>1, <1>2, <1>3 DEF LabInv

(* A counted revision makes every question old.                            *)
LEMMA RevisionCounted ==
  ASSUME RevisionsOK, Revises, submitted' = submitted
  PROVE  /\ RevisionsOK'
         /\ revision' = revision + 1 /\ revision' <= MaxRevision
         /\ QuestionIsFresh'
BY RevisionsEnd DEF RevisionsOK, Revises, QuestionIsFresh

LEMMA SameQuestion ==
  ASSUME QuestionIsFresh, UNCHANGED <<dataset, a, b, settings, baseline, revision, queryVars>>
  PROVE  QuestionIsFresh'
BY DEF QuestionIsFresh, queryVars

(* The loader, its data and what they are loaded for stay.                 *)
LEMMA LoaderUntouched ==
  ASSUME LabInv,
         UNCHANGED <<fields, loadedCase, loaderVars, dataset>>,
         revision' = revision \/ (revision' = revision + 1 /\ revision' <= MaxRevision),
         error' = error \/ error' = "some" \/ dataset # None
  PROVE  LoaderOK' /\ InOrder' /\ LoadsWhatIsNamed' /\ DataIsCurrent' /\ CaseIsServed'
<1> USE DEF LabInv, loaderVars
<1>1. LoaderOK'
  BY DEF TypeOK, LoaderOK
<1>2. InOrder'
  BY DEF InOrder, TypeOK, LoaderOK, RevisionsOK
<1>3. LoadsWhatIsNamed'
  BY DEF LoadsWhatIsNamed, Loading, Awaited
<1>4. DataIsCurrent'
  BY DEF DataIsCurrent, LoaderActive
<1>5. CaseIsServed'
  BY DEF CaseIsServed, Loading
<1> QED
  BY <1>1, <1>2, <1>3, <1>4, <1>5

(* Endpoints are only moved or taken from the candidates.                  *)
LEMMA PointsKept ==
  ASSUME PointsOK, PointsFitData,
         UNCHANGED <<loadedCase, dataset>>,
         a' \in {a, b, None} \cup candidates,
         b' \in {a, b, None} \cup candidates,
         candidates' \subseteq candidates,
         picking' \in {"none", "a", "b"}
  PROVE  PointsOK' /\ PointsFitData'
BY DEF PointsOK, PointsFitData, DataTag

(* Nothing of the data before remains.                                     *)
LEMMA AllDropped ==
  ASSUME LabInv, Drops, UNCHANGED queryVars
  PROVE  /\ RevisionsOK' /\ revision' = revision + 1 /\ revision' <= MaxRevision
         /\ QuestionIsFresh'
         /\ PointsOK' /\ PointsFitData'
<1>1. Revises /\ submitted' = submitted /\ RevisionsOK
  BY DEF Drops, ClearsPoints, queryVars, LabInv, TypeOK
<1>2. PointsOK' /\ PointsFitData'
  BY DEF Drops, ClearsPoints, PointsOK, PointsFitData
<1> QED
  BY <1>1, <1>2, RevisionCounted

(* A new request for what the fields name.                                 *)
LEMMA DataRequested ==
  ASSUME LabInv, Drops, UNCHANGED queryVars,
         NEW case \in {loadedCase', None}, loadedCase' \in Cases \cup {None},
         fields' \in Files,
         Requests([files |-> fields', case |-> case])
  PROVE  LoaderOK' /\ InOrder' /\ LoadsWhatIsNamed' /\ DataIsCurrent' /\ CaseIsServed'
<1> DEFINE request == [files |-> fields', case |-> case]
<1>0. /\ generation' = generation + 1 /\ pending' = request /\ load' = load
      /\ dataset' = None
      /\ request \in Request /\ request # None
  BY NoneIsNothing DEF Requests, Drops, Request
<1>a. LoaderOK /\ RevisionsOK /\ InOrder
  BY DEF LabInv, TypeOK
<1>b. revision' = revision + 1 /\ revision' <= MaxRevision
  BY AllDropped
<1>1. LoaderOK'
  BY <1>0, <1>a DEF LoaderOK
<1>2. InOrder'
  BY <1>0, <1>a, <1>b DEF InOrder, LoaderOK, Load, RevisionsOK
<1>3. LoadsWhatIsNamed'
  BY <1>0, <1>b DEF LoadsWhatIsNamed, Awaited
<1>4. DataIsCurrent'
  BY <1>0 DEF DataIsCurrent, LoaderActive
<1>5. CaseIsServed'
  BY <1>0 DEF CaseIsServed, Loading
<1> QED
  BY <1>1, <1>2, <1>3, <1>4, <1>5

-----------------------------------------------------------------------------
(* The loader.                                                             *)

(* What is launched is what waits, under the generation of the moment.     *)
LEMMA LaunchedLoad ==
  ASSUME LoaderOK
  PROVE  /\ Launched \in Load \cup {None}
         /\ pending = None => Launched = None
         /\ pending # None => /\ Launched # None
                              /\ Launched.request = pending
                              /\ Launched.generation = generation
BY NoneIsNothing DEF LoaderOK, Launched, Load

LEMMA LoadReturnsInv == LabInv /\ LoadReturns => LabInv'
<1> SUFFICES ASSUME LabInv, LoadReturns PROVE LabInv'
  OBVIOUS
<1> USE DEF LoadReturns, LabInv, inputVars, pickVars, queryVars
<1>0. /\ load # None /\ load \in Load
      /\ load' \in Load /\ load' # None
      /\ load'.request = load.request /\ load'.generation = load.generation
  BY NoneIsNothing DEF TypeOK, LoaderOK, Load
<1>1. TypeOK'
  BY <1>0 DEF TypeOK, InputsOK, LoaderOK, PointsOK, FlagsOK, RevisionsOK
<1>2. InOrder' /\ LoadsWhatIsNamed'
  BY <1>0 DEF InOrder, LoadsWhatIsNamed, Loading, Awaited
<1>3. DataIsCurrent' /\ CaseIsServed'
  BY <1>0 DEF DataIsCurrent, LoaderActive, CaseIsServed, Loading
<1>4. PointsFitData'
  BY DEF PointsFitData, DataTag
<1>5. QuestionIsFresh'
  BY SameQuestion
<1> QED
  BY <1>1, <1>2, <1>3, <1>4, <1>5

(* Launching changes nothing but where the request is.                     *)
LEMMA LaunchInv ==
  ASSUME LabInv, load = None \/ load.generation # generation,
         pending' = None, load' = Launched,
         UNCHANGED <<inputVars, generation, dataset, a, b, pickVars, error, revision, queryVars>>
  PROVE  LabInv'
<1> USE DEF LabInv, inputVars, pickVars, queryVars
<1>0. LoaderOK
  BY DEF TypeOK
<1>1. TypeOK'
  BY <1>0, LaunchedLoad DEF TypeOK, InputsOK, LoaderOK, PointsOK, FlagsOK, RevisionsOK
<1>2. InOrder' /\ LoadsWhatIsNamed'
  BY <1>0, LaunchedLoad DEF InOrder, LoadsWhatIsNamed, Loading, Awaited, LoaderOK
<1>3. DataIsCurrent' /\ CaseIsServed'
  BY <1>0, LaunchedLoad DEF DataIsCurrent, LoaderActive, CaseIsServed, Loading
<1>4. PointsFitData'
  BY DEF PointsFitData, DataTag
<1>5. QuestionIsFresh'
  BY SameQuestion
<1> QED
  BY <1>1, <1>2, <1>3, <1>4, <1>5

(* The data that is waited for: nothing was on display, and no endpoint    *)
(* was there.                                                              *)
LEMMA PollLoadedInv == LabInv /\ PollLoaded => LabInv'
<1> SUFFICES ASSUME LabInv, PollLoaded PROVE LabInv'
  OBVIOUS
<1> USE DEF PollLoaded, IsReady, Wanted, inputVars, pickVars, queryVars
<1>0. InputsOK /\ LoaderOK /\ PointsOK /\ FlagsOK /\ RevisionsOK /\ InOrder
  BY DEF LabInv, TypeOK
<1>1. load \in Load /\ load.request \in Request /\ load.generation = generation
  BY <1>0 DEF LoaderOK, Load
<1>2. pending = None
  BY <1>0, <1>1 DEF InOrder, LoaderOK, Load
<1>3. load' = None /\ pending' = None
  BY <1>0, <1>2, LaunchedLoad
<1>4. /\ revision <= MaxRevision /\ dataset = None
      /\ load.request.files = fields /\ load.request.case \in {loadedCase, None}
  BY <1>2 DEF LabInv, LoadsWhatIsNamed, Loading, Awaited
<1>5. a = None /\ b = None /\ candidates = {}
  BY <1>4 DEF LabInv, PointsFitData
<1>6. ~ Loading'
  BY <1>3 DEF Loading
<1>7. InputsOK' /\ FlagsOK'
  BY <1>0 DEF InputsOK, FlagsOK
<1>8. LoadsWhatIsNamed'
  BY <1>6 DEF LoadsWhatIsNamed
<1>9. CASE load.found = "data"
  <2> DEFINE data == [files |-> load.request.files, case |-> load.request.case,
                      generation |-> load.generation]
  <2>1. dataset' = data /\ data \in Dataset /\ data # None
    BY <1>0, <1>1, <1>9, NoneIsNothing DEF LoaderOK, Load, Request, Dataset
  <2>2. revision' = revision + 1
    BY <1>9
  <2>3. RevisionsOK' /\ QuestionIsFresh' /\ InOrder'
    BY <1>0, <1>3, <1>4, <2>2, RevisionsEnd DEF RevisionsOK, InOrder, QuestionIsFresh, LoaderOK
  <2>4. LoaderOK'
    BY <1>0, <1>3, <2>1 DEF LoaderOK
  <2>5. DataIsCurrent' /\ CaseIsServed'
    BY <1>1, <1>4, <2>1 DEF DataIsCurrent, CaseIsServed
  <2>6. PointsOK' /\ PointsFitData'
    <3>1. CASE loadedCase # None
      <4>1. loadedCase \in Cases /\ loadedCase.a \in Spots /\ loadedCase.b \in Spots
        BY <1>0, <3>1, CaseParts DEF InputsOK
      <4>2. /\ a' = [spot |-> loadedCase.a, of |-> loadedCase]
            /\ b' = [spot |-> loadedCase.b, of |-> loadedCase]
        BY <1>9, <3>1
      <4>3. a' \in Endpoint /\ b' \in Endpoint /\ a'.of = loadedCase /\ b'.of = loadedCase
        BY <4>1, <4>2 DEF Endpoint
      <4> QED
        BY <1>0, <1>5, <2>1, <3>1, <4>3 DEF PointsOK, PointsFitData
    <3>2. CASE loadedCase = None
      BY <1>0, <1>5, <1>9, <3>2 DEF PointsOK, PointsFitData
    <3> QED
      BY <3>1, <3>2
  <2> QED
    BY <1>7, <1>8, <2>3, <2>4, <2>5, <2>6 DEF LabInv, TypeOK
<1>10. CASE load.found # "data"
  <2>1. /\ dataset' = None /\ error' = "some"
        /\ UNCHANGED <<a, b, revision>>
    BY <1>10
  <2>2. RevisionsOK' /\ InOrder' /\ LoaderOK'
    BY <1>0, <1>3, <2>1 DEF RevisionsOK, InOrder, LoaderOK
  <2>3. DataIsCurrent' /\ CaseIsServed'
    BY <2>1 DEF DataIsCurrent, CaseIsServed
  <2>4. PointsOK' /\ PointsFitData'
    BY <1>0, <1>5, <2>1 DEF PointsOK, PointsFitData
  <2>5. QuestionIsFresh'
    BY <1>4, <2>1 DEF LabInv, QuestionIsFresh
  <2> QED
    BY <1>7, <1>8, <2>2, <2>3, <2>4, <2>5 DEF LabInv, TypeOK
<1> QED
  BY <1>9, <1>10

LEMMA PollLoaderInv == LabInv /\ PollLoader => LabInv'
<1>1. LabInv /\ PollOutdated => LabInv'
  BY LaunchInv DEF PollOutdated, Wanted
<1>2. LabInv /\ PollLaunch => LabInv'
  BY LaunchInv DEF PollLaunch
<1> QED
  BY <1>1, <1>2, PollLoadedInv DEF PollLoader

-----------------------------------------------------------------------------
(* Choosing data.                                                          *)

LEMMA ChangeFieldsInv == LabInv /\ ChangeFields => LabInv'
<1> SUFFICES ASSUME LabInv, ChangeFields PROVE LabInv'
  OBVIOUS
<1> USE DEF ChangeFields, Invalidates
<1>0. InputsOK /\ LoaderOK /\ FlagsOK /\ RevisionsOK /\ InOrder
  BY DEF LabInv, TypeOK
<1>1. /\ RevisionsOK' /\ revision' = revision + 1
      /\ QuestionIsFresh' /\ PointsOK' /\ PointsFitData'
  BY AllDropped
<1>2. dataset' = None /\ ~ Loading'
  BY <1>0 DEF Drops, Loading, InOrder, LoaderOK, Load
<1>3. InputsOK' /\ FlagsOK' /\ LoaderOK'
  BY <1>0, <1>2 DEF InputsOK, FlagsOK, LoaderOK, queryVars
<1>4. InOrder' /\ LoadsWhatIsNamed'
  BY <1>0, <1>1, <1>2 DEF InOrder, LoadsWhatIsNamed, LoaderOK, Load, RevisionsOK
<1>5. DataIsCurrent' /\ CaseIsServed'
  BY <1>2 DEF DataIsCurrent, CaseIsServed
<1> QED
  BY <1>1, <1>3, <1>4, <1>5 DEF LabInv, TypeOK

LEMMA FollowCameraInv == LabInv /\ FollowCamera => LabInv'
<1> SUFFICES ASSUME LabInv, FollowCamera PROVE LabInv'
  OBVIOUS
<1> USE DEF FollowCamera, LabInv, loaderVars, pickVars, queryVars
<1>1. TypeOK'
  BY MapsAreFiles DEF TypeOK, InputsOK, LoaderOK, PointsOK, FlagsOK, RevisionsOK
<1>2. InOrder' /\ LoadsWhatIsNamed'
  BY DEF InOrder, LoadsWhatIsNamed, Loading, LoaderActive
<1>3. DataIsCurrent' /\ CaseIsServed'
  BY DEF DataIsCurrent, CaseIsServed
<1>4. PointsFitData' /\ QuestionIsFresh'
  BY SameQuestion DEF PointsFitData, DataTag
<1> QED
  BY <1>1, <1>2, <1>3, <1>4

LEMMA LoadDataInv == LabInv /\ LoadData => LabInv'
<1> SUFFICES ASSUME LabInv, LoadData PROVE LabInv'
  OBVIOUS
<1> USE DEF LoadData
<1>1. InputsOK' /\ FlagsOK'
  BY DEF LabInv, TypeOK, InputsOK, FlagsOK, queryVars
<1>2. LoaderOK' /\ InOrder' /\ LoadsWhatIsNamed' /\ DataIsCurrent' /\ CaseIsServed'
  <2>1. fields' = fields /\ fields' \in Files /\ loadedCase' = None
    BY <1>1 DEF InputsOK
  <2>2. Requests([files |-> fields', case |-> None])
    BY <2>1
  <2> QED
    BY <2>1, <2>2, DataRequested
<1> QED
  BY <1>1, <1>2, AllDropped DEF LabInv, TypeOK

LEMMA LoadCaseInv == LabInv /\ LoadCase => LabInv'
<1> SUFFICES ASSUME LabInv, LoadCase PROVE LabInv'
  OBVIOUS
<1>1. PICK case \in Cases :
        /\ loadedCase' = case
        /\ settings' = [settings EXCEPT !.search = case.search]
        /\ baseline' = case.baseline
        /\ fields' = case.files
        /\ Requests([files |-> case.files, case |-> case])
  BY DEF LoadCase
<1>2. Drops /\ error' = "none" /\ UNCHANGED <<top, queryVars>>
  BY DEF LoadCase
<1>3. InputsOK' /\ FlagsOK'
  <2>1. settings' \in Settings
    BY <1>1, CaseParts DEF LabInv, TypeOK, InputsOK, Settings
  <2>2. FlagsOK'
    BY <1>2 DEF LabInv, TypeOK, FlagsOK, queryVars
  <2> QED
    BY <1>1, <2>1, <2>2, CaseParts DEF InputsOK
<1>4. LoaderOK' /\ InOrder' /\ LoadsWhatIsNamed' /\ DataIsCurrent' /\ CaseIsServed'
  <2>1. Requests([files |-> fields', case |-> loadedCase']) /\ fields' \in Files
    BY <1>1, CaseParts
  <2> QED
    BY <1>1, <1>2, <2>1, DataRequested
<1> QED
  BY <1>2, <1>3, <1>4, AllDropped DEF LabInv, TypeOK

LEMMA AdoptInv == LabInv /\ Adopt => LabInv'
<1> SUFFICES ASSUME LabInv, Adopt PROVE LabInv'
  OBVIOUS
<1> USE DEF Adopt, inputVars
<1>1. InputsOK' /\ FlagsOK'
  BY DEF LabInv, TypeOK, InputsOK, FlagsOK, queryVars
<1>2. LoaderOK' /\ InOrder' /\ LoadsWhatIsNamed' /\ DataIsCurrent' /\ CaseIsServed'
  <2>1. /\ Requests([files |-> fields', case |-> None])
        /\ fields' \in Files /\ loadedCase' \in Cases \cup {None}
    BY <1>1 DEF InputsOK
  <2> QED
    BY <2>1, DataRequested
<1> QED
  BY <1>1, <1>2, AllDropped DEF LabInv, TypeOK

(* Settings and baseline: the data and the endpoints stay, the question    *)
(* does not.                                                               *)
LEMMA SettingsInv == LabInv /\ (ChangeSettings \/ AcceptBackends) => LabInv'
<1> SUFFICES ASSUME LabInv, ChangeSettings \/ AcceptBackends PROVE LabInv'
  OBVIOUS
<1> USE DEF ChangeSettings, AcceptBackends
<1>1. /\ Revises
      /\ UNCHANGED <<fields, loadedCase, loaderVars, dataset, a, b, pickVars, error, queryVars>>
  OBVIOUS
<1>2. RevisionsOK' /\ QuestionIsFresh' /\ revision' = revision + 1 /\ revision' <= MaxRevision
  BY <1>1, RevisionCounted DEF LabInv, TypeOK, queryVars
<1>3. InputsOK' /\ FlagsOK'
  BY DEF LabInv, TypeOK, InputsOK, FlagsOK, pickVars, queryVars
<1>4. LoaderOK' /\ InOrder' /\ LoadsWhatIsNamed' /\ DataIsCurrent' /\ CaseIsServed'
  BY <1>1, <1>2, LoaderUntouched
<1>5. PointsOK' /\ PointsFitData'
  BY <1>1, PointsKept DEF LabInv, TypeOK, PointsOK, pickVars
<1> QED
  BY <1>2, <1>3, <1>4, <1>5 DEF LabInv, TypeOK

-----------------------------------------------------------------------------
(* Picking endpoints.                                                      *)

(* All of it: the loader and the inputs stay, the endpoints come from the  *)
(* data on display, and one that changes is a revision.                    *)
LEMMA PickingInv ==
  ASSUME LabInv,
         UNCHANGED <<inputVars, loaderVars, dataset, queryVars>>,
         top' \in BOOLEAN,
         error' \in {"none", "some"},
         error' = error \/ dataset # None,
         \/ UNCHANGED <<a, b, revision>>
         \/ Revises,
         PointsOK', PointsFitData'
  PROVE  LabInv'
<1>1. InputsOK' /\ FlagsOK'
  BY DEF LabInv, TypeOK, InputsOK, FlagsOK, inputVars, queryVars
<1>2. /\ RevisionsOK' /\ QuestionIsFresh'
      /\ revision' = revision \/ (revision' = revision + 1 /\ revision' <= MaxRevision)
  <2>1. CASE UNCHANGED <<a, b, revision>>
    BY <2>1, SameQuestion DEF LabInv, TypeOK, RevisionsOK, inputVars, queryVars
  <2>2. CASE Revises
    BY <2>2, RevisionCounted DEF LabInv, TypeOK, queryVars
  <2> QED
    BY <2>1, <2>2
<1>3. LoaderOK' /\ InOrder' /\ LoadsWhatIsNamed' /\ DataIsCurrent' /\ CaseIsServed'
  BY <1>2, LoaderUntouched DEF inputVars
<1> QED
  BY <1>1, <1>2, <1>3 DEF LabInv, TypeOK

LEMMA MovingInv ==
  LabInv /\ (ToggleTop \/ Pick \/ Escape \/ Swap \/ Clear \/ ChooseFloor) => LabInv'
<1> SUFFICES ASSUME LabInv, ToggleTop \/ Pick \/ Escape \/ Swap \/ Clear \/ ChooseFloor
             PROVE LabInv'
  OBVIOUS
<1>0. PointsOK /\ PointsFitData /\ FlagsOK
  BY DEF LabInv, TypeOK
<1>1. /\ UNCHANGED <<inputVars, loaderVars, dataset, queryVars>>
      /\ top' \in BOOLEAN /\ error' = error
      /\ UNCHANGED <<a, b, revision>> \/ Revises
  BY <1>0 DEF FlagsOK, ToggleTop, Pick, Escape, Swap, Clear, ChooseFloor, Chooses, ClearsPoints
<1>2. /\ a' \in {a, b, None} \cup candidates
      /\ b' \in {a, b, None} \cup candidates
      /\ candidates' \subseteq candidates
      /\ picking' \in {"none", "a", "b"}
  BY <1>0 DEF PointsOK, ToggleTop, Pick, Escape, Swap, Clear, ChooseFloor, Chooses, ClearsPoints
<1>3. PointsOK' /\ PointsFitData'
  BY <1>0, <1>1, <1>2, PointsKept DEF inputVars
<1> QED
  BY <1>0, <1>1, <1>3, PickingInv DEF FlagsOK

LEMMA ClickInv == LabInv /\ Click => LabInv'
<1> SUFFICES ASSUME LabInv, Click PROVE LabInv'
  OBVIOUS
<1>0. InputsOK /\ LoaderOK /\ PointsOK /\ PointsFitData /\ FlagsOK
  BY DEF LabInv, TypeOK
<1>1. PICK found \in SUBSET [spot : Spots, of : {DataTag}] :
        /\ error' = IF found = {} THEN "some" ELSE "none"
        /\ IF Cardinality(found) = 1
             THEN \E point \in found : Chooses(point)
             ELSE candidates' = found /\ UNCHANGED <<a, b, picking, revision>>
  BY DEF Click
<1>2. /\ dataset # None
      /\ UNCHANGED <<inputVars, loaderVars, dataset, top, queryVars>>
  BY DEF Click
<1>3. \A point \in found : point \in Endpoint /\ point.of = DataTag
  BY <1>0, <1>2 DEF LoaderOK, Dataset, DataTag, Endpoint
<1>4. PointsOK' /\ PointsFitData' /\ (UNCHANGED <<a, b, revision>> \/ Revises)
  <2>1. CASE Cardinality(found) = 1
    <3>1. PICK point \in found : Chooses(point)
      BY <1>1, <2>1
    <3> QED
      BY <1>0, <1>2, <1>3, <3>1
      DEF Chooses, PointsOK, PointsFitData, DataTag, inputVars
  <2>2. CASE Cardinality(found) # 1
    BY <1>0, <1>1, <1>2, <1>3, <2>2 DEF PointsOK, PointsFitData, DataTag, inputVars
  <2> QED
    BY <2>1, <2>2
<1> QED
  BY <1>0, <1>1, <1>2, <1>4, PickingInv DEF FlagsOK

-----------------------------------------------------------------------------
(* The query: the data, the endpoints and the revision stay.               *)

LEMMA QueryInv == LabInv /\ (FindPath \/ Complain \/ QueryEnds \/ SaveCase) => LabInv'
<1> SUFFICES ASSUME LabInv, FindPath \/ Complain \/ QueryEnds \/ SaveCase PROVE LabInv'
  OBVIOUS
<1>0. InputsOK /\ PointsOK /\ FlagsOK /\ RevisionsOK /\ PointsFitData /\ QuestionIsFresh
  BY DEF LabInv, TypeOK
<1>1. /\ UNCHANGED <<fields, loadedCase, settings, loaderVars, dataset, a, b, pickVars, revision>>
      /\ error' \in {error, "some"}
  BY DEF FindPath, Complain, QueryEnds, SaveCase, inputVars
<1>2. InputsOK' /\ FlagsOK' /\ RevisionsOK'
  <2>1. InputsOK'
    BY <1>0, <1>1 DEF FindPath, Complain, QueryEnds, SaveCase, inputVars, InputsOK
  <2>2. active' \in BOOLEAN /\ answered' \in BOOLEAN
    BY <1>0 DEF FindPath, Complain, QueryEnds, SaveCase, queryVars, FlagsOK
  <2>3. submitted' \in {submitted, revision}
    BY DEF FindPath, Complain, QueryEnds, SaveCase, queryVars, Submits
  <2> QED
    BY <1>0, <1>1, <2>1, <2>2, <2>3, RevisionsEnd DEF FlagsOK, RevisionsOK, pickVars
<1>3. LoaderOK' /\ InOrder' /\ LoadsWhatIsNamed' /\ DataIsCurrent' /\ CaseIsServed'
  BY <1>1, LoaderUntouched
<1>4. PointsOK' /\ PointsFitData'
  BY <1>0, <1>1, PointsKept DEF PointsOK, pickVars
<1>5. QuestionIsFresh'
  <2>1. CASE FindPath
    BY <1>0, <1>1, <2>1 DEF FindPath, Ready, Query, inputVars, QuestionIsFresh
  <2>2. CASE Complain
    BY <1>0, <2>2, SameQuestion DEF Complain, inputVars
  <2>3. CASE QueryEnds
    BY <1>0, <2>3 DEF QueryEnds, inputVars, QuestionIsFresh
  <2>4. CASE SaveCase
    BY <1>0, <2>4 DEF SaveCase, Ready, queryVars, QuestionIsFresh
  <2> QED
    BY <2>1, <2>2, <2>3, <2>4
<1> QED
  BY <1>2, <1>3, <1>4, <1>5 DEF LabInv, TypeOK

-----------------------------------------------------------------------------

LEMMA StutterInv == LabInv /\ UNCHANGED vars => LabInv'
<1> SUFFICES ASSUME LabInv, UNCHANGED vars PROVE LabInv'
  OBVIOUS
<1> USE DEF vars
<1>0. PointsOK /\ PointsFitData /\ FlagsOK /\ UNCHANGED <<top, picking, candidates>>
  BY DEF LabInv, TypeOK, pickVars
<1>1. PointsOK' /\ PointsFitData'
  BY <1>0, PointsKept DEF PointsOK, inputVars
<1> QED
  BY <1>0, <1>1, PickingInv DEF FlagsOK

LEMMA NextInv == LabInv /\ [Next]_vars => LabInv'
BY LoadReturnsInv, PollLoaderInv, ChangeFieldsInv, FollowCameraInv, LoadDataInv, LoadCaseInv,
   AdoptInv, SettingsInv, MovingInv, ClickInv, QueryInv, StutterInv
DEF Next

(* The lab keeps its invariant: what is on display, what is loaded and     *)
(* what was asked stay consistent in every order of inputs, late loads and *)
(* answers.                                                                *)
THEOREM LabInvariant == Spec => []LabInv
<1>1. Init => LabInv
  BY InitInv
<1>2. LabInv /\ [Next]_vars => LabInv'
  BY NextInv
<1> QED
  BY <1>1, <1>2, PTL DEF Spec

(* Every variable keeps its type, and no query is ahead of the revisions.  *)
THEOREM LabTypes == Spec => []TypeOK
<1>1. LabInv => TypeOK
  BY DEF LabInv
<1> QED
  BY <1>1, LabInvariant, PTL

(* However late loads return, the data on display is what the fields of    *)
(* the window name and what was requested last, and a saved case without   *)
(* its data is being loaded or can be adopted.                             *)
THEOREM DataStaysCurrent == Spec => []DataIsCurrent
<1>1. LabInv => DataIsCurrent
  BY DEF LabInv
<1> QED
  BY <1>1, LabInvariant, PTL

(* Endpoints and offered floors belong to the data on display.             *)
THEOREM PointsStayFitting == Spec => []PointsFitData
<1>1. LabInv => PointsFitData
  BY DEF LabInv
<1> QED
  BY <1>1, LabInvariant, PTL

(* An answer that is not drawn as old answers what would be submitted now. *)
THEOREM AnswersStayFresh == Spec => []AnswerIsFresh
<1>1. LabInv => AnswerIsFresh
  BY DEF LabInv, QuestionIsFresh, AnswerIsFresh, Query
<1> QED
  BY <1>1, LabInvariant, PTL

=============================================================================
