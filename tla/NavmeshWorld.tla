----------------------------- MODULE NavmeshWorld -----------------------------
(***************************************************************************)
(* The reader of published regions (PathfindingLoader, Dataset::load,      *)
(* navmesh::load_world), composed with the worker that makes them: the     *)
(* user picks the files of some regions, and may go on copying others over *)
(* them while they are read.                                               *)
(*                                                                         *)
(* Equal bytes are equal meshes, and the size and hash of a file tell its  *)
(* content.  A file that was replaced during a reading does not come back  *)
(* during the same reading: hashing cannot see that, nor does the code     *)
(* claim to.                                                               *)
(***************************************************************************)
EXTENDS NavmeshRegion, Functions

CONSTANTS
  Bytes(_),         (* mesh -> the size of its file                          *)
  InputLimit,       (* 512 MiB                                               *)
  MaxReplacements   (* bound: files replaced during one reading              *)

LimitAssumption == IsFiniteSet(Maps) /\ InputLimit \in Nat
ASSUME LimitAssumption

VARIABLES
  stage,      (* where the reader is                                         *)
  left,       (* regions this stage has not come to yet                      *)
  meshAt,     (* region -> the mesh in the picked place, or None             *)
  markerAt,   (* region -> the sidecar beside it, or None                    *)
  gone,       (* what was in those places before it was replaced             *)
  chosen,     (* region -> the pair that was identified                      *)
  sizes,      (* region -> its size at the preflight                         *)
  current,    (* the region being loaded                                     *)
  before,     (* its sidecar, as hashed at first                             *)
  metadata,   (* its sidecar, as read                                        *)
  mesh,       (* its mesh, as loaded                                         *)
  world       (* the pairs merged so far                                     *)

placeVars == <<meshAt, markerAt, gone>>
loadVars == <<current, before, metadata, mesh>>
worldVars == <<stage, left, placeVars, chosen, sizes, loadVars, world>>
vars == <<regionVars, worldVars>>

Pair(m, s) == [mesh |-> m, marker |-> s]
NoPair == Pair(None, None)

Picked == {r \in Maps : meshAt[r] # None}
Unpicked == [r \in Maps |-> None]
Unchosen == [r \in Maps |-> NoPair]
Uncounted == [r \in Maps |-> 0]

WorldInit ==
  /\ RegionInit
  /\ stage = "idle" /\ left = {} /\ gone = {} /\ world = {}
  /\ meshAt = Unpicked /\ markerAt = Unpicked
  /\ chosen = Unchosen /\ sizes = Uncounted
  /\ current = None /\ before = None /\ metadata = None /\ mesh = None

(* The user picks meshes, each with what stands beside it.                 *)
Open(picked) ==
  /\ stage = "idle" /\ picked # {}
  /\ picked \subseteq {m.map : m \in meshes}
  /\ meshAt' \in [Maps -> meshes \cup {None}]
  /\ \A r \in Maps : /\ meshAt'[r] # None <=> r \in picked
                     /\ r \in picked => meshAt'[r].map = r
  /\ markerAt' \in [Maps -> sidecars \cup {None}]
  /\ \A r \in Maps : markerAt'[r] # None => r \in picked /\ markerAt'[r].map = r
  /\ stage' = "identify" /\ left' = picked
  /\ UNCHANGED <<gone, chosen, sizes, loadVars, world>>

Reading == stage \notin {"idle", "ready"}

(* The user copies another mesh, or another sidecar, over the one there.   *)
ReplaceMesh(r, new) ==
  /\ Reading /\ r \in Picked /\ Cardinality(gone) < MaxReplacements
  /\ new.map = r /\ new \notin gone \cup {meshAt[r]}
  /\ meshAt' = [meshAt EXCEPT ![r] = new] /\ gone' = gone \cup {meshAt[r]}
  /\ UNCHANGED <<stage, left, markerAt, chosen, sizes, loadVars, world>>
ReplaceMarker(r, new) ==
  /\ Reading /\ markerAt[r] # None /\ Cardinality(gone) < MaxReplacements
  /\ new.map = r /\ new \notin gone \cup {markerAt[r]}
  /\ markerAt' = [markerAt EXCEPT ![r] = new] /\ gone' = gone \cup {markerAt[r]}
  /\ UNCHANGED <<stage, left, meshAt, chosen, sizes, loadVars, world>>

(* Ends a stage with its last region.                                      *)
Tick(r, next, all) ==
  IF left = {r} THEN stage' = next /\ left' = all
  ELSE left' = left \ {r} /\ UNCHANGED stage

(* PathfindingLoader: the mesh is identified, then its sidecar; what it    *)
(* reads of the pair besides is read again by load_world.  A mesh without  *)
(* one is a legacy region, and can only be loaded alone.                   *)
IdentifyMesh(r) ==
  /\ stage = "identify" /\ r \in left /\ chosen[r] = NoPair
  /\ \A q \in left : chosen[q] = NoPair
  /\ chosen' = [chosen EXCEPT ![r].mesh = meshAt[r]]
  /\ UNCHANGED <<stage, left, placeVars, sizes, loadVars, world>>
IdentifyMarker(r) ==
  /\ stage = "identify" /\ r \in left /\ chosen[r] # NoPair
  /\ markerAt[r] = None => Picked = {r}
  /\ chosen' = [chosen EXCEPT ![r].marker = markerAt[r]]
  /\ Tick(r, "verify", Picked)
  /\ UNCHANGED <<placeVars, sizes, loadVars, world>>

AsChosen(r) == chosen[r] = Pair(meshAt[r], markerAt[r])
Legacy == \E r \in Picked : chosen[r].marker = None

(* Dataset::load: nothing has changed since.                               *)
VerifyPair(r) ==
  /\ stage = "verify" /\ r \in left /\ AsChosen(r)
  /\ Tick(r, IF Legacy THEN "load alone" ELSE "preflight",
          IF Legacy THEN {} ELSE Picked)
  /\ UNCHANGED <<placeVars, chosen, sizes, loadVars, world>>

LoadAlone(r) ==
  /\ stage = "load alone" /\ Picked = {r} /\ Bytes(meshAt[r]) <= InputLimit
  /\ world' = {Pair(meshAt[r], None)}
  /\ stage' = "check again" /\ left' = Picked
  /\ UNCHANGED <<placeVars, chosen, sizes, loadVars>>

(* load_world goes through the regions by their names, twice: sizes are    *)
(* looked at first, and added only when they fit.                          *)
InTurn(r) == r \in left /\ ~\E q \in left : NamedBefore(q, r)
Fits(size) == size <= InputLimit /\ SumFunction(sizes) <= InputLimit - size
Preflight(r) ==
  /\ stage = "preflight" /\ InTurn(r)
  /\ Fits(Bytes(meshAt[r]))
  /\ sizes' = [sizes EXCEPT ![r] = Bytes(meshAt[r])]
  /\ Tick(r, "merge", Picked)
  /\ UNCHANGED <<placeVars, chosen, loadVars, world>>

HashMarker(r) ==
  /\ stage = "merge" /\ InTurn(r) /\ current = None
  /\ current' = r /\ before' = markerAt[r]
  /\ stage' = "read marker"
  /\ UNCHANGED <<left, placeVars, chosen, sizes, metadata, mesh, world>>
ReadMarker ==
  /\ stage = "read marker"
  /\ metadata' = markerAt[current]
  /\ stage' = "match"
  /\ UNCHANGED <<left, placeVars, chosen, sizes, current, before, mesh, world>>

(* Mutant of SizeKept: the size is not compared.                           *)
SizeLost(m) == TRUE

(* read_region_metadata hashes the mesh; its size must be the one that was *)
(* counted, and its packages those of the regions before it.               *)
SizeKept(m) == Bytes(m) = sizes[current]
Agrees(s, t) ==
  \A p \in Packages :
    s.sources[p] # Absent /\ t.sources[p] # Absent => s.sources[p] = t.sources[p]
Match ==
  /\ stage = "match"
  /\ metadata.mesh = meshAt[current]
  /\ SizeKept(metadata.mesh)
  /\ \A pair \in world : Agrees(metadata, pair.marker)
  /\ stage' = "load"
  /\ UNCHANGED <<left, placeVars, chosen, sizes, loadVars, world>>
(* navmesh::load has the same limit for a file of its own.                 *)
Load ==
  /\ stage = "load" /\ Bytes(meshAt[current]) <= InputLimit
  /\ mesh' = meshAt[current]
  /\ stage' = "hash mesh"
  /\ UNCHANGED <<left, placeVars, chosen, sizes, current, before, metadata, world>>
HashMesh ==
  /\ stage = "hash mesh"
  /\ meshAt[current] = metadata.mesh
  /\ stage' = "hash marker"
  /\ UNCHANGED <<left, placeVars, chosen, sizes, loadVars, world>>
Merge ==
  /\ stage = "hash marker"
  /\ markerAt[current] = before
  /\ world' = world \cup {Pair(mesh, metadata)}
  /\ current' = None /\ before' = None /\ metadata' = None /\ mesh' = None
  /\ left' = left \ {current}
  /\ stage' = IF left' = {} THEN "boundary" ELSE "merge"
  /\ UNCHANGED <<placeVars, chosen, sizes>>

(* Regions that touch at a corner only are not compared.                   *)
ShareSide(m, n) == Apart(m[1], n[1]) + Apart(m[2], n[2]) = 1

Around(m) == Neighbors(m) \cup {m}
Context(s) == s.loaded \cup {s.map}

(* Mutant of Complete: one of both is enough.                              *)
CompleteTogether(s, t) ==
  ShareSide(s.map, t.map) =>
    Around(s.map) \cap Around(t.map) \subseteq Context(s) \cup Context(t)

(* Two regions at a common side have both read every map around both.      *)
Complete(s, t) ==
  ShareSide(s.map, t.map) =>
    Around(s.map) \cap Around(t.map) \subseteq Context(s) \cap Context(t)
Boundary ==
  /\ stage = "boundary"
  /\ \A p, q \in world : Complete(p.marker, q.marker)
  /\ stage' = "check again" /\ left' = Picked
  /\ UNCHANGED <<placeVars, chosen, sizes, loadVars, world>>

CheckAgain(r) ==
  /\ stage = "check again" /\ r \in left /\ AsChosen(r)
  /\ Tick(r, "ready", {})
  /\ UNCHANGED <<placeVars, chosen, sizes, loadVars, world>>

(* Every throw of the above, and a user who picks others.                  *)
Close ==
  /\ stage # "idle"
  /\ stage' = "idle" /\ left' = {} /\ gone' = {} /\ world' = {}
  /\ meshAt' = Unpicked /\ markerAt' = Unpicked
  /\ chosen' = Unchosen /\ sizes' = Uncounted
  /\ current' = None /\ before' = None /\ metadata' = None /\ mesh' = None

Look ==
  \/ \E picked \in SUBSET Maps : Open(picked)
  \/ \E r \in Maps : \/ IdentifyMesh(r) \/ IdentifyMarker(r) \/ VerifyPair(r)
                     \/ LoadAlone(r) \/ Preflight(r) \/ HashMarker(r) \/ CheckAgain(r)
                     \/ \E new \in meshes : ReplaceMesh(r, new)
                     \/ \E new \in sidecars : ReplaceMarker(r, new)
  \/ ReadMarker \/ Match \/ Load \/ HashMesh \/ Merge \/ Boundary \/ Close

(* The reader and the worker meet only in what is published, so their      *)
(* steps commute: a reading falls between two builds.                      *)
Next ==
  \/ RegionNext /\ stage = "idle" /\ UNCHANGED worldVars
  \/ Look /\ step = "idle" /\ UNCHANGED regionVars

Spec == WorldInit /\ [][Next]_vars

(***************************************************************************)
(* Properties.                                                             *)
(***************************************************************************)

(* The meshes of a world were generated from the very same packages, and   *)
(* those that share a side from the same maps around it, its two corners   *)
(* included: what is joined there was seen alike by both                   *)
(* (WorldMesh.cpp:64-69, 114-137).  Of regions that touch at a corner the  *)
(* code does not ask it.                                                   *)
WorldIsOfOneClient ==
  stage = "ready" =>
    \A a, b \in {pair.mesh : pair \in world} :
      /\ \A p \in Packages : Cardinality(a.used[p] \cup b.used[p]) <= 1
      /\ ShareSide(a.map, b.map) =>
           \A m \in Around(a.map) \cap Around(b.map) :
             a.used[Own[m]] # {} /\ b.used[Own[m]] # {}

(* The meshes merged never exceed the limit their sizes were added up      *)
(* against before any was loaded, whatever was copied over them meanwhile  *)
(* (README.md:234: "The loader caps a world at ... 512 MiB").              *)
WorldFitsLimit ==
  SumFunction([pair \in world |-> Bytes(pair.mesh)]) <= InputLimit
=============================================================================
