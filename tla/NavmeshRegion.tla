---------------------------- MODULE NavmeshRegion ----------------------------
(***************************************************************************)
(* The worker that generates navmesh regions from the packages of a client *)
(* (load_navmesh_region_geometry, navmesh::save, the sidecar), one region  *)
(* after another, while the packages may be updated under it.              *)
(*                                                                         *)
(* A package is told by its version, which stands for its size and hash:   *)
(* an update gives it one it never had.  Nothing keeps the packages still: *)
(* the worker hashes each of them before and after it reads it, again when *)
(* all are read, and again when the mesh is published.                     *)
(***************************************************************************)
EXTENDS Integers, FiniteSets

CONSTANTS
  Maps,          (* every square a name can tell, as <<x, y>>                *)
  Packages,
  Own,           (* map -> the package of its .unr file                      *)
  Uses,          (* map -> the packages its load reads, its own among them   *)
  Present,       (* the packages the client has to begin with                *)
  None,
  MaxUpdates,    (* bound: updates of packages                               *)
  MaxBuilds      (* bound: regions begun                                     *)

MapsAssumption ==
  /\ Maps \subseteq Nat \X Nat
  /\ Own \in [Maps -> Packages]
  /\ Uses \in [Maps -> SUBSET Packages]
  /\ \A m \in Maps : Own[m] \in Uses[m]
  /\ Present \subseteq Packages
  /\ None \notin Maps /\ None \notin Packages
ASSUME MapsAssumption

VARIABLES
  client,      (* package -> its version, or Absent                          *)
  past,        (* every state the client has been in                         *)
  step,        (* where the worker is                                        *)
  region,      (* the region it generates                                    *)
  todo,        (* the maps whose turn is still to come                       *)
  map,         (* the map it loads                                           *)
  unread,      (* the packages that load has not read yet                    *)
  package,     (* the package it reads                                       *)
  pending,     (* the version seen before reading it                         *)
  sources,     (* package -> the version recorded for it, or Absent          *)
  used,        (* package -> the versions that went into the geometry        *)
  loaded,      (* neighbors read; the others were missing                    *)
  unverified,  (* recorded packages still to be hashed again                 *)
  builds,      (* regions begun so far                                       *)
  meshes,      (* every .navmesh ever published, in some job directory       *)
  sidecars     (* every .navmesh.json                                        *)

clientVars == <<client, past>>
readVars == <<map, unread, package, pending, sources, used, loaded>>
shelfVars == <<meshes, sidecars>>
regionVars == <<clientVars, step, region, todo, readVars, unverified, builds, shelfVars>>

Absent == 0

(* The squares around one, those at its corners among them.                *)
Apart(i, j) == IF i < j THEN j - i ELSE i - j
Neighbors(m) ==
  {n \in Maps \ {m} : Apart(m[1], n[1]) <= 1 /\ Apart(m[2], n[2]) <= 1}

Nothing == [p \in Packages |-> Absent]
Unused == [p \in Packages |-> {}]

(* What a mesh holds depends on what was read for it, and on nothing else. *)
MeshesOf(m) == [map : {m}, used : [Packages -> SUBSET Nat]]
SidecarsOf(m) ==
  [map : {m}, sources : [Packages -> Nat], loaded : SUBSET Maps, mesh : MeshesOf(m)]

NoneAssumption == \A m \in Maps : None \notin MeshesOf(m) \cup SidecarsOf(m)
ASSUME NoneAssumption

RegionInit ==
  /\ client = [p \in Packages |-> IF p \in Present THEN 1 ELSE Absent]
  /\ past = {client}
  /\ step = "idle" /\ region = None /\ todo = {}
  /\ map = None /\ unread = {} /\ package = None /\ pending = Absent
  /\ sources = Nothing /\ used = Unused /\ loaded = {}
  /\ unverified = {} /\ builds = 0
  /\ meshes = {} /\ sidecars = {}

(* The user, or a launcher, updates a package or adds a missing one.       *)
Update(p) ==
  /\ Cardinality(past) <= MaxUpdates
  /\ client' = [client EXCEPT ![p] = @ + 1]
  /\ past' = past \cup {client'}
  /\ UNCHANGED <<step, region, todo, readVars, unverified, builds, shelfVars>>

Exists(m) == client[Own[m]] # Absent

(* A build of a map that is not there fails at once.                       *)
Begin(m) ==
  /\ step = "idle" /\ builds < MaxBuilds /\ Exists(m)
  /\ step' = "maps" /\ region' = m /\ builds' = builds + 1
  /\ todo' = {m} \cup Neighbors(m)
  /\ UNCHANGED <<clientVars, readVars, unverified, shelfVars>>

(* The own map comes first, the others by their names.                     *)
NamedBefore(m, n) == m[1] < n[1] \/ (m[1] = n[1] /\ m[2] < n[2])
Turn(m) ==
  /\ m \in todo
  /\ IF region \in todo THEN m = region ELSE ~\E n \in todo : NamedBefore(n, m)

(* A missing neighbor is recorded as missing.                              *)
SkipMap(m) ==
  /\ step = "maps" /\ Turn(m)
  /\ m # region /\ ~Exists(m)
  /\ todo' = todo \ {m}
  /\ UNCHANGED <<clientVars, step, region, readVars, unverified, builds, shelfVars>>

LoadMap(m) ==
  /\ step = "maps" /\ Turn(m) /\ Exists(m)
  /\ map' = m /\ unread' = Uses[m] /\ todo' = todo \ {m}
  /\ step' = "load"
  /\ UNCHANGED <<clientVars, region, package, pending, sources, used, loaded,
                 unverified, builds, shelfVars>>

(* The observer: what an earlier load recorded is what there is now.       *)
AsRecorded(p) == sources[p] \in {Absent, client[p]}

(* ArchiveReadPhase::Before, once per package and load: the loader of a    *)
(* map keeps what it has read.                                             *)
Before(p) ==
  /\ step = "load" /\ p \in unread
  /\ Own[map] \in unread => p = Own[map]
  /\ client[p] # Absent /\ AsRecorded(p)
  /\ package' = p /\ pending' = client[p]
  /\ step' = "read"
  /\ UNCHANGED <<clientVars, region, todo, map, unread, sources, used, loaded,
                 unverified, builds, shelfVars>>

(* Decryptor::decrypt: what the geometry is made from.                     *)
Read ==
  /\ step = "read"
  /\ used' = [used EXCEPT ![package] = @ \cup {client[package]}]
  /\ step' = "after"
  /\ UNCHANGED <<clientVars, region, todo, map, unread, package, pending, sources,
                 loaded, unverified, builds, shelfVars>>

(* ArchiveReadPhase::After.                                                *)
After ==
  /\ step = "after"
  /\ client[package] = pending /\ AsRecorded(package)
  /\ sources' = [sources EXCEPT ![package] = pending]
  /\ unread' = unread \ {package} /\ package' = None /\ pending' = Absent
  /\ IF unread' = {}
     THEN /\ step' = "maps" /\ map' = None
          /\ loaded' = loaded \cup ({map} \ {region})
     ELSE UNCHANGED <<map, loaded>> /\ step' = "load"
  /\ UNCHANGED <<clientVars, region, todo, used, unverified, builds, shelfVars>>

Recorded == {p \in Packages : sources[p] # Absent}

AllRead ==
  /\ step = "maps" /\ todo = {}
  /\ step' = "verify" /\ unverified' = Recorded
  /\ UNCHANGED <<clientVars, region, todo, readVars, builds, shelfVars>>

(* Mutant of Unchanged: the recorded packages are not hashed again.        *)
NeverChanged(p) == TRUE

(* verify_navmesh_sources: a package after another.                        *)
Unchanged(p) == client[p] = sources[p]
Verify(p) ==
  /\ step \in {"verify", "verify again"} /\ p \in unverified
  /\ Unchanged(p)
  /\ unverified' = unverified \ {p}
  /\ UNCHANGED <<clientVars, step, region, todo, readVars, builds, shelfVars>>
Verified ==
  /\ step \in {"verify", "verify again"} /\ unverified = {}
  /\ step' = IF step = "verify" THEN "save" ELSE "sidecar"
  /\ UNCHANGED <<clientVars, region, todo, readVars, unverified, builds, shelfVars>>

Mesh == [map |-> region, used |-> used]

(* navmesh::build works on its own copy, and navmesh::save publishes a     *)
(* staged and validated file in one step.                                  *)
Save ==
  /\ step = "save"
  /\ meshes' = meshes \cup {Mesh}
  /\ step' = "verify again" /\ unverified' = Recorded
  /\ UNCHANGED <<clientVars, region, todo, readVars, builds, sidecars>>

Idle ==
  /\ step' = "idle" /\ region' = None /\ todo' = {}
  /\ map' = None /\ unread' = {} /\ package' = None /\ pending' = Absent
  /\ sources' = Nothing /\ used' = Unused /\ loaded' = {} /\ unverified' = {}

(* write_region_metadata_new, for the mesh of its own directory.           *)
Sidecar == [map |-> region, sources |-> sources, loaded |-> loaded, mesh |-> Mesh]
WriteSidecar ==
  /\ step = "sidecar"
  /\ sidecars' = sidecars \cup {Sidecar}
  /\ Idle
  /\ UNCHANGED <<clientVars, builds, meshes>>

(* Every throw of the above, among them the guards that do not hold, a     *)
(* cancellation, and the end of the process: what is published stays.      *)
GiveUp ==
  /\ step # "idle"
  /\ Idle
  /\ UNCHANGED <<clientVars, builds, shelfVars>>

Generate ==
  \/ \E m \in Maps : Begin(m) \/ SkipMap(m) \/ LoadMap(m)
  \/ \E p \in Packages : Before(p) \/ Verify(p)
  \/ Read \/ After \/ AllRead \/ Verified \/ Save \/ WriteSidecar \/ GiveUp

RegionNext == Generate \/ \E p \in Packages : Update(p)

RegionSpec == RegionInit /\ [][RegionNext]_regionVars

(***************************************************************************)
(* Properties.                                                             *)
(***************************************************************************)

RegionTypeOK ==
  /\ client \in [Packages -> Nat] /\ past \subseteq [Packages -> Nat]
  /\ step \in {"idle", "maps", "load", "read", "after", "verify", "save",
               "verify again", "sidecar"}
  /\ region \in Maps \cup {None} /\ map \in Maps \cup {None}
  /\ todo \subseteq Maps /\ loaded \subseteq Maps
  /\ unread \subseteq Packages /\ unverified \subseteq Packages
  /\ package \in Packages \cup {None} /\ pending \in Nat
  /\ sources \in [Packages -> Nat] /\ used \in [Packages -> SUBSET Nat]
  /\ builds \in Nat
  /\ \A mesh \in meshes : mesh \in MeshesOf(mesh.map) /\ mesh.map \in Maps
  /\ \A s \in sidecars : s \in SidecarsOf(s.map) /\ s.mesh \in meshes

(* A sidecar tells what its mesh is made of, and that is one state the     *)
(* client was in: no mesh mixes packages of before and after an update,    *)
(* however long reading them took (README.md:222-223: the marker "binds the mesh   *)
(* hash, profile and actually read source packages").                      *)
ManifestIsASnapshot ==
  \A s \in sidecars :
    /\ \A p \in Packages : s.mesh.used[p] = {s.sources[p]} \ {Absent}
    /\ \E state \in past : \A p \in Packages :
         s.sources[p] # Absent => state[p] = s.sources[p]
=============================================================================
