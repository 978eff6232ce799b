-------------------------- MODULE NavmeshWorldProofs --------------------------
(***************************************************************************)
(* That the sidecar of a region tells one state of its client, and that a  *)
(* world is made of one client, for any maps, packages and numbers of      *)
(* updates, builds and replaced files.                                     *)
(*                                                                         *)
(* Versions only grow.  What is recorded for a package was its version at  *)
(* some time before all were read; found again when it is verified, it was *)
(* its version all the time between, and so, with all the others, at the   *)
(* moment when the last was read.  Between the two hashes of a reading the *)
(* version that was read is squeezed in the same way.                      *)
(*                                                                         *)
(* What the reader merges was hashed, loaded and hashed again.  A file     *)
(* that was replaced is gone for this reading: if the two hashes are those *)
(* of one mesh, that mesh was there when it was loaded.                    *)
(*                                                                         *)
(* The sizes of what is merged are those that were counted before, each    *)
(* for a region of its own: their sum is at most the sum that was allowed. *)
(* Sums are defined by recursion over a set, so what is said of them is    *)
(* proved by induction over the subsets of a finite set.                   *)
(***************************************************************************)
EXTENDS NavmeshWorld, FiniteSetTheorems, WellFoundedInduction, TLAPS


Verifying == {"verify", "save", "verify again", "sidecar"}

Types ==
  /\ client \in [Packages -> Nat]
  /\ pending \in Nat
  /\ sources \in [Packages -> Nat]
  /\ used \in [Packages -> SUBSET Nat]
  /\ step \in {"read", "after"} => package \in Packages /\ map \in Maps
  /\ step = "load" => map \in Maps

(* Nothing is recorded that has not been there.                            *)
VersionsGrow ==
  /\ client \in past
  /\ \A p \in Packages : sources[p] <= client[p]
  /\ step \in {"read", "after"} => pending # Absent /\ pending <= client[package]

AsTold(p) == {sources[p]} \ {Absent}

(* What went into the geometry is what is recorded, but for the package    *)
(* that is being read.                                                     *)
UsedIsRecorded ==
  /\ \A p \in Packages : step # "after" \/ p # package => used[p] = AsTold(p)
  /\ step = "after" =>
       \E v \in Nat : /\ pending <= v /\ v <= client[package]
                      /\ used[package] = AsTold(package) \cup {v}

Between(state) ==
  \A p \in Packages : sources[p] # Absent =>
    /\ sources[p] <= state[p] /\ state[p] <= client[p]
    /\ step # "verify" \/ p \notin unverified => state[p] = sources[p]

(* The state at the moment when the last package was read.                 *)
OneMoment ==
  step \in Verifying => \E state \in past : state \in [Packages -> Nat] /\ Between(state)

RegionInv == Types /\ VersionsGrow /\ UsedIsRecorded /\ OneMoment /\ ManifestIsASnapshot

-----------------------------------------------------------------------------
LEMMA InitHolds == RegionInit => RegionInv
BY MapsAssumption
   DEF MapsAssumption, RegionInit, RegionInv, Types, VersionsGrow, UsedIsRecorded, OneMoment,
       ManifestIsASnapshot, Verifying, AsTold, Nothing, Unused, Absent

LEMMA TypesStep ==
  Types /\ [RegionNext]_regionVars => Types'
<1> SUFFICES ASSUME Types, [RegionNext]_regionVars
             PROVE  Types'
  OBVIOUS
<1> USE MapsAssumption DEF MapsAssumption
<1>1. ASSUME NEW m \in Maps, Begin(m) PROVE Types'
  BY <1>1 DEF Begin, Exists, clientVars, readVars, shelfVars, Types
<1>2. ASSUME NEW m \in Maps, SkipMap(m) PROVE Types'
  BY <1>2 DEF SkipMap, Exists, Turn, clientVars, readVars, shelfVars, Types
<1>3. ASSUME NEW m \in Maps, LoadMap(m) PROVE Types'
  BY <1>3 DEF LoadMap, Exists, Turn, clientVars, readVars, shelfVars, Types
<1>4. ASSUME NEW p \in Packages, Before(p) PROVE Types'
  BY <1>4 DEF Before, AsRecorded, clientVars, readVars, shelfVars, Types
<1>5. ASSUME NEW p \in Packages, Verify(p) PROVE Types'
  BY <1>5 DEF Verify, Unchanged, clientVars, readVars, shelfVars, Types
<1>6. CASE Read
  BY <1>6 DEF Read, clientVars, readVars, shelfVars, Types
<1>7. CASE After
  <2>1. client' = client /\ used' = used /\ pending' = Absent /\ step' \in {"maps", "load"}
    BY <1>7 DEF After, clientVars
  <2>2. sources' \in [Packages -> Nat]
    BY <1>7 DEF After, Types
  <2>3. step' = "load" => map' = map
    BY <1>7 DEF After
  <2> QED
    BY <1>7, <2>1, <2>2, <2>3 DEF Types, Absent, After
<1>8. CASE AllRead
  BY <1>8 DEF AllRead, Recorded, clientVars, readVars, shelfVars, Types
<1>9. CASE Verified
  BY <1>9 DEF Verified, clientVars, readVars, shelfVars, Types
<1>10. CASE Save
  BY <1>10 DEF Save, Recorded, Mesh, clientVars, readVars, shelfVars, Types
<1>11. CASE WriteSidecar
  <2>1. /\ client' = client /\ pending' = Absent /\ step' = "idle"
        /\ sources' = Nothing /\ used' = Unused
    BY <1>11 DEF WriteSidecar, Idle, clientVars
  <2>2. Nothing \in [Packages -> Nat] /\ Unused \in [Packages -> SUBSET Nat] /\ Absent \in Nat
    BY DEF Nothing, Unused, Absent
  <2> QED
    BY <2>1, <2>2 DEF Types
<1>12. CASE GiveUp
  <2>1. /\ client' = client /\ pending' = Absent /\ step' = "idle"
        /\ sources' = Nothing /\ used' = Unused
    BY <1>12 DEF GiveUp, Idle, clientVars
  <2>2. Nothing \in [Packages -> Nat] /\ Unused \in [Packages -> SUBSET Nat] /\ Absent \in Nat
    BY DEF Nothing, Unused, Absent
  <2> QED
    BY <2>1, <2>2 DEF Types
<1>13. ASSUME NEW p \in Packages, Update(p) PROVE Types'
  BY <1>13 DEF Update, clientVars, readVars, shelfVars, Types
<1>14. CASE UNCHANGED regionVars
  BY <1>14 DEF regionVars, clientVars, readVars, shelfVars, Types
<1> QED
  BY <1>1, <1>2, <1>3, <1>4, <1>5, <1>6, <1>7, <1>8, <1>9, <1>10, <1>11, <1>12, <1>13, <1>14
     DEF RegionNext, Generate

LEMMA VersionsStep ==
  Types /\ VersionsGrow /\ [RegionNext]_regionVars => VersionsGrow'
<1> SUFFICES ASSUME Types, VersionsGrow, [RegionNext]_regionVars
             PROVE  VersionsGrow'
  OBVIOUS
<1> USE MapsAssumption DEF MapsAssumption
<1>1. ASSUME NEW m \in Maps, Begin(m) PROVE VersionsGrow'
  BY <1>1 DEF Begin, Exists, clientVars, readVars, shelfVars, Types, VersionsGrow, Absent
<1>2. ASSUME NEW m \in Maps, SkipMap(m) PROVE VersionsGrow'
  BY <1>2
     DEF SkipMap, Exists, Turn, clientVars, readVars, shelfVars, Types, VersionsGrow, Absent
<1>3. ASSUME NEW m \in Maps, LoadMap(m) PROVE VersionsGrow'
  BY <1>3
     DEF LoadMap, Exists, Turn, clientVars, readVars, shelfVars, Types, VersionsGrow, Absent
<1>4. ASSUME NEW p \in Packages, Before(p) PROVE VersionsGrow'
  BY <1>4
     DEF Before, AsRecorded, clientVars, readVars, shelfVars, Types, VersionsGrow, Absent
<1>5. ASSUME NEW p \in Packages, Verify(p) PROVE VersionsGrow'
  BY <1>5
     DEF Verify, Unchanged, clientVars, readVars, shelfVars, Types, VersionsGrow, Absent
<1>6. CASE Read
  BY <1>6 DEF Read, clientVars, readVars, shelfVars, Types, VersionsGrow, Absent
<1>7. CASE After
  BY <1>7
     DEF After, AsRecorded, clientVars, readVars, shelfVars, Types, VersionsGrow, Absent
<1>8. CASE AllRead
  BY <1>8
     DEF AllRead, Recorded, clientVars, readVars, shelfVars, Types, VersionsGrow, Absent
<1>9. CASE Verified
  BY <1>9 DEF Verified, clientVars, readVars, shelfVars, Types, VersionsGrow, Absent
<1>10. CASE Save
  BY <1>10
     DEF Save, Recorded, Mesh, clientVars, readVars, shelfVars, Types, VersionsGrow, Absent
<1>11. CASE WriteSidecar
  BY <1>11
     DEF WriteSidecar, Idle, Nothing, Unused, clientVars, readVars, shelfVars, Types,
         VersionsGrow, Absent
<1>12. CASE GiveUp
  BY <1>12
     DEF GiveUp, Idle, Nothing, Unused, clientVars, readVars, shelfVars, Types,
         VersionsGrow, Absent
<1>13. ASSUME NEW p \in Packages, Update(p) PROVE VersionsGrow'
  BY <1>13 DEF Update, clientVars, readVars, shelfVars, Types, VersionsGrow, Absent
<1>14. CASE UNCHANGED regionVars
  BY <1>14 DEF regionVars, clientVars, readVars, shelfVars, Types, VersionsGrow, Absent
<1> QED
  BY <1>1, <1>2, <1>3, <1>4, <1>5, <1>6, <1>7, <1>8, <1>9, <1>10, <1>11, <1>12, <1>13, <1>14
     DEF RegionNext, Generate

LEMMA UsedStep ==
  Types /\ VersionsGrow /\ UsedIsRecorded /\ [RegionNext]_regionVars => UsedIsRecorded'
<1> SUFFICES ASSUME Types, VersionsGrow, UsedIsRecorded, [RegionNext]_regionVars
             PROVE  UsedIsRecorded'
  OBVIOUS
<1> USE MapsAssumption DEF MapsAssumption
<1>1. ASSUME NEW m \in Maps, Begin(m) PROVE UsedIsRecorded'
  BY <1>1
     DEF Begin, Exists, clientVars, readVars, shelfVars, Types, VersionsGrow,
         UsedIsRecorded, AsTold, Absent
<1>2. ASSUME NEW m \in Maps, SkipMap(m) PROVE UsedIsRecorded'
  BY <1>2
     DEF SkipMap, Exists, Turn, clientVars, readVars, shelfVars, Types, VersionsGrow,
         UsedIsRecorded, AsTold, Absent
<1>3. ASSUME NEW m \in Maps, LoadMap(m) PROVE UsedIsRecorded'
  BY <1>3
     DEF LoadMap, Exists, Turn, clientVars, readVars, shelfVars, Types, VersionsGrow,
         UsedIsRecorded, AsTold, Absent
<1>4. ASSUME NEW p \in Packages, Before(p) PROVE UsedIsRecorded'
  BY <1>4
     DEF Before, AsRecorded, clientVars, readVars, shelfVars, Types, VersionsGrow,
         UsedIsRecorded, AsTold, Absent
<1>5. ASSUME NEW p \in Packages, Verify(p) PROVE UsedIsRecorded'
  BY <1>5
     DEF Verify, Unchanged, clientVars, readVars, shelfVars, Types, VersionsGrow,
         UsedIsRecorded, AsTold, Absent
<1>6. CASE Read
  BY <1>6
     DEF Read, clientVars, readVars, shelfVars, Types, VersionsGrow, UsedIsRecorded, AsTold,
         Absent
<1>7. CASE After
  BY <1>7
     DEF After, AsRecorded, clientVars, readVars, shelfVars, Types, VersionsGrow,
         UsedIsRecorded, AsTold, Absent
<1>8. CASE AllRead
  BY <1>8
     DEF AllRead, Recorded, clientVars, readVars, shelfVars, Types, VersionsGrow,
         UsedIsRecorded, AsTold, Absent
<1>9. CASE Verified
  BY <1>9
     DEF Verified, clientVars, readVars, shelfVars, Types, VersionsGrow, UsedIsRecorded,
         AsTold, Absent
<1>10. CASE Save
  BY <1>10
     DEF Save, Recorded, Mesh, clientVars, readVars, shelfVars, Types, VersionsGrow,
         UsedIsRecorded, AsTold, Absent
<1>11. CASE WriteSidecar
  BY <1>11
     DEF WriteSidecar, Idle, Nothing, Unused, clientVars, readVars, shelfVars, Types,
         VersionsGrow, UsedIsRecorded, AsTold, Absent
<1>12. CASE GiveUp
  BY <1>12
     DEF GiveUp, Idle, Nothing, Unused, clientVars, readVars, shelfVars, Types,
         VersionsGrow, UsedIsRecorded, AsTold, Absent
<1>13. ASSUME NEW p \in Packages, Update(p) PROVE UsedIsRecorded'
  BY <1>13
     DEF Update, clientVars, readVars, shelfVars, Types, VersionsGrow, UsedIsRecorded,
         AsTold, Absent
<1>14. CASE UNCHANGED regionVars
  BY <1>14
     DEF regionVars, clientVars, readVars, shelfVars, Types, VersionsGrow, UsedIsRecorded,
         AsTold, Absent
<1> QED
  BY <1>1, <1>2, <1>3, <1>4, <1>5, <1>6, <1>7, <1>8, <1>9, <1>10, <1>11, <1>12, <1>13, <1>14
     DEF RegionNext, Generate

LEMMA MomentStep ==
  Types /\ VersionsGrow /\ OneMoment /\ [RegionNext]_regionVars => OneMoment'
<1> SUFFICES ASSUME Types, VersionsGrow, OneMoment, [RegionNext]_regionVars
             PROVE  OneMoment'
  OBVIOUS
<1> USE MapsAssumption DEF MapsAssumption
<1>1. ASSUME NEW m \in Maps, Begin(m) PROVE OneMoment'
  BY <1>1
     DEF Begin, Exists, clientVars, readVars, shelfVars, Types, VersionsGrow, OneMoment,
         Between, Verifying, Absent
<1>2. ASSUME NEW m \in Maps, SkipMap(m) PROVE OneMoment'
  BY <1>2
     DEF SkipMap, Exists, Turn, clientVars, readVars, shelfVars, Types, VersionsGrow,
         OneMoment, Between, Verifying, Absent
<1>3. ASSUME NEW m \in Maps, LoadMap(m) PROVE OneMoment'
  BY <1>3
     DEF LoadMap, Exists, Turn, clientVars, readVars, shelfVars, Types, VersionsGrow,
         OneMoment, Between, Verifying, Absent
<1>4. ASSUME NEW p \in Packages, Before(p) PROVE OneMoment'
  BY <1>4
     DEF Before, AsRecorded, clientVars, readVars, shelfVars, Types, VersionsGrow,
         OneMoment, Between, Verifying, Absent
<1>5. ASSUME NEW p \in Packages, Verify(p) PROVE OneMoment'
  <2>1. step \in {"verify", "verify again"} /\ client[p] = sources[p] /\ p \in Packages
    BY <1>5 DEF Verify, Unchanged
  <2>2. /\ unverified' = unverified \ {p} /\ step' = step
        /\ client' = client /\ past' = past /\ sources' = sources
    BY <1>5 DEF Verify, clientVars, readVars
  <2>3. PICK state \in past : state \in [Packages -> Nat] /\ Between(state)
    BY <2>1 DEF OneMoment, Verifying
  <2>4. ASSUME NEW q \in Packages, sources[q] # Absent
        PROVE  /\ sources[q] <= state[q] /\ state[q] <= client[q]
               /\ step # "verify" \/ q \notin unverified' => state[q] = sources[q]
    <3>1. sources[q] <= state[q] /\ state[q] <= client[q]
      BY <2>3, <2>4 DEF Between
    <3>2. CASE q = p
      <4>1. client[q] = sources[q]
        BY <2>1, <3>2
      <4>2. state[q] \in Nat /\ sources[q] \in Nat
        BY <2>3 DEF Types
      <4> QED
        BY <3>1, <4>1, <4>2
    <3>3. CASE q # p
      BY <2>2, <2>3, <2>4, <3>1, <3>3 DEF Between
    <3> QED
      BY <3>2, <3>3
  <2>5. Between(state)'
    BY <2>2, <2>4 DEF Between
  <2> QED
    BY <2>2, <2>3, <2>5 DEF OneMoment
<1>6. CASE Read
  BY <1>6
     DEF Read, clientVars, readVars, shelfVars, Types, VersionsGrow, OneMoment, Between,
         Verifying, Absent
<1>7. CASE After
  BY <1>7
     DEF After, AsRecorded, clientVars, readVars, shelfVars, Types, VersionsGrow, OneMoment,
         Between, Verifying, Absent
<1>8. CASE AllRead
  BY <1>8
     DEF AllRead, Recorded, clientVars, readVars, shelfVars, Types, VersionsGrow, OneMoment,
         Between, Verifying, Absent
<1>9. CASE Verified
  BY <1>9
     DEF Verified, clientVars, readVars, shelfVars, Types, VersionsGrow, OneMoment, Between,
         Verifying, Absent
<1>10. CASE Save
  BY <1>10
     DEF Save, Recorded, Mesh, clientVars, readVars, shelfVars, Types, VersionsGrow,
         OneMoment, Between, Verifying, Absent
<1>11. CASE WriteSidecar
  BY <1>11
     DEF WriteSidecar, Idle, Nothing, Unused, clientVars, readVars, shelfVars, Types,
         VersionsGrow, OneMoment, Between, Verifying, Absent
<1>12. CASE GiveUp
  BY <1>12
     DEF GiveUp, Idle, Nothing, Unused, clientVars, readVars, shelfVars, Types,
         VersionsGrow, OneMoment, Between, Verifying, Absent
<1>13. ASSUME NEW p \in Packages, Update(p) PROVE OneMoment'
  <2>1. /\ client' = [client EXCEPT ![p] = client[p] + 1] /\ past' = past \cup {client'}
        /\ step' = step /\ sources' = sources /\ unverified' = unverified
    BY <1>13 DEF Update, readVars
  <2>7. DOMAIN client = Packages
    BY DEF Types
  <2>2. \A q \in Packages : client'[q] \in Nat /\ client[q] \in Nat /\ client[q] <= client'[q]
    BY <2>1, <2>7 DEF Types
  <2>3. SUFFICES ASSUME step \in Verifying
                 PROVE  \E state \in past' : state \in [Packages -> Nat] /\ Between(state)'
    BY <2>1 DEF OneMoment
  <2>4. PICK state \in past : state \in [Packages -> Nat] /\ Between(state)
    BY <2>3 DEF OneMoment
  <2>5. ASSUME NEW q \in Packages, sources[q] # Absent
        PROVE  /\ sources[q] <= state[q] /\ state[q] <= client'[q]
               /\ step # "verify" \/ q \notin unverified => state[q] = sources[q]
    <3>1. sources[q] <= state[q] /\ state[q] <= client[q] /\ state[q] \in Nat
      BY <2>4, <2>5 DEF Between
    <3>2. step # "verify" \/ q \notin unverified => state[q] = sources[q]
      BY <2>4, <2>5 DEF Between
    <3> QED
      BY <2>2, <3>1, <3>2
  <2>6. Between(state)'
    BY <2>1, <2>5 DEF Between
  <2> QED
    BY <2>1, <2>4, <2>6
<1>14. CASE UNCHANGED regionVars
  BY <1>14
     DEF regionVars, clientVars, readVars, shelfVars, Types, VersionsGrow, OneMoment,
         Between, Verifying, Absent
<1> QED
  BY <1>1, <1>2, <1>3, <1>4, <1>5, <1>6, <1>7, <1>8, <1>9, <1>10, <1>11, <1>12, <1>13, <1>14
     DEF RegionNext, Generate

LEMMA ManifestStep ==
  RegionInv /\ [RegionNext]_regionVars => ManifestIsASnapshot'
<1> SUFFICES ASSUME RegionInv, [RegionNext]_regionVars
             PROVE  ManifestIsASnapshot'
  OBVIOUS
<1> USE MapsAssumption DEF MapsAssumption
<1>1. ASSUME NEW m \in Maps, Begin(m) PROVE ManifestIsASnapshot'
  BY <1>1
     DEF Begin, Exists, clientVars, readVars, shelfVars, RegionInv, Types,
         ManifestIsASnapshot
<1>2. ASSUME NEW m \in Maps, SkipMap(m) PROVE ManifestIsASnapshot'
  BY <1>2
     DEF SkipMap, Exists, Turn, clientVars, readVars, shelfVars, RegionInv, Types,
         ManifestIsASnapshot
<1>3. ASSUME NEW m \in Maps, LoadMap(m) PROVE ManifestIsASnapshot'
  BY <1>3
     DEF LoadMap, Exists, Turn, clientVars, readVars, shelfVars, RegionInv, Types,
         ManifestIsASnapshot
<1>4. ASSUME NEW p \in Packages, Before(p) PROVE ManifestIsASnapshot'
  BY <1>4
     DEF Before, AsRecorded, clientVars, readVars, shelfVars, RegionInv, Types,
         ManifestIsASnapshot
<1>5. ASSUME NEW p \in Packages, Verify(p) PROVE ManifestIsASnapshot'
  BY <1>5
     DEF Verify, Unchanged, clientVars, readVars, shelfVars, RegionInv, Types,
         ManifestIsASnapshot
<1>6. CASE Read
  BY <1>6 DEF Read, clientVars, readVars, shelfVars, RegionInv, Types, ManifestIsASnapshot
<1>7. CASE After
  BY <1>7
     DEF After, AsRecorded, clientVars, readVars, shelfVars, RegionInv, Types,
         ManifestIsASnapshot
<1>8. CASE AllRead
  BY <1>8
     DEF AllRead, Recorded, clientVars, readVars, shelfVars, RegionInv, Types,
         ManifestIsASnapshot
<1>9. CASE Verified
  BY <1>9
     DEF Verified, clientVars, readVars, shelfVars, RegionInv, Types, ManifestIsASnapshot
<1>10. CASE Save
  BY <1>10
     DEF Save, Recorded, Mesh, clientVars, readVars, shelfVars, RegionInv, Types,
         ManifestIsASnapshot
<1>11. CASE WriteSidecar
  <2>1. /\ step = "sidecar" /\ past' = past
        /\ sidecars' = sidecars \cup {Sidecar}
    BY <1>11 DEF WriteSidecar, clientVars
  <2>2. Sidecar.sources = sources /\ Sidecar.mesh.used = used
    BY DEF Sidecar, Mesh
  <2>3. \A p \in Packages : Sidecar.mesh.used[p] = {Sidecar.sources[p]} \ {Absent}
    BY <2>1, <2>2 DEF RegionInv, UsedIsRecorded, AsTold
  <2>4. PICK state \in past : Between(state)
    BY <2>1 DEF RegionInv, OneMoment, Verifying
  <2>5. \A p \in Packages : Sidecar.sources[p] # Absent => state[p] = Sidecar.sources[p]
    BY <2>1, <2>2, <2>4 DEF Between
  <2> QED
    BY <2>1, <2>3, <2>4, <2>5 DEF RegionInv, ManifestIsASnapshot
<1>12. CASE GiveUp
  BY <1>12
     DEF GiveUp, Idle, Nothing, Unused, clientVars, readVars, shelfVars, RegionInv, Types,
         ManifestIsASnapshot
<1>13. ASSUME NEW p \in Packages, Update(p) PROVE ManifestIsASnapshot'
  BY <1>13
     DEF Update, clientVars, readVars, shelfVars, RegionInv, Types, ManifestIsASnapshot
<1>14. CASE UNCHANGED regionVars
  BY <1>14
     DEF regionVars, clientVars, readVars, shelfVars, RegionInv, Types, ManifestIsASnapshot
<1> QED
  BY <1>1, <1>2, <1>3, <1>4, <1>5, <1>6, <1>7, <1>8, <1>9, <1>10, <1>11, <1>12, <1>13, <1>14
     DEF RegionNext, Generate

(* Spec of the worker alone implies the inductive invariant.               *)
THEOREM RegionInvariant == RegionSpec => []RegionInv
<1>1. RegionInv /\ [RegionNext]_regionVars => RegionInv'
  BY TypesStep, VersionsStep, UsedStep, MomentStep, ManifestStep DEF RegionInv
<1> QED
  BY <1>1, InitHolds, PTL DEF RegionSpec

(* Every sidecar tells what its mesh was made from, and that is one state  *)
(* the client was in (NavmeshRegionGeometry.cpp:42-100).                   *)
THEOREM ManifestsAreSnapshots == RegionSpec => []ManifestIsASnapshot
<1>1. RegionInv => ManifestIsASnapshot
  BY DEF RegionInv
<1> QED
  BY <1>1, RegionInvariant, PTL

-----------------------------------------------------------------------------
(* What stands on the shelf.                                               *)

Loading == {"load", "read", "after"}

Places ==
  /\ todo \subseteq Maps /\ loaded \subseteq Maps
  /\ step # "idle" => region \in Maps
  /\ step \in Loading => map \in Maps /\ unread \subseteq Uses[map] /\ region \notin todo

(* The package of every map that counts as read has been recorded.         *)
ContextIsRead ==
  /\ \A m \in loaded : sources[Own[m]] # Absent
  /\ step \notin {"idle"} \cup Loading => region \in todo \/ sources[Own[region]] # Absent
  /\ step \in Loading =>
       /\ region # map => sources[Own[region]] # Absent
       /\ \A p \in Uses[map] \ unread : sources[p] # Absent
  /\ step \in Verifying => todo = {}

ShelfInv ==
  /\ \A m \in meshes :
       /\ m.map \in Maps /\ m \in MeshesOf(m.map)
       /\ \A p \in Packages : \E v \in Nat : m.used[p] = {v} \ {Absent}
  /\ step \in {"verify again", "sidecar"} => Mesh \in meshes
  /\ \A s \in sidecars :
       /\ s.map \in Maps /\ s \in SidecarsOf(s.map) /\ s.mesh \in meshes
       /\ \A m \in Context(s) : m \in Maps /\ s.sources[Own[m]] # Absent

LEMMA PlacesStep ==
  Types /\ Places /\ [RegionNext]_regionVars => Places'
<1> SUFFICES ASSUME Types, Places, [RegionNext]_regionVars
             PROVE  Places'
  OBVIOUS
<1> USE MapsAssumption DEF MapsAssumption, Types, Places, Loading
<1>1. ASSUME NEW m \in Maps, Begin(m) PROVE Places'
  <2>1. Neighbors(m) \subseteq Maps
    BY DEF Neighbors
  <2> QED
    BY <1>1, <2>1 DEF Begin, readVars
<1>2. ASSUME NEW m \in Maps, SkipMap(m) PROVE Places'
  BY <1>2 DEF SkipMap, readVars
<1>3. ASSUME NEW m \in Maps, LoadMap(m) PROVE Places'
  BY <1>3 DEF LoadMap, Turn
<1>4. ASSUME NEW p \in Packages, Before(p) PROVE Places'
  BY <1>4 DEF Before
<1>5. ASSUME NEW p \in Packages, Verify(p) PROVE Places'
  BY <1>5 DEF Verify, readVars
<1>6. CASE Read
  BY <1>6 DEF Read
<1>7. CASE After
  BY <1>7 DEF After
<1>8. CASE AllRead
  BY <1>8 DEF AllRead, readVars
<1>9. CASE Verified
  BY <1>9 DEF Verified, readVars
<1>10. CASE Save
  BY <1>10 DEF Save, readVars
<1>11. CASE WriteSidecar
  BY <1>11 DEF WriteSidecar, Idle
<1>12. CASE GiveUp
  BY <1>12 DEF GiveUp, Idle
<1>13. ASSUME NEW p \in Packages, Update(p) PROVE Places'
  BY <1>13 DEF Update, readVars
<1>14. CASE UNCHANGED regionVars
  BY <1>14 DEF regionVars, readVars
<1> QED
  BY <1>1, <1>2, <1>3, <1>4, <1>5, <1>6, <1>7, <1>8, <1>9, <1>10, <1>11, <1>12, <1>13, <1>14
     DEF RegionNext, Generate

LEMMA ContextStep ==
  Types /\ VersionsGrow /\ Places /\ ContextIsRead /\ [RegionNext]_regionVars => ContextIsRead'
<1> SUFFICES ASSUME Types, VersionsGrow, Places, ContextIsRead, [RegionNext]_regionVars
             PROVE  ContextIsRead'
  OBVIOUS
<1> USE MapsAssumption DEF MapsAssumption, Types, Places, Loading, Verifying, ContextIsRead
<1>1. ASSUME NEW m \in Maps, Begin(m) PROVE ContextIsRead'
  BY <1>1 DEF Begin, readVars
<1>2. ASSUME NEW m \in Maps, SkipMap(m) PROVE ContextIsRead'
  BY <1>2 DEF SkipMap, readVars
<1>3. ASSUME NEW m \in Maps, LoadMap(m) PROVE ContextIsRead'
  BY <1>3 DEF LoadMap, Turn
<1>4. ASSUME NEW p \in Packages, Before(p) PROVE ContextIsRead'
  BY <1>4 DEF Before
<1>5. ASSUME NEW p \in Packages, Verify(p) PROVE ContextIsRead'
  BY <1>5 DEF Verify, readVars
<1>6. CASE Read
  BY <1>6 DEF Read
<1>7. CASE After
  <2>1. /\ package \in Packages /\ pending # Absent /\ map \in Maps
        /\ sources' = [sources EXCEPT ![package] = pending]
        /\ unread' = unread \ {package}
        /\ UNCHANGED <<region, todo>>
    BY <1>7 DEF After, VersionsGrow
  <2>2. \A p \in Packages : sources[p] # Absent \/ p = package => sources'[p] # Absent
    BY <2>1
  <2>3. \A p \in Uses[map] \ unread' : sources'[p] # Absent
    BY <1>7, <2>1, <2>2 DEF After
  <2>4. region # map => sources'[Own[region]] # Absent
    BY <1>7, <2>2 DEF After
  <2>5. CASE unread' = {}
    <3>1. sources'[Own[map]] # Absent
      BY <2>1, <2>3, <2>5
    <3>2. /\ step' = "maps" /\ loaded' = loaded \cup ({map} \ {region})
      BY <1>7, <2>5 DEF After
    <3> QED
      BY <2>1, <2>2, <2>4, <3>1, <3>2
  <2>6. CASE unread' # {}
    <3>1. step' = "load" /\ UNCHANGED <<map, loaded>>
      BY <1>7, <2>6 DEF After
    <3> QED
      BY <2>1, <2>2, <2>3, <2>4, <3>1
  <2> QED
    BY <2>5, <2>6
<1>8. CASE AllRead
  BY <1>8 DEF AllRead, readVars
<1>9. CASE Verified
  BY <1>9 DEF Verified, readVars
<1>10. CASE Save
  BY <1>10 DEF Save, readVars
<1>11. CASE WriteSidecar
  BY <1>11 DEF WriteSidecar, Idle
<1>12. CASE GiveUp
  BY <1>12 DEF GiveUp, Idle
<1>13. ASSUME NEW p \in Packages, Update(p) PROVE ContextIsRead'
  BY <1>13 DEF Update, readVars
<1>14. CASE UNCHANGED regionVars
  BY <1>14 DEF regionVars, readVars
<1> QED
  BY <1>1, <1>2, <1>3, <1>4, <1>5, <1>6, <1>7, <1>8, <1>9, <1>10, <1>11, <1>12, <1>13, <1>14
     DEF RegionNext, Generate

(* Nothing is taken from the shelf, and what is put on it names its maker. *)
LEMMA ShelvesGrow ==
  [RegionNext]_regionVars =>
    /\ meshes' = meshes \/ (Save /\ meshes' = meshes \cup {Mesh})
    /\ sidecars' = sidecars \/ (WriteSidecar /\ sidecars' = sidecars \cup {Sidecar})
    /\ step' \in {"verify again", "sidecar"} =>
         Save \/ (step \in {"verify again", "sidecar"} /\ UNCHANGED <<region, used>>)
<1> SUFFICES ASSUME [RegionNext]_regionVars
             PROVE  /\ meshes' = meshes \/ (Save /\ meshes' = meshes \cup {Mesh})
                    /\ sidecars' = sidecars \/ (WriteSidecar /\ sidecars' = sidecars \cup {Sidecar})
                    /\ step' \in {"verify again", "sidecar"} =>
                         \/ Save
                         \/ step \in {"verify again", "sidecar"} /\ UNCHANGED <<region, used>>
  OBVIOUS
<1>1. CASE \E m \in Maps : Begin(m) \/ SkipMap(m) \/ LoadMap(m)
  BY <1>1 DEF Begin, SkipMap, LoadMap, readVars, shelfVars
<1>2. CASE \E p \in Packages : Before(p) \/ Verify(p) \/ Update(p)
  BY <1>2 DEF Before, Verify, Update, readVars, shelfVars
<1>3. CASE Read \/ After \/ AllRead \/ Verified \/ GiveUp
  BY <1>3 DEF Read, After, AllRead, Verified, GiveUp, Idle, readVars, shelfVars
<1>4. CASE Save
  BY <1>4 DEF Save, readVars
<1>5. CASE WriteSidecar
  BY <1>5 DEF WriteSidecar, Idle
<1>6. CASE UNCHANGED regionVars
  BY <1>6 DEF regionVars, readVars, shelfVars
<1> QED
  BY <1>1, <1>2, <1>3, <1>4, <1>5, <1>6 DEF RegionNext, Generate

LEMMA ShelfStep ==
  Types /\ UsedIsRecorded /\ Places /\ ContextIsRead /\ ShelfInv /\ [RegionNext]_regionVars
    => ShelfInv'
<1> SUFFICES ASSUME Types, UsedIsRecorded, Places, ContextIsRead, ShelfInv,
                    [RegionNext]_regionVars
             PROVE  ShelfInv'
  OBVIOUS
<1>1. ASSUME NEW m \in meshes'
      PROVE  /\ m.map \in Maps /\ m \in MeshesOf(m.map)
             /\ \A p \in Packages : \E v \in Nat : m.used[p] = {v} \ {Absent}
  <2>1. CASE m \in meshes
    BY <2>1 DEF ShelfInv
  <2>2. CASE Save /\ m = Mesh
    <3>1. m.map = region /\ m.used = used /\ step = "save" /\ region \in Maps
      BY <2>2 DEF Save, Mesh, Places
    <3>2. m \in MeshesOf(m.map)
      BY <2>2 DEF Mesh, MeshesOf, Types
    <3> QED
      BY <3>1, <3>2 DEF UsedIsRecorded, AsTold, Types
  <2> QED
    BY <1>1, <2>1, <2>2, ShelvesGrow
<1>2. step' \in {"verify again", "sidecar"} => Mesh' \in meshes'
  <2>1. meshes \subseteq meshes' /\ (Save => Mesh \in meshes' /\ UNCHANGED <<region, used>>)
    BY ShelvesGrow DEF Save, readVars
  <2>2. UNCHANGED <<region, used>> => Mesh' = Mesh
    BY DEF Mesh
  <2> QED
    BY <2>1, <2>2, ShelvesGrow DEF ShelfInv
<1>3. ASSUME NEW s \in sidecars'
      PROVE  /\ s.map \in Maps /\ s \in SidecarsOf(s.map) /\ s.mesh \in meshes'
             /\ \A m \in Context(s) : m \in Maps /\ s.sources[Own[m]] # Absent
  <2>1. CASE s \in sidecars
    BY <2>1, ShelvesGrow DEF ShelfInv
  <2>2. CASE WriteSidecar /\ s = Sidecar
    <3>1. /\ s.mesh = Mesh /\ s.map = region /\ s.sources = sources /\ region \in Maps
          /\ Context(s) = loaded \cup {region} /\ step = "sidecar"
      BY <2>2 DEF WriteSidecar, Sidecar, Mesh, Context, Places
    <3>2. s.mesh \in meshes'
      BY <3>1, ShelvesGrow DEF ShelfInv
    <3>3. \A m \in loaded \cup {region} : m \in Maps /\ sources[Own[m]] # Absent
      BY <3>1 DEF Places, ContextIsRead, Loading, Verifying
    <3>4. s \in SidecarsOf(s.map)
      BY <2>2, <3>1 DEF Sidecar, SidecarsOf, MeshesOf, Mesh, Types, Places
    <3> QED
      BY <3>1, <3>2, <3>3, <3>4
  <2> QED
    BY <1>3, <2>1, <2>2, ShelvesGrow
<1> QED
  BY <1>1, <1>2, <1>3 DEF ShelfInv, Context

(* What is on the shelf when the reader comes to it: every mesh is made of *)
(* one version of each package, and a sidecar names for every map that it  *)
(* calls loaded the package it was loaded from.                            *)
Shelf == RegionInv /\ Places /\ ContextIsRead /\ ShelfInv

(* The worker alone keeps the shelf so (NavmeshRegionGeometry.cpp:70-100). *)
THEOREM ShelfInvariant == RegionSpec => []Shelf
<1>1. RegionInit => Places /\ ContextIsRead /\ ShelfInv
  BY DEF RegionInit, Places, ContextIsRead, ShelfInv, Loading, Verifying
<1>2. Shelf /\ [RegionNext]_regionVars => Places' /\ ContextIsRead' /\ ShelfInv'
  BY PlacesStep, ContextStep, ShelfStep DEF Shelf, RegionInv
<1>3. RegionInit => Shelf
  BY <1>1, InitHolds DEF Shelf
<1>4. Shelf /\ [RegionNext]_regionVars => Shelf'
  BY <1>2, TypesStep, VersionsStep, UsedStep, MomentStep, ManifestStep DEF Shelf, RegionInv
<1> QED
  BY <1>3, <1>4, PTL DEF RegionSpec

-----------------------------------------------------------------------------
(* What the reader knows.                                                  *)

Merging == {"read marker", "match", "load", "hash mesh", "hash marker"}
Marked == {"preflight", "merge", "boundary"} \cup Merging

(* What is picked is on the shelf, and a replaced file does not return; a  *)
(* region is found to have a sidecar or not, and that does not change.     *)
PickedFiles ==
  /\ \A r \in Maps :
       /\ meshAt[r] \in meshes \cup {None} /\ markerAt[r] \in sidecars \cup {None}
       /\ meshAt[r] # None => meshAt[r].map = r /\ meshAt[r] \notin gone
       /\ markerAt[r] # None => meshAt[r] # None
  /\ left \subseteq Picked
  /\ stage = "identify" =>
       \A r \in Picked \ left : chosen[r].marker = None <=> markerAt[r] = None
  /\ stage = "verify" =>
       \A r \in Picked : chosen[r].marker = None <=> markerAt[r] = None
  /\ stage \in Marked => \A r \in Picked : markerAt[r] # None
  /\ meshAt \in [Maps -> meshes \cup {None}] /\ markerAt \in [Maps -> sidecars \cup {None}]
  /\ chosen \in [Maps -> [mesh : meshes \cup {None}, marker : sidecars \cup {None}]]
  /\ stage = "idle" => gone = {}

(* The region that is loaded: its sidecar may have named a mesh that is    *)
(* gone by now, but then the second hash will not find it.                 *)
Current ==
  /\ stage \in Merging => current \in Picked
  /\ stage \in Merging \ {"read marker"} => metadata \in sidecars
  /\ stage \in {"load", "hash mesh"} => metadata.mesh \in {meshAt[current]} \cup gone
  /\ stage = "hash mesh" => mesh = meshAt[current] \/ metadata.mesh \in gone
  /\ stage = "hash marker" => mesh = metadata.mesh
  /\ stage \in {"load", "hash mesh", "hash marker"} =>
       \A pair \in world : Agrees(metadata, pair.marker)

(* What has been merged: meshes with their sidecars, which agree, or one   *)
(* region without.                                                         *)
Marks(pair) == pair.marker \in sidecars /\ pair.mesh = pair.marker.mesh
Merged ==
  /\ \A p, q \in world : Marks(p) /\ Agrees(p.marker, q.marker)
  /\ stage \in {"check again", "ready"} => \A p, q \in world : Complete(p.marker, q.marker)
Alone ==
  /\ stage \in {"check again", "ready"}
  /\ \E m \in meshes : world = {Pair(m, None)}

WorldInv ==
  /\ PickedFiles /\ Current
  /\ Merged \/ Alone

LEMMA WorldInitHolds == WorldInit => WorldInv
BY DEF WorldInit, WorldInv, PickedFiles, Current, Merged, Unpicked, Unchosen, NoPair, Pair,
       Picked, Marked, Merging

(* A step of the worker: nothing is picked meanwhile.                      *)
LEMMA WorkerStep ==
  WorldInv /\ [RegionNext]_regionVars /\ stage = "idle" /\ UNCHANGED worldVars => WorldInv'
<1> SUFFICES ASSUME WorldInv, [RegionNext]_regionVars, stage = "idle", UNCHANGED worldVars
             PROVE  WorldInv'
  OBVIOUS
<1>1. meshes \subseteq meshes' /\ sidecars \subseteq sidecars'
  BY ShelvesGrow
<1>2. PickedFiles'
  BY <1>1 DEF WorldInv, PickedFiles, worldVars, placeVars, loadVars, Picked, Marked, Merging
<1>3. Current'
  BY DEF worldVars, placeVars, loadVars, Current, Merging
<1>4. Merged'
  BY <1>1 DEF WorldInv, worldVars, placeVars, loadVars, Merged, Alone, Marks
<1> QED
  BY <1>2, <1>3, <1>4 DEF WorldInv, worldVars

LEMMA NoneIsNoFile == ShelfInv => None \notin meshes \cup sidecars
BY NoneAssumption DEF NoneAssumption, ShelfInv

LEMMA MeshesAreNoSidecars ==
  ASSUME ShelfInv, NEW m \in meshes, NEW s \in sidecars
  PROVE  m # s
<1>1. DOMAIN m = {"map", "used"}
  BY DEF ShelfInv, MeshesOf
<1>2. DOMAIN s = {"map", "sources", "loaded", "mesh"}
  BY DEF ShelfInv, SidecarsOf
<1> QED
  BY <1>1, <1>2

(* Ends a stage or goes on with it.                                        *)
LEMMA TickLeaves ==
  ASSUME NEW r \in left, NEW next, NEW all, Tick(r, next, all)
  PROVE  \/ stage' = stage /\ left' = left \ {r}
         \/ stage' = next /\ left' = all /\ left = {r}
BY DEF Tick

LEMMA LookStep ==
  WorldInv /\ ShelfInv /\ Look /\ UNCHANGED regionVars => WorldInv'
<1> SUFFICES ASSUME WorldInv, ShelfInv, Look, UNCHANGED regionVars
             PROVE  WorldInv'
  OBVIOUS
<1> USE DEF WorldInv
<1>0. UNCHANGED <<meshes, sidecars>> /\ None \notin meshes \cup sidecars
  BY NoneIsNoFile DEF regionVars, shelfVars
<1>1. ASSUME NEW picked \in SUBSET Maps, Open(picked) PROVE WorldInv'
  <2>1. /\ stage' = "identify" /\ left' = picked /\ Picked' = picked
        /\ UNCHANGED <<gone, chosen>> /\ gone = {}
    BY <1>1 DEF Open, Picked, PickedFiles
  <2>4. PickedFiles'
    BY <1>0, <1>1, <2>1 DEF Open, PickedFiles, Marked, Merging
  <2>2. Current'
    BY <1>1 DEF Open, Current, Merging, loadVars
  <2>3. Merged'
    BY <1>0, <1>1 DEF Open, Merged, Alone, Marks
  <2> QED
    BY <2>2, <2>3, <2>4
<1>2. ASSUME NEW r \in Maps, NEW new \in meshes, ReplaceMesh(r, new) PROVE WorldInv'
  <2>0. Picked' = Picked
    BY <1>0, <1>2 DEF ReplaceMesh, PickedFiles, Picked
  <2>1. PickedFiles'
    <3>1. /\ meshAt' = [meshAt EXCEPT ![r] = new] /\ gone' = gone \cup {meshAt[r]}
          /\ new.map = r /\ new \notin gone \cup {meshAt[r]} /\ meshAt[r] # None /\ new # None
          /\ stage \notin {"idle", "ready"}
          /\ UNCHANGED <<stage, left, markerAt, chosen>>
      BY <1>0, <1>2 DEF ReplaceMesh, Reading, Picked
    <3>2. meshAt' \in [Maps -> meshes \cup {None}]
      BY <3>1 DEF PickedFiles
    <3>3. \A x \in Maps : meshAt'[x] = IF x = r THEN new ELSE meshAt[x]
      BY <3>1 DEF PickedFiles
    <3>4. ASSUME NEW x \in Maps, meshAt'[x] # None
          PROVE  meshAt'[x].map = x /\ meshAt'[x] \notin gone'
      <4>1. CASE x = r
        BY <3>1, <3>3, <4>1
      <4>2. CASE x # r
        <5>1. meshAt'[x] = meshAt[x] /\ meshAt[x].map = x /\ meshAt[x] \notin gone
          BY <3>3, <3>4, <4>2 DEF PickedFiles
        <5>2. meshAt[r].map = r
          BY <3>1 DEF PickedFiles
        <5> QED
          BY <3>1, <4>2, <5>1, <5>2
      <4> QED
        BY <4>1, <4>2
    <3> QED
      BY <1>0, <2>0, <3>1, <3>2, <3>3, <3>4 DEF PickedFiles, Marked, Merging
  <2>2. Current'
    BY <1>0, <1>2 DEF ReplaceMesh, Current, Merging, loadVars, PickedFiles, Picked
  <2>3. Merged' \/ Alone'
    BY <1>0, <1>2 DEF ReplaceMesh, Merged, Alone, Marks
  <2> QED
    BY <2>1, <2>2, <2>3
<1>3. ASSUME NEW r \in Maps, NEW new \in sidecars, ReplaceMarker(r, new) PROVE WorldInv'
  <2>0. Picked' = Picked
    BY <1>3 DEF ReplaceMarker, Picked
  <2>1. PickedFiles'
    <3>1. /\ markerAt' = [markerAt EXCEPT ![r] = new] /\ gone' = gone \cup {markerAt[r]}
          /\ markerAt[r] # None /\ new # None
          /\ stage \notin {"idle", "ready"}
          /\ UNCHANGED <<stage, left, meshAt, chosen>>
      BY <1>0, <1>3 DEF ReplaceMarker, Reading
    <3>2. markerAt' \in [Maps -> sidecars \cup {None}]
      BY <3>1 DEF PickedFiles
    <3>3. \A x \in Maps : markerAt'[x] = None <=> markerAt[x] = None
      BY <3>1 DEF PickedFiles
    <3>4. \A x \in Maps : meshAt[x] # markerAt[r]
      BY <1>0, <3>1, MeshesAreNoSidecars DEF PickedFiles
    <3> QED
      BY <1>0, <2>0, <3>1, <3>2, <3>3, <3>4 DEF PickedFiles, Marked, Merging, Picked
  <2>2. Current'
    BY <1>0, <1>3 DEF ReplaceMarker, Current, Merging, loadVars, PickedFiles, Picked
  <2>3. Merged' \/ Alone'
    BY <1>0, <1>3 DEF ReplaceMarker, Merged, Alone, Marks
  <2> QED
    BY <2>1, <2>2, <2>3
<1>4. ASSUME NEW r \in Maps, IdentifyMesh(r) PROVE WorldInv'
  BY <1>0, <1>4 DEF IdentifyMesh, PickedFiles, Picked, Marked, Merging, Current, loadVars, placeVars,
     Merged, Alone, Marks
<1>5. ASSUME NEW r \in Maps, IdentifyMarker(r) PROVE WorldInv'
  <2>1. /\ stage = "identify" /\ r \in left
        /\ chosen' = [chosen EXCEPT ![r].marker = markerAt[r]]
        /\ UNCHANGED <<meshAt, markerAt, gone, world>>
        /\ \/ stage' = "identify" /\ left' = left \ {r}
           \/ stage' = "verify" /\ left' = Picked /\ left = {r}
    BY <1>5, TickLeaves DEF IdentifyMarker, placeVars
  <2>2. Picked' = Picked
    BY <2>1 DEF Picked
  <2>3. \A x \in Maps : x # r => chosen'[x] = chosen[x]
    BY <2>1 DEF PickedFiles
  <2>4. chosen'[r].marker = markerAt[r]
    BY <2>1 DEF PickedFiles
  <2>5. PickedFiles'
    <3>1. chosen' \in [Maps -> [mesh : meshes \cup {None}, marker : sidecars \cup {None}]]
      BY <2>1 DEF PickedFiles
    <3> QED
      BY <1>0, <2>1, <2>2, <2>3, <2>4, <3>1 DEF PickedFiles, Picked, Marked, Merging
  <2>6. Current' /\ Merged'
    BY <1>0, <2>1 DEF Current, Merging, Merged, Alone, Marks
  <2> QED
    BY <2>5, <2>6
<1>6. ASSUME NEW r \in Maps, VerifyPair(r) PROVE WorldInv'
  <2>1. /\ stage = "verify" /\ UNCHANGED <<meshAt, markerAt, gone, chosen, world>>
        /\ \/ stage' = "verify" /\ left' = left \ {r}
           \/ stage' = "load alone" /\ left' = {}
           \/ stage' = "preflight" /\ left' = Picked /\ ~Legacy
    BY <1>6, TickLeaves DEF VerifyPair, placeVars
  <2>2. PickedFiles'
    BY <1>0, <2>1 DEF PickedFiles, Picked, Marked, Merging, Legacy
  <2>3. Current' /\ Merged'
    BY <1>0, <2>1 DEF Current, Merging, Merged, Alone, Marks
  <2> QED
    BY <2>2, <2>3
<1>7. ASSUME NEW r \in Maps, LoadAlone(r) PROVE WorldInv'
  BY <1>0, <1>7 DEF LoadAlone, PickedFiles, Picked, Marked, Merging, Current, loadVars,
     placeVars, Alone
<1>8. ASSUME NEW r \in Maps, Preflight(r) PROVE WorldInv'
  BY <1>0, <1>8 DEF Preflight, Tick, PickedFiles, Picked, Marked, Merging, Current, loadVars,
     placeVars, Merged, Alone, Marks
<1>9. ASSUME NEW r \in Maps, HashMarker(r) PROVE WorldInv'
  BY <1>0, <1>9 DEF HashMarker, InTurn, PickedFiles, Picked, Marked, Merging, Current, loadVars,
     placeVars, Merged, Alone, Marks
<1>10. CASE ReadMarker
  BY <1>0, <1>10 DEF ReadMarker, PickedFiles, Picked, Marked, Merging, Current, loadVars,
     placeVars, Merged, Alone, Marks
<1>11. CASE Match
  BY <1>0, <1>11 DEF Match, PickedFiles, Picked, Marked, Merging, Current, loadVars,
     placeVars, Merged, Alone, Marks
<1>12. CASE Load
  BY <1>0, <1>12 DEF Load, PickedFiles, Picked, Marked, Merging, Current, loadVars,
     placeVars, Merged, Alone, Marks
<1>13. CASE HashMesh
  BY <1>0, <1>13 DEF HashMesh, PickedFiles, Picked, Marked, Merging, Current, loadVars,
     placeVars, Merged, Alone, Marks
<1>14. CASE Merge
  <2>1. PickedFiles' /\ Current'
    BY <1>0, <1>14 DEF Merge, PickedFiles, Picked, Marked, Merging, Current, placeVars
  <2>2. Merged /\ metadata \in sidecars /\ mesh = metadata.mesh
        /\ \A pair \in world : Agrees(metadata, pair.marker)
    BY <1>14 DEF Merge, Merging, Current, Alone
  <2>3. world' = world \cup {Pair(mesh, metadata)} /\ stage' \in {"boundary", "merge"}
    BY <1>14 DEF Merge
  <2>4. \A s, t : Agrees(s, t) => Agrees(t, s)
    BY DEF Agrees
  <2>5. Agrees(metadata, metadata)
    BY DEF Agrees
  <2>6. Pair(mesh, metadata).mesh = mesh /\ Pair(mesh, metadata).marker = metadata
    BY DEF Pair
  <2>7. \A p, q \in world' : Marks(p)' /\ Agrees(p.marker, q.marker)
    <3> SUFFICES ASSUME NEW p \in world', NEW q \in world'
                 PROVE  Marks(p)' /\ Agrees(p.marker, q.marker)
      OBVIOUS
    <3>1. \A x \in world' : x \in world \/ x = Pair(mesh, metadata)
      BY <2>3
    <3>2. \A x, y \in world : Marks(x) /\ Agrees(x.marker, y.marker)
      BY <2>2 DEF Merged
    <3>3. Marks(p)'
      BY <1>0, <2>2, <2>6, <3>1, <3>2 DEF Marks
    <3>4. Agrees(p.marker, q.marker)
      BY <2>2, <2>4, <2>5, <2>6, <3>1, <3>2
    <3> QED
      BY <3>3, <3>4
  <2> QED
    BY <2>1, <2>3, <2>7 DEF Merged
<1>15. CASE Boundary
  BY <1>0, <1>15 DEF Boundary, PickedFiles, Picked, Marked, Merging, Current, loadVars,
     placeVars, Merged, Alone, Marks
<1>16. ASSUME NEW r \in Maps, CheckAgain(r) PROVE WorldInv'
  BY <1>0, <1>16 DEF CheckAgain, Tick, PickedFiles, Picked, Marked, Merging, Current, loadVars,
     placeVars, Merged, Alone, Marks
<1>17. CASE Close
  BY <1>17 DEF Close, PickedFiles, Picked, Marked, Merging, Current, Merged, Unpicked, Unchosen,
     NoPair, Pair
<1> QED
  BY <1>1, <1>2, <1>3, <1>4, <1>5, <1>6, <1>7, <1>8, <1>9, <1>10, <1>11, <1>12, <1>13, <1>14,
     <1>15, <1>16, <1>17 DEF Look

(* What the reader has merged so far, and what it knows of the region it   *)
(* is at, whatever is copied over the files meanwhile (WorldMesh.cpp:50-77).*)
THEOREM WorldInvariant == Spec => [](Shelf /\ WorldInv)
<1>1. Spec => RegionSpec
  <2>1. WorldInit => RegionInit
    BY DEF WorldInit
  <2>2. [Next]_vars => [RegionNext]_regionVars
    BY DEF Next, vars
  <2> QED
    BY <2>1, <2>2, PTL DEF Spec, RegionSpec
<1>2. Shelf /\ WorldInv /\ [Next]_vars => WorldInv'
  <2> SUFFICES ASSUME Shelf, WorldInv, [Next]_vars
               PROVE  WorldInv'
    OBVIOUS
  <2>1. CASE RegionNext /\ stage = "idle" /\ UNCHANGED worldVars
    BY <2>1, WorkerStep
  <2>2. CASE Look /\ step = "idle" /\ UNCHANGED regionVars
    BY <2>2, LookStep DEF Shelf
  <2>3. CASE UNCHANGED vars
    BY <2>3 DEF vars, regionVars, shelfVars, worldVars, placeVars, loadVars, WorldInv, PickedFiles,
       Picked, Current, Merged, Alone, Marks
  <2> QED
    BY <2>1, <2>2, <2>3 DEF Next
<1> QED
  BY <1>1, <1>2, ShelfInvariant, WorldInitHolds, PTL DEF Spec

(* One version of a package, or none.                                      *)
LEMMA OneVersion ==
  ASSUME NEW v, NEW A, A \subseteq {v}
  PROVE  Cardinality(A) <= 1
<1>1. CASE A = {}
  BY <1>1, FS_EmptySet
<1>2. CASE A = {v}
  BY <1>2, FS_Singleton
<1> QED
  BY <1>1, <1>2

(* The meshes of a world were generated from the same packages, and two    *)
(* that share a side have both read every map around it: as what is merged *)
(* is what its sidecar names, and sidecars agree in pairs.                 *)
THEOREM WorldsAreOfOneClient == Spec => []WorldIsOfOneClient
<1>1. Shelf /\ WorldInv => WorldIsOfOneClient
  <2> SUFFICES ASSUME Shelf, WorldInv, stage = "ready",
                      NEW a \in {pair.mesh : pair \in world}, NEW b \in {pair.mesh : pair \in world}
               PROVE  /\ \A p \in Packages : Cardinality(a.used[p] \cup b.used[p]) <= 1
                      /\ ShareSide(a.map, b.map) =>
                           \A m \in Around(a.map) \cap Around(b.map) :
                             a.used[Own[m]] # {} /\ b.used[Own[m]] # {}
    BY DEF WorldIsOfOneClient
  <2>1. CASE Merged
    <3>1. PICK x \in world, y \in world : a = x.mesh /\ b = y.mesh
      OBVIOUS
    <3>2. DEFINE s == x.marker
                 t == y.marker
    <3>3. /\ s \in sidecars /\ t \in sidecars /\ a = s.mesh /\ b = t.mesh
          /\ Agrees(s, t) /\ Complete(s, t)
      BY <2>1, <3>1 DEF Merged, Marks
    <3> HIDE DEF s, t
    <3>4. \A p \in Packages : a.used[p] = {s.sources[p]} \ {Absent}
                              /\ b.used[p] = {t.sources[p]} \ {Absent}
      BY <3>3 DEF Shelf, RegionInv, ManifestIsASnapshot
    <3>5. ASSUME NEW p \in Packages PROVE Cardinality(a.used[p] \cup b.used[p]) <= 1
      <4>1. \E v : a.used[p] \cup b.used[p] \subseteq {v}
        BY <3>3, <3>4 DEF Agrees
      <4> QED
        BY <4>1, OneVersion
    <3>6. a.map = s.map /\ b.map = t.map /\ a.map \in Maps /\ b.map \in Maps
      BY <3>3 DEF Shelf, ShelfInv, SidecarsOf, MeshesOf
    <3>7. ASSUME ShareSide(a.map, b.map), NEW m \in Around(a.map) \cap Around(b.map)
          PROVE  a.used[Own[m]] # {} /\ b.used[Own[m]] # {}
      <4>1. m \in Context(s) /\ m \in Context(t)
        BY <3>3, <3>6, <3>7 DEF Complete
      <4>2. m \in Maps /\ s.sources[Own[m]] # Absent /\ t.sources[Own[m]] # Absent
        BY <3>3, <4>1 DEF Shelf, ShelfInv
      <4>3. Own[m] \in Packages
        BY <4>2, MapsAssumption DEF MapsAssumption
      <4> QED
        BY <3>4, <4>2, <4>3
    <3> QED
      BY <3>5, <3>7
  <2>2. CASE Alone
    <3>1. PICK m \in meshes : a = m /\ b = m
      BY <2>2 DEF Alone, Pair
    <3>2. ~ShareSide(m.map, m.map)
      <4>1. m.map \in Nat \X Nat
        BY MapsAssumption DEF Shelf, ShelfInv, MapsAssumption
      <4>2. m.map[1] \in Nat /\ m.map[2] \in Nat
        BY <4>1
      <4> QED
        BY <4>2 DEF ShareSide, Apart
    <3>3. ASSUME NEW p \in Packages PROVE Cardinality(a.used[p] \cup b.used[p]) <= 1
      <4>1. \E v : m.used[p] \subseteq {v}
        BY DEF Shelf, ShelfInv
      <4> QED
        BY <3>1, <4>1, OneVersion
    <3> QED
      BY <3>1, <3>2, <3>3
  <2> QED
    BY <2>1, <2>2 DEF WorldInv
<1> QED
  BY <1>1, WorldInvariant, PTL

-----------------------------------------------------------------------------
(* Sums over finite sets.                                                  *)

(* Induction, with a set in place of a predicate.                          *)
LEMMA NumbersInduction ==
  ASSUME NEW T \in SUBSET Nat, 0 \in T, \A n \in T : n + 1 \in T
  PROVE  T = Nat
<1> DEFINE R == {p \in Nat \X Nat : p[1] < p[2]}
           Out == Nat \ T
<1> SUFFICES ASSUME Out # {} PROVE FALSE
  OBVIOUS
<1>2. IsWellFoundedOn(R, Nat)
  BY NatLessThanWellFounded DEF OpToRel
<1> HIDE DEF R
<1>3. PICK x \in Out : \A y \in Out : ~ (<<y, x>> \in R)
  BY <1>2, WFMin
<1>4. x \in Nat /\ x # 0 /\ x - 1 \in Nat /\ x - 1 < x /\ (x - 1) + 1 = x
  BY <1>3
<1>5. <<x - 1, x>> \in R
  BY <1>4 DEF R
<1>6. x - 1 \in T
  BY <1>3, <1>4, <1>5
<1> QED BY <1>3, <1>4, <1>6

LEMMA SetsInduction ==
  ASSUME NEW S, IsFiniteSet(S), NEW T,
         \A s \in SUBSET S : (\A x \in s : s \ {x} \in T) => s \in T
  PROVE  \A s \in SUBSET S : s \in T
<1> DEFINE N == {n \in Nat : \A s \in SUBSET S : Cardinality(s) = n => s \in T}
<1>1. \A s \in SUBSET S : IsFiniteSet(s) /\ Cardinality(s) \in Nat
  BY FS_Subset, FS_CardinalityType
<1>2. 0 \in N
  <2>1. \A s \in SUBSET S : Cardinality(s) = 0 => s = {}
    BY <1>1, FS_EmptySet
  <2> QED BY <2>1
<1>3. ASSUME NEW n \in N PROVE n + 1 \in N
  <2>1. n + 1 \in Nat
    OBVIOUS
  <2>2. ASSUME NEW s \in SUBSET S, Cardinality(s) = n + 1 PROVE s \in T
    <3>1. ASSUME NEW x \in s PROVE s \ {x} \in T
      <4>1. Cardinality(s \ {x}) = n
        BY <1>1, <2>2, FS_RemoveElement
      <4> QED BY <4>1
    <3> QED BY <3>1
  <2> QED BY <2>1, <2>2
<1>4. N = Nat
  <2> HIDE DEF N
  <2>1. N \in SUBSET Nat
    BY DEF N
  <2> QED BY <1>2, <1>3, <2>1, NumbersInduction
<1> QED BY <1>1, <1>4

(* A fold over the subsets of a finite set is well defined.                *)
IsFold(g, S, V, base, F, pick) ==
  /\ g \in [SUBSET S -> V]
  /\ \A s \in SUBSET S : g[s] = IF s = {} THEN base ELSE F[<<pick[s], g[s \ {pick[s]}]>>]
LEMMA FoldExists ==
  ASSUME NEW S, IsFiniteSet(S), NEW V, NEW base \in V, NEW F \in [S \X V -> V],
         NEW pick, \A s \in SUBSET S : s # {} => pick[s] \in s
  PROVE  \E g : IsFold(g, S, V, base, F, pick)
<1> DEFINE Good(g, s) == g[s] = IF s = {} THEN base ELSE F[<<pick[s], g[s \ {pick[s]}]>>]
           N == {n \in Nat : \E g \in [SUBSET S -> V] : \A s \in SUBSET S : Cardinality(s) <= n => Good(g, s)}
<1>1. \A s \in SUBSET S : IsFiniteSet(s) /\ Cardinality(s) \in Nat
  BY FS_Subset, FS_CardinalityType
<1>2. 0 \in N
  <2>1. \A s \in SUBSET S : Cardinality(s) <= 0 => s = {}
    BY <1>1, FS_EmptySet
  <2>2. [s \in SUBSET S |-> base] \in [SUBSET S -> V]
    OBVIOUS
  <2> QED BY <2>1, <2>2
<1>3. ASSUME NEW n \in N PROVE n + 1 \in N
  <2>1. PICK g \in [SUBSET S -> V] : \A s \in SUBSET S : Cardinality(s) <= n => Good(g, s)
    OBVIOUS
  <2> DEFINE h == [s \in SUBSET S |-> IF s = {} THEN base ELSE F[<<pick[s], g[s \ {pick[s]}]>>]]
  <2>2. h \in [SUBSET S -> V]
    <3>1. ASSUME NEW s \in SUBSET S, s # {} PROVE F[<<pick[s], g[s \ {pick[s]}]>>] \in V
      <4>1. pick[s] \in S /\ s \ {pick[s]} \in SUBSET S
        BY <3>1
      <4> QED BY <4>1
    <3> QED BY <3>1
  <2>3. ASSUME NEW s \in SUBSET S, Cardinality(s) <= n PROVE h[s] = g[s]
    BY <2>1, <2>3
  <2>4. ASSUME NEW s \in SUBSET S, Cardinality(s) <= n + 1 PROVE Good(h, s)
    <3>1. CASE s = {}
      BY <3>1
    <3>2. CASE s # {}
      <4>1. pick[s] \in s /\ s \ {pick[s]} \in SUBSET S
        BY <3>2
      <4>2. Cardinality(s \ {pick[s]}) = Cardinality(s) - 1
        BY <1>1, <4>1, FS_RemoveElement
      <4>3. Cardinality(s \ {pick[s]}) <= n
        BY <1>1, <2>4, <4>2
      <4>4. h[s \ {pick[s]}] = g[s \ {pick[s]}]
        BY <2>3, <4>1, <4>3
      <4> QED BY <3>2, <4>4
    <3> QED BY <3>1, <3>2
  <2>5. n + 1 \in Nat
    OBVIOUS
  <2> HIDE DEF h, Good
  <2> QED BY <2>2, <2>4, <2>5
<1>4. N = Nat
  <2> HIDE DEF N
  <2>1. N \in SUBSET Nat
    BY DEF N
  <2> QED BY <1>2, <1>3, <2>1, NumbersInduction
<1>5. Cardinality(S) \in N
  BY <1>1, <1>4
<1>6. PICK g \in [SUBSET S -> V] : \A s \in SUBSET S : Cardinality(s) <= Cardinality(S) => Good(g, s)
  BY <1>5
<1>7. \A s \in SUBSET S : Cardinality(s) <= Cardinality(S)
  BY FS_Subset
<1> QED BY <1>6, <1>7 DEF IsFold

Pick(s) == CHOOSE x \in s : TRUE
SumBody(f, S, g) == [s \in SUBSET S |-> IF s = {} THEN 0 ELSE f[Pick(s)] + g[s \ {Pick(s)}]]

(* A sum, as it is defined: it takes out one element after another.        *)
LEMMA SumIs ==
  ASSUME NEW f, NEW S
  PROVE  SumFunctionOnSet(f, S) = (CHOOSE g : g = SumBody(f, S, g))[S]
BY DEF SumFunctionOnSet, FoldFunctionOnSet, MapThenFoldSet, SumBody, Pick

LEMMA SumsAre ==
  ASSUME NEW f, NEW S, IsFiniteSet(S), \A x \in S : f[x] \in Nat
  PROVE  \E g \in [SUBSET S -> Nat] : g = SumBody(f, S, g) /\ SumFunctionOnSet(f, S) = g[S]
<1> DEFINE F == [p \in S \X Nat |-> f[p[1]] + p[2]]
           pick == [s \in SUBSET S |-> Pick(s)]
<1>1. F \in [S \X Nat -> Nat]
  OBVIOUS
<1>2. \A s \in SUBSET S : s # {} => pick[s] \in s
  BY DEF Pick
<1>a. \A s \in SUBSET S : pick[s] = Pick(s)
  OBVIOUS
<1>b. \A x \in S, n \in Nat : F[<<x, n>>] = f[x] + n
  OBVIOUS
<1> HIDE DEF F, pick
<1>3. PICK g \in [SUBSET S -> Nat] :
        \A s \in SUBSET S : g[s] = IF s = {} THEN 0 ELSE F[<<pick[s], g[s \ {pick[s]}]>>]
  <2>1. PICK V, base : V = Nat /\ base = 0
    OBVIOUS
  <2>2. F \in [S \X V -> V] /\ base \in V
    BY <1>1, <2>1
  <2>3. \E g : IsFold(g, S, V, base, F, pick)
    BY <1>2, <2>2, FoldExists
  <2> QED BY <2>1, <2>3 DEF IsFold
<1>4. g = SumBody(f, S, g)
  <2>1. ASSUME NEW s \in SUBSET S, s # {} PROVE g[s] = f[Pick(s)] + g[s \ {Pick(s)}]
    <3>1. Pick(s) \in S /\ g[s \ {Pick(s)}] \in Nat
      BY <2>1, <1>2, <1>a
    <3> QED BY <1>3, <1>a, <1>b, <2>1, <3>1
  <2>2. g[{}] = 0
    BY <1>3
  <2> QED BY <2>1, <2>2 DEF SumBody
<1> DEFINE c == CHOOSE x : x = SumBody(f, S, x)
<1>5. c = SumBody(f, S, c)
  BY <1>4
<1>6. SumFunctionOnSet(f, S) = c[S]
  BY SumIs
<1> HIDE DEF c
<1> DEFINE T == {s \in SUBSET S : c[s] = g[s]}
<1>7. ASSUME NEW s \in SUBSET S, \A x \in s : s \ {x} \in T PROVE s \in T
  <2>1. CASE s = {}
    BY <1>4, <1>5, <2>1 DEF SumBody
  <2>2. CASE s # {}
    <3>1. c[s \ {Pick(s)}] = g[s \ {Pick(s)}]
      BY <1>2, <1>7, <1>a, <2>2
    <3>2. c[s] = f[Pick(s)] + c[s \ {Pick(s)}] /\ g[s] = f[Pick(s)] + g[s \ {Pick(s)}]
      BY <1>4, <1>5, <2>2 DEF SumBody
    <3> QED BY <3>1, <3>2
  <2> QED BY <2>1, <2>2
<1>8. \A s \in SUBSET S : s \in T
  <2> HIDE DEF T
  <2> QED BY <1>7, SetsInduction
<1> QED BY <1>4, <1>6, <1>8

(* It does not matter of which set a set is a part when it is summed up.   *)
LEMMA SumOfPart ==
  ASSUME NEW f, NEW S, IsFiniteSet(S), \A x \in S : f[x] \in Nat,
         NEW g \in [SUBSET S -> Nat], g = SumBody(f, S, g), NEW U \in SUBSET S
  PROVE  SumFunctionOnSet(f, U) = g[U]
<1>1. IsFiniteSet(U) /\ \A x \in U : f[x] \in Nat
  BY FS_Subset
<1>2. PICK h \in [SUBSET U -> Nat] : h = SumBody(f, U, h) /\ SumFunctionOnSet(f, U) = h[U]
  BY <1>1, SumsAre
<1> DEFINE T == {s \in SUBSET U : h[s] = g[s]}
<1>3. ASSUME NEW s \in SUBSET U, \A x \in s : s \ {x} \in T PROVE s \in T
  <2>1. CASE s = {}
    BY <1>2, <2>1 DEF SumBody
  <2>2. CASE s # {}
    <3>0. Pick(s) \in s
      BY <2>2 DEF Pick
    <3>1. h[s \ {Pick(s)}] = g[s \ {Pick(s)}]
      BY <1>3, <3>0
    <3>2. h[s] = f[Pick(s)] + h[s \ {Pick(s)}] /\ g[s] = f[Pick(s)] + g[s \ {Pick(s)}]
      BY <1>2, <2>2 DEF SumBody
    <3> QED BY <3>1, <3>2
  <2> QED BY <2>1, <2>2
<1>4. U \in T
  <2> HIDE DEF T
  <2>1. \A s \in SUBSET U : s \in T
    BY <1>1, <1>3, SetsInduction
  <2> QED BY <2>1
<1> QED BY <1>2, <1>4

LEMMA SumIsNat ==
  ASSUME NEW f, NEW S, IsFiniteSet(S), \A x \in S : f[x] \in Nat
  PROVE  SumFunctionOnSet(f, S) \in Nat
<1>1. PICK g \in [SUBSET S -> Nat] : g = SumBody(f, S, g) /\ SumFunctionOnSet(f, S) = g[S]
  BY SumsAre
<1> QED BY <1>1

(* One element, whichever, taken out of a sum.                             *)
LEMMA SumOneOut ==
  ASSUME NEW f, NEW S, IsFiniteSet(S), \A x \in S : f[x] \in Nat, NEW e \in S
  PROVE  SumFunctionOnSet(f, S) = f[e] + SumFunctionOnSet(f, S \ {e})
<1>1. PICK g \in [SUBSET S -> Nat] : g = SumBody(f, S, g) /\ SumFunctionOnSet(f, S) = g[S]
  BY SumsAre
<1> DEFINE T == {s \in SUBSET S : \A x \in s : g[s] = f[x] + g[s \ {x}]}
<1>2. ASSUME NEW s \in SUBSET S, \A x \in s : s \ {x} \in T PROVE s \in T
  <2> SUFFICES ASSUME NEW x \in s PROVE g[s] = f[x] + g[s \ {x}]
    OBVIOUS
  <2>0. Pick(s) \in s
    BY DEF Pick
  <2>1. g[s] = f[Pick(s)] + g[s \ {Pick(s)}]
    BY <1>1 DEF SumBody
  <2>2. CASE x # Pick(s)
    <3>1. g[s \ {Pick(s)}] = f[x] + g[(s \ {Pick(s)}) \ {x}]
      BY <1>2, <2>0, <2>2
    <3>2. g[s \ {x}] = f[Pick(s)] + g[(s \ {x}) \ {Pick(s)}]
      BY <1>2, <2>0, <2>2
    <3>3. (s \ {Pick(s)}) \ {x} = (s \ {x}) \ {Pick(s)}
      OBVIOUS
    <3>4. f[x] \in Nat /\ f[Pick(s)] \in Nat /\ g[(s \ {x}) \ {Pick(s)}] \in Nat
      BY <2>0
    <3> DEFINE both == g[(s \ {x}) \ {Pick(s)}]
               one == g[s \ {x}]
               other == g[s \ {Pick(s)}]
               all == g[s]
    <3>5. other = f[x] + both /\ one = f[Pick(s)] + both /\ all = f[Pick(s)] + other /\ both \in Nat
      BY <2>1, <3>1, <3>2, <3>3, <3>4
    <3> HIDE DEF both, one, other, all
    <3>6. all = f[x] + one
      BY <3>4, <3>5
    <3> QED BY <3>6 DEF all, one
  <2> QED BY <2>1, <2>2
<1>3. S \in T
  <2> HIDE DEF T
  <2> QED BY <1>2, SetsInduction
<1>4. SumFunctionOnSet(f, S \ {e}) = g[S \ {e}]
  BY <1>1, SumOfPart
<1> QED BY <1>1, <1>3, <1>4

(* A sum over one set is at most that over another with a larger term for  *)
(* each of its own.                                                        *)
LEMMA SumIntoAnother ==
  ASSUME NEW S, IsFiniteSet(S), NEW f, \A x \in S : f[x] \in Nat,
         NEW U, IsFiniteSet(U), NEW g, \A y \in U : g[y] \in Nat,
         NEW h \in [S -> U], \A x, y \in S : h[x] = h[y] => x = y,
         \A x \in S : f[x] <= g[h[x]]
  PROVE  SumFunctionOnSet(f, S) <= SumFunctionOnSet(g, U)
<1> DEFINE T == {s \in SUBSET S : \A u \in SUBSET U :
                   {h[x] : x \in s} \subseteq u => SumFunctionOnSet(f, s) <= SumFunctionOnSet(g, u)}
<1>0. /\ \A s \in SUBSET S : IsFiniteSet(s) /\ \A x \in s : f[x] \in Nat
      /\ \A u \in SUBSET U : IsFiniteSet(u) /\ \A y \in u : g[y] \in Nat
  BY FS_Subset
<1>1. ASSUME NEW s \in SUBSET S, \A x \in s : s \ {x} \in T PROVE s \in T
  <2> SUFFICES ASSUME NEW u \in SUBSET U, {h[x] : x \in s} \subseteq u
               PROVE  SumFunctionOnSet(f, s) <= SumFunctionOnSet(g, u)
    OBVIOUS
  <2>1. CASE s = {}
    <3>1. SumFunctionOnSet(f, {}) = 0
      <4>1. IsFiniteSet({})
        BY FS_EmptySet
      <4>2. PICK p \in [SUBSET {} -> Nat] : p = SumBody(f, {}, p) /\ SumFunctionOnSet(f, {}) = p[{}]
        BY <4>1, SumsAre
      <4> QED BY <4>2 DEF SumBody
    <3>2. SumFunctionOnSet(g, u) \in Nat
      BY <1>0, SumIsNat
    <3> QED BY <2>1, <3>1, <3>2
  <2>2. CASE s # {}
    <3>1. PICK x \in s : TRUE
      BY <2>2
    <3>2. h[x] \in u /\ f[x] <= g[h[x]] /\ f[x] \in Nat /\ g[h[x]] \in Nat
      BY <3>1
    <3>3. {h[y] : y \in s \ {x}} \subseteq u \ {h[x]} /\ u \ {h[x]} \in SUBSET U
      BY <3>1
    <3>4. SumFunctionOnSet(f, s \ {x}) <= SumFunctionOnSet(g, u \ {h[x]})
      BY <1>1, <3>1, <3>3
    <3>5. SumFunctionOnSet(f, s) = f[x] + SumFunctionOnSet(f, s \ {x})
      BY <1>0, <3>1, SumOneOut
    <3>6. SumFunctionOnSet(g, u) = g[h[x]] + SumFunctionOnSet(g, u \ {h[x]})
      BY <1>0, <3>2, SumOneOut
    <3>7. SumFunctionOnSet(f, s \ {x}) \in Nat /\ SumFunctionOnSet(g, u \ {h[x]}) \in Nat
      <4>1. s \ {x} \in SUBSET S
        OBVIOUS
      <4> QED BY <1>0, <3>3, <4>1, SumIsNat
    <3> QED BY <3>2, <3>4, <3>5, <3>6, <3>7
  <2> QED BY <2>1, <2>2
<1>2. S \in T
  <2> HIDE DEF T
  <2> QED BY <1>1, SetsInduction
<1>3. {h[x] : x \in S} \subseteq U
  OBVIOUS
<1> QED BY <1>2, <1>3

-----------------------------------------------------------------------------
(* The sizes of what is merged.                                            *)

(* What a worker makes of one version of each package has a size: the      *)
(* assumption on Bytes that the theorems below need.                       *)
MeshFrom(m, versions) == [map |-> m, used |-> [p \in Packages |-> {versions[p]} \ {Absent}]]
SizesAreNumbers == \A m \in Maps : \A versions \in [Packages -> Nat] : Bytes(MeshFrom(m, versions)) \in Nat

LEMMA MeshesHaveSizes ==
  ASSUME SizesAreNumbers, ShelfInv, NEW m \in meshes
  PROVE  Bytes(m) \in Nat /\ m.map \in Maps
<1>1. /\ m \in [map : {m.map}, used : [Packages -> SUBSET Nat]] /\ m.map \in Maps
      /\ \A p \in Packages : \E v \in Nat : m.used[p] = {v} \ {Absent}
  BY DEF ShelfInv, MeshesOf
<1> DEFINE versions == [p \in Packages |-> CHOOSE v \in Nat : m.used[p] = {v} \ {Absent}]
<1>2. versions \in [Packages -> Nat] /\ \A p \in Packages : m.used[p] = {versions[p]} \ {Absent}
  BY <1>1
<1> HIDE DEF versions
<1>3. m = MeshFrom(m.map, versions)
  <2>1. m = [map |-> m.map, used |-> m.used]
    BY <1>1
  <2>2. m.used = [p \in Packages |-> {versions[p]} \ {Absent}]
    BY <1>1, <1>2
  <2> QED BY <2>1, <2>2 DEF MeshFrom
<1> QED BY <1>1, <1>2, <1>3 DEF SizesAreNumbers

Counted == {"merge", "boundary"} \cup Merging

(* Sizes are counted once for each region, and what is merged has the size *)
(* that was counted.                                                       *)
CountInv ==
  /\ sizes \in [Maps -> Nat] /\ SumFunction(sizes) <= InputLimit
  /\ stage \in {"idle", "identify", "verify", "load alone"} => sizes = Uncounted
  /\ stage = "preflight" => \A r \in left : sizes[r] = 0
ReadInv ==
  /\ stage \in Merging => current \in left
  /\ stage \in {"load", "hash mesh", "hash marker"} =>
       /\ metadata.mesh \in meshes /\ metadata.mesh.map = current
       /\ Bytes(metadata.mesh) = sizes[current]
MergedInv ==
  /\ stage \in {"idle", "identify", "verify", "load alone", "preflight"} => world = {}
  /\ \/ /\ \A p \in world : /\ p.mesh \in meshes /\ Bytes(p.mesh) = sizes[p.mesh.map]
                            /\ stage \in Counted => p.mesh.map \notin left
        /\ \A p, q \in world : p.mesh.map = q.mesh.map => p = q
     \/ \E m \in meshes : world = {Pair(m, None)} /\ Bytes(m) <= InputLimit /\ stage \notin Counted

SizeInv == CountInv /\ ReadInv /\ MergedInv

LEMMA NoSum ==
  ASSUME NEW f, NEW S, IsFiniteSet(S), \A x \in S : f[x] = 0
  PROVE  SumFunctionOnSet(f, S) = 0
<1>0. \A x \in S : f[x] \in Nat
  OBVIOUS
<1>1. PICK g \in [SUBSET S -> Nat] : g = SumBody(f, S, g) /\ SumFunctionOnSet(f, S) = g[S]
  BY <1>0, SumsAre
<1> DEFINE T == {s \in SUBSET S : g[s] = 0}
<1>2. ASSUME NEW s \in SUBSET S, \A x \in s : s \ {x} \in T PROVE s \in T
  <2>1. CASE s = {}
    BY <1>1, <2>1 DEF SumBody
  <2>2. CASE s # {}
    <3>1. Pick(s) \in s /\ s \ {Pick(s)} \in T
      BY <1>2, <2>2 DEF Pick
    <3>2. g[s] = f[Pick(s)] + g[s \ {Pick(s)}]
      BY <1>1, <2>2 DEF SumBody
    <3> QED BY <3>1, <3>2
  <2> QED BY <2>1, <2>2
<1>3. S \in T
  <2> HIDE DEF T
  <2> QED BY <1>2, SetsInduction
<1> QED BY <1>1, <1>3

LEMMA NothingCounted == sizes = Uncounted => sizes \in [Maps -> Nat] /\ SumFunction(sizes) = 0
<1> SUFFICES ASSUME sizes = Uncounted
             PROVE  sizes \in [Maps -> Nat] /\ SumFunction(sizes) = 0
  OBVIOUS
<1>1. DOMAIN sizes = Maps /\ \A r \in Maps : sizes[r] = 0
  BY DEF Uncounted
<1>2. SumFunctionOnSet(sizes, Maps) = 0
  BY <1>1, NoSum, LimitAssumption DEF LimitAssumption
<1> QED BY <1>1, <1>2 DEF SumFunction, Uncounted

LEMMA SizeInitHolds == WorldInit => SizeInv
<1> SUFFICES ASSUME WorldInit PROVE SizeInv
  OBVIOUS
<1>1. sizes \in [Maps -> Nat] /\ SumFunction(sizes) = 0
  BY NothingCounted DEF WorldInit
<1> QED BY <1>1, LimitAssumption DEF WorldInit, SizeInv, CountInv, ReadInv, MergedInv, LimitAssumption, Merging

(* One more region is counted, if it fits beside those that have been.     *)
LEMMA CountOne ==
  ASSUME CountInv, NEW r \in Maps, NEW size \in Nat, sizes[r] = 0, Fits(size),
         sizes' = [sizes EXCEPT ![r] = size]
  PROVE  sizes' \in [Maps -> Nat] /\ SumFunction(sizes') <= InputLimit
<1> DEFINE others == SumFunctionOnSet(sizes, Maps \ {r})
<1>1. IsFiniteSet(Maps) /\ InputLimit \in Nat
  BY LimitAssumption DEF LimitAssumption
<1>2. /\ sizes \in [Maps -> Nat] /\ sizes' \in [Maps -> Nat] /\ sizes'[r] = size
      /\ \A x \in Maps \ {r} : sizes'[x] = sizes[x] /\ sizes[x] \in Nat
  BY DEF CountInv
<1>3. IsFiniteSet(Maps \ {r})
  BY <1>1, FS_Subset
<1>4. SumFunctionOnSet(sizes, Maps) = sizes[r] + others
  BY <1>1, <1>2, SumOneOut
<1>5. SumFunctionOnSet(sizes', Maps) = size + SumFunctionOnSet(sizes', Maps \ {r})
  <2> DEFINE f == sizes'
  <2>1. f[r] = size /\ \A x \in Maps : f[x] \in Nat
    BY <1>2
  <2> HIDE DEF f
  <2>2. SumFunctionOnSet(f, Maps) = f[r] + SumFunctionOnSet(f, Maps \ {r})
    BY <1>1, <2>1, SumOneOut
  <2> QED BY <2>1, <2>2 DEF f
<1>6. /\ others \in Nat
      /\ SumFunctionOnSet(sizes', Maps \ {r}) \in Nat
  BY <1>2, <1>3, SumIsNat
<1>7. SumFunctionOnSet(sizes', Maps \ {r}) <= others
  <2> DEFINE Out == Maps \ {r}
             f == sizes'
             g == sizes
             h == [x \in Out |-> x]
  <2>1. h \in [Out -> Out] /\ \A x \in Out : h[x] = x
    OBVIOUS
  <2>2. IsFiniteSet(Out) /\ \A x \in Out : f[x] \in Nat /\ g[x] \in Nat /\ f[x] <= g[x]
    BY <1>2, <1>3
  <2> HIDE DEF Out, f, g, h
  <2>3. (\A x, y \in Out : h[x] = h[y] => x = y) /\ \A x \in Out : f[x] <= g[h[x]]
    BY <2>1, <2>2
  <2>4. SumFunctionOnSet(f, Out) <= SumFunctionOnSet(g, Out)
    BY <2>1, <2>2, <2>3, SumIntoAnother
  <2> QED BY <2>4 DEF Out, f, g
<1>8. DOMAIN sizes = Maps /\ DOMAIN sizes' = Maps
  BY <1>2
<1>9. SumFunctionOnSet(sizes, Maps) <= InputLimit - size
  BY <1>8 DEF Fits, SumFunction
<1> HIDE DEF others
<1>10. SumFunctionOnSet(sizes', Maps) <= InputLimit
  BY <1>1, <1>4, <1>5, <1>6, <1>7, <1>9
<1> QED BY <1>2, <1>8, <1>10 DEF SumFunction

(* What the worker publishes later does not matter to what has been read.  *)
LEMMA SizeKeptByWorker ==
  SizeInv /\ [RegionNext]_regionVars /\ stage = "idle" /\ UNCHANGED worldVars => SizeInv'
BY ShelvesGrow DEF SizeInv, CountInv, ReadInv, MergedInv, worldVars, placeVars, loadVars, Merging, Counted

LEMMA SizeLookStep ==
  SizesAreNumbers /\ SizeInv /\ WorldInv /\ ShelfInv /\ Look /\ UNCHANGED regionVars => SizeInv'
<1> SUFFICES ASSUME SizesAreNumbers, SizeInv, WorldInv, ShelfInv, Look, UNCHANGED regionVars
             PROVE  SizeInv'
  OBVIOUS
<1>0. UNCHANGED <<meshes, sidecars>> /\ None \notin meshes \cup sidecars
  BY NoneIsNoFile DEF regionVars, shelfVars
<1>p. left \in SUBSET Picked /\ Picked \in SUBSET Maps
      /\ \A r \in Picked : meshAt[r] \in meshes /\ meshAt[r].map = r /\ Bytes(meshAt[r]) \in Nat
  BY MeshesHaveSizes DEF WorldInv, PickedFiles, Picked
<1> USE DEF SizeInv
<1>1. ASSUME NEW picked \in SUBSET Maps, Open(picked) PROVE SizeInv'
  BY <1>0, <1>1 DEF Open, CountInv, ReadInv, MergedInv, Merging, Counted, loadVars
<1>2. ASSUME NEW r \in Maps, NEW new \in meshes, ReplaceMesh(r, new) PROVE SizeInv'
  BY <1>0, <1>2 DEF ReplaceMesh, CountInv, ReadInv, MergedInv, Merging, Counted, loadVars
<1>3. ASSUME NEW r \in Maps, NEW new \in sidecars, ReplaceMarker(r, new) PROVE SizeInv'
  BY <1>0, <1>3 DEF ReplaceMarker, CountInv, ReadInv, MergedInv, Merging, Counted, loadVars
<1>4. ASSUME NEW r \in Maps, IdentifyMesh(r) PROVE SizeInv'
  BY <1>0, <1>4 DEF IdentifyMesh, CountInv, ReadInv, MergedInv, Merging, Counted, loadVars, placeVars
<1>5. ASSUME NEW r \in Maps, IdentifyMarker(r) PROVE SizeInv'
  BY <1>0, <1>5 DEF IdentifyMarker, Tick, CountInv, ReadInv, MergedInv, Merging, Counted, loadVars, placeVars
<1>6. ASSUME NEW r \in Maps, VerifyPair(r) PROVE SizeInv'
  <2>1. /\ stage = "verify" /\ stage' \in {"verify", "load alone", "preflight"}
        /\ UNCHANGED <<sizes, world>>
    BY <1>6, TickLeaves DEF VerifyPair
  <2>2. stage' = "preflight" => \A r1 \in left' : sizes[r1] = 0
    BY <1>6, <1>p, <2>1 DEF VerifyPair, Tick, CountInv, Uncounted
  <2> QED BY <1>0, <2>1, <2>2 DEF CountInv, ReadInv, MergedInv, Merging, Counted
<1>7. ASSUME NEW r \in Maps, LoadAlone(r) PROVE SizeInv'
  <2>1. /\ world' = {Pair(meshAt[r], None)} /\ meshAt[r] \in meshes' /\ Bytes(meshAt[r]) <= InputLimit
        /\ stage' = "check again" /\ UNCHANGED sizes
    BY <1>0, <1>7, <1>p DEF LoadAlone
  <2> QED BY <1>0, <2>1 DEF CountInv, ReadInv, MergedInv, Merging, Counted
<1>8. ASSUME NEW r \in Maps, Preflight(r) PROVE SizeInv'
  <2>1. /\ stage = "preflight" /\ r \in left /\ sizes[r] = 0 /\ Fits(Bytes(meshAt[r]))
        /\ sizes' = [sizes EXCEPT ![r] = Bytes(meshAt[r])] /\ Bytes(meshAt[r]) \in Nat
        /\ world = {} /\ UNCHANGED world
        /\ \/ stage' = "preflight" /\ left' = left \ {r}
           \/ stage' = "merge"
    BY <1>8, <1>p, TickLeaves DEF Preflight, InTurn, CountInv, MergedInv
  <2>2. sizes' \in [Maps -> Nat] /\ SumFunction(sizes') <= InputLimit
    BY <2>1, CountOne
  <2>3. stage' = "preflight" => \A x \in left' : sizes'[x] = 0
    BY <1>p, <2>1 DEF CountInv
  <2>4. CountInv'
    BY <2>1, <2>2, <2>3 DEF CountInv
  <2> QED BY <1>0, <2>1, <2>4 DEF ReadInv, MergedInv, Merging, Counted
<1>9. ASSUME NEW r \in Maps, HashMarker(r) PROVE SizeInv'
  BY <1>0, <1>9 DEF HashMarker, InTurn, CountInv, ReadInv, MergedInv, Merging, Counted,
     placeVars
<1>10. CASE ReadMarker
  BY <1>0, <1>10 DEF ReadMarker, CountInv, ReadInv, MergedInv, Merging, Counted, placeVars
<1>11. CASE Match
  <2>1. /\ stage = "match" /\ stage' = "load" /\ UNCHANGED <<left, sizes, current, metadata, world>>
        /\ metadata.mesh = meshAt[current] /\ Bytes(metadata.mesh) = sizes[current]
    BY <1>11 DEF Match, SizeKept, loadVars
  <2>2. current \in left
    BY <2>1 DEF ReadInv, Merging
  <2> QED BY <1>0, <1>p, <2>1, <2>2 DEF CountInv, ReadInv, MergedInv, Merging, Counted
<1>12. CASE Load
  BY <1>0, <1>12 DEF Load, CountInv, ReadInv, MergedInv, Merging, Counted, placeVars
<1>13. CASE HashMesh
  BY <1>0, <1>13 DEF HashMesh, CountInv, ReadInv, MergedInv, Merging, Counted, placeVars, loadVars
<1>14. CASE Merge
  <2>1. /\ stage = "hash marker" /\ world' = world \cup {Pair(mesh, metadata)}
        /\ left' = left \ {current} /\ stage' \in {"boundary", "merge"} /\ UNCHANGED sizes
    BY <1>14 DEF Merge
  <2>2. /\ mesh = metadata.mesh /\ mesh \in meshes /\ mesh.map = current /\ Bytes(mesh) = sizes[current]
        /\ current \in left
    BY <2>1 DEF ReadInv, WorldInv, Current, Merging
  <2>3. Pair(mesh, metadata).mesh = mesh
    BY DEF Pair
  <2>4. /\ \A p \in world : /\ p.mesh \in meshes /\ Bytes(p.mesh) = sizes[p.mesh.map]
                            /\ p.mesh.map \notin left
        /\ \A p, q \in world : p.mesh.map = q.mesh.map => p = q
    BY <2>1 DEF MergedInv, Counted, Merging
  <2>5. /\ \A p \in world' : /\ p.mesh \in meshes /\ Bytes(p.mesh) = sizes[p.mesh.map]
                             /\ p.mesh.map \notin left'
        /\ \A p, q \in world' : p.mesh.map = q.mesh.map => p = q
    <3>1. \A p \in world' : p \in world \/ p = Pair(mesh, metadata)
      BY <2>1
    <3>2. ASSUME NEW p \in world'
          PROVE  /\ p.mesh \in meshes /\ Bytes(p.mesh) = sizes[p.mesh.map]
                 /\ p.mesh.map \notin left'
      BY <2>1, <2>2, <2>3, <2>4, <3>1
    <3>3. ASSUME NEW p \in world', NEW q \in world', p.mesh.map = q.mesh.map PROVE p = q
      BY <2>2, <2>3, <2>4, <3>1, <3>3
    <3> QED BY <3>2, <3>3
  <2> QED BY <1>0, <2>1, <2>5 DEF CountInv, ReadInv, MergedInv, Merging, Counted
<1>15. CASE Boundary
  BY <1>0, <1>15 DEF Boundary, CountInv, ReadInv, MergedInv, Merging, Counted, placeVars, loadVars
<1>16. ASSUME NEW r \in Maps, CheckAgain(r) PROVE SizeInv'
  BY <1>0, <1>16 DEF CheckAgain, Tick, CountInv, ReadInv, MergedInv, Merging, Counted, placeVars, loadVars
<1>17. CASE Close
  <2>1. sizes' \in [Maps -> Nat] /\ SumFunction(sizes') = 0
    <3>1. sizes' = Uncounted
      BY <1>17 DEF Close
    <3>2. DOMAIN sizes' = Maps /\ \A r \in Maps : sizes'[r] = 0
      BY <3>1 DEF Uncounted
    <3>3. SumFunctionOnSet(Uncounted, Maps) = 0
      BY NoSum, LimitAssumption DEF LimitAssumption, Uncounted
    <3> QED BY <3>1, <3>2, <3>3 DEF SumFunction, Uncounted
  <2>2. stage' = "idle" /\ world' = {} /\ sizes' = Uncounted
    BY <1>17 DEF Close
  <2>3. CountInv'
    <3>1. SumFunction(sizes') <= InputLimit
      BY <2>1, LimitAssumption DEF LimitAssumption
    <3> QED BY <2>1, <2>2, <3>1 DEF CountInv
  <2> QED BY <2>2, <2>3 DEF ReadInv, MergedInv, Merging, Counted
<1> QED
  BY <1>1, <1>2, <1>3, <1>4, <1>5, <1>6, <1>7, <1>8, <1>9, <1>10, <1>11, <1>12, <1>13, <1>14,
     <1>15, <1>16, <1>17 DEF Look

(* What has been merged has the sizes that were counted, each region once, *)
(* and together they fit (WorldMesh.cpp:40-77).                            *)
THEOREM SizesAreKept ==
  ASSUME SizesAreNumbers
  PROVE  Spec => [](Shelf /\ WorldInv /\ SizeInv)
<1>1. Shelf /\ WorldInv /\ SizeInv /\ [Next]_vars => SizeInv'
  <2> SUFFICES ASSUME Shelf, WorldInv, SizeInv, [Next]_vars
               PROVE  SizeInv'
    OBVIOUS
  <2>1. CASE RegionNext /\ stage = "idle" /\ UNCHANGED worldVars
    BY <2>1, SizeKeptByWorker
  <2>2. CASE Look /\ step = "idle" /\ UNCHANGED regionVars
    BY <2>2, SizeLookStep DEF Shelf
  <2>3. CASE UNCHANGED vars
    BY <2>3 DEF vars, regionVars, shelfVars, worldVars, placeVars, loadVars, SizeInv, CountInv,
       ReadInv, MergedInv
  <2> QED BY <2>1, <2>2, <2>3 DEF Next
<1> QED
  BY <1>1, SizeInitHolds, WorldInvariant, PTL DEF Spec

(* WorldFitsLimit, of every reading: the files merged together never       *)
(* exceed the limit, whatever was copied over them after they were counted *)
(* (WorldMesh.cpp:40-57).                                                  *)
THEOREM WorldsFitLimit ==
  ASSUME SizesAreNumbers
  PROVE  Spec => []WorldFitsLimit
<1>1. SizeInv /\ ShelfInv => WorldFitsLimit
  <2> SUFFICES ASSUME SizeInv, ShelfInv
               PROVE  WorldFitsLimit
    OBVIOUS
  <2> DEFINE f == [pair \in world |-> Bytes(pair.mesh)]
             h == [pair \in world |-> pair.mesh.map]
             g == sizes
  <2>0. IsFiniteSet(Maps) /\ InputLimit \in Nat /\ \A pair \in world : f[pair] = Bytes(pair.mesh)
    BY LimitAssumption DEF LimitAssumption
  <2>s. SumFunction(f) = SumFunctionOnSet(f, world)
    BY DEF SumFunction
  <2>1. CASE \E m \in meshes : world = {Pair(m, None)} /\ Bytes(m) <= InputLimit
    <3>1. PICK m \in meshes : world = {Pair(m, None)} /\ Bytes(m) <= InputLimit
      BY <2>1
    <3>2. f[Pair(m, None)] = Bytes(m) /\ Bytes(m) \in Nat /\ Pair(m, None) \in world
      BY <2>0, <3>1, MeshesHaveSizes DEF Pair
    <3>3. IsFiniteSet(world) /\ world \ {Pair(m, None)} = {} /\ \A x \in world : f[x] \in Nat
      BY <3>1, <3>2, FS_Singleton
    <3> HIDE DEF f
    <3>4. SumFunctionOnSet(f, world) = f[Pair(m, None)] + SumFunctionOnSet(f, {})
      BY <3>2, <3>3, SumOneOut
    <3>5. SumFunctionOnSet(f, {}) = 0
      BY FS_EmptySet, NoSum
    <3> QED BY <2>0, <2>s, <3>1, <3>2, <3>4, <3>5 DEF WorldFitsLimit, f
  <2>2. CASE /\ \A p \in world : p.mesh \in meshes /\ Bytes(p.mesh) = sizes[p.mesh.map]
             /\ \A p, q \in world : p.mesh.map = q.mesh.map => p = q
    <3>1. \A p \in world : f[p] \in Nat /\ h[p] \in Maps /\ f[p] = g[h[p]]
      BY <2>2, MeshesHaveSizes
    <3>2. h \in [world -> Maps] /\ \A p, q \in world : h[p] = h[q] => p = q
      BY <2>2, <3>1
    <3>3. \A r \in Maps : g[r] \in Nat
      BY DEF SizeInv, CountInv
    <3>t. SumFunction(g) = SumFunctionOnSet(g, Maps) /\ SumFunction(g) <= InputLimit
      BY DEF SizeInv, CountInv, SumFunction
    <3> HIDE DEF f, g, h
    <3>4. IsFiniteSet(world)
      <4>1. h \in Injection(world, Maps)
        BY <3>2 DEF Injection, IsInjective
      <4> QED BY <2>0, <4>1, FS_Injection
    <3>5. \A x \in world : f[x] <= g[h[x]]
      BY <3>1, <3>2, <3>3
    <3>6. SumFunctionOnSet(f, world) <= SumFunctionOnSet(g, Maps)
      BY <2>0, <3>1, <3>2, <3>3, <3>4, <3>5, SumIntoAnother
    <3>7. SumFunctionOnSet(f, world) \in Nat /\ SumFunctionOnSet(g, Maps) \in Nat
      BY <2>0, <3>1, <3>3, <3>4, SumIsNat
    <3> QED BY <2>0, <2>s, <3>6, <3>7, <3>t DEF WorldFitsLimit, f
  <2> QED BY <2>1, <2>2 DEF SizeInv, MergedInv
<1>2. Spec => [](Shelf /\ WorldInv /\ SizeInv)
  BY SizesAreKept
<1>3. Shelf => ShelfInv
  BY DEF Shelf
<1> QED
  BY <1>1, <1>2, <1>3, PTL
=============================================================================
