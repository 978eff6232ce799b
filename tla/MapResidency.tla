---------------------------- MODULE MapResidency ----------------------------
(***************************************************************************)
(* Which map layers the preview wants in its scene: the catalog of map     *)
(* squares, the keys (square, layer) that are loaded separately, the       *)
(* desired residency computed from the user's selection and the camera,    *)
(* and the loading priority of a key.                                      *)
(***************************************************************************)
EXTENDS Integers, FiniteSets

CONSTANTS
  Catalog,   (* the squares of the client's map catalog, pairs <<x, y>>     *)
  Seed,      (* the square of the first startup map                         *)
  Nowhere    (* "no current square": the grid transform is not known yet    *)

ASSUME CatalogAssumption ==
  /\ Catalog \subseteq Int \X Int
  /\ IsFiniteSet(Catalog)
  /\ Seed \in Catalog
  /\ Nowhere \notin Int \X Int

Layers == {"terrain", "detail"}

Key == [square : Catalog, layer : Layers]

Terrain(c) == [square |-> c, layer |-> "terrain"]
Detail(c)  == [square |-> c, layer |-> "detail"]

SeedTerrain == Terrain(Seed)

(* The catalog squares at Chebyshev distance at most radius from center.   *)
Neighbors(center, radius) ==
  {c \in Catalog : /\ c[1] \in (center[1] - radius) .. (center[1] + radius)
                   /\ c[2] \in (center[2] - radius) .. (center[2] + radius)}

(* The squares that get the full Detail layer. Manual mode (auto FALSE)    *)
(* gives it to the selected square under the camera only.                  *)
DetailSquares(manual, current, auto, ring) ==
  IF current \notin Catalog
    THEN {}
    ELSE IF auto
      THEN IF ring THEN Neighbors(current, 1) ELSE {current}
      ELSE manual \cap {current}

(* The desired keys: Detail where DetailSquares says, Terrain for every    *)
(* manually selected square and, in automatic mode, under every Detail.    *)
DesiredKeys(manual, current, auto, ring) ==
  LET detail == DetailSquares(manual, current, auto, ring)
      terrain == manual \cup (IF auto THEN detail ELSE {})
  IN  {Terrain(c) : c \in terrain} \cup {Detail(c) : c \in detail}

-----------------------------------------------------------------------------
(* Loading priority: the smaller number is loaded first.                   *)
CurrentDetail    == 0
NeighborDetail   == 1
AutomaticTerrain == 2
ManualTerrain    == 3

Priority == CurrentDetail .. ManualTerrain

PriorityOf(key, wanted, current) ==
  IF key.layer = "detail"
    THEN IF key.square = current THEN CurrentDetail ELSE NeighborDetail
    ELSE IF Detail(key.square) \in wanted THEN AutomaticTerrain ELSE ManualTerrain

(* The order of MapCoordinate, by x and then by y.                         *)
SquareBefore(c, d) == c[1] < d[1] \/ (c[1] = d[1] /\ c[2] < d[2])

=============================================================================
