---------------------------- MODULE GeodataRegion ----------------------------
(***************************************************************************)
(* The generation of one region: Builder::build from the rasterised        *)
(* heightfield to the compressed export buffer, and the two streams the    *)
(* exporter writes of it.  One action per pass; the two passes over the    *)
(* heightfield take one column at a time, in the order of the code.        *)
(*                                                                         *)
(* A heightfield is given by what Recast's rasterisation leaves.  Heights  *)
(* of the world are counted in halves of a unit: the elevation of a map    *)
(* need not be a whole number, and a conversion to an integer cuts it.     *)
(***************************************************************************)
EXTENDS NavigationGrid, GeodataFormat

CONSTANTS
  Grids,           (* the heightfields rasterisation may leave               *)
  Elevations,      (* of the lowest surface of a map, in halves of a unit    *)
  CellHeight,      (* BuilderSettings::cell_height                           *)
  MaxCollisions    (* bound: steps the sweep forbids in one region           *)

RegionAssumption ==
  /\ Width = BlocksX * BlockSide /\ Height = BlocksY * BlockSide
  /\ Elevations \subseteq Int /\ CellHeight \in Nat \ {0}
  /\ MaxCollisions \in Nat
ASSUME RegionAssumption

(* The cells of a column are told by their heights: with headroom between  *)
(* them no two surfaces have the same, and none do either once heights are *)
(* kept in steps of eight.  The settings the window starts with, 48 and 1, *)
(* leave room to spare; a job may ask for a smaller actor.                 *)
HeadroomAssumption == (ActorHeight + 1) * CellHeight >= 2
ASSUME HeadroomAssumption
RoundingAssumption == (ActorHeight + 1) * CellHeight >= 16
ASSUME RoundingAssumption

(* Recast keeps the spans of a column apart, from the lowest up, and       *)
(* leaves the areas mark_walkable_triangles gives, with no direction open. *)
Rasterised(grid) ==
  /\ grid \in [Columns -> Seq(Span)]
  /\ \A column \in Columns : \A i \in DOMAIN grid[column] :
       /\ grid[column][i].area \in {NullArea, SteepArea, FlatArea}
       /\ grid[column][i].open = {}
       /\ grid[column][i].smin <= grid[column][i].smax
       /\ i > 1 => grid[column][i - 1].smax < grid[column][i].smin

GridsAssumption == \A grid \in Grids : Rasterised(grid)
ASSUME GridsAssumption

VARIABLES
  phase,        (* where Builder::build and export_geodata are               *)
  at,           (* the column a pass over the heightfield comes to           *)
  grid,         (* NSWE::m_hf                                                *)
  elevation,    (* cell_elevation of the map, in halves of a unit            *)
  collisions,   (* steps the sweep has forbidden                             *)
  cells,        (* Geodata::cells, by column                                 *)
  buffer,       (* ExportBuffer                                              *)
  l2j, dat,     (* the streams                                               *)
  cause         (* what an exception says                                    *)

vars == <<phase, at, grid, elevation, collisions, cells, buffer, l2j, dat, cause>>

Phases == {"filter", "simple", "complex", "convert", "reset", "compress",
           "l2j", "dat", "done", "rejected"}
Unmade == << >>

Init ==
  /\ phase = "filter" /\ at = 0
  /\ grid \in Grids /\ elevation \in Elevations
  /\ collisions = 0
  /\ cells = Unmade /\ buffer = Unmade /\ l2j = Unmade /\ dat = Unmade
  /\ cause = "none"

Column(n) == << n % Width, n \div Width >>
LastColumn == Width * Height - 1

(* A pass comes to the next column, or to its end.                         *)
Advance(next) ==
  IF at = LastColumn THEN phase' = next /\ at' = 0
  ELSE phase' = phase /\ at' = at + 1

Reject(why) ==
  /\ phase' = "rejected" /\ cause' = why
  /\ UNCHANGED <<at, grid, elevation, collisions, cells, buffer, l2j, dat>>

(* build_filtered_heightfield, after rasterisation.                        *)
Filter ==
  /\ phase = "filter" /\ phase' = "simple"
  /\ grid' = [column \in Columns |-> Filtered(grid[column])]
  /\ UNCHANGED <<at, elevation, collisions, cells, buffer, l2j, dat, cause>>

(* calculate_simple_nswe, one column of it.                                *)
ScanColumn ==
  /\ phase = "simple"
  /\ grid' = [grid EXCEPT ![Column(at)] = Scanned(grid, Column(at))]
  /\ Advance("complex")
  /\ UNCHANGED <<elevation, collisions, cells, buffer, l2j, dat, cause>>

(* calculate_complex_nswe, one column of it.                               *)
SweepColumn ==
  /\ phase = "complex"
  /\ \E hits \in SUBSET Sweeps(grid, Column(at)) :
       /\ collisions + Cardinality(hits) <= MaxCollisions
       /\ collisions' = collisions + Cardinality(hits)
       /\ grid' = [grid EXCEPT ![Column(at)] = Swept(grid, Column(at), hits)]
  /\ Advance("convert")
  /\ UNCHANGED <<elevation, cells, buffer, l2j, dat, cause>>

(* The height of a surface, in halves of a unit.                           *)
Surface(span) == elevation + 2 * span.smax * CellHeight
Overflows(span) == Surface(span) < -65536 \/ Surface(span) > 65534

(* Mutant of Heading: every bit is tested under its own name.              *)
HeadingByName(name) == CASE name = "north" -> 3 [] name = "south" -> 2
                         [] name = "west" -> 1 [] name = "east" -> 0

(* Recast's bits, tested by the names of other bits: what the code calls W *)
(* is the step to +y, E that to -x, S that to +x.                          *)
Heading(name) == CASE name = "north" -> 3 [] name = "south" -> 1
                   [] name = "west" -> 0 [] name = "east" -> 2

CellOf(span) == [z |-> Truncated(Surface(span), 2),
                 open |-> {name \in Compass : Heading(name) \in span.open}]

(* A column with nothing to stand on gets one closed cell.                 *)
FakeCell == [z |-> -16384, open |-> {}]
Kept(column) == {i \in DOMAIN grid[column] : Walkable(grid[column][i])}
Built == [column \in Columns |->
            IF Kept(column) = {} THEN {FakeCell}
            ELSE {CellOf(grid[column][i]) : i \in Kept(column)}]

(* The cells of Builder::build, or the height that is no 16-bit integer.   *)
Convert ==
  /\ phase = "convert"
  /\ \A column \in Columns : \A i \in Kept(column) : ~Overflows(grid[column][i])
  /\ cells' = Built /\ phase' = "reset"
  /\ UNCHANGED <<at, grid, elevation, collisions, buffer, l2j, dat, cause>>
ConvertOverflows ==
  /\ phase = "convert"
  /\ \E column \in Columns : \E i \in Kept(column) : Overflows(grid[column][i])
  /\ Reject("height is no int16")

(* ExportBuffer::reset.                                                    *)
Reset ==
  /\ phase = "reset" /\ ~TooManyLayers(cells)
  /\ buffer' = Buffered(cells) /\ phase' = "compress"
  /\ UNCHANGED <<at, grid, elevation, collisions, cells, l2j, dat, cause>>
ResetOverflows ==
  /\ phase = "reset" /\ TooManyLayers(cells)
  /\ Reject("too many layers")

(* Compressor::compress.                                                   *)
Compress ==
  /\ phase = "compress"
  /\ buffer' = Compressed(buffer) /\ phase' = "l2j"
  /\ UNCHANGED <<at, grid, elevation, collisions, cells, l2j, dat, cause>>

(* L2JSerializer::serialize: validate_packed_height on every cell written. *)
WriteL2J ==
  /\ phase = "l2j" /\ ~Refused(buffer)
  /\ l2j' = L2JStream(buffer) /\ phase' = "dat"
  /\ UNCHANGED <<at, grid, elevation, collisions, cells, buffer, dat, cause>>
WriteL2JFails ==
  /\ phase = "l2j" /\ Refused(buffer)
  /\ Reject("height is out of the packed range")

(* PtsSerializer::serialize makes the same test of the same cells.         *)
WritePts ==
  /\ phase = "dat" /\ ~Refused(buffer)
  /\ dat' = PtsStream(buffer) /\ phase' = "done"
  /\ UNCHANGED <<at, grid, elevation, collisions, cells, buffer, l2j, cause>>

Finished == phase \in {"done", "rejected"} /\ UNCHANGED vars

Next ==
  \/ Filter \/ ScanColumn \/ SweepColumn
  \/ Convert \/ ConvertOverflows \/ Reset \/ ResetOverflows
  \/ Compress \/ WriteL2J \/ WriteL2JFails \/ WritePts
  \/ Finished

Spec == Init /\ [][Next]_vars

(***************************************************************************)
(* Properties.                                                             *)
(***************************************************************************)

(* A way up leads back down: once the simple pass has gone over every      *)
(* column, a step that does not go down, from one span to the one it lands *)
(* on, may be taken back from there.  The pass decides the two directions  *)
(* at different times, from each side's own search for a landing span      *)
(* (NSWE.cpp:178-216); the sweep comes later and may forbid either.        *)
StepsLeadBack ==
  phase = "complex" /\ at = 0 =>
    \A column \in Columns : \A i \in Kept(column) :
      \A direction \in grid[column][i].open :
        LET side == Side(column, direction) IN
        side \in Columns =>
          \A j \in DOMAIN grid[side] :
            /\ Lands(grid[column], i, grid[side], j)
            /\ Rise(grid[column], i, grid[side], j) >= 0
            => Opposite(direction) \in grid[side][j].open

(* The cells a stream has for a column; a simple block has one cell for    *)
(* all of its columns.                                                     *)
CellsFor(read, place) ==
  {read[n] : n \in {m \in DOMAIN read :
     \/ <<read[m].x, read[m].y>> = place
     \/ /\ read[m].type = SimpleType
        /\ place[1] - read[m].x \in 0 .. BlockSide - 1
        /\ place[2] - read[m].y \in 0 .. BlockSide - 1}}

(* Where a name of the compass points on the map: north is -y.             *)
Towards(place, name) ==
  CASE name = "north" -> <<place[1], place[2] - 1>>
    [] name = "south" -> <<place[1], place[2] + 1>>
    [] name = "west" -> <<place[1] - 1, place[2]>>
    [] name = "east" -> <<place[1] + 1, place[2]>>

Stands(cell, span, place) ==
  LET off == 2 * cell.z - Surface(span)
      most == IF cell.type = SimpleType THEN 32 ELSE 16
  IN /\ off < most /\ -off < most
     /\ \A name \in Compass :
          name \in cell.open <=>
            \E d \in span.open : Side(place, d) = Towards(place, name)

(* What a reader of the L2J finds is what was generated: one cell for each *)
(* surface an actor can stand on and no other, within 8 units of its       *)
(* height (16 in a flat block), open in exactly the directions, on the     *)
(* map, that the heightfield has open (Builder.cpp:71-84,                  *)
(* ExportBuffer.cpp:149-157); a column with no surface has one closed cell.*)
FaithfulToField ==
  phase = "done" =>
    \A place \in Columns :
      LET found == CellsFor(ReadL2J(l2j), place) IN
      IF Kept(place) = {} THEN Cardinality(found) = 1 /\
                               \A cell \in found : cell.open = {}
      ELSE /\ Cardinality(found) = Cardinality(Kept(place))
           /\ \A i \in Kept(place) :
                \E cell \in found : Stands(cell, grid[place][i], place)

(* The two formats and the preview agree: reading either stream gives the  *)
(* cells of the buffer, in its order, and the counters of the PTS header   *)
(* are those of what follows (README.md:206-208: "Both formats contain the *)
(* same generated cells").                                                 *)
BothFormatsReadBack ==
  phase = "done" =>
    LET read == ReadL2J(l2j)
        flat == {n \in DOMAIN read : read[n].type = SimpleType}
    IN /\ read = Converted(buffer)
       /\ ReadPts(dat) = Converted(buffer)
       /\ dat[1] = Cardinality(DOMAIN read \ flat)
       /\ dat[3] = Cardinality(flat)

(* Exactly what the formats cannot hold is rejected: too many layers, a    *)
(* height that is no 16-bit integer, or one out of the packed range in a   *)
(* block that is not flat (README.md:209-212); a flat block keeps all 16   *)
(* bits.                                                                   *)
Quantized(span) == Rounded(Truncated(Surface(span), 2))
Within(n, low, high) == low <= n /\ n <= high
FlatBlock(block) ==
  \A a, b \in CellsOf(block) :
    /\ Cardinality(Kept(a)) = 1
    /\ \A i \in Kept(a), j \in Kept(b) :
         /\ grid[a][i].open = Directions
         /\ Quantized(grid[a][i]) - Quantized(grid[b][j]) <= 16
Representable ==
  /\ \A column \in Columns :
       /\ Cardinality(Kept(column)) <= MaxLayers
       /\ \A i \in Kept(column) : Within(Surface(grid[column][i]), -65536, 65534)
  /\ \A block \in Blocks :
       \/ FlatBlock(block)
       \/ \A column \in CellsOf(block) : \A i \in Kept(column) :
            Within(Quantized(grid[column][i]), -16384, 16376)
OnlyUnrepresentableIsRejected ==
  /\ phase = "done" => Representable
  /\ phase = "rejected" => ~Representable
=============================================================================
