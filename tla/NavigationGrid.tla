--------------------------- MODULE NavigationGrid ---------------------------
(***************************************************************************)
(* The heightfield a region is generated on (geodata/src/NSWE.cpp): one    *)
(* column of spans per cell, and the directions an actor standing on a     *)
(* span may leave it in.  Two passes decide them: a simple one from the    *)
(* heights of the neighbours, and a sweep of a sphere against the mesh on  *)
(* the spans the first pass found hard.  Both update the spans in place,   *)
(* column by column, so a column is decided while some of its neighbours   *)
(* are decided already and others are not.                                 *)
(*                                                                         *)
(* Rasterisation and the filter of low spans are Recast's; the outcome of  *)
(* one sphere sweep is a matter of geometry and is left open.              *)
(***************************************************************************)
EXTENDS Integers, Sequences, FiniteSets

CONSTANTS
  Width, Height,   (* columns of the region, west to east, north to south    *)
  ActorHeight,     (* BuilderSettings, in cells of the heightfield           *)
  MinClimb,
  MaxClimb

ColumnsAssumption == Width \in Nat \ {0} /\ Height \in Nat \ {0}
ASSUME ColumnsAssumption

ActorAssumption == ActorHeight \in Nat /\ MinClimb \in Nat /\ MaxClimb \in Nat
ASSUME ActorAssumption

Columns == (0 .. Width - 1) \X (0 .. Height - 1)

(* Recast's directions: 0 to -x, 1 to +y, 2 to +x, 3 to -y.                *)
Directions == 0 .. 3
Side(column, direction) ==
  << column[1] + <<-1, 0, 1, 0>>[direction + 1],
     column[2] + <<0, 1, 0, -1>>[direction + 1] >>
Opposite(direction) == (direction + 2) % 4

NullArea == 0
SteepArea == 1
FlatArea == 2
ComplexArea == 3

(* What is in the way, from smin to smax, with the surface on top of it:   *)
(* its area and the directions that are open, packed in one field of six   *)
(* bits in the code.                                                       *)
Span == [smin : Nat, smax : Nat, area : NullArea .. ComplexArea,
         open : SUBSET Directions]

MaxHeight == 65535

Walkable(span) == span.area # NullArea
Top(spans, i) == IF i < Len(spans) THEN spans[i + 1].smin ELSE MaxHeight

(* Recast's rcFilterWalkableLowHeightSpans: no surface without headroom.   *)
Filtered(spans) ==
  [i \in DOMAIN spans |->
     IF Top(spans, i) - spans[i].smax <= ActorHeight
       THEN [spans[i] EXCEPT !.area = NullArea] ELSE spans[i]]

(* The free height two spans share is more than an actor's.                *)
Clears(from, i, to, j) ==
  \A top \in {Top(from, i), Top(to, j)} :
    \A bottom \in {from[i].smax, to[j].smax} : top - bottom > ActorHeight

(* Mutant of Passable: a surface the builder discards may be landed on.    *)
PassableAnywhere(from, i, to, j) == Clears(from, i, to, j)

(* The span of the neighbouring column an actor lands on: the lowest one   *)
(* the builder keeps that leaves room to pass.                             *)
Passable(from, i, to, j) == Walkable(to[j]) /\ Clears(from, i, to, j)
Lands(from, i, to, j) ==
  /\ Passable(from, i, to, j)
  /\ \A k \in 1 .. j - 1 : ~Passable(from, i, to, k)

Steep(span) == span.area <= SteepArea
Rise(from, i, to, j) == to[j].smax - from[i].smax
Climb(from, i, to, j) ==
  IF Steep(from[i]) \/ Steep(to[j]) THEN MinClimb ELSE MaxClimb

(* A step outside the region is allowed: the neighbouring region decides.  *)
Allows(grid, column, i, direction) ==
  LET side == Side(column, direction) IN
  \/ side \notin Columns
  \/ \E j \in DOMAIN grid[side] :
       /\ Lands(grid[column], i, grid[side], j)
       /\ Rise(grid[column], i, grid[side], j) <=
            Climb(grid[column], i, grid[side], j)

(* A step of some height between surfaces that are not steep: the sweep    *)
(* has to tell.                                                            *)
NeedsSweep(grid, column, i, direction) ==
  LET side == Side(column, direction) IN
  /\ side \in Columns
  /\ \E j \in DOMAIN grid[side] :
       /\ Lands(grid[column], i, grid[side], j)
       /\ ~Steep(grid[column][i]) /\ ~Steep(grid[side][j])
       /\ \/ Rise(grid[column], i, grid[side], j) \in MinClimb .. MaxClimb
          \/ -Rise(grid[column], i, grid[side], j) \in MinClimb .. MaxClimb

(* The simple pass over one column.                                        *)
Scanned(grid, column) ==
  [i \in DOMAIN grid[column] |->
     IF ~Walkable(grid[column][i]) THEN grid[column][i]
     ELSE [grid[column][i] EXCEPT
             !.open = @ \cup {d \in Directions : Allows(grid, column, i, d)},
             !.area = IF \E d \in Directions : NeedsSweep(grid, column, i, d)
                        THEN ComplexArea ELSE @]]

(* The steps of a column a sweep may still forbid: those out of a hard     *)
(* span, open, and not over the edge of the region.  Which of them hit the *)
(* mesh is the sphere's business.                                          *)
Sweeps(grid, column) ==
  {step \in (DOMAIN grid[column]) \X Directions :
     /\ grid[column][step[1]].area = ComplexArea
     /\ step[2] \in grid[column][step[1]].open
     /\ Side(column, step[2]) \in Columns}

(* The second pass over one column, with the steps the sphere hit on.      *)
Swept(grid, column, hits) ==
  [i \in DOMAIN grid[column] |->
     [grid[column][i] EXCEPT !.open = @ \ {d \in Directions : <<i, d>> \in hits}]]
=============================================================================
