--------------------------- MODULE MCGeodataRegion ---------------------------
(***************************************************************************)
(* Two blocks of two by two columns, at the real settings of an actor.     *)
(* The four columns of the first block are all of a set of kinds; those of *)
(* the second are one of a few scenes.                                     *)
(***************************************************************************)
EXTENDS GeodataRegion

At1(smin, smax, area) ==
  [smin |-> smin, smax |-> smax, area |-> area, open |-> {}]

Floor == << At1(0, 10, FlatArea) >>
Step == << At1(0, 24, FlatArea) >>
Ledge == << At1(0, 45, FlatArea) >>
Slope == << At1(0, 18, SteepArea) >>
Hole == << At1(0, 10, NullArea) >>
Bridge == << At1(0, 10, FlatArea), At1(60, 70, FlatArea) >>
Tower == << At1(0, 10, FlatArea), At1(60, 70, FlatArea), At1(130, 140, FlatArea) >>
Beam == << At1(0, 10, FlatArea), At1(40, 50, FlatArea) >>

FirstKinds == {Floor, Step, Ledge, Slope, Hole, Bridge}
SecondKinds == { <<Floor, Floor, Floor, Floor>>, <<Bridge, Step, Beam, Floor>>,
                 <<Slope, Tower, Floor, Step>> }

MCGrids ==
  { [column \in (0 .. 3) \X (0 .. 1) |->
       IF column[1] < 2 THEN first[column[1] * 2 + column[2] + 1]
       ELSE second[(column[1] - 2) * 2 + column[2] + 1]] :
    first \in [1 .. 4 -> FirstKinds], second \in SecondKinds }

(* About zero and not whole; about either end of the packed range; where   *)
(* only some surfaces are beyond 16 bits.                                  *)
MCElevations == {-45, -32810, 32720, 65450}
=============================================================================
