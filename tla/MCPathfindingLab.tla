-------------------------- MODULE MCPathfindingLab --------------------------
(* Two selections of files, one of them with a saved case that has a       *)
(* baseline; a map without files; two surfaces, so that a click may have   *)
(* to be resolved.                                                         *)
EXTENDS PathfindingLab

MCCases == {[files |-> "north", a |-> "floor", b |-> "roof", search |-> "default",
             baseline |-> "saved"]}
=============================================================================
