--------------------------- MODULE MCGeodataBuild ---------------------------
(* Two requests: one map with an L2J and its client DAT, two maps with a   *)
(* navmesh and its metadata.                                               *)
EXTENDS GeodataBuild

MCJobs == {[maps |-> 1, kinds |-> <<"l2j", "dat">>],
           [maps |-> 2, kinds |-> <<"navmesh", "metadata">>]}

(* An abort of the C++ runtime ends with 3, the task manager with 1.       *)
MCCrashCodes == {1, 3}
=============================================================================
