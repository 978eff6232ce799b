------------------------- MODULE MCTerritoryRender -------------------------
(* A render of two maps, and an inspection of one.                         *)
EXTENDS TerritoryRender

MCJobs == {[maps |-> 2, kinds |-> <<"png", "checkpoint">>],
           [maps |-> 1, kinds |-> <<"checkpoint">>]}

(* An abort of the C++ runtime ends with 3.                                *)
MCCrashCodes == {3}
=============================================================================
