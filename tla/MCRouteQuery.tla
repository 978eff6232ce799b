---------------------------- MODULE MCRouteQuery ----------------------------
(* A route over both backends, and one over the legacy geodata alone.      *)
EXTENDS RouteQuery

BothBackends == {[maps |-> 2, kinds |-> <<"l2j", "navmesh">>]}
OneBackend == {[maps |-> 1, kinds |-> <<"l2j">>]}

(* An abort of the C++ runtime ends with 3, the code of a failed job.      *)
MCCrashCodes == {3}
=============================================================================
