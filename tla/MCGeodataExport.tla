--------------------------- MODULE MCGeodataExport ---------------------------
(* Exports that differ only in name, and in what they were asked for.      *)
EXTENDS GeodataExport, TLC

CONSTANTS a, b, c

MCExports == {a, b, c}
Symmetry == Permutations(MCExports)
=============================================================================
