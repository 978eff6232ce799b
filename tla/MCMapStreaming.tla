--------------------------- MODULE MCMapStreaming ---------------------------
(* Two adjacent catalog squares, the seed among them, and one square next  *)
(* to neither that the camera can reach: every way a Detail can be wanted, *)
(* crossed out of and come back to, with four keys in all.                 *)
EXTENDS MapStreaming

MCCatalog == {<<22, 22>>, <<23, 22>>}
MCSeed == <<22, 22>>
MCSquares == MCCatalog \cup {<<30, 30>>}
OneSquare == {MCSeed}
OneSquareAndOutside == {MCSeed, <<30, 30>>}
MCStartup == {MCSeed}

=============================================================================
