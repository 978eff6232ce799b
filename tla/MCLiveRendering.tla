--------------------------- MODULE MCLiveRendering ---------------------------
(* Two squares that share a texture: one with two layers of one material   *)
(* over the ground, one with a masked actor and a transparent surface whose*)
(* textures need too many units.  A third has nothing to draw but geodata: *)
(* its overlay gives the next mesh the name it had.                        *)
EXTENDS LiveRendering

Ground == [mesh |-> 1, material |-> 0, layer |-> FALSE, terrain |-> TRUE, mask |-> 0, alpha |-> FALSE]
Layer(material, mask) ==
  [Ground EXCEPT !.material = material, !.layer = TRUE, !.mask = mask]
Actor(mesh, material, alpha) ==
  [Ground EXCEPT !.mesh = mesh, !.material = material, !.terrain = FALSE, !.alpha = alpha]

MCVisual ==
  [s \in SceneSquares |->
     IF s = "a"
     THEN [meshes |-> 1, textures |-> <<"grass", "mask1", "mask2">>,
           materials |-> <<[samples |-> <<1>>, masked |-> FALSE]>>,
           items |-> <<Ground, Layer(1, 2), Layer(1, 3)>>]
     ELSE IF s = "c" THEN [meshes |-> 0, textures |-> <<>>, materials |-> <<>>, items |-> <<>>]
     ELSE [meshes |-> 1, textures |-> <<"grass", "leaf">>,
           materials |-> <<[samples |-> <<2>>, masked |-> TRUE],
                           [samples |-> <<1, 2>>, masked |-> FALSE]>>,
           items |-> <<Actor(1, 1, FALSE), Actor(1, 2, TRUE)>>]]
=============================================================================
