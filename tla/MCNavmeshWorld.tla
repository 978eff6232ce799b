---------------------------- MODULE MCNavmeshWorld ----------------------------
(* Three squares: the middle one shares a side with each of the others,    *)
(* which touch each other at a corner and use one package of textures.  At *)
(* first the middle one is missing.  A newer mesh is a larger one.         *)
EXTENDS NavmeshWorld

MCMiddle == <<0, 0>>
MCMaps == {MCMiddle, <<1, 0>>, <<0, 1>>}

MCPackage(kind, m) == <<kind, m[1], m[2]>>
MCTextures == MCPackage("utx", MCMiddle)
MCOwn == [m \in MCMaps |-> MCPackage("unr", m)]
MCPackages == {MCOwn[m] : m \in MCMaps} \cup {MCTextures}
MCUses == [m \in MCMaps |-> {MCOwn[m]} \cup (IF m = MCMiddle THEN {} ELSE {MCTextures})]
MCPresent == MCPackages \ {MCOwn[MCMiddle]}

MCBytes(m) ==
  LET versions == m.used[Own[m.map]] \cup {0}
  IN  CHOOSE v \in versions : \A w \in versions : w <= v
=============================================================================
