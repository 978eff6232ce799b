---------------------------- MODULE RenderContext ----------------------------
(***************************************************************************)
(* The OpenGL context of the preview as far as two renderers can get into  *)
(* each other's way: what is bound, the names in use, and beside it the    *)
(* copy of three bindings that the older renderer keeps outside the driver *)
(* (rendering::Context).  A context is a record, an operation an operator  *)
(* from context to context.                                                *)
(*                                                                         *)
(* The driver gives a new object the lowest name that is free: a name comes*)
(* back as soon as it can, which is the worst for a copy of a binding.  The*)
(* programs that the copy knows are never deleted, and a program is named  *)
(* for what it draws.                                                      *)
(***************************************************************************)
EXTENDS Integers, FiniteSets

CONSTANTS
  MaxUnits,      (* texture units, GL_MAX_TEXTURE_IMAGE_UNITS                *)
  None

ASSUME UnitsAssumption == MaxUnits \in Nat \ {0, 1, 2}

Units == 0 .. MaxUnits - 1

Fresh(names) == CHOOSE n \in 1 .. Cardinality(names) + 1 :
  n \notin names /\ \A lower \in 1 .. n - 1 : lower \in names

NewContext ==
  [program |-> None, vao |-> 0, framebuffer |-> 0, active |-> 0,
   units |-> [u \in Units |-> 0],
   material |-> None,     (* what uniforms and depth state are set for       *)
   vaos |-> {}, textures |-> {}, programs |-> {},
   cache |-> [program |-> None, vao |-> 0, texture |-> 0]]

(* OpenGL.  A name that is not in use cannot be bound.  What a program's   *)
(* uniforms hold from its last use is taken for unknown.  Deleting unbinds,*)
(* but a program in use.                                                   *)
UseProgram(g, p) ==
  IF p \notin g.programs \cup {None} THEN g
  ELSE [g EXCEPT !.program = p, !.material = IF p = g.program THEN @ ELSE None]
BindVertexArray(g, v) == IF v \notin g.vaos \cup {0} THEN g ELSE [g EXCEPT !.vao = v]
BindTexture(g, u, t) ==
  [g EXCEPT !.active = u, !.units[u] = IF t \in g.textures \cup {0} THEN t ELSE None]
BindFramebuffer(g, f) == [g EXCEPT !.framebuffer = f]
DeleteVertexArrays(g, names) ==
  [g EXCEPT !.vaos = @ \ names, !.vao = IF @ \in names THEN 0 ELSE @]
DeleteTextures(g, names) ==
  [g EXCEPT !.textures = @ \ names,
            !.units = [u \in Units |-> IF @[u] \in names THEN 0 ELSE @[u]]]
DeletePrograms(g, names) == [g EXCEPT !.programs = @ \ (names \ {g.program})]

(* Mesh: the constructor leaves nothing bound, and the copy as it was.     *)
NewMesh(g) == [g EXCEPT !.vaos = @ \cup {Fresh(@)}, !.vao = 0]

(* Mutant of DropMeshes: the destructor leaves the copy as it was, too.    *)
DropMeshesAlone(g, meshes) == DeleteVertexArrays(g, meshes)

DropMeshes(g, meshes) ==
  DeleteVertexArrays([g EXCEPT !.cache.vao = IF @ \in meshes THEN 0 ELSE @], meshes)
BindMesh(g, v) ==
  IF g.cache.vao = v THEN g ELSE [BindVertexArray(g, v) EXCEPT !.cache.vao = v]

(* Texture and Shader.                                                     *)
NewTexture(g) ==
  [BindTexture(g, g.active, 0) EXCEPT !.textures = @ \cup {Fresh(@)}]
BindTextureZero(g, t) ==
  IF g.cache.texture = t THEN g ELSE [BindTexture(g, 0, t) EXCEPT !.cache.texture = t]
UnbindCurrentTexture(g) ==
  IF g.cache.texture = 0 THEN g
  ELSE [BindTexture(g, g.active, 0) EXCEPT !.cache.texture = 0]
NewProgram(g, p) == [g EXCEPT !.programs = @ \cup {p}]
BindShader(g, p) ==
  IF g.cache.program = p THEN g ELSE [UseProgram(g, p) EXCEPT !.cache.program = p]

(* What the other units hold is forgotten, which is what no draw wants.    *)
Unbound(g) ==
  LET unused == UseProgram(BindVertexArray(g, 0), None)
  IN  [unused EXCEPT !.active = 0, !.units = [u \in Units |-> IF u = 0 THEN 0 ELSE None]]

LegacyBindingScope(g) == [Unbound(g) EXCEPT !.cache = NewContext.cache]

(* The copy names what is bound, and the unit of textures is the first.    *)
Agrees(g) ==
  /\ g.cache = [program |-> g.program, vao |-> g.vao, texture |-> g.units[0]]
  /\ g.active = 0
=============================================================================
