---------------------------- MODULE LiveRendering ----------------------------
(***************************************************************************)
(* What the preview draws: RendererMapSceneSink makes scene groups of the  *)
(* older renderer (Renderer, Scene, EntityRenderer) and live groups of the *)
(* textured one (LiveVisualRenderer), and RenderingSystem draws a frame in *)
(* three passes over the one OpenGL context: entities, the live scene with *)
(* its shadows, the geodata overlay.  All of it runs on one thread; what is*)
(* hard is what each step finds bound, and what it leaves behind.          *)
(*                                                                         *)
(* A scene group has at most one mesh here, and is named by its square and *)
(* its kind: ids are never given twice.  Without LOAD_TEXTURES, the default*)
(* the arrows of the geodata are the only texture of the older renderer.   *)
(***************************************************************************)
EXTENDS RenderContext, Functions, SequencesExt

CONSTANTS
  SceneSquares,
  Visual,        (* square -> its meshes, textures, materials and items      *)
  Neutral,       (* key of the texture that stands in for one that fails     *)
  MaxUploads,    (* bound: map groups uploaded                               *)
  MaxFaults      (* bound: textures that cannot be made, and errors thrown   *)

ASSUME LiveAssumption ==
  /\ {MaxUploads, MaxFaults} \subseteq Nat
  /\ \A s \in SceneSquares : Neutral \notin ToSet(Visual[s].textures)

(* A scene is whole: what it draws it has (territory::validate_scene).     *)
Whole(visual) ==
  /\ visual.meshes \in Nat /\ visual.textures \in Seq(ToSet(visual.textures))
  /\ visual.materials \in Seq([samples : Seq(DOMAIN visual.textures), masked : BOOLEAN])
  /\ visual.items \in Seq([mesh : 1 .. visual.meshes,
                           material : 0 .. Len(visual.materials), layer : BOOLEAN, terrain : BOOLEAN,
                           mask : {0} \cup DOMAIN visual.textures, alpha : BOOLEAN])
  /\ \A i \in DOMAIN visual.items : visual.items[i].layer => visual.items[i].mask # 0
ASSUME VisualAssumption == \A s \in SceneSquares : Whole(Visual[s])

VARIABLES
  gl,            (* the context                                              *)
  shaders,       (* kinds of shaders in use                                  *)
  arrows,        (* the texture of geodata, 0 before its first use           *)
  entities,      (* scene group -> its mesh, 0 if it has none                *)
  live,          (* square -> live group                                     *)
  names,         (* key of a live texture -> its name                        *)
  shadow,        (* depth texture of the shadow map, 0 without one           *)
  shadows,       (* settings.shadows                                         *)
  useShadows,    (* use_shadows of this pass                                 *)
  pc,            (* where the thread is                                      *)
  making,        (* the live group that is being uploaded, or None           *)
  todo,          (* what this pass has yet to look at                        *)
  last,          (* program, material and mesh of the last live draw         *)
  astray,        (* the last draw call, if it did not see what it should     *)
  uploads,       (* map groups uploaded so far, the id of the last           *)
  faults         (* textures that could not be made, and errors thrown       *)

residentVars == <<shaders, arrows, entities, live, names>>
passVars == <<todo, last, useShadows>>
counts == <<uploads, faults>>
liveVars == <<gl, residentVars, shadow, shadows, pc, making, passVars, astray, counts>>

Kinds == {"terrain", "detail", "geodata"}
Forgotten == [program |-> None, key |-> None, vao |-> 0]

LiveInit ==
  /\ gl = NewContext
  /\ shaders = {} /\ arrows = 0
  /\ entities = <<>> /\ live = <<>>
  /\ names = <<>>
  /\ shadow = 0 /\ shadows = FALSE /\ useShadows = FALSE
  /\ pc = "idle" /\ making = None
  /\ todo = {} /\ last = Forgotten /\ astray = {}
  /\ uploads = 0 /\ faults = 0

-----------------------------------------------------------------------------
(* Groups of the older renderer.                                           *)

With(f, x, value) == [y \in DOMAIN f \cup {x} |-> IF y = x THEN value ELSE f[y]]
Without(f, x) == Restrict(f, DOMAIN f \ {x})

ShaderOf(kind) == IF kind = "geodata" THEN "geodata" ELSE "entity"

(* render_map and render_geodata_group: shader and arrows are loaded once, *)
(* meshes come after them.                                                 *)
Shader(kind) == <<kind, None>>
WithArrows(g, kind) == IF kind = "geodata" /\ arrows = 0 THEN NewTexture(g) ELSE g
RenderGroup(group, meshes) ==
  LET kind == ShaderOf(group[2])
      loaded == WithArrows(NewProgram(gl, Shader(kind)), kind)
  IN  /\ shaders' = shaders \cup {kind}
      /\ arrows' = IF kind = "geodata" /\ arrows = 0 THEN Fresh(gl.textures) ELSE arrows
      /\ gl' = IF meshes = 0 THEN loaded ELSE NewMesh(loaded)
      /\ entities' = With(entities, group, IF meshes = 0 THEN 0 ELSE Fresh(gl.vaos))

UploadTerrain(s) ==
  /\ pc = "idle" /\ uploads < MaxUploads
  /\ <<s, "terrain">> \notin DOMAIN entities
  /\ RenderGroup(<<s, "terrain">>, 1)
  /\ uploads' = uploads + 1
  /\ UNCHANGED <<live, names, shadow, shadows, pc, making, passVars, astray, faults>>

-----------------------------------------------------------------------------
(* LiveVisualRenderer::upload.                                             *)

(* A material that needs more textures than there are units left beside    *)
(* the shadow map and a mask becomes a plain one; material 0 is the ground.*)
Fits(samples) == Len(samples) + 2 <= MaxUnits
Samples(s, m) ==
  IF m = 0 THEN <<>>
  ELSE LET wanted == Visual[s].materials[m].samples IN IF Fits(wanted) THEN wanted ELSE <<>>

Item(s, i) == Visual[s].items[i]

(* Programs are told apart by the text of their fragment shader.           *)
ColorSource(s, item, shaded) ==
  [samples |-> Samples(s, item.material), plain |-> item.material = 0,
   mask |-> item.layer, shadows |-> shaded]
Masked(s, item) == item.material # 0 /\ Visual[s].materials[item.material].masked
DepthSource(s, item) ==
  IF Masked(s, item) THEN [depth |-> Samples(s, item.material)] ELSE [depth |-> <<>>]

(* Textures that a group holds, and so keeps.                              *)
Keys(group) == ToSet(group.textures)
HeldBy(groups) == UNION {Keys(groups[s]) : s \in DOMAIN groups}
Held == HeldBy(live) \cup (IF pc = "upload" THEN Keys(making) ELSE {})

(* A Detail: the volumes of the older renderer first, if there are any.    *)
BeginDetail(s, meshes) ==
  /\ pc = "idle" /\ uploads < MaxUploads
  /\ <<s, "detail">> \notin DOMAIN entities
  /\ RenderGroup(<<s, "detail">>, meshes)
  /\ making' = [square |-> s, id |-> uploads + 1, meshes |-> <<>>, textures |-> <<>>, programs |-> {}]
  /\ pc' = "upload"
  /\ uploads' = uploads + 1
  /\ UNCHANGED <<live, names, shadow, shadows, passVars, astray, faults>>

MeshesMade == Len(making.meshes) = Visual[making.square].meshes
TexturesMade == Len(making.textures) = Len(Visual[making.square].textures)

MakeMesh ==
  /\ pc = "upload" /\ ~MeshesMade
  /\ gl' = NewMesh(gl)
  /\ making' = [making EXCEPT !.meshes = Append(@, Fresh(gl.vaos))]
  /\ UNCHANGED <<residentVars, shadow, shadows, pc, passVars, astray, counts>>

(* get_texture: one that is held is shared, another one is made.           *)
GetTexture(key) ==
  IF key \in Held THEN UNCHANGED <<gl, names>>
  ELSE /\ gl' = BindTexture([gl EXCEPT !.textures = @ \cup {Fresh(@)}],
                            gl.active, Fresh(gl.textures))
       /\ names' = With(names, key, Fresh(gl.textures))

Fault == faults < MaxFaults /\ faults' = faults + 1 /\ UNCHANGED uploads

(* One that cannot be made is replaced by the neutral one.                 *)
MakeTexture ==
  /\ pc = "upload" /\ MeshesMade /\ ~TexturesMade
  /\ LET wanted == Visual[making.square].textures[Len(making.textures) + 1]
     IN  \E key \in {wanted, Neutral} :
           /\ GetTexture(key)
           /\ making' = [making EXCEPT !.textures = Append(@, key)]
           /\ IF key = wanted THEN UNCHANGED counts ELSE wanted \notin Held /\ Fault
  /\ UNCHANGED <<shaders, arrows, entities, live, shadow, shadows, pc, passVars, astray>>

Sources(s, shaded) ==
  {ColorSource(s, Item(s, i), shaded) : i \in DOMAIN Visual[s].items}
AnySource(s) ==
  Sources(s, TRUE) \cup Sources(s, FALSE)
    \cup {DepthSource(s, Item(s, i)) : i \in DOMAIN Visual[s].items}
Program(s, source) == <<s, source>>

(* The programs are told apart, from each other and from those of scene    *)
(* groups.                                                                 *)
ASSUME NamesAssumption ==
  \A s \in SceneSquares :
    /\ s \notin {"entity", "geodata"}
    /\ \A source \in AnySource(s) : Program(s, source) # None

MakeProgram ==
  /\ pc = "upload" /\ MeshesMade /\ TexturesMade
  /\ LET s == making.square
         source(i) == ColorSource(s, Item(s, i), FALSE)
     IN  \E i \in DOMAIN Visual[s].items :
           /\ source(i) \notin making.programs
           /\ \A earlier \in 1 .. i - 1 : source(earlier) \in making.programs
           /\ making' = [making EXCEPT !.programs = @ \cup {source(i)}]
           /\ gl' = NewProgram(gl, Program(s, source(i)))
  /\ UNCHANGED <<residentVars, shadow, shadows, pc, passVars, astray, counts>>

Install ==
  /\ pc = "upload" /\ MeshesMade /\ TexturesMade
  /\ Sources(making.square, FALSE) \subseteq making.programs
  /\ live' = With(live, making.square, making)
  /\ gl' = LegacyBindingScope(gl)
  /\ making' = None
  /\ todo' = {making.square} /\ pc' = "import"
  /\ UNCHANGED <<shaders, arrows, entities, names, shadow, shadows, useShadows,
                 last, astray, counts>>

(* What a group of the live scene has made goes with it, textures with the *)
(* last that holds them.                                                   *)
Released(g, group, held) ==
  DeleteTextures(DeletePrograms(DeleteVertexArrays(g, ToSet(group.meshes)),
                                {Program(group.square, source) : source \in group.programs}),
                 {names[key] : key \in Keys(group) \ held})

(* RendererMapSceneSink::remove: the live group, with the shadow map if it *)
(* was the last, the geodata imported beside it, the scene group.          *)
MeshesOf(groups) == {entities[group] : group \in groups \cap DOMAIN entities} \ {0}

(* Mutant of Beside: the geodata are forgotten.                            *)
BesideNothing(group) == {group}

Beside(group) == IF group[2] = "detail" THEN {group, <<group[1], "geodata">>} ELSE {group}
RemovedFrom(g, group, groups) ==
  /\ live' = groups
  /\ names' = Restrict(names, HeldBy(groups))
  /\ shadow' = IF groups = <<>> THEN 0 ELSE shadow
  /\ gl' = DropMeshes(IF groups = <<>> THEN DeleteTextures(g, {shadow} \ {0}) ELSE g,
                      MeshesOf(Beside(group)))
  /\ entities' = Restrict(entities, DOMAIN entities \ Beside(group))

RemoveGroup(group) ==
  /\ pc = "idle"
  /\ group \in DOMAIN entities /\ group[2] # "geodata"
  /\ LET s == group[1]
         groups == Without(live, s)
     IN  IF group[2] = "detail"
         THEN RemovedFrom(Released(gl, live[s], HeldBy(groups)), group, groups)
         ELSE RemovedFrom(gl, group, live)
  /\ UNCHANGED <<shaders, arrows, shadows, pc, making, passVars, astray, counts>>

(* Anything of an upload may throw: what has been made of the live group   *)
(* goes, the scope ends, and the sink removes the rest.                    *)
ThrowUpload ==
  /\ pc = "upload"
  /\ RemovedFrom(LegacyBindingScope(Released(gl, making, HeldBy(live))),
                 <<making.square, "detail">>, live)
  /\ making' = None /\ pc' = "idle"
  /\ Fault
  /\ UNCHANGED <<shaders, arrows, shadows, passVars, astray>>

(* Geodata of the square, if there are any; reading them may throw.        *)
Import ==
  /\ pc = "import" /\ pc' = "idle" /\ todo' = {}
  /\ \E s \in todo :
       \/ UNCHANGED <<gl, residentVars, shadow, counts>>
       \/ RenderGroup(<<s, "geodata">>, 1) /\ UNCHANGED <<live, names, shadow, counts>>
       \/ /\ RemovedFrom(Released(gl, live[s], HeldBy(Without(live, s))),
                         <<s, "detail">>, Without(live, s))
          /\ Fault
          /\ UNCHANGED <<shaders, arrows>>
  /\ UNCHANGED <<shadows, making, useShadows, last, astray>>

-----------------------------------------------------------------------------
(* A frame.                                                                *)

(* The order within a pass of the older renderer is that of pointers.      *)
PassOf(pass) ==
  {group \in DOMAIN entities :
     entities[group] # 0 /\ (group[2] = "geodata") = (pass = "overlay")}

ToggleShadows ==
  /\ pc = "idle" /\ shadows' = ~shadows
  /\ UNCHANGED <<gl, residentVars, shadow, pc, making, passVars, astray, counts>>

BeginFrame ==
  /\ pc = "idle" /\ pc' = "entities"
  /\ todo' = PassOf("entities")
  /\ UNCHANGED <<gl, residentVars, shadow, shadows, making, useShadows, last, astray, counts>>

(* A draw call sees what is bound, the textures of the units it samples.   *)
Draws(sees, wants) == astray' = IF sees = wants THEN {} ELSE {[sees |-> sees, wants |-> wants]}
Sees(g, units) ==
  [program |-> g.program, vao |-> g.vao, framebuffer |-> g.framebuffer,
   material |-> g.material, textures |-> [u \in units |-> g.units[u]]]
Wants(program, vao, framebuffer, material, textures) ==
  [program |-> program, vao |-> vao, framebuffer |-> framebuffer,
   material |-> material, textures |-> textures]

(* A branch of the scene tree: shader, texture, and its mesh unless it is  *)
(* hidden or outside the frustum.  A branch may be filtered as a whole.    *)
ArrowsOf(group) == IF group[2] = "geodata" THEN arrows ELSE 0
Branch(group) ==
  LET shaded == BindShader(gl, Shader(ShaderOf(group[2])))
  IN  IF ArrowsOf(group) = 0 THEN UnbindCurrentTexture(shaded)
                             ELSE BindTextureZero(shaded, arrows)
DrawEntity ==
  /\ pc \in {"entities", "overlay"}
  /\ \E group \in todo :
       /\ \/ /\ gl' = BindMesh(Branch(group), entities[group])
             /\ Draws(Sees(gl', {0}),
                      Wants(Shader(ShaderOf(group[2])), entities[group], 0, gl'.material,
                            [u \in {0} |-> ArrowsOf(group)]))
          \/ gl' \in {gl, Branch(group)} /\ UNCHANGED astray
       /\ todo' = todo \ {group}
  /\ UNCHANGED <<residentVars, shadow, shadows, pc, making, last, useShadows, counts>>

(* The live scene, in the order of the ids of its groups: the ground, its  *)
(* layers, what is opaque; that these are sorted by program and mesh only  *)
(* saves changes of state, and is left out.                                *)
Entries == UNION {{s} \X DOMAIN Visual[s].items : s \in DOMAIN live}
Part(e) == LET item == Item(e[1], e[2])
           IN  IF item.terrain THEN "base" ELSE IF item.alpha THEN "alpha" ELSE "opaque"
Place == [base |-> 1, opaque |-> 2, alpha |-> 3]
Sooner(e, f) ==
  \/ live[e[1]].id < live[f[1]].id
  \/ /\ e[1] = f[1]
     /\ \/ Place[Part(e)] < Place[Part(f)]
        \/ Part(e) = Part(f) /\ e[2] < f[2]

(* What is transparent comes after the rest, in the order of its distance. *)
Precedes(e, f) ==
  IF pc = "color" /\ "alpha" \in {Part(e), Part(f)} THEN Part(e) # "alpha" ELSE Sooner(e, f)
Turn(e) == e \in todo /\ \A f \in todo : ~ Precedes(f, e)

(* Of the ground and its layers only the ground casts a shadow.            *)
IsGround(e) == Part(e) = "base" /\ \A f \in Entries :
                 f[1] = e[1] /\ Part(f) = "base" => e[2] <= f[2]
Casters == {e \in Entries : Part(e) = "opaque" \/ IsGround(e)}

BeginLive ==
  /\ pc = "entities" /\ todo = {}
  /\ useShadows' = (shadows /\ live # <<>>)
  /\ IF shadows THEN UNCHANGED <<gl, shadow>>
     ELSE gl' = DeleteTextures(gl, {shadow} \ {0}) /\ shadow' = 0
  /\ pc' = IF useShadows' THEN "prepare" ELSE "color"
  /\ todo' = Entries
  /\ last' = Forgotten
  /\ UNCHANGED <<residentVars, shadows, making, astray, counts>>

(* The shadow pass.  Programs that take shadows are made when they are     *)
(* first wanted, and the map after them.                                   *)
WithLiveProgram(s, source) == live' = [live EXCEPT ![s].programs = @ \cup {source}]

PrepareShadow ==
  /\ pc = "prepare"
  /\ \E e \in todo :
       LET source == ColorSource(e[1], Item(e[1], e[2]), TRUE)
       IN  /\ Turn(e) /\ todo' = todo \ {e}
           /\ WithLiveProgram(e[1], source)
           /\ gl' = NewProgram(gl, Program(e[1], source))
  /\ UNCHANGED <<shaders, arrows, entities, names, shadow, shadows, pc, making, last,
                 useShadows, astray, counts>>

BeginCast ==
  /\ pc = "prepare" /\ todo = {}
  /\ shadow' = IF shadow = 0 THEN Fresh(gl.textures) ELSE shadow
  /\ LET made == BindTexture([gl EXCEPT !.textures = @ \cup {shadow'}], gl.active, shadow')
     IN  gl' = BindFramebuffer(IF shadow = 0 THEN made ELSE gl, 1)
  /\ pc' = "cast" /\ todo' = Casters
  /\ UNCHANGED <<residentVars, shadows, making, last, useShadows, astray, counts>>

Name(s, t) == names[live[s].textures[t]]
Named(s, samples) == [u \in 0 .. Len(samples) - 1 |-> Name(s, samples[u + 1])]
BindTextures(g, s, samples) ==
  [g EXCEPT !.active = IF samples = <<>> THEN @ ELSE Len(samples) - 1,
            !.units = [u \in Units |-> IF u >= Len(samples) THEN @[u]
                                      ELSE BindTexture(g, u, Named(s, samples)[u]).units[u]]]

(* Water, hidden items and those whose coverage is not known cast nothing. *)
Skip ==
  /\ pc \in {"cast", "color"}
  /\ \E e \in todo : Turn(e) /\ todo' = todo \ {e}
  /\ UNCHANGED <<gl, residentVars, shadow, shadows, pc, making, last, useShadows, astray, counts>>

CastItem(s, item) ==
  LET source == DepthSource(s, item)
      program == Program(s, source)
      mesh == live[s].meshes[item.mesh]
      material == <<s, item.material>>
      bound == BindTextures(UseProgram(NewProgram(gl, program), program), s, source.depth)
  IN  /\ WithLiveProgram(s, source)
      /\ gl' = BindVertexArray([bound EXCEPT !.material = material], mesh)
      /\ Draws(Sees(gl', DOMAIN Named(s, source.depth)),
               Wants(program, mesh, 1, material, Named(s, source.depth)))
Cast ==
  /\ pc = "cast"
  /\ \E e \in todo : Turn(e) /\ CastItem(e[1], Item(e[1], e[2])) /\ todo' = todo \ {e}
  /\ UNCHANGED <<shaders, arrows, entities, names, shadow, shadows, pc, making, last,
                 useShadows, counts>>

BeginColor(with) ==
  /\ gl' = BindFramebuffer(gl, 0)
  /\ useShadows' = with
  /\ pc' = "color" /\ todo' = Entries
  /\ UNCHANGED <<residentVars, shadow, shadows, making, last, astray>>
EndCast == pc = "cast" /\ todo = {} /\ BeginColor(TRUE) /\ UNCHANGED counts
(* A program, the map, its projection or a draw: with nothing to cast the  *)
(* projection may still throw.                                             *)
ThrowShadow ==
  /\ pc = "prepare" \/ (pc = "cast" /\ (todo # {} \/ Casters = {}))
  /\ BeginColor(FALSE) /\ Fault

(* The color pass.                                                         *)

(* Units beside the one of the shadow map.                                 *)
Room == MaxUnits - (IF useShadows THEN 1 ELSE 0)
Needed(s, item) == Len(Samples(s, item.material)) + (IF item.layer THEN 1 ELSE 0)

(* What the state that is set once for several items depends on.           *)
MaterialKey(s, item) == <<s, item.material, item.layer, item.terrain, item.mask>>

ProgramFor(s, item) == Program(s, ColorSource(s, item, useShadows))
SetProgram(g, program) ==
  LET used == UseProgram(g, program)
  IN  IF useShadows THEN BindTexture(used, MaxUnits - 1, shadow) ELSE used
SetMaterial(g, s, item) ==
  LET samples == Samples(s, item.material)
      bound == BindTextures([g EXCEPT !.material = <<s, item.material>>], s, samples)
  IN  IF item.layer THEN BindTexture(bound, Len(samples), Name(s, item.mask)) ELSE bound

ItemTextures(s, item) ==
  LET samples == Samples(s, item.material)
      used == {u \in Units : \/ u < Len(samples)
                             \/ item.layer /\ u = Len(samples)
                             \/ useShadows /\ u = MaxUnits - 1}
  IN  [u \in used |-> IF u < Len(samples) THEN Named(s, samples)[u]
                     ELSE IF item.layer /\ u = Len(samples) THEN Name(s, item.mask)
                     ELSE shadow]

(* An item that needs more units than there are would throw out of the     *)
(* pass: DrawsSeeTheirOwn says that none does.                             *)
Paint(s, item) ==
  LET program == ProgramFor(s, item)
      key == MaterialKey(s, item)
      mesh == live[s].meshes[item.mesh]
      programChanged == last.program # program
      materialChanged == programChanged \/ last.key # key
      ready == IF programChanged THEN SetProgram(gl, program) ELSE gl
      set == IF materialChanged THEN SetMaterial(ready, s, item) ELSE ready
  IN  /\ materialChanged => Needed(s, item) <= Room
      /\ gl' = IF last.vao # mesh THEN BindVertexArray(set, mesh) ELSE set
      /\ last' = [program |-> program, key |-> key, vao |-> mesh]
      /\ Draws(Sees(gl', DOMAIN ItemTextures(s, item)),
               Wants(program, mesh, 0, <<s, item.material>>, ItemTextures(s, item)))
DrawItem ==
  /\ pc = "color"
  /\ \E e \in todo : Turn(e) /\ Paint(e[1], Item(e[1], e[2])) /\ todo' = todo \ {e}
  /\ UNCHANGED <<residentVars, shadow, shadows, pc, making, useShadows, counts>>

(* The scope ends, and an error of the shadow pass turns the shadows off.  *)
EndLive ==
  /\ pc = "color" /\ todo = {}
  /\ gl' = LegacyBindingScope(gl)
  /\ shadows' = (shadows /\ (live = <<>> \/ useShadows))
  /\ names' = Restrict(names, HeldBy(live))
  /\ pc' = "overlay" /\ todo' = PassOf("overlay")
  /\ useShadows' = FALSE /\ last' = Forgotten
  /\ UNCHANGED <<shaders, arrows, entities, live, shadow, making, astray, counts>>

EndFrame ==
  /\ pc = "overlay" /\ todo = {} /\ pc' = "idle"
  /\ UNCHANGED <<gl, residentVars, shadow, shadows, making, passVars, astray, counts>>

-----------------------------------------------------------------------------

Streams ==
  \/ \E s \in SceneSquares : UploadTerrain(s) \/ BeginDetail(s, 0) \/ BeginDetail(s, 1)
  \/ MakeMesh \/ MakeTexture \/ MakeProgram \/ Install \/ Import \/ ThrowUpload
  \/ \E group \in SceneSquares \X Kinds : RemoveGroup(group)
Frames ==
  \/ BeginFrame \/ DrawEntity \/ BeginLive \/ PrepareShadow \/ BeginCast \/ Cast
  \/ Skip \/ EndCast \/ ThrowShadow \/ DrawItem \/ EndLive \/ EndFrame
LiveNext == Streams \/ Frames \/ ToggleShadows
LiveSpec == LiveInit /\ [][LiveNext]_liveVars

-----------------------------------------------------------------------------

(* Every draw call finds its own program, mesh, target and textures bound, *)
(* and the uniforms and depth state of its own material set, whatever has  *)
(* been uploaded, removed, skipped or has thrown before; and the live pass *)
(* and its uploads "must leave both the real bindings and that cache in    *)
(* agreement, including when an upload or draw throws"                     *)
(* (LiveVisualRenderer.cpp:94-96).  None is refused for want of units: what*)
(* an upload turns plain is enough for the masks and shadows of any draw.  *)
DrawsSeeTheirOwn ==
  /\ astray = {}
  /\ pc \in {"overlay", "import"} => Agrees(gl)
  /\ pc = "color" => \A e \in todo : Needed(e[1], Item(e[1], e[2])) <= Room

(* The GPU holds what the resident groups need and nothing else, each name *)
(* for one owner, through every unload and every upload that fails half    *)
(* way; a texture two squares use is there once, and the last live group   *)
(* takes the shadow map with it (LiveVisualRendererTests.cpp: "unloading   *)
(* the last visual group releases shaders and textures").                  *)
Vaos ==
  {entities[group] : group \in DOMAIN entities}
    \cup UNION {ToSet(live[s].meshes) : s \in DOMAIN live}
Textures == {names[key] : key \in Held} \cup {arrows, shadow}
Programs ==
  {Shader(kind) : kind \in shaders}
    \cup UNION {{Program(s, source) : source \in live[s].programs} : s \in DOMAIN live}
MeshGroups == {group \in DOMAIN entities : entities[group] # 0}
LiveMeshes == UNION {{s} \X DOMAIN live[s].meshes : s \in DOMAIN live}

GpuHoldsResidents ==
  pc = "idle" =>
    /\ gl.vaos = Vaos \ {0}
    /\ Cardinality(gl.vaos) = Cardinality(MeshGroups) + Cardinality(LiveMeshes)
    /\ gl.textures = Textures \ {0}
    /\ Cardinality(gl.textures) = Cardinality(Held) + Cardinality({arrows, shadow} \ {0})
    /\ gl.programs = Programs
    /\ DOMAIN live = {s \in SceneSquares : <<s, "detail">> \in DOMAIN entities}
    /\ \A s \in SceneSquares :
         <<s, "geodata">> \in DOMAIN entities => <<s, "detail">> \in DOMAIN entities
    /\ live = <<>> => shadow = 0
=============================================================================
