------------------------------- MODULE GLImages -------------------------------
(***************************************************************************)
(* The textures, renderbuffers and framebuffers of a WebGL context         *)
(* (38_webgl_tex.js, 39_webgl_draw.js, 3b_gltex_sample.js).  Images are    *)
(* replaced, deleted and attached while others refer to them, so what a    *)
(* framebuffer is good for is looked up at each use.  An image is known by *)
(* its size, 0 is none; the faces of a cube and the layers of an array are *)
(* one image.  Formats are left out: any image does at any attachment.     *)
(***************************************************************************)
EXTENDS Integers, FiniteSets

CONSTANTS
  Textures,      \* the textures,
  Renderbuffers, \* the renderbuffers
  Framebuffers,  \* and the framebuffers of the context,
  Units,         \* the texture units
  Sizes,         \* the sizes images may have
  MaxLevel,      \* the largest level
  MaxGlCalls     \* bound on the calls of the page

Nil == "none"
Levels == 0 .. MaxLevel
Points == {"color", "depth", "depthStencil"}
Free == [obj |-> Nil, level |-> 0]

VARIABLES
  version,    \* 1 or 2
  target,     \* what each texture was first bound to
  imgs,       \* its levels
  immutable,  \* immutableLevels, 0 as long as it is not immutable
  base,       \* baseLevel
  units,      \* what the units have bound
  active,     \* activeTex
  samples,    \* the unit the sampler of the program in use is set to
  storage,    \* the image of each renderbuffer
  rb,         \* S.renderbuffer
  att,        \* what each framebuffer has attached
  drawFb, readFb,
  dead,       \* everything deleted
  glError,
  op,         \* what the last call did: which it was, what it wrote and read
  glCalls

texVars == <<target, imgs, immutable, base>>
bindVars == <<units, active, samples, rb, drawFb, readFb>>
imageVars == <<version, texVars, bindVars, storage, att, dead, glError, op, glCalls>>

Nothing == [call |-> Nil, wrote |-> {}, read |-> {}]

(* A page that renders to a texture with a depth buffer.                   *)
Init ==
  /\ version \in {1, 2}
  /\ LET t == CHOOSE x \in Textures : TRUE      r == CHOOSE x \in Renderbuffers : TRUE
         f == CHOOSE x \in Framebuffers : TRUE  u == CHOOSE x \in Units : TRUE IN
       /\ target = [x \in Textures |-> IF x = t THEN "t2d" ELSE Nil]
       /\ imgs = [x \in Textures |-> [l \in Levels |-> IF x = t /\ l = 0 THEN 2 ELSE 0]]
       /\ units = [x \in Units |-> [t2d |-> IF x = u THEN t ELSE Nil, cube |-> Nil]]
       /\ active = u /\ samples = u
       /\ storage = [x \in Renderbuffers |-> IF x = r THEN 2 ELSE 0] /\ rb = r
       /\ att = [x \in Framebuffers |-> [p \in Points |->
                   IF x # f \/ p = "depthStencil" THEN Free ELSE [obj |-> IF p = "color" THEN t ELSE r, level |-> 0]]]
       /\ drawFb = f /\ readFb = f
  /\ immutable = [t \in Textures |-> 0] /\ base = [t \in Textures |-> 0]
  /\ dead = {} /\ glError = Nil /\ op = Nothing /\ glCalls = 0

-----------------------------------------------------------------------------
Call == glCalls < MaxGlCalls /\ glCalls' = glCalls + 1 /\ UNCHANGED version
Refused(code) ==
  /\ glError' = (IF glError = Nil THEN code ELSE glError) /\ op' = Nothing
  /\ UNCHANGED <<texVars, bindVars, storage, att, dead>>
Did(call, wrote, read) == op' = [call |-> call, wrote |-> wrote, read |-> read] /\ UNCHANGED <<dead, glError>>

Bound(slot) == units[active][slot]
Half(n) == IF n = 1 THEN 1 ELSE n \div 2
Chain(n) == [l \in Levels |-> IF l = 0 THEN n ELSE Half(n)]
LevelsOf(n) == IF n = 1 THEN 1 ELSE 2

ActiveTexture(u) == Call /\ active' = u /\ Did(Nil, {}, {}) /\ UNCHANGED <<texVars, units, samples, rb, drawFb, readFb, storage, att>>
SetSampler(u) == Call /\ samples' = u /\ Did(Nil, {}, {}) /\ UNCHANGED <<texVars, units, active, rb, drawFb, readFb, storage, att>>

BindTexture(slot, t) ==
  /\ Call
  /\ IF t # Nil /\ (t \in dead \/ target[t] \notin {Nil, slot})
     THEN Refused("operation")
     ELSE /\ units' = [units EXCEPT ![active][slot] = t]
          /\ target' = IF t = Nil THEN target ELSE [target EXCEPT ![t] = slot]
          /\ Did(Nil, {}, {})
          /\ UNCHANGED <<imgs, immutable, base, active, samples, rb, drawFb, readFb, storage, att>>

\* mutant of Detached
DetachedHere(x) == [att EXCEPT ![drawFb] = [p \in Points |-> IF att[drawFb][p].obj = x THEN Free ELSE att[drawFb][p]]]
(* detachTextureFromFbs(): from every framebuffer, in use or not.          *)
Detached(x) == [f \in Framebuffers |-> [p \in Points |-> IF att[f][p].obj = x THEN Free ELSE att[f][p]]]

DeleteTexture(t) ==
  /\ Call /\ t \notin dead
  /\ dead' = dead \union {t}
  /\ units' = [u \in Units |-> [s \in DOMAIN units[u] |-> IF units[u][s] = t THEN Nil ELSE units[u][s]]]
  /\ att' = Detached(t) /\ op' = Nothing
  /\ UNCHANGED <<texVars, active, samples, rb, drawFb, readFb, storage, glError>>
DeleteRenderbuffer(r) ==
  /\ Call /\ r \notin dead
  /\ dead' = dead \union {r}
  /\ rb' = IF rb = r THEN Nil ELSE rb
  /\ att' = Detached(r) /\ op' = Nothing
  /\ UNCHANGED <<texVars, units, active, samples, drawFb, readFb, storage, glError>>

(* Immutable storage is neither specified again nor copied over.           *)
Fixed(t) == immutable[t] > 0

(* upload(): texImage2D() replaces the image, texSubImage2D() needs one.   *)
TexImage(slot, level, n) ==
  /\ Call
  /\ IF Bound(slot) = Nil THEN Refused("operation")
     ELSE IF Fixed(Bound(slot)) THEN Refused("operation")
     ELSE /\ imgs' = [imgs EXCEPT ![Bound(slot)][level] = n]
          /\ Did("upload", {<<Bound(slot), level>>}, {})
          /\ UNCHANGED <<target, immutable, base, bindVars, storage, att>>
TexSubImage(slot, level, offset, n) ==
  /\ Call
  /\ IF Bound(slot) = Nil THEN Refused("operation")
     ELSE IF imgs[Bound(slot)][level] = 0 THEN Refused("operation")
     ELSE IF offset + n > imgs[Bound(slot)][level] THEN Refused("value")
     ELSE Did("upload", {<<Bound(slot), level>>}, {}) /\ UNCHANGED <<texVars, bindVars, storage, att>>

TexStorage(slot, levels, n) ==
  /\ Call /\ version = 2
  /\ IF Bound(slot) = Nil THEN Refused("operation")
     ELSE IF levels > LevelsOf(n) \/ Fixed(Bound(slot)) THEN Refused("operation")
     ELSE /\ imgs' = [imgs EXCEPT ![Bound(slot)] = [l \in Levels |-> IF l < levels THEN Chain(n)[l] ELSE 0]]
          /\ immutable' = [immutable EXCEPT ![Bound(slot)] = levels]
          /\ Did("storage", {}, {})
          /\ UNCHANGED <<target, base, bindVars, storage, att>>

SetBaseLevel(slot, level) ==
  /\ Call /\ version = 2
  /\ IF Bound(slot) = Nil THEN Refused("operation")
     ELSE /\ base' = [base EXCEPT ![Bound(slot)] = level]
          /\ Did(Nil, {}, {}) /\ UNCHANGED <<target, imgs, immutable, bindVars, storage, att>>

(* The levels behind the base, from the base or, if it is missing, from    *)
(* level 0; how many there are is told from level 0.                       *)
Made(t) ==
  LET from == IF imgs[t][base[t]] # 0 THEN imgs[t][base[t]] ELSE imgs[t][0]
  IN [l \in Levels |-> IF l > base[t] /\ l < LevelsOf(imgs[t][0]) /\ from > 1 THEN Half(from) ELSE imgs[t][l]]
GenerateMipmap(slot) ==
  /\ Call
  /\ IF Bound(slot) = Nil THEN Refused("operation")
     ELSE IF imgs[Bound(slot)][0] = 0 \/ (version = 1 /\ imgs[Bound(slot)][0] = 3) THEN Refused("operation")
     ELSE /\ imgs' = [imgs EXCEPT ![Bound(slot)] = Made(Bound(slot))]
          /\ Did("mipmap", {<<Bound(slot), 0>>}, {})
          /\ UNCHANGED <<target, immutable, base, bindVars, storage, att>>

-----------------------------------------------------------------------------
BindRenderbuffer(r) ==
  /\ Call
  /\ IF r \in dead THEN Refused("operation")
     ELSE rb' = r /\ Did(Nil, {}, {}) /\ UNCHANGED <<texVars, units, active, samples, drawFb, readFb, storage, att>>
RenderbufferStorage(n) ==
  /\ Call
  /\ IF rb = Nil THEN Refused("operation")
     ELSE storage' = [storage EXCEPT ![rb] = n] /\ Did(Nil, {}, {}) /\ UNCHANGED <<texVars, bindVars, att>>

BindFramebuffer(which, f) ==
  /\ Call /\ (which # "both" => version = 2)
  /\ IF f \in dead THEN Refused("operation")
     ELSE /\ drawFb' = IF which = "read" THEN drawFb ELSE f
          /\ readFb' = IF which = "draw" THEN readFb ELSE f
          /\ Did(Nil, {}, {}) /\ UNCHANGED <<texVars, units, active, samples, rb, storage, att>>
DeleteFramebuffer(f) ==
  /\ Call /\ f \notin dead
  /\ dead' = dead \union {f}
  /\ drawFb' = (IF drawFb = f THEN Nil ELSE drawFb) /\ readFb' = (IF readFb = f THEN Nil ELSE readFb)
  /\ op' = Nothing /\ UNCHANGED <<texVars, units, active, samples, rb, storage, att, glError>>

(* framebufferTexture2D() and framebufferRenderbuffer(): what is attached  *)
(* as both takes the place of what was attached as either.                 *)
Attached(f, p, x, level) ==
  [q \in Points |-> IF q = p THEN [obj |-> x, level |-> level]
                    ELSE IF p = "depthStencil" /\ q = "depth" THEN Free ELSE att[f][q]]
FramebufferTexture(p, t, level) ==
  /\ Call
  /\ IF drawFb = Nil \/ t \in dead THEN Refused("operation")
     ELSE IF t # Nil /\ target[t] # "t2d" THEN Refused("operation")
     ELSE IF version = 1 /\ level > 0 THEN Refused("value")
     ELSE /\ att' = [att EXCEPT ![drawFb] = IF t = Nil THEN Attached(drawFb, p, Nil, 0) ELSE Attached(drawFb, p, t, level)]
          /\ Did(Nil, {}, {}) /\ UNCHANGED <<texVars, bindVars, storage>>
FramebufferRenderbuffer(p, r) ==
  /\ Call
  /\ IF drawFb = Nil \/ r \in dead THEN Refused("operation")
     ELSE /\ att' = [att EXCEPT ![drawFb] = IF r = Nil THEN [@ EXCEPT ![p] = Free] ELSE Attached(drawFb, p, r, 0)]
          /\ Did(Nil, {}, {}) /\ UNCHANGED <<texVars, bindVars, storage>>

-----------------------------------------------------------------------------
SizeOf(a) == IF a.obj \in Textures THEN imgs[a.obj][a.level] ELSE storage[a.obj]
Used(f) == {p \in Points : att[f][p] # Free}

(* fbStatus() of what is attached now.                                     *)
Complete(f) ==
  f = Nil \/
  /\ Used(f) # {}
  /\ \A p, q \in Used(f) : SizeOf(att[f][p]) # 0 /\ SizeOf(att[f][p]) = SizeOf(att[f][q])
  /\ ~(version = 1 /\ {"depth", "depthStencil"} \subseteq Used(f))

Images(f) == IF f = Nil THEN {} ELSE {<<att[f][p].obj, att[f][p].level>> : p \in Used(f)}

(* prepareDraw(): a texture the program samples is also rendered to, at    *)
(* whatever level.                                                         *)
Loop(t) == drawFb # Nil /\ t # Nil /\ \E p \in Points : att[drawFb][p].obj = t

(* buildView(): a texture that is not complete is not read at all.         *)
Sampled(t) == IF t = Nil THEN {} ELSE {<<t, l>> : l \in {x \in Levels : x >= base[t] /\ imgs[t][x] # 0}}

Draw ==
  /\ Call
  /\ IF ~Complete(drawFb) THEN Refused("framebuffer")
     ELSE IF Loop(units[samples].t2d) THEN Refused("operation")
     ELSE /\ Did("draw", Images(drawFb), Sampled(units[samples].t2d))
          /\ UNCHANGED <<texVars, bindVars, storage, att>>

(* clear() and clearBuffer...().                                           *)
Clear ==
  /\ Call
  /\ IF ~Complete(drawFb) THEN Refused("framebuffer")
     ELSE Did("clear", Images(drawFb), {}) /\ UNCHANGED <<texVars, bindVars, storage, att>>

(* readSource(): the colour of the framebuffer that is read from.          *)
Source == IF readFb = Nil \/ att[readFb].color = Free THEN {} ELSE {<<att[readFb].color.obj, att[readFb].color.level>>}
Readable == readFb = Nil \/ att[readFb].color # Free
ReadPixels ==
  /\ Call
  /\ IF ~Complete(readFb) THEN Refused("framebuffer")
     ELSE IF ~Readable THEN Refused("operation")
     ELSE Did("read", {}, Source) /\ UNCHANGED <<texVars, bindVars, storage, att>>

CopyTexImage(slot, level, n) ==
  /\ Call
  /\ IF Bound(slot) = Nil THEN Refused("operation")
     ELSE IF Fixed(Bound(slot)) THEN Refused("operation")
     ELSE IF ~Complete(readFb) THEN Refused("framebuffer")
     ELSE IF ~Readable THEN Refused("operation")
     ELSE /\ imgs' = [imgs EXCEPT ![Bound(slot)][level] = n]
          /\ Did("copy", {<<Bound(slot), level>>}, Source)
          /\ UNCHANGED <<target, immutable, base, bindVars, storage, att>>
CopyTexSubImage(slot, level, offset, n) ==
  /\ Call
  /\ IF Bound(slot) = Nil THEN Refused("operation")
     ELSE IF imgs[Bound(slot)][level] = 0 THEN Refused("operation")
     ELSE IF offset + n > imgs[Bound(slot)][level] THEN Refused("value")
     ELSE IF ~Complete(readFb) THEN Refused("framebuffer")
     ELSE IF ~Readable THEN Refused("operation")
     ELSE Did("copy", {<<Bound(slot), level>>}, Source) /\ UNCHANGED <<texVars, bindVars, storage, att>>

(* Of colours: nothing is copied without a colour image to read.           *)
Blit ==
  /\ Call /\ version = 2
  /\ IF ~Complete(drawFb) \/ ~Complete(readFb) THEN Refused("framebuffer")
     ELSE IF ~Readable THEN Refused("operation")
     ELSE Did("blit", Images(drawFb), Source) /\ UNCHANGED <<texVars, bindVars, storage, att>>

Next ==
  \/ \E u \in Units : ActiveTexture(u) \/ SetSampler(u)
  \/ \E slot \in {"t2d", "cube"}, t \in Textures \union {Nil} : BindTexture(slot, t)
  \/ \E t \in Textures : DeleteTexture(t)
  \/ \E level \in Levels, n \in Sizes : TexImage("t2d", level, n) \/ CopyTexImage("t2d", level, n)
  \/ \E level \in Levels : TexSubImage("t2d", level, 1, 1) \/ CopyTexSubImage("t2d", level, 1, 1) \/ SetBaseLevel("t2d", level)
  \/ \E levels \in {1, 2}, n \in Sizes : TexStorage("t2d", levels, n)
  \/ GenerateMipmap("t2d")
  \/ \E r \in Renderbuffers : BindRenderbuffer(r) \/ DeleteRenderbuffer(r)
  \/ \E n \in Sizes : RenderbufferStorage(n)
  \/ \E f \in Framebuffers : DeleteFramebuffer(f)
  \/ \E which \in {"both", "draw", "read"}, f \in Framebuffers \union {Nil} : BindFramebuffer(which, f)
  \/ \E p \in Points, t \in Textures \union {Nil}, level \in Levels : FramebufferTexture(p, t, level)
  \/ \E p \in Points, r \in Renderbuffers \union {Nil} : FramebufferRenderbuffer(p, r)
  \/ Draw \/ Clear \/ ReadPixels \/ Blit

Spec == Init /\ [][Next]_imageVars

-----------------------------------------------------------------------------
(* What was deleted is bound nowhere, nor attached to any framebuffer that *)
(* is left, in use or not (deleteTexture, deleteRenderbuffer).             *)
NoneDeleted ==
  /\ \A u \in Units : {units[u].t2d, units[u].cube} \cap dead = {}
  /\ {rb, drawFb, readFb} \cap dead = {}
  /\ \A f \in Framebuffers, p \in Points : att[f][p].obj \notin dead

(* What is rendered to in one go has one size, and nothing is rendered to  *)
(* a texture that the same draw samples, however images were specified     *)
(* again since they were attached (fbStatus, prepareDraw).                 *)
RendersApart ==
  op.call \in {"draw", "clear", "blit"} =>
    /\ \A x, y \in op.wrote : LET size(i) == SizeOf([obj |-> i[1], level |-> i[2]]) IN size(x) # 0 /\ size(x) = size(y)
    /\ op.call = "draw" => {x[1] : x \in op.wrote} \cap {x[1] : x \in op.read} = {}

(* The levels of immutable storage keep the sizes it was made with, with   *)
(* any base level and any mipmaps (storage, upload, generateMipmap).       *)
ImmutableKept ==
  \A t \in Textures : immutable[t] > 0 =>
    \A l \in 0 .. immutable[t] - 1 : imgs[t][0] # 0 /\ imgs[t][l] = Chain(imgs[t][0])[l]

(* Mipmaps that were generated from level 0 make the texture complete.     *)
(* From another base level they may not (generateMipmap).                  *)
MipmapsComplete ==
  op.call = "mipmap" => \A x \in op.wrote : base[x[1]] = 0 =>
    \A l \in 0 .. LevelsOf(imgs[x[1]][0]) - 1 : imgs[x[1]][l] = Chain(imgs[x[1]][0])[l]
=============================================================================
