------------------------------ MODULE GLObjects ------------------------------
(***************************************************************************)
(* The buffers, vertex arrays and draw calls of a WebGL context            *)
(* (37_webgl_api.js, 39_webgl_draw.js, 3a_glraster.js).  The rasteriser    *)
(* reads vertices out of a buffer long after the attribute pointer was set,*)
(* in another order of calls than the buffer was filled, resized or        *)
(* deleted in, so a draw checks again what it is going to read.  Sizes are *)
(* counted in vertices; index data is known by its largest index.          *)
(***************************************************************************)
EXTENDS Naturals, FiniteSets, Integers, Sequences

CONSTANTS
  Buffers,     \* the buffers of the context
  Arrays,      \* its vertex array objects,
  DefaultVao,  \* and the one that is bound when no other is
  MaxSize,     \* the largest buffer
  BufferMaxGlCalls   \* bound on the calls of the page

BufferNil == "none"

VARIABLES
  glVersion,   \* 1 or 2: WebGLRenderingContext or WebGL2RenderingContext
  firstTarget,    \* what each buffer was first bound to
  bufferSize,      \* how much each holds
  topIndex,       \* the largest index in each
  glBound,     \* S.arrayBuffer and S.copyRead
  vao,       \* the vertex array in use
  indexBuffer,   \* each vertex array's index buffer
  vertexAttrib,    \* and its attribute
  deadBuffers,      \* deleted buffers and vertex arrays
  glError,   \* S.err
  drawReads,     \* the buffers the last draw read, with the places
  bufferCalls

glVars == <<glVersion, firstTarget, bufferSize, topIndex, glBound, vao, indexBuffer, vertexAttrib, deadBuffers, glError, drawReads, bufferCalls>>

Plain == [on |-> FALSE, buffer |-> BufferNil, offset |-> 0, stride |-> 1, divisor |-> 0]

(* A page that has filled one buffer and pointed its attribute to it.      *)
BufferInit ==
  /\ glVersion \in {1, 2}
  /\ \E b \in Buffers :
       /\ firstTarget = [x \in Buffers |-> IF x = b THEN "array" ELSE BufferNil]
       /\ bufferSize = [x \in Buffers |-> IF x = b THEN MaxSize ELSE 0]
       /\ glBound = [array |-> b, copyRead |-> BufferNil]
       /\ vertexAttrib = [v \in Arrays |-> IF v = DefaultVao THEN [Plain EXCEPT !.on = TRUE, !.buffer = b] ELSE Plain]
  /\ topIndex = [x \in Buffers |-> 0] /\ indexBuffer = [v \in Arrays |-> BufferNil] /\ vao = DefaultVao
  /\ deadBuffers = {} /\ glError = BufferNil /\ drawReads = {} /\ bufferCalls = 0

-----------------------------------------------------------------------------
BufferCall == bufferCalls < BufferMaxGlCalls /\ bufferCalls' = bufferCalls + 1 /\ UNCHANGED glVersion
objects == <<firstTarget, bufferSize, topIndex>>
bindings == <<glBound, vao, indexBuffer, vertexAttrib>>

(* gerr(): the first error is kept until getError().                       *)
Refused(code) ==
  /\ glError' = IF glError = BufferNil THEN code ELSE glError
  /\ UNCHANGED <<objects, bindings, deadBuffers>>

GetError ==
  /\ BufferCall /\ glError # BufferNil
  /\ glError' = BufferNil
  /\ drawReads' = {} /\ UNCHANGED <<objects, bindings, deadBuffers>>

(* A buffer stays what it was first bound as; WebGL 2 only keeps indices   *)
(* apart from everything else.                                             *)
MayBind(b, kind) ==
  \/ firstTarget[b] \in {BufferNil, kind}
  \/ glVersion = 2 /\ "element" \notin {firstTarget[b], kind}

Bound(kind) == IF kind = "element" THEN indexBuffer[vao] ELSE glBound[kind]
SetBound(kind, b) ==
  IF kind = "element"
  THEN indexBuffer' = [indexBuffer EXCEPT ![vao] = b] /\ UNCHANGED glBound
  ELSE glBound' = [glBound EXCEPT ![kind] = b] /\ UNCHANGED indexBuffer

Kinds == {"array", "element"} \union (IF glVersion = 2 THEN {"copyRead"} ELSE {})

BindBuffer(kind, b) ==
  /\ BufferCall /\ drawReads' = {}
  /\ IF b # BufferNil /\ (b \in deadBuffers \/ ~MayBind(b, kind))
     THEN Refused("operation")
     ELSE /\ SetBound(kind, b)
          /\ firstTarget' = IF b = BufferNil \/ firstTarget[b] # BufferNil THEN firstTarget ELSE [firstTarget EXCEPT ![b] = kind]
          /\ UNCHANGED <<bufferSize, topIndex, vao, vertexAttrib, deadBuffers, glError>>

(* A deleted buffer leaves every vertex array, in use or not.              *)
Unbound(b) ==
  /\ indexBuffer' = [v \in Arrays |-> IF indexBuffer[v] = b THEN BufferNil ELSE indexBuffer[v]]
  /\ vertexAttrib' = [v \in Arrays |-> IF vertexAttrib[v].buffer = b THEN [vertexAttrib[v] EXCEPT !.buffer = BufferNil] ELSE vertexAttrib[v]]

DeleteBuffer(b) ==
  /\ BufferCall /\ drawReads' = {} /\ b \notin deadBuffers
  /\ deadBuffers' = deadBuffers \union {b}
  /\ glBound' = [k \in DOMAIN glBound |-> IF glBound[k] = b THEN BufferNil ELSE glBound[k]]
  /\ Unbound(b)
  /\ UNCHANGED <<objects, vao, glError>>

(* bufferData() and, with its own bounds, bufferSubData().                 *)
BufferData(kind, n, largest) ==
  /\ BufferCall /\ drawReads' = {}
  /\ IF Bound(kind) = BufferNil THEN Refused("operation")
     ELSE /\ bufferSize' = [bufferSize EXCEPT ![Bound(kind)] = n]
          /\ topIndex' = [topIndex EXCEPT ![Bound(kind)] = largest]
          /\ UNCHANGED <<firstTarget, bindings, deadBuffers, glError>>
BufferSubData(kind, offset, n, largest) ==
  /\ BufferCall /\ drawReads' = {}
  /\ IF Bound(kind) = BufferNil THEN Refused("operation")
     ELSE IF offset + n > bufferSize[Bound(kind)] THEN Refused("value")
     ELSE /\ topIndex' = [topIndex EXCEPT ![Bound(kind)] = largest]
          /\ UNCHANGED <<firstTarget, bufferSize, bindings, deadBuffers, glError>>

(* copyBufferSubData() from one place to another, indices or not.          *)
CopyBufferSubData(kind, to, from, at, n) ==
  /\ BufferCall /\ drawReads' = {} /\ glVersion = 2
  /\ IF BufferNil \in {Bound(kind), Bound(to)} THEN Refused("operation")
     ELSE IF from + n > bufferSize[Bound(kind)] \/ at + n > bufferSize[Bound(to)] THEN Refused("value")
     ELSE IF Bound(kind) = Bound(to) /\ from < at + n /\ at < from + n THEN Refused("value")
     ELSE /\ topIndex' = [topIndex EXCEPT ![Bound(to)] = topIndex[Bound(kind)]]
          /\ UNCHANGED <<firstTarget, bufferSize, bindings, deadBuffers, glError>>

VertexAttribPointer(offset, stride) ==
  /\ BufferCall /\ drawReads' = {}
  /\ IF glBound.array = BufferNil /\ offset # 0 THEN Refused("operation")
     ELSE /\ vertexAttrib' = [vertexAttrib EXCEPT ![vao].buffer = glBound.array, ![vao].offset = offset, ![vao].stride = stride]
          /\ UNCHANGED <<objects, glBound, vao, indexBuffer, deadBuffers, glError>>
EnableVertexAttribArray(yes) ==
  /\ BufferCall /\ drawReads' = {} /\ vertexAttrib[vao].on # yes
  /\ vertexAttrib' = [vertexAttrib EXCEPT ![vao].on = yes]
  /\ UNCHANGED <<objects, glBound, vao, indexBuffer, deadBuffers, glError>>
VertexAttribDivisor(n) ==
  /\ BufferCall /\ drawReads' = {} /\ vertexAttrib[vao].divisor # n
  /\ vertexAttrib' = [vertexAttrib EXCEPT ![vao].divisor = n]
  /\ UNCHANGED <<objects, glBound, vao, indexBuffer, deadBuffers, glError>>

BindVertexArray(v) ==
  /\ BufferCall /\ drawReads' = {}
  /\ IF v \in deadBuffers THEN Refused("operation")
     ELSE vao' = v /\ UNCHANGED <<objects, glBound, indexBuffer, vertexAttrib, deadBuffers, glError>>
DeleteVertexArray(v) ==
  /\ BufferCall /\ drawReads' = {} /\ v # DefaultVao /\ v \notin deadBuffers
  /\ deadBuffers' = deadBuffers \union {v}
  /\ vao' = IF vao = v THEN DefaultVao ELSE vao
  /\ UNCHANGED <<objects, glBound, indexBuffer, vertexAttrib, glError>>

-----------------------------------------------------------------------------
a == vertexAttrib[vao]

\* mutant of LastRead
LastReadShort(maxVertex, instances) == IF a.divisor = 0 THEN maxVertex ELSE instances \div (a.divisor + 1)
(* checkAttribRange(): the last vertex, or the last instance's, of the     *)
(* attribute: ceil(instances / divisor) - 1.                               *)
LastRead(maxVertex, instances) == IF a.divisor = 0 THEN maxVertex ELSE (instances + a.divisor - 1) \div a.divisor - 1

InRange(maxVertex, instances) == a.offset + LastRead(maxVertex, instances) * a.stride + 1 <= bufferSize[a.buffer]

(* runVertex(): what the rasteriser reads for these vertices.              *)
Place(i) == a.offset + i * a.stride
Fetched(vertices, instances) ==
  {Place(IF a.divisor = 0 THEN v ELSE i \div a.divisor) : v \in vertices, i \in 0 .. instances - 1}

(* doDraw(): nothing is read unless all of it is there.                    *)
Draw(vertices, maxVertex, instances) ==
  IF ~a.on THEN drawReads' = {} /\ UNCHANGED <<objects, bindings, deadBuffers, glError>>
  ELSE IF a.buffer = BufferNil \/ ~InRange(maxVertex, instances) THEN drawReads' = {} /\ Refused("operation")
  ELSE /\ drawReads' = {<<a.buffer, at>> : at \in Fetched(vertices, instances)}
       /\ UNCHANGED <<objects, bindings, deadBuffers, glError>>

InARow(first, count) == first .. first + count - 1
DrawArrays(first, count, instances) == BufferCall /\ Draw(InARow(first, count), first + count - 1, instances)

(* drawElements(): elementInfo() has its own look at the index buffer.     *)
DrawElements(offset, count, instances) ==
  /\ BufferCall
  /\ IF indexBuffer[vao] = BufferNil THEN drawReads' = {} /\ Refused("operation")
     ELSE IF offset + count > bufferSize[indexBuffer[vao]] THEN drawReads' = {} /\ Refused("operation")
     ELSE Draw({0, topIndex[indexBuffer[vao]]}, topIndex[indexBuffer[vao]], instances)

BufferNext ==
  \/ GetError
  \/ \E kind \in Kinds, b \in Buffers \union {BufferNil} : BindBuffer(kind, b)
  \/ \E b \in Buffers : DeleteBuffer(b)
  \/ \E kind \in Kinds, n \in 1 .. MaxSize : BufferData(kind, n, n) \/ BufferSubData(kind, 1, 1, n)
  \/ \E kind, to \in Kinds, at \in {0, 1} : CopyBufferSubData(kind, to, 0, at, 1)
  \/ \E offset \in {0, 1} : VertexAttribPointer(offset, offset + 1)
  \/ \E yes \in BOOLEAN : EnableVertexAttribArray(yes)
  \/ \E n \in {0, 2} : VertexAttribDivisor(n)
  \/ \E v \in Arrays : BindVertexArray(v) \/ DeleteVertexArray(v)
  \/ \E first \in {0, 1} : DrawArrays(first, 2, 5) \/ DrawElements(first, 1, 5)

BufferSpec == BufferInit /\ [][BufferNext]_glVars

-----------------------------------------------------------------------------
(* A draw reads no place that is not in its buffer, whatever was bound,    *)
(* resized, pointed elsewhere or deleted since (doDraw, runVertex).        *)
ReadsInside == \A r \in drawReads : r[1] \in Buffers \ deadBuffers /\ r[2] < bufferSize[r[1]]

(* A deleted buffer is bound nowhere, not even in a vertex array that is   *)
(* not in use and may be bound again (deleteBuffer).                       *)
DeletedUnbound ==
  /\ {glBound.array, glBound.copyRead} \cap deadBuffers = {}
  /\ \A v \in Arrays : {indexBuffer[v], vertexAttrib[v].buffer} \cap deadBuffers = {}
  /\ vao \notin deadBuffers

(* What is read as indices is never written or read as anything else: the  *)
(* largest index that was looked at is the one that is drawn with          *)
(* (bindBuffer).                                                           *)
IndicesApart ==
  /\ \A v \in Arrays : indexBuffer[v] # BufferNil => firstTarget[indexBuffer[v]] = "element"
  /\ \A b \in {glBound.array, glBound.copyRead} \union {vertexAttrib[v].buffer : v \in Arrays} : b # BufferNil => firstTarget[b] # "element"

-----------------------------------------------------------------------------
(***************************************************************************)
(* The shaders and programs of a WebGL context (37_webgl_api.js).  A shader*)
(* lives as long as a program it is attached to, a program as long as it is*)
(* in use; a link gives the attributes their places and the uniforms their *)
(* values, and a uniform location is good for one link only.               *)
(***************************************************************************)

CONSTANTS
  Programs,    \* the programs,
  Vertex,      \* the vertex shaders
  Fragment,    \* and the fragment shaders of the context
  Attributes,  \* the attributes every vertex shader declares, in order,
  Slots,       \* how many places each takes,
  MaxAttribs,  \* of how many (LIM.maxVertexAttribs)
  ProgramMaxGlCalls   \* bound on the calls of the page

ProgramNil == "none"
Shaders == Vertex \union Fragment

VARIABLES
  compiled,    \* the shaders whose last compilation went well
  deadShaders, \* deleted shaders
  doomed,      \* shaders and programs with pendingDelete
  attachedCount,       \* attachedCount
  attached,    \* per program the shader in its vs and fs
  deadProgs,   \* deleted programs
  attribBind,        \* attribBind: the places the page asked for
  linkOf,        \* the link of each program, 0: none (linked is false)
  places,      \* per link where the attributes are
  uniforms,      \* per link the value of the uniform
  inUse,     \* S.program
  locations,   \* the uniform locations the page holds
  deletedAgain,       \* some program was deleted more than once
  programCalls

progVars == <<compiled, deadShaders, doomed, attachedCount, attached, deadProgs, attribBind, linkOf, places, uniforms, inUse, locations, deletedAgain, programCalls>>

(* Both programs share their shaders; one is linked and in use.            *)
ProgramInit ==
  /\ compiled = Shaders /\ deadShaders = {} /\ doomed = {} /\ deadProgs = {}
  /\ \E v \in Vertex, f \in Fragment, p \in {CHOOSE x \in Programs : TRUE}, at \in [{Attributes[i] : i \in 1 .. Len(Attributes)} -> 0 .. MaxAttribs - 1] :
       /\ attached = [x \in Programs |-> [vs |-> v, fs |-> f]]
       /\ attachedCount = [s \in Shaders |-> IF s \in {v, f} THEN Cardinality(Programs) ELSE 0]
       /\ linkOf = [x \in Programs |-> IF x = p THEN 1 ELSE 0]
       /\ \A i, j \in 1 .. Len(Attributes) :
            /\ at[Attributes[i]] + Slots[Attributes[i]] <= MaxAttribs
            /\ i < j => at[Attributes[i]] + Slots[Attributes[i]] <= at[Attributes[j]]
       /\ places = <<at>> /\ inUse = p
  /\ attribBind = [p \in Programs |-> << >>] /\ uniforms = <<0>>
  /\ locations = {} /\ deletedAgain = FALSE /\ programCalls = 0

-----------------------------------------------------------------------------
ProgramCall == programCalls < ProgramMaxGlCalls /\ programCalls' = programCalls + 1
shaderVars == <<compiled, deadShaders, attachedCount, attached>>
linkVars == <<linkOf, places, uniforms, locations>>

Compile(s, well) ==
  /\ ProgramCall /\ s \notin deadShaders
  /\ compiled' = IF well THEN compiled \union {s} ELSE compiled \ {s}
  /\ UNCHANGED <<deadShaders, doomed, attachedCount, attached, deadProgs, attribBind, linkVars, inUse, deletedAgain>>

DeleteShader(s) ==
  /\ ProgramCall
  /\ IF attachedCount[s] > 0
     THEN doomed' = doomed \union {s} /\ UNCHANGED deadShaders
     ELSE deadShaders' = deadShaders \union {s} /\ UNCHANGED doomed
  /\ UNCHANGED <<compiled, attachedCount, attached, deadProgs, attribBind, linkVars, inUse, deletedAgain>>

Slot(s) == IF s \in Vertex THEN "vs" ELSE "fs"

AttachShader(p, s) ==
  /\ ProgramCall /\ p \notin deadProgs /\ s \notin deadShaders
  /\ attached[p][Slot(s)] = ProgramNil
  /\ attached' = [attached EXCEPT ![p][Slot(s)] = s]
  /\ attachedCount' = [attachedCount EXCEPT ![s] = @ + 1]
  /\ UNCHANGED <<compiled, deadShaders, doomed, deadProgs, attribBind, linkVars, inUse, deletedAgain>>

\* mutant of Freed
FreedDoomed(less) == less \cap doomed
(* A shader that was to be deleted goes with the last program it is in.    *)
Freed(less) == {s \in less \cap doomed : attachedCount[s] = 1}
Release(less) ==
  /\ attachedCount' = [s \in Shaders |-> IF s \in less THEN attachedCount[s] - 1 ELSE attachedCount[s]]
  /\ deadShaders' = deadShaders \union Freed(less)

DetachShader(p, s) ==
  /\ ProgramCall /\ p \notin deadProgs
  /\ attached[p][Slot(s)] = s
  /\ attached' = [attached EXCEPT ![p][Slot(s)] = ProgramNil]
  /\ Release({s})
  /\ UNCHANGED <<compiled, doomed, deadProgs, attribBind, linkVars, inUse, deletedAgain>>

(* deleteProgram(): a program in use is only marked.  One that was deleted *)
(* before lets its shaders go once more, and useProgram() never comes back *)
(* to one that is marked.                                                  *)
DeleteProgram(p) ==
  /\ ProgramCall
  /\ IF inUse = p
     THEN doomed' = doomed \union {p} /\ UNCHANGED <<shaderVars, deadProgs, deletedAgain>>
     ELSE /\ deadProgs' = deadProgs \union {p}
          /\ Release({attached[p].vs, attached[p].fs} \ {ProgramNil})
          /\ deletedAgain' = (deletedAgain \/ p \in deadProgs)
          /\ UNCHANGED <<compiled, attached, doomed>>
  /\ UNCHANGED <<attribBind, linkVars, inUse>>

-----------------------------------------------------------------------------
BindAttribLocation(p, name, i) ==
  /\ ProgramCall /\ p \notin deadProgs /\ i < MaxAttribs
  /\ attribBind' = [attribBind EXCEPT ![p] = [x \in DOMAIN attribBind[p] \union {name} |-> IF x = name THEN i ELSE attribBind[p][x]]]
  /\ UNCHANGED <<shaderVars, doomed, deadProgs, linkVars, inUse, deletedAgain>>

Taken(name, at) == at .. at + Slots[name] - 1
Asked(p) == {Attributes[i] : i \in 1 .. Len(Attributes)} \cap DOMAIN attribBind[p]
AskedWell(p) ==
  /\ \A n \in Asked(p) : attribBind[p][n] + Slots[n] <= MaxAttribs
  /\ \A m, n \in Asked(p) : m # n => Taken(m, attribBind[p][m]) \cap Taken(n, attribBind[p][n]) = {}

(* The first place, if any, where the attribute fits.                      *)
FirstFree(name, taken) ==
  LET fits == {at \in 0 .. MaxAttribs - Slots[name] : Taken(name, at) \cap taken = {}}
  IN {at \in fits : \A x \in fits : at <= x}

(* linkProgram(): places asked for first, the others where they fit: the   *)
(* names placed so far with their places, or no placing at all.            *)
Placed(p) ==
  LET f[i \in 0 .. Len(Attributes)] ==
        IF i = 0 THEN {[n \in Asked(p) |-> attribBind[p][n]]}
        ELSE LET name == Attributes[i] IN
             {IF name \in Asked(p) THEN m ELSE [n \in DOMAIN m \union {name} |-> IF n = name THEN at ELSE m[n]] :
                m \in f[i - 1],
                at \in IF name \in Asked(p) THEN {0}
                       ELSE FirstFree(name, UNION {Taken(n, m[n]) : m \in f[i - 1], n \in Asked(p) \union {Attributes[j] : j \in 1 .. i - 1}})}
  IN f[Len(Attributes)]

LinksWell(p) ==
  /\ {attached[p].vs, attached[p].fs} \subseteq compiled
  /\ AskedWell(p) /\ Placed(p) # {}

(* What a program was linked to is gone when it is linked again, well or   *)
(* not, in use or not.                                                     *)
LinkProgram(p) ==
  /\ ProgramCall /\ p \notin deadProgs
  /\ IF LinksWell(p)
     THEN /\ linkOf' = [linkOf EXCEPT ![p] = Len(places) + 1]
          /\ places' = Append(places, CHOOSE m \in Placed(p) : TRUE)
          /\ uniforms' = Append(uniforms, 0)
     ELSE linkOf' = [linkOf EXCEPT ![p] = 0] /\ UNCHANGED <<places, uniforms>>
  /\ UNCHANGED <<shaderVars, doomed, deadProgs, attribBind, inUse, locations, deletedAgain>>

UseProgram(p) ==
  /\ ProgramCall
  /\ p # ProgramNil => p \notin deadProgs /\ linkOf[p] # 0
  /\ inUse' = p
  /\ UNCHANGED <<shaderVars, doomed, deadProgs, attribBind, linkVars, deletedAgain>>

GetUniformLocation(p) ==
  /\ ProgramCall /\ p \notin deadProgs /\ linkOf[p] # 0
  /\ locations' = locations \union {[prog |-> p, link |-> linkOf[p]]}
  /\ UNCHANGED <<shaderVars, doomed, deadProgs, attribBind, linkOf, places, uniforms, inUse, deletedAgain>>

\* mutant of Good
GoodForProgram(loc) == inUse = loc.prog
(* uniformLoc(): of the program in use, as it is linked now.               *)
Good(loc) == inUse = loc.prog /\ linkOf[loc.prog] = loc.link

SetUniform(loc) ==
  /\ ProgramCall /\ Good(loc)
  /\ uniforms' = [uniforms EXCEPT ![loc.link] = 1 - @]
  /\ UNCHANGED <<shaderVars, doomed, deadProgs, attribBind, linkOf, places, inUse, locations, deletedAgain>>

ProgramNext ==
  \/ \E s \in Shaders : DeleteShader(s) \/ \E well \in BOOLEAN : Compile(s, well)
  \/ \E p \in Programs, s \in Shaders : AttachShader(p, s) \/ DetachShader(p, s)
  \/ \E p \in Programs : DeleteProgram(p) \/ LinkProgram(p) \/ GetUniformLocation(p)
  \/ \E p \in Programs, i \in 1 .. Len(Attributes), at \in 0 .. MaxAttribs - 1 : BindAttribLocation(p, Attributes[i], at)
  \/ \E p \in Programs \union {ProgramNil} : UseProgram(p)
  \/ \E loc \in locations : SetUniform(loc)

ProgramSpec == ProgramInit /\ [][ProgramNext]_progVars

-----------------------------------------------------------------------------
(* A shader is there as long as a program that is has it attached, and the *)
(* count says in how many; a program is there as long as it is in use.     *)
(* Deleting a program twice breaks the count (deleteProgram).              *)
AttachedAlive ==
  /\ deletedAgain \/ \A s \in Shaders :
       LET users == {p \in Programs \ deadProgs : s \in {attached[p].vs, attached[p].fs}}
       IN attachedCount[s] = Cardinality(users) /\ (users # {} => s \notin deadShaders)
  /\ inUse \notin deadProgs

(* No two attributes of a linked program share a place, and all of them    *)
(* have one, wherever the page wanted some of them (linkProgram).          *)
AttributesApart ==
  \A l \in DOMAIN places :
    /\ DOMAIN places[l] = {Attributes[i] : i \in 1 .. Len(Attributes)}
    /\ \A n \in DOMAIN places[l] : places[l][n] + Slots[n] <= MaxAttribs
    /\ \A m, n \in DOMAIN places[l] : m # n => Taken(m, places[l][m]) \cap Taken(n, places[l][n]) = {}

(* Uniforms change for what the program in use is linked to, and a new     *)
(* link starts from zero: a location of an earlier one changes nothing     *)
(* (uniformLoc, linkProgram).                                              *)
UniformsOfLink ==
  [][\A l \in DOMAIN uniforms' :
       IF l \in DOMAIN uniforms THEN uniforms'[l] # uniforms[l] => inUse # ProgramNil /\ linkOf[inUse] = l
       ELSE uniforms'[l] = 0]_progVars
=============================================================================
