------------------------------- MODULE GLContext -------------------------------
(***************************************************************************)
(* The contexts of one canvas (3c_webgl_ctx.js, 3d_offscreen.js and        *)
(* getContext() in 30_html.js) and the frames on their way from the        *)
(* drawing buffer to the canvas and to bitmaps (39_webgl_draw.js).  A      *)
(* WebGL context goes through several states: the lost one keeps its tasks *)
(* while the page already works with the next.  A draw, the event of a     *)
(* loss and a restoration each post a task; handlers call back.            *)
(***************************************************************************)
EXTENDS Integers, Sequences, SequencesExt, FiniteSets, FiniteSetsExt, TLAPS

CONSTANTS
  Bitmaps,      \* the ImageBitmaps the page has variables for
  Sizes,        \* the sizes of the canvas
  MaxStates,    \* bound on the states of the context
  MaxGlOps      \* bound on the calls of the page

Nobody == [kind |-> "none", of |-> 0, prevented |-> FALSE]
Closed == -1
Blank == 0

VARIABLES
  preserve,    \* preserveDrawingBuffer
  contexts,    \* the kinds of context the element or its OffscreenCanvas has
  transferred, \* transferControlToOffscreen() was called
  doubled,     \* it was, although there was a 2D context
  canvasSize,
  resized,     \* the placeholder was resized: its OffscreenCanvas does not know
  current,     \* which state STATE has for the context, 0 for none
  states,      \* the states: lost, size, what the buffer holds, ...
  posted,      \* the tasks
  handler,     \* whose event handler runs
  shown,       \* the frame the canvas shows
  bitmaps,     \* the frame each bitmap holds
  screen,      \* the frame a bitmaprenderer canvas shows
  copied,      \* frames that createImageBitmap() copied
  frames,      \* how many were drawn
  events,      \* the events fired
  glOps

contextVars == <<preserve, contexts, transferred, doubled, canvasSize, resized, current, states, posted,
                 handler, shown, bitmaps, screen, copied, frames, events, glOps>>

Fresh(n) == [lost |-> FALSE, viaExt |-> FALSE, requested |-> FALSE, allowed |-> FALSE, restored |-> FALSE,
             size |-> n, content |-> Blank, dirty |-> FALSE, scheduled |-> FALSE]

Init ==
  /\ preserve \in BOOLEAN
  /\ contexts = {} /\ transferred = FALSE /\ doubled = FALSE /\ canvasSize = (CHOOSE n \in Sizes : TRUE) /\ resized = FALSE
  /\ current = 0 /\ states = [g \in 1 .. MaxStates |-> Fresh(0)] /\ posted = << >> /\ handler = Nobody
  /\ shown = Blank /\ bitmaps = [b \in Bitmaps |-> Closed] /\ screen = Blank /\ copied = {} /\ frames = 0
  /\ events = << >> /\ glOps = 0

S == states[current]
HasGL == current # 0
canvas == <<preserve, contexts, transferred, doubled, canvasSize, resized>>
pictures == <<bitmaps, screen, copied, frames>>

Call == glOps < MaxGlOps /\ glOps' = glOps + 1
Turn == handler = Nobody /\ posted # << >> /\ posted' = Tail(posted) /\ UNCHANGED glOps

-----------------------------------------------------------------------------
(* getContext() of the element or, once transferred, of the OffscreenCanvas*)
(* on it: another kind than the first gets null.                           *)
\* mutant of Mine
MineGLOnly == IF transferred THEN contexts \ {"2d"} ELSE contexts \cap {"webgl", "webgl2"}
Mine == IF transferred /\ doubled THEN contexts \ {"2d"} ELSE contexts

GetContext(kind) ==
  /\ Call /\ Mine \subseteq {kind}
  /\ contexts' = contexts \union {kind}
  /\ IF kind # "2d" /\ ~HasGL
     THEN /\ current' = 1 /\ states' = [states EXCEPT ![1] = Fresh(canvasSize)] /\ shown' = Blank
     ELSE UNCHANGED <<current, states, shown>>
  /\ UNCHANGED <<preserve, transferred, doubled, canvasSize, resized, posted, handler, pictures, events>>

(* A 2D context of the element does not keep it from being transferred.    *)
TransferControlToOffscreen ==
  /\ Call /\ ~transferred /\ ~HasGL
  /\ transferred' = TRUE /\ doubled' = ("2d" \in contexts)
  /\ UNCHANGED <<preserve, contexts, canvasSize, resized, current, states, posted, handler, shown, pictures, events>>

-----------------------------------------------------------------------------
Lose(g, byPage) == [states EXCEPT ![g].lost = TRUE, ![g].allowed = FALSE, ![g].viaExt = byPage]

LoseContext ==
  /\ Call /\ HasGL /\ ~S.lost
  /\ states' = Lose(current, TRUE) /\ posted' = Append(posted, <<"lost", current>>)
  /\ UNCHANGED <<canvas, current, handler, shown, pictures, events>>

RestoreContext ==
  /\ Call /\ HasGL /\ S.lost /\ S.viaExt
  /\ states' = [states EXCEPT ![current].requested = TRUE]
  /\ posted' = IF S.allowed THEN Append(posted, <<"restore", current>>) ELSE posted
  /\ UNCHANGED <<canvas, current, handler, shown, pictures, events>>

Restores(sts, g) == sts[g].lost /\ ~sts[g].restored
NewSize == canvasSize
(* doRestore(): the next state, for the canvas as it is now.               *)
DoRestore(sts, g) ==
  IF Restores(sts, g)
  THEN /\ current < MaxStates
       /\ states' = [sts EXCEPT ![g].restored = TRUE, ![current + 1] = Fresh(NewSize)] /\ current' = current + 1 /\ shown' = Blank
       /\ events' = Append(events, <<"restored", g>>) /\ handler' = [kind |-> "restored", of |-> current + 1, prevented |-> FALSE]
  ELSE states' = sts /\ handler' = Nobody /\ UNCHANGED <<current, shown, events>>

LostTask ==
  /\ Turn /\ Head(posted)[1] = "lost"
  /\ events' = Append(events, Head(posted)) /\ handler' = [kind |-> "lost", of |-> Head(posted)[2], prevented |-> FALSE]
  /\ UNCHANGED <<canvas, current, states, shown, pictures>>
RestoreTask == Turn /\ Head(posted)[1] = "restore" /\ DoRestore(states, Head(posted)[2]) /\ UNCHANGED <<canvas, pictures>>

PreventDefault ==
  /\ handler.kind = "lost" /\ ~handler.prevented
  /\ handler' = [handler EXCEPT !.prevented = TRUE]
  /\ UNCHANGED <<canvas, current, states, posted, shown, pictures, events, glOps>>
Allowed(g) == [states EXCEPT ![g].allowed = @ \/ handler.prevented]
HandlerReturns ==
  /\ handler # Nobody
  /\ LET g == handler.of sts == Allowed(g) IN
     IF handler.kind = "lost" /\ sts[g].requested /\ sts[g].allowed THEN DoRestore(sts, g)
     ELSE /\ states' = IF handler.kind = "lost" THEN sts ELSE states
          /\ handler' = Nobody /\ UNCHANGED <<current, shown, events>>
  /\ UNCHANGED <<canvas, posted, pictures, glOps>>

-----------------------------------------------------------------------------
(* markDirty() of a draw or a clear.                                       *)
Draw ==
  /\ Call /\ HasGL /\ ~S.lost
  /\ frames' = frames + 1
  /\ states' = [states EXCEPT ![current].content = frames + 1, ![current].dirty = TRUE, ![current].scheduled = TRUE]
  /\ posted' = IF S.scheduled THEN posted ELSE Append(posted, <<"present", current>>)
  /\ UNCHANGED <<canvas, current, handler, shown, bitmaps, screen, copied, events>>

Presented(s) ==
  [s EXCEPT !.scheduled = FALSE, !.dirty = FALSE, !.content = IF s.dirty /\ ~preserve /\ ~s.lost THEN Blank ELSE @]
(* present(): nothing any more once the context was lost.                  *)
OnCanvas(s) == IF s.dirty /\ ~s.lost THEN s.content ELSE shown
PresentTask ==
  /\ Turn /\ Head(posted)[1] = "present"
  /\ LET g == Head(posted)[2] IN states' = [states EXCEPT ![g] = Presented(@)] /\ shown' = OnCanvas(states[g])
  /\ UNCHANGED <<canvas, current, handler, pictures, events>>

(* flushToCanvas(), for who reads the canvas: it stays dirty.              *)
Flushed == IF HasGL THEN OnCanvas(S) ELSE shown
ReadCanvas == Call /\ shown' = Flushed /\ UNCHANGED <<canvas, current, states, posted, handler, pictures, events>>

(* A width or height is set; the placeholder of an OffscreenCanvas looks   *)
(* for a context of its own.                                               *)
Resize(n, placeholder, fails) ==
  /\ Call /\ canvasSize' = n /\ (placeholder => transferred)
  /\ IF placeholder \/ ~HasGL \/ contexts = {"2d"} THEN /\ resized' = (placeholder /\ HasGL) /\ UNCHANGED <<states, posted, shown>>
     ELSE IF S.lost \/ n = S.size THEN UNCHANGED <<resized, states, posted, shown>>
     ELSE IF fails THEN /\ states' = Lose(current, FALSE) /\ posted' = Append(posted, <<"lost", current>>)
                        /\ UNCHANGED <<resized, shown>>
     ELSE /\ states' = [states EXCEPT ![current].size = n, ![current].content = Blank]
          /\ shown' = Blank /\ resized' = FALSE /\ UNCHANGED posted
  /\ UNCHANGED <<preserve, contexts, transferred, doubled, current, handler, pictures, events>>

Taken(s) == [s EXCEPT !.content = Blank, !.dirty = FALSE]
TransferToImageBitmap(b) ==
  /\ Call /\ transferred /\ HasGL
  /\ bitmaps' = [bitmaps EXCEPT ![b] = Flushed]
  /\ states' = [states EXCEPT ![current] = Taken(@)] /\ shown' = Blank
  /\ UNCHANGED <<canvas, current, posted, handler, screen, copied, frames, events>>
TransferFromImageBitmap(b) ==
  /\ Call /\ bitmaps[b] # Closed
  /\ screen' = bitmaps[b] /\ bitmaps' = [bitmaps EXCEPT ![b] = Closed]
  /\ UNCHANGED <<canvas, current, states, posted, handler, shown, copied, frames, events>>
Close(b) ==
  /\ Call /\ bitmaps[b] # Closed /\ bitmaps' = [bitmaps EXCEPT ![b] = Closed]
  /\ UNCHANGED <<canvas, current, states, posted, handler, shown, screen, copied, frames, events>>
CreateImageBitmap(b) ==
  /\ Call
  /\ shown' = Flushed /\ bitmaps' = [bitmaps EXCEPT ![b] = Flushed] /\ copied' = copied \union {Flushed}
  /\ UNCHANGED <<canvas, current, states, posted, handler, screen, frames, events>>

Next ==
  \/ \E kind \in {"2d", "webgl", "webgl2"} : GetContext(kind)
  \/ TransferControlToOffscreen \/ LoseContext \/ RestoreContext
  \/ LostTask \/ RestoreTask \/ PreventDefault \/ HandlerReturns
  \/ Draw \/ PresentTask \/ ReadCanvas
  \/ \E n \in Sizes, placeholder, fails \in BOOLEAN : Resize(n, placeholder, fails)
  \/ \E b \in Bitmaps : TransferToImageBitmap(b) \/ TransferFromImageBitmap(b) \/ Close(b) \/ CreateImageBitmap(b)

Spec == Init /\ [][Next]_contextVars

-----------------------------------------------------------------------------
(* A canvas has contexts of one kind, unless it was transferred with a 2D  *)
(* context (getContext, transferControlToOffscreen).                       *)
OneKind == doubled \/ Cardinality(contexts) <= 1

(* A lost state is restored at most once, after its event, and only if a   *)
(* handler prevented the default and the page asked for it; what it asked  *)
(* for is done or posted (loseContext, restoreContext, doRestore).         *)
RestoredOnce ==
  /\ \A i, j \in 1 .. Len(events) : events[i] = events[j] => i = j
  /\ \A i \in 1 .. Len(events) : events[i][1] = "restored" =>
       /\ states[events[i][2]].requested /\ states[events[i][2]].allowed
       /\ \E j \in 1 .. i - 1 : events[j] = <<"lost", events[i][2]>>
  /\ \A g \in 1 .. current : handler = Nobody /\ states[g].requested /\ states[g].allowed =>
       states[g].restored \/ \E i \in 1 .. Len(posted) : posted[i] = <<"restore", g>>

(* The drawing buffer has the size of the canvas as long as the context is *)
(* not lost and nobody resized a placeholder (resizeGL, initContextState). *)
SizeFollows == HasGL /\ ~S.lost /\ ~resized => S.size = canvasSize

(* What was drawn and is not yet on the canvas has a task that puts it     *)
(* there, whatever was read or taken in between (schedulePresent,          *)
(* flushToCanvas, transferToImageBitmap).                                  *)
FrameOnItsWay ==
  HasGL /\ ~S.lost /\ S.content \notin {Blank, shown} =>
    S.dirty /\ \E i \in 1 .. Len(posted) : posted[i] = <<"present", current>>

(* A frame that was moved is in one place: the canvas and its buffer, a    *)
(* bitmap, or the canvas that got the bitmap (transferToImageBitmap,       *)
(* transferFromImageBitmap).                                               *)
MovedOnce ==
  \A n \in (1 .. frames) \ copied :
    Cardinality({b \in Bitmaps : bitmaps[b] = n}) + (IF screen = n THEN 1 ELSE 0)
      + (IF shown = n \/ (HasGL /\ S.content = n) THEN 1 ELSE 0) <= 1

-----------------------------------------------------------------------------
(***************************************************************************)
(* What a draw makes of its vertices (3a_glraster.js): primitives, the     *)
(* pixels of each, and what becomes of a pixel.  Places are counted in     *)
(* parts of a pixel, Sub to each, 256 in the code.                         *)
(***************************************************************************)

CONSTANTS
  Sub, Corners,    \* where each corner of a mesh may lie, and Middles its middle
  Middles,
  Pixels,          \* the columns and rows of the target
  PointSizes,
  Strip            \* the most vertices of a draw

VARIABLES
  corners, middle, \* four corners around a middle, four triangles between them
  turned,          \* those that are given in the other order
  pointAt, pointSize,
  sequence         \* indices of a strip, 0 being the restart index
meshVars == <<corners, middle, turned, pointAt, pointSize, sequence>>

Edge(a, b, p) == (b[1] - a[1]) * (p[2] - a[2]) - (b[2] - a[2]) * (p[1] - a[1])
Center(x, y) == <<((2 * x + 1) * Sub) \div 2, ((2 * y + 1) * Sub) \div 2>>
(* A pixel on an edge belongs to the triangle on one side of it.           *)
\* mutant of Includes
IncludesLevel(a, b) == b[2] - a[2] >= 0
Includes(a, b) == b[2] - a[2] > 0 \/ (b[2] = a[2] /\ b[1] - a[1] < 0)
Passes(a, b, p) == Edge(a, b, p) > 0 \/ (Edge(a, b, p) = 0 /\ Includes(a, b))
RasterTriangle(t, cull, ccwFront) ==
  LET area == Edge(t[1], t[2], t[3])
      front == (area > 0) = ccwFront
      a == t[1]
      b == IF area > 0 THEN t[2] ELSE t[3]
      c == IF area > 0 THEN t[3] ELSE t[2]
      least(i) == Min({a[i], b[i], c[i]}) \div Sub
      most(i) == Max({a[i], b[i], c[i]}) \div Sub
  IN IF area = 0 \/ cull = "both" \/ (cull = "front" /\ front) \/ (cull = "back" /\ ~front) THEN {}
     ELSE {q \in (Pixels \intersect least(1) .. most(1)) \X (Pixels \intersect least(2) .. most(2)) :
             LET p == Center(q[1], q[2]) IN Passes(b, c, p) /\ Passes(c, a, p) /\ Passes(a, b, p)}

(* point(): a square around its place.                                     *)
PointPixels(at, size) ==
  LET least(i) == (2 * at[i] - size * Sub) \div (2 * Sub)
      most(i) == ((2 * at[i] + size * Sub + 2 * Sub - 1) \div (2 * Sub)) - 1
  IN {q \in (Pixels \intersect least(1) .. most(1)) \X (Pixels \intersect least(2) .. most(2)) :
        LET p == Center(q[1], q[2]) IN \A i \in {1, 2} : 2 * p[i] >= 2 * at[i] - size * Sub /\ 2 * p[i] < 2 * at[i] + size * Sub}

(* assemble(): the triangles of a strip or a fan, the lines of a strip or a*)
(* loop; each restart index begins another.                                *)
StripTriangle(s, from, k) ==
  IF k % 2 = 1 THEN <<s[from + k + 1], s[from + k], s[from + k + 2]>> ELSE <<s[from + k], s[from + k + 1], s[from + k + 2]>>
Assemble(s, mode) ==
  LET ends == SelectSeq([i \in 1 .. Len(s) + 1 |-> i], LAMBDA i : i > Len(s) \/ s[i] = 0)
      from(j) == IF j = 1 THEN 1 ELSE ends[j - 1] + 1
      piece(j) ==
        LET f == from(j)
            n == ends[j] - f
            inner == Max({0, n - 2})
            lines == [k \in 1 .. Max({0, n - 1}) |-> <<s[f + k - 1], s[f + k]>>]
        IN CASE mode = "strip" -> [k \in 1 .. inner |-> StripTriangle(s, f, k - 1)]
             [] mode = "fan" -> [k \in 1 .. inner |-> <<s[f], s[f + k], s[f + k + 1]>>]
             [] mode = "lines" -> lines
             [] OTHER -> IF n >= 2 THEN Append(lines, <<s[f + n - 1], s[f]>>) ELSE lines
  IN FlattenSeq([j \in 1 .. Len(ends) |-> piece(j)])

Triangle(i) == LET t == <<corners[i], corners[(i % 4) + 1], middle>> IN IF i \in turned THEN <<t[2], t[1], t[3]>> ELSE t
MeshInit ==
  /\ corners \in Corners[1] \X Corners[2] \X Corners[3] \X Corners[4] /\ middle \in Middles
  /\ \A i \in 1 .. 4 : Edge(corners[i], corners[(i % 4) + 1], middle) > 0
  /\ turned = {} /\ pointAt = middle /\ pointSize = 1 /\ sequence = << >>
TurnTriangle(i) == i \notin turned /\ Cardinality(turned) < 2 /\ turned' = turned \union {i} /\ UNCHANGED <<corners, middle, pointAt, pointSize, sequence>>
SetPoint(n) == turned = {} /\ pointSize = 1 /\ n # 1 /\ pointSize' = n /\ UNCHANGED <<corners, middle, turned, pointAt, sequence>>
AddIndex ==
  /\ Len(sequence) < Strip
  /\ \E i \in {0, Len(SelectSeq(sequence, LAMBDA x : x # 0)) + 1} : sequence' = Append(sequence, i)
  /\ UNCHANGED <<corners, middle, turned, pointAt, pointSize>>
MeshNext == (\E i \in 1 .. 4 : TurnTriangle(i)) \/ (\E n \in PointSizes : SetPoint(n))

(* Triangles that meet at an edge or at a corner leave no pixel out between*)
(* them and draw none twice, whichever way round each is given; culling    *)
(* takes either side, and both of them take everything.                    *)
Drawn(i, cull) == RasterTriangle(Triangle(i), cull, TRUE)
CoveredOnce ==
  /\ \A q \in Pixels \X Pixels :
       LET by == {i \in 1 .. 4 : q \in Drawn(i, "none")}
           inside == \A i \in 1 .. 4 : Edge(corners[i], corners[(i % 4) + 1], Center(q[1], q[2])) > 0
           outside == \E i \in 1 .. 4 : Edge(corners[i], corners[(i % 4) + 1], Center(q[1], q[2])) < 0
       IN Cardinality(by) <= 1 /\ (inside => by # {}) /\ (outside => by = {})
  /\ \A i \in 1 .. 4 : Drawn(i, "front") \union Drawn(i, "back") = Drawn(i, "none") /\ Drawn(i, IF i \in turned THEN "front" ELSE "back") = Drawn(i, "none")

(* A point of so many pixels has as many each way, wherever it lies.       *)
PointIsSquare ==
  (\A i \in {1, 2} : 2 * pointAt[i] >= pointSize * Sub /\ 2 * pointAt[i] + pointSize * Sub <= 2 * Sub * Cardinality(Pixels))
     => Cardinality(PointPixels(pointAt, pointSize)) = pointSize * pointSize

(* A restart index cuts a draw in two, of which neither knows of the other,*)
(* and every triangle of a strip has the same side to the front: here its  *)
(* vertices go up and down by turns.                                       *)
Pieces(s) ==
  LET ends == <<0>> \o SelectSeq([i \in 1 .. Len(s) + 1 |-> i], LAMBDA i : i > Len(s) \/ s[i] = 0) IN
  [j \in 1 .. Len(ends) - 1 |-> SubSeq(s, ends[j] + 1, ends[j + 1] - 1)]
RestartCuts ==
  \A mode \in {"strip", "fan", "lines", "loop"} :
     Assemble(sequence, mode) = FlattenSeq([j \in 1 .. Len(Pieces(sequence)) |-> Assemble(Pieces(sequence)[j], mode)])
StripFaces ==
  \A j \in 1 .. Len(Pieces(sequence)) :
    LET piece == Pieces(sequence)[j]
        at(v) == LET i == v - piece[1] IN <<i, i % 2>>
        ts == Assemble(piece, "strip")
    IN \A k \in 1 .. Len(ts) : Edge(at(ts[k][1]), at(ts[k][2]), at(ts[k][3])) < 0

-----------------------------------------------------------------------------
(***************************************************************************)
(* One pixel and the fragments drawn to it.                                *)
(***************************************************************************)

CONSTANTS
  StencilBits,    \* 8 in the code
  Depths,         \* of fragments, Levels times as fine as the depth buffer, and beyond it
  Levels, DepthMax,
  StencilStates,  \* [enabled, func, ref, vmask, mask, fail, zfail, zpass]
  DepthStates,    \* [enabled, func, mask]
  Shaders,        \* [discards, setsDepth, asked]: a query is active
  MaxFragments

VARIABLES
  stencilState, depthState, shader,
  pixel,          \* [depth, stencil, color]
  samples,        \* of the query
  painted         \* every fragment: its depth
pixelVars == <<stencilState, depthState, shader, pixel, samples, painted>>

BitAnd(a, b) == MapThenSumSet(LAMBDA k : IF (a \div (2 ^ k)) % 2 = 1 /\ (b \div (2 ^ k)) % 2 = 1 THEN 2 ^ k ELSE 0, 0 .. StencilBits - 1)
StencilMax == 2 ^ StencilBits - 1
Compare(func, a, b) ==
  CASE func = "never" -> FALSE [] func = "less" -> a < b [] func = "equal" -> a = b [] func = "lequal" -> a <= b
    [] func = "greater" -> a > b [] func = "notequal" -> a # b [] func = "gequal" -> a >= b [] OTHER -> TRUE
StencilOp(op, cur, ref) ==
  CASE op = "zero" -> 0 [] op = "replace" -> ref
    [] op = "incr" -> (IF cur < StencilMax THEN cur + 1 ELSE StencilMax) [] op = "decr" -> (IF cur > 0 THEN cur - 1 ELSE 0)
    [] op = "invert" -> StencilMax - cur
    [] op = "incr wrap" -> (cur + 1) % (StencilMax + 1) [] op = "decr wrap" -> (cur - 1) % (StencilMax + 1) [] OTHER -> cur
(* makeContext(): whether a fragment is tested before it is shaded.        *)
Early == depthState.enabled /\ ~stencilState.enabled /\ ~shader.discards /\ ~shader.setsDepth /\ ~shader.asked
Quantized(z) == LET c == IF z < 0 THEN 0 ELSE IF z > Levels * DepthMax THEN Levels * DepthMax ELSE z IN (2 * c + Levels) \div (2 * Levels)
\* mutant of Masked
MaskedNot(old, new) == new
Masked(old, new) == BitAnd(old, StencilMax - stencilState.mask) + BitAnd(new, stencilState.mask)

(* fragment(): what it leaves of the pixel, and of the count of samples.   *)
Fragment(z, own, discarded, early) ==
  LET st == stencilState
      zq == Quantized(z)
      ds == IF shader.setsDepth THEN Quantized(own) ELSE zq
      ref == BitAnd(st.ref, StencilMax)
      kept == [pixel |-> pixel, samples |-> samples]
      stencil(op) == IF st.enabled THEN Masked(pixel.stencil, StencilOp(op, pixel.stencil, ref)) ELSE pixel.stencil
      stencilPass == ~st.enabled \/ Compare(st.func, BitAnd(ref, st.vmask), BitAnd(pixel.stencil, st.vmask))
      depthPass == early \/ ~depthState.enabled \/ Compare(depthState.func, ds, pixel.depth)
  IN IF early /\ ~Compare(depthState.func, zq, pixel.depth) THEN kept
     ELSE IF shader.discards /\ discarded THEN kept
     ELSE IF ~stencilPass THEN [kept EXCEPT !.pixel.stencil = stencil(st.fail)]
     ELSE IF ~depthPass THEN [kept EXCEPT !.pixel.stencil = stencil(st.zfail)]
     ELSE [pixel |-> [stencil |-> stencil(st.zpass), color |-> Len(painted) + 1,
                      depth |-> IF depthState.enabled /\ depthState.mask THEN ds ELSE pixel.depth],
           samples |-> IF shader.asked THEN samples + 1 ELSE samples]

PixelInit ==
  /\ stencilState \in StencilStates /\ depthState \in DepthStates /\ shader \in Shaders
  /\ pixel = [depth |-> DepthMax, stencil |-> 1, color |-> 0] /\ samples = 0 /\ painted = << >>
Paint(z, own, discarded) ==
  LET r == Fragment(z, own, discarded, Early) IN
  /\ Len(painted) < MaxFragments /\ (own # 0 => shader.setsDepth) /\ (discarded => shader.discards)
  /\ pixel' = r.pixel /\ samples' = r.samples
  /\ painted' = Append(painted, [z |-> IF shader.setsDepth THEN own ELSE z, drawn |-> ~(shader.discards /\ discarded)])
  /\ UNCHANGED <<stencilState, depthState, shader>>
PixelNext == \E z \in Depths, own \in {0, 3}, discarded \in BOOLEAN : Paint(z, own, discarded)

(* Testing a fragment before it is shaded changes nothing of what it leaves*)
EarlyIsLate == Early => \A z \in Depths : Fragment(z, 0, FALSE, TRUE) = Fragment(z, 0, FALSE, FALSE)

(* Without a stencil the pixel shows the nearest of its fragments, of those*)
(* as near the first or the last, as the function says.                    *)
NearestShown ==
  LET drawn == {i \in 1 .. Len(painted) : painted[i].drawn}
      z(i) == Quantized(painted[i].z)
      near == {i \in drawn : \A j \in drawn : z(i) <= z(j)}
  IN ~stencilState.enabled /\ depthState.enabled /\ depthState.mask =>
       /\ depthState.func = "lequal" => pixel.color = Max({0} \union near)
       /\ depthState.func = "less" => pixel.color = Min({IF {i \in near : z(i) < DepthMax} = {} THEN 0 ELSE Len(painted)} \union {i \in near : z(i) < DepthMax})

(* The bits the mask keeps from a draw stay, whatever passes and fails.    *)
MaskedBitsStay == [][BitAnd(pixel'.stencil, StencilMax - stencilState.mask) = BitAnd(pixel.stencil, StencilMax - stencilState.mask)]_pixelVars

-----------------------------------------------------------------------------
(***************************************************************************)
(* No pixel belongs to both sides of an edge.                              *)
(***************************************************************************)

(* An edge walked the other way has its pixels on the other side.          *)
LEMMA EdgeTurns ==
  ASSUME NEW a \in Int \X Int, NEW b \in Int \X Int, NEW p \in Int \X Int
  PROVE  Edge(b, a, p) = -Edge(a, b, p) /\ Edge(a, b, p) \in Int
<1>1. a[1] \in Int /\ a[2] \in Int /\ b[1] \in Int /\ b[2] \in Int /\ p[1] \in Int /\ p[2] \in Int
  OBVIOUS
<1>2. ASSUME NEW ax \in Int, NEW ay \in Int, NEW bx \in Int, NEW by \in Int, NEW px \in Int, NEW py \in Int
      PROVE  (ax - bx) * (py - by) - (ay - by) * (px - bx) = -((bx - ax) * (py - ay) - (by - ay) * (px - ax))
  OBVIOUS
<1>3. (a[1] - b[1]) * (p[2] - b[2]) - (a[2] - b[2]) * (p[1] - b[1]) = -((b[1] - a[1]) * (p[2] - a[2]) - (b[2] - a[2]) * (p[1] - a[1]))
  BY <1>1, <1>2
<1> QED
  BY <1>1, <1>3 DEF Edge

(* Of the two sides of an edge exactly one takes a pixel, even one that    *)
(* lies on the edge.                                                       *)
THEOREM OneSideTakes ==
  ASSUME NEW a \in Int \X Int, NEW b \in Int \X Int, NEW p \in Int \X Int, a # b
  PROVE  Passes(a, b, p) <=> ~Passes(b, a, p)
<1>1. Edge(b, a, p) = -Edge(a, b, p) /\ Edge(a, b, p) \in Int
  BY EdgeTurns
<1>2. a[1] \in Int /\ a[2] \in Int /\ b[1] \in Int /\ b[2] \in Int
  OBVIOUS
<1>3. a[1] # b[1] \/ a[2] # b[2]
  OBVIOUS
<1>4. Includes(a, b) <=> ~Includes(b, a)
  BY <1>2, <1>3 DEF Includes
<1> QED
  BY <1>1, <1>4 DEF Passes

(* What a triangle draws lies on its side of its first edge, whichever way *)
(* round it is given.                                                      *)
LEMMA DrawnPasses ==
  ASSUME NEW a \in Int \X Int, NEW b \in Int \X Int, NEW c \in Int \X Int, Edge(a, b, c) > 0, NEW cull, NEW ccw,
         NEW q \in RasterTriangle(<<a, b, c>>, cull, ccw) \union RasterTriangle(<<b, a, c>>, cull, ccw)
  PROVE  q \in Pixels \X Pixels /\ Passes(a, b, Center(q[1], q[2]))
<1>1. Edge(b, a, c) = -Edge(a, b, c) /\ Edge(a, b, c) \in Int
  BY EdgeTurns
<1>2. CASE q \in RasterTriangle(<<a, b, c>>, cull, ccw)
  BY <1>1, <1>2 DEF RasterTriangle
<1>3. CASE q \in RasterTriangle(<<b, a, c>>, cull, ccw)
  BY <1>1, <1>3 DEF RasterTriangle
<1> QED
  BY <1>2, <1>3

(* Two triangles on either side of an edge, each given either way round,   *)
(* draw no pixel both, wherever their corners lie and whatever is culled:  *)
(* blending sees each pixel of a mesh once.                                *)
THEOREM SharedEdgeDrawnOnce ==
  ASSUME NEW a \in Int \X Int, NEW b \in Int \X Int, NEW c \in Int \X Int, NEW d \in Int \X Int,
         Edge(a, b, c) > 0, Edge(b, a, d) > 0, Sub \in Nat \ {0}, Pixels \subseteq Int, NEW cull, NEW ccw
  PROVE  (RasterTriangle(<<a, b, c>>, cull, ccw) \union RasterTriangle(<<b, a, c>>, cull, ccw))
            \intersect (RasterTriangle(<<b, a, d>>, cull, ccw) \union RasterTriangle(<<a, b, d>>, cull, ccw)) = {}
<1> SUFFICES ASSUME NEW q \in RasterTriangle(<<a, b, c>>, cull, ccw) \union RasterTriangle(<<b, a, c>>, cull, ccw),
                    q \in RasterTriangle(<<b, a, d>>, cull, ccw) \union RasterTriangle(<<a, b, d>>, cull, ccw)
             PROVE  FALSE
  OBVIOUS
<1>1. q \in Pixels \X Pixels /\ Passes(a, b, Center(q[1], q[2]))
  BY DrawnPasses
<1>2. Passes(b, a, Center(q[1], q[2]))
  BY DrawnPasses
<1>3. Center(q[1], q[2]) \in Int \X Int
  <2>1. q[1] \in Int /\ q[2] \in Int
    BY <1>1
  <2>2. \A x \in Int : ((2 * x + 1) * Sub) \div 2 \in Int
    OBVIOUS
  <2> QED
    BY <2>1, <2>2 DEF Center
<1>4. a # b
  <2>1. SUFFICES ASSUME a = b PROVE FALSE
    OBVIOUS
  <2>2. Edge(b, a, c) = -Edge(a, b, c) /\ Edge(a, b, c) \in Int
    BY EdgeTurns
  <2> QED
    BY <2>1, <2>2
<1> QED
  BY <1>1, <1>2, <1>3, <1>4, OneSideTakes
=============================================================================
