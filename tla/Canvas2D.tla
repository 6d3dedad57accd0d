------------------------------ MODULE Canvas2D ------------------------------
(***************************************************************************)
(* 2D drawing (crates/script/js/30_html.js): paths as the context and      *)
(* Path2D objects collect them and the test whether a point is inside, the *)
(* text form of a path, and the context's state next to the surface that   *)
(* the natives (crates/script/src/canvas.rs) paint on.                     *)
(***************************************************************************)
EXTENDS Integers, Sequences, SequencesExt, FiniteSets

CONSTANTS
  Corners,      \* points that paths go through, in user space
  Transforms,   \* matrices <<a, b, c, d, e, f>>
  Pieces,       \* that a curve is cut into, 16 in the code
  MaxPathOps,
  Segments,     \* of a path's text: [c |-> its letter or "", nums |-> its numbers]
  MaxSegments,
  Widths, Styles, Shapes,
  MaxCanvasOps

VARIABLES
  sink,         \* the context's path, in device space
  userSink,     \* a Path2D that gets the same calls
  matrix, steady, \* the current transform; it was the same since beginPath()
  pathOps
pathState == <<sink, userSink, matrix, steady, pathOps>>
VARIABLES segments
VARIABLES
  canvasWidth,  \* the width attribute
  ctxWidth,     \* the width that the context knows
  ctx, saved,   \* its drawing state, and those that save() put aside
  drawn,        \* the shapes of the current path
  surface,      \* what the natives hold
  asked,        \* the style the page set last, "" after a reset
  canvasOps
canvasState == <<canvasWidth, ctxWidth, ctx, saved, drawn, surface, asked, canvasOps>>

(* T, #mul().                                                              *)
T(m, p) == <<m[1] * p[1] + m[3] * p[2] + m[5], m[2] * p[1] + m[4] * p[2] + m[6]>>
Mul(m, by) ==
  <<m[1] * by[1] + m[3] * by[2], m[2] * by[1] + m[4] * by[2], m[1] * by[3] + m[3] * by[4], m[2] * by[3] + m[4] * by[4],
    m[1] * by[5] + m[3] * by[6] + m[5], m[2] * by[5] + m[4] * by[6] + m[6]>>
Identity == <<1, 0, 0, 1, 0, 0>>

-----------------------------------------------------------------------------
(* PathSink: commands in the space it is given, the current point and the  *)
(* start of the subpath in user space.                                     *)
NewSink == [cmds |-> << >>, cur |-> << >>, start |-> << >>]
Put(s, m, c, pts, cur) == [s EXCEPT !.cmds = Append(@, [c |-> c, pts |-> [i \in DOMAIN pts |-> T(m, pts[i])]]), !.cur = cur]
MoveTo(s, m, p) == [Put(s, m, "move", <<p>>, p) EXCEPT !.start = p]
Ensure(s, m, p) == IF s.cur = << >> THEN MoveTo(s, m, p) ELSE s
LineTo(s, m, p) == IF s.cur = << >> THEN MoveTo(s, m, p) ELSE Put(s, m, "line", <<p>>, p)
QuadTo(s, m, c, p) == Put(Ensure(s, m, c), m, "quad", <<c, p>>, p)
CubicTo(s, m, c, d, p) == Put(Ensure(s, m, c), m, "cubic", <<c, d, p>>, p)
Close(s) == IF s.cur = << >> THEN s ELSE [s EXCEPT !.cmds = Append(@, [c |-> "close", pts |-> << >>]), !.cur = s.start]
\* mutant of Rectangle
RectangleUpright(s, m, p, q) ==
  LET a == T(m, p)
      b == T(m, q)
  IN Close(LineTo(LineTo(LineTo(MoveTo(s, Identity, a), Identity, <<b[1], a[2]>>), Identity, b), Identity, <<a[1], b[2]>>))
Rectangle(s, m, p, q) == Close(LineTo(LineTo(LineTo(MoveTo(s, m, p), m, <<q[1], p[2]>>), m, q), m, <<p[1], q[2]>>))
TransformCmds(cmds, m) == [i \in DOMAIN cmds |-> [cmds[i] EXCEPT !.pts = [k \in DOMAIN @ |-> T(m, @[k])]]]

(* pointInPath(): the edges, curves in Pieces pieces, and how often they   *)
(* go around the point. Coordinates are scaled so that the pieces end on   *)
(* integers.                                                               *)
Fine == Pieces * Pieces * Pieces
Scaled(p) == <<p[1] * Fine, p[2] * Fine>>
Bezier(pts, s) ==
  LET u == Pieces - s
      at(i) == IF Len(pts) = 3 THEN Pieces * (u * u * pts[1][i] + 2 * u * s * pts[2][i] + s * s * pts[3][i])
               ELSE u * u * u * pts[1][i] + 3 * u * u * s * pts[2][i] + 3 * u * s * s * pts[3][i] + s * s * s * pts[4][i]
  IN <<at(1), at(2)>>
ClosesSubpath(p, start) == IF p # start THEN {<<Scaled(p), Scaled(start)>>} ELSE {}
EdgesOf(cmds) ==
  LET step(a, cmd) ==
        CASE cmd.c = "move" -> [edges |-> a.edges \o SetToSeq(ClosesSubpath(a.p, a.start)), p |-> cmd.pts[1], start |-> cmd.pts[1]]
          [] cmd.c = "line" -> [a EXCEPT !.edges = Append(@, <<Scaled(a.p), Scaled(cmd.pts[1])>>), !.p = cmd.pts[1]]
          [] cmd.c = "close" -> [a EXCEPT !.edges = Append(@, <<Scaled(a.p), Scaled(a.start)>>), !.p = a.start]
          [] OTHER -> LET all == <<a.p>> \o cmd.pts
                      IN [a EXCEPT !.edges = @ \o [s \in 1 .. Pieces |-> <<Bezier(all, s - 1), Bezier(all, s)>>], !.p = Last(cmd.pts)]
      end == FoldLeft(step, [edges |-> << >>, p |-> <<0, 0>>, start |-> <<0, 0>>], cmds)
  IN end.edges \o SetToSeq(ClosesSubpath(end.p, end.start))
(* edge(): how the ray to the right of the point is crossed.               *)
Crossing(edge, pt) ==
  LET p == edge[1]
      q == edge[2]
      up == q[2] > p[2]
      across == (pt[2] - p[2]) * (q[1] - p[1]) - (pt[1] - p[1]) * (q[2] - p[2])
  IN IF ~(p[2] <= pt[2] /\ q[2] > pt[2]) /\ ~(q[2] <= pt[2] /\ p[2] > pt[2]) THEN 0
     ELSE IF up /\ across > 0 THEN 1 ELSE IF ~up /\ across < 0 THEN -1 ELSE 0
PointInPath(cmds, pt, evenOdd) ==
  LET edges == EdgesOf(cmds)
      times(w) == Cardinality({i \in DOMAIN edges : Crossing(edges[i], Scaled(pt)) = w})
      wind == times(1) - times(-1)
  IN IF evenOdd THEN wind % 2 # 0 ELSE wind # 0

PathInit == sink = NewSink /\ userSink = NewSink /\ matrix = Identity /\ steady = TRUE /\ pathOps = 0
(* One of the path methods: the context's, and the same on a Path2D.       *)
Call(own, kept) ==
  /\ pathOps < MaxPathOps /\ pathOps' = pathOps + 1
  /\ sink' = own /\ userSink' = kept /\ UNCHANGED <<matrix, steady>>
Transform(by) ==
  /\ pathOps < MaxPathOps /\ pathOps' = pathOps + 1 /\ matrix = Identity
  /\ matrix' = Mul(matrix, by) /\ steady' = (sink = NewSink) /\ UNCHANGED <<sink, userSink>>
BeginPath ==
  pathOps < MaxPathOps /\ pathOps' = pathOps + 1 /\ sink # NewSink /\ sink' = NewSink /\ userSink' = NewSink /\ steady' = TRUE /\ UNCHANGED matrix
PathNext ==
  \/ \E p \in Corners :
       \/ Call(MoveTo(sink, matrix, p), MoveTo(userSink, Identity, p))
       \/ Call(LineTo(sink, matrix, p), LineTo(userSink, Identity, p))
  \/ \E p, q \in Corners : p # q /\
       (\/ Call(QuadTo(sink, matrix, q, p), QuadTo(userSink, Identity, q, p))
        \/ Call(Rectangle(sink, matrix, p, q), Rectangle(userSink, Identity, p, q)))
  \/ Call(Close(sink), Close(userSink))
  \/ \E by \in Transforms : Transform(by)
  \/ BeginPath
PathSpec == PathInit /\ [][PathNext]_pathState

(* A path built under a transform is the Path2D of the same calls, drawn   *)
(* under it (pathMethods, transformCmds).                                  *)
SamePath == steady => sink.cmds = TransformCmds(userSink.cmds, matrix)

(* Whether a point is inside does not depend on how path and point are     *)
(* turned, mirrored or moved together (pointInPath; points on the path     *)
(* itself aside).                                                          *)
OnEdge(edge, pt) ==
  LET p == edge[1]
      q == edge[2]
  IN /\ (pt[2] - p[2]) * (q[1] - p[1]) = (pt[1] - p[1]) * (q[2] - p[2])
     /\ \A i \in 1 .. 2 : (p[i] <= pt[i] /\ pt[i] <= q[i]) \/ (q[i] <= pt[i] /\ pt[i] <= p[i])
InsideFollows ==
  LET edges == Range(EdgesOf(userSink.cmds))
      free == {pt \in Corners : \A edge \in edges : ~OnEdge(edge, Scaled(pt))}
  IN \A pt \in free, m \in Transforms, evenOdd \in BOOLEAN :
       PointInPath(userSink.cmds, pt, evenOdd) = PointInPath(TransformCmds(userSink.cmds, m), T(m, pt), evenOdd)

-----------------------------------------------------------------------------
(* parseSvgPath(): a token is a letter or a number.                        *)
Letter(c) == [c |-> c, n |-> 0]
Number(n) == [c |-> "", n |-> n]
Tokens(segs) ==
  FlattenSeq([i \in DOMAIN segs |-> (IF segs[i].c = "" THEN << >> ELSE <<Letter(segs[i].c)>>) \o [k \in DOMAIN segs[i].nums |-> Number(segs[i].nums[k])]])
Relative == {"m", "l", "h", "v", "c", "s", "q", "t", "z"}
Upper == [m |-> "M", l |-> "L", h |-> "H", v |-> "V", c |-> "C", s |-> "S", q |-> "Q", t |-> "T", z |-> "Z"]
Op(cmd) == IF cmd \in Relative THEN Upper[cmd] ELSE cmd
Takes(op) == CASE op \in {"M", "L", "T"} -> 2 [] op \in {"H", "V"} -> 1 [] op \in {"S", "Q"} -> 4 [] op = "C" -> 6 [] OTHER -> 0
Sum(p, q) == <<p[1] + q[1], p[2] + q[2]>>
(* The control point of a smooth curve mirrors that of the curve before.   *)
Mirrored(last, kinds, cur, ctl) == IF Op(last) \in kinds THEN <<2 * cur[1] - ctl[1], 2 * cur[2] - ctl[2]>> ELSE cur
(* One turn of its loop, with the numbers of one command.                  *)
Turn(st, cmd, nums) ==
  LET op == Op(cmd)
      o == IF cmd \in Relative THEN st.cur ELSE <<0, 0>>
      p(i) == Sum(o, <<nums[2 * i - 1], nums[2 * i]>>)
      done(s, to, ctl, last) == [st EXCEPT !.sink = s, !.cur = to, !.ctl = ctl, !.last = last]
      s == st.sink
  IN CASE op = "M" -> [done(MoveTo(s, Identity, p(1)), p(1), st.ctl, IF cmd = "m" THEN "l" ELSE "L") EXCEPT !.start = p(1)]
       [] op = "L" -> done(LineTo(s, Identity, p(1)), p(1), st.ctl, cmd)
       [] op = "H" -> LET to == <<o[1] + nums[1], st.cur[2]>> IN done(LineTo(s, Identity, to), to, st.ctl, cmd)
       [] op = "V" -> LET to == <<st.cur[1], o[2] + nums[1]>> IN done(LineTo(s, Identity, to), to, st.ctl, cmd)
       [] op = "C" -> done(CubicTo(s, Identity, p(1), p(2), p(3)), p(3), p(2), cmd)
       [] op = "S" -> done(CubicTo(s, Identity, Mirrored(st.last, {"C", "S"}, st.cur, st.ctl), p(1), p(2)), p(2), p(1), cmd)
       [] op = "Q" -> done(QuadTo(s, Identity, p(1), p(2)), p(2), p(1), cmd)
       [] op = "T" -> LET ctl == Mirrored(st.last, {"Q", "T"}, st.cur, st.ctl) IN done(QuadTo(s, Identity, ctl, p(1)), p(1), ctl, cmd)
       [] OTHER -> done(Close(s), st.start, st.ctl, cmd)
RECURSIVE ParseFrom(_, _, _)
ParseFrom(st, cmd, toks) ==
  IF toks = << >> THEN st.sink.cmds
  ELSE LET now == IF Head(toks).c # "" THEN Head(toks).c ELSE cmd
           rest == IF Head(toks).c # "" THEN Tail(toks) ELSE toks
           n == Takes(Op(now))
           next == Turn(st, now, [i \in 1 .. n |-> rest[i].n])
       IN IF now = "" THEN st.sink.cmds ELSE ParseFrom(next, next.last, SubSeq(rest, n + 1, Len(rest)))
ParseSvgPath(toks) ==
  ParseFrom([sink |-> NewSink, cur |-> <<0, 0>>, start |-> <<0, 0>>, ctl |-> <<0, 0>>, last |-> ""], "", toks)

SvgInit == segments = << >>
(* What follows a moveto without a letter is a lineto; numbers follow no   *)
(* closepath.                                                              *)
Continues(segs, seg) == seg.c # "" \/ (segs # << >> /\ Last(segs).c # "z" /\ Last(segs).c # "Z")
(* Segments without a letter have two numbers, so does what they continue. *)
SvgNext ==
  \E seg \in Segments :
    /\ Len(segments) < MaxSegments /\ (segments = << >> => Op(seg.c) = "M")
    /\ seg.c = "" => segments # << >> /\ Takes(Op(Last(segments).c)) \in {0, 2} /\ Continues(segments, seg)
    /\ segments' = Append(segments, seg)

(* Where a segment ends, what its letter is, and where its subpath began:  *)
(* by the segments before it alone.                                        *)
RECURSIVE LetterOf(_), EndOf(_), ControlOf(_)
LetterOf(i) ==
  IF segments[i].c # "" THEN segments[i].c
  ELSE CASE LetterOf(i - 1) = "M" -> "L" [] LetterOf(i - 1) = "m" -> "l" [] OTHER -> LetterOf(i - 1)
StartOf(i) == EndOf(SelectLastInSubSeq(segments, 1, i, LAMBDA s : Op(s.c) = "M"))
EndOf(i) ==
  IF i = 0 THEN <<0, 0>>
  ELSE LET c == LetterOf(i)
           from == EndOf(i - 1)
           o == IF c \in Relative THEN from ELSE <<0, 0>>
           n == segments[i].nums
       IN CASE Op(c) = "H" -> <<o[1] + n[1], from[2]>>
            [] Op(c) = "V" -> <<from[1], o[2] + n[1]>>
            [] Op(c) = "Z" -> StartOf(i)
            [] OTHER -> Sum(o, SubSeq(n, Len(n) - 1, Len(n)))
ControlOf(i) ==
  LET c == LetterOf(i)
      o == IF c \in Relative THEN EndOf(i - 1) ELSE <<0, 0>>
      n == segments[i].nums
      before == EndOf(i - 1)
  IN IF Op(c) # "T" THEN Sum(o, SubSeq(n, Len(n) - 3, Len(n) - 2))
     ELSE IF Op(LetterOf(i - 1)) \notin {"Q", "T"} THEN before
     ELSE LET k == ControlOf(i - 1) IN <<2 * before[1] - k[1], 2 * before[2] - k[2]>>
Meant(i) ==
  LET c == LetterOf(i)
      o == IF c \in Relative THEN EndOf(i - 1) ELSE <<0, 0>>
      n == segments[i].nums
      before == EndOf(i - 1)
      mirrored == IF i > 1 /\ Op(LetterOf(i - 1)) \in {"C", "S"}
                  THEN LET k == ControlOf(i - 1) IN <<2 * before[1] - k[1], 2 * before[2] - k[2]>> ELSE before
  IN CASE Op(c) = "M" -> [c |-> "move", pts |-> <<EndOf(i)>>]
       [] Op(c) = "Z" -> [c |-> "close", pts |-> << >>]
       [] Op(c) = "C" -> [c |-> "cubic", pts |-> <<Sum(o, <<n[1], n[2]>>), ControlOf(i), EndOf(i)>>]
       [] Op(c) = "S" -> [c |-> "cubic", pts |-> <<mirrored, ControlOf(i), EndOf(i)>>]
       [] Op(c) \in {"Q", "T"} -> [c |-> "quad", pts |-> <<ControlOf(i), EndOf(i)>>]
       [] OTHER -> [c |-> "line", pts |-> <<EndOf(i)>>]

(* The text of a path draws what each of its segments means, absolute or   *)
(* relative, with or without its letter (parseSvgPath).                    *)
SvgDraws == ParseSvgPath(Tokens(segments)) = [i \in DOMAIN segments |-> Meant(i)]

-----------------------------------------------------------------------------
(* CanvasRenderingContext2D and the surface: #resetState(), #resize().     *)
FreshState == [scale |-> 1, fill |-> "black", clips |-> << >>]
FreshSurface(w) == [width |-> w, mask |-> << >>, painted |-> << >>]
CanvasInit ==
  \E w \in Widths :
    /\ canvasWidth = w /\ ctxWidth = w /\ ctx = FreshState /\ saved = << >> /\ drawn = << >> /\ surface = FreshSurface(w)
    /\ asked = "" /\ canvasOps = 0
Step == canvasOps < MaxCanvasOps /\ canvasOps' = canvasOps + 1
ResetAll(w) == ctxWidth' = w /\ ctx' = FreshState /\ saved' = << >> /\ drawn' = << >> /\ surface' = FreshSurface(w)
(* canvas.width = w; reset().                                              *)
SetWidth(w) == Step /\ canvasWidth' = w /\ ResetAll(w) /\ asked' = ""
Reset == Step /\ ResetAll(canvasWidth) /\ asked' = "" /\ UNCHANGED canvasWidth
(* canvas.setAttribute("width", w): the context is not told.               *)
SetAttribute(w) == Step /\ w # canvasWidth /\ canvasWidth' = w /\ UNCHANGED <<ctxWidth, ctx, saved, drawn, surface, asked>>
Save ==
  /\ Step /\ saved' = Append(saved, ctx) /\ UNCHANGED <<canvasWidth, ctxWidth, ctx, drawn, surface, asked>>
(* restore(): the natives are given the clips when they differ.            *)
MaskAfter(clips) == IF clips # ctx.clips THEN clips ELSE surface.mask
Restore ==
  /\ Step /\ saved # << >> /\ ctx' = Last(saved) /\ saved' = Front(saved)
  /\ surface' = [surface EXCEPT !.mask = MaskAfter(Last(saved).clips)]
  /\ asked' = Last(saved).fill /\ UNCHANGED <<canvasWidth, ctxWidth, drawn>>
SetFill(style) == Step /\ ctx' = [ctx EXCEPT !.fill = style] /\ asked' = style /\ UNCHANGED <<canvasWidth, ctxWidth, saved, drawn, surface>>
Scale == Step /\ ctx.scale = 1 /\ ctx' = [ctx EXCEPT !.scale = 2] /\ UNCHANGED <<canvasWidth, ctxWidth, saved, drawn, surface, asked>>
AddShape(shape) ==
  Step /\ drawn' = Append(drawn, [shape |-> shape, scale |-> ctx.scale]) /\ UNCHANGED <<canvasWidth, ctxWidth, ctx, saved, surface, asked>>
(* #sync(), before everything that paints, clips or is read: the size may  *)
(* have changed by the attribute alone.                                    *)
\* mutant of Resized
ResizedNever == FALSE
Resized == canvasWidth # ctxWidth
Synced == IF Resized THEN [ctx |-> FreshState, saved |-> << >>, drawn |-> << >>, surface |-> FreshSurface(canvasWidth)]
          ELSE [ctx |-> ctx, saved |-> saved, drawn |-> drawn, surface |-> surface]
After(s) ==
  /\ ctxWidth' = (IF Resized THEN canvasWidth ELSE ctxWidth) /\ ctx' = s.ctx /\ saved' = s.saved /\ drawn' = s.drawn /\ surface' = s.surface
  /\ asked' = (IF Resized THEN "" ELSE asked) /\ UNCHANGED canvasWidth
Paint(s, shapes) ==
  [s EXCEPT !.surface.painted = Append(@, [shapes |-> shapes, fill |-> s.ctx.fill, mask |-> s.surface.mask, width |-> s.surface.width])]
(* fill(); fillRect() and the like, with a path of their own.              *)
Fill == Step /\ After(IF Synced.drawn = << >> THEN Synced ELSE Paint(Synced, Synced.drawn))
FillRect(shape) == Step /\ After(Paint(Synced, <<[shape |-> shape, scale |-> Synced.ctx.scale]>>))
Clip ==
  Step /\ After([Synced EXCEPT !.ctx.clips = Append(@, Synced.drawn), !.surface.mask = Append(Synced.ctx.clips, Synced.drawn)])
NewPath == Step /\ drawn # << >> /\ drawn' = << >> /\ UNCHANGED <<canvasWidth, ctxWidth, ctx, saved, surface, asked>>
(* toDataURL(), getImageData(), and the canvas as an image for another.    *)
Read == Step /\ Resized /\ After(Synced)
CanvasNext ==
  \/ \E w \in Widths : SetWidth(w) \/ SetAttribute(w)
  \/ Reset \/ Save \/ Restore \/ Scale \/ Fill \/ Clip \/ NewPath \/ Read
  \/ \E style \in Styles : SetFill(style)
  \/ \E shape \in Shapes : AddShape(shape) \/ FillRect(shape)
CanvasSpec == CanvasInit /\ [][CanvasNext]_canvasState

(* The natives clip to what the current state says, whatever was saved,    *)
(* restored and resized (clip, restore, #applyClip, canvasReset).          *)
ClipHolds == surface.mask = ctx.clips

(* Nothing is painted on a surface of another size than the canvas has     *)
(* (#sync, ctxResize).                                                     *)
PaintsOnCurrent ==
  [][Len(surface'.painted) > Len(surface.painted) => Last(surface'.painted).width = canvasWidth']_canvasState

(* What is painted has the style that the page set last, unless the size   *)
(* changed since (fillStyle, save, restore, #resetState).                  *)
PaintsAsSet ==
  [][Len(surface'.painted) > Len(surface.painted) => Last(surface'.painted).fill = (IF asked' = "" THEN "black" ELSE asked')]_canvasState
=============================================================================
