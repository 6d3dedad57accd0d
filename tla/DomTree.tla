------------------------------- MODULE DomTree -------------------------------
(***************************************************************************)
(* The tree mutation core of the DOM (crates/script/js/20_dom.js) with     *)
(* what follows it around: a live range and a mutation observer of the     *)
(* root.  Each operation is put together from the steps of the code, in    *)
(* their order, on a record of tree, texts, range and what the observer    *)
(* knows.  The tree itself is kept by the host; kids is its view.          *)
(***************************************************************************)
EXTENDS Naturals, Sequences, SequencesExt, FiniteSets

CONSTANTS
  Root, Elements,   \* the root and the other elements
  Frag,             \* a document fragment
  Texts, Chars,     \* text nodes, and the characters they may hold, told apart
  MaxSteps,         \* bound on the operations
  Starts,           \* documents to begin with: [kids, text, fresh, range]
  None

VARIABLES
  kids,      \* the child lists
  text,      \* the characters of the text nodes
  range,     \* the live range: two boundary points <<node, offset>>
  mirror,    \* the child lists as the records of the observer give them
  fresh,     \* text nodes that no operation has made yet
  selected,  \* the characters the range is to select
  astray,    \* a step that forgets the ranges has moved a boundary's surroundings
  steps

domVars == <<kids, text, range, mirror, fresh, selected, astray, steps>>

Parents == {Root, Frag} \union Elements
Nodes == Parents \union Texts

-----------------------------------------------------------------------------
(* Trees k, boundary points and their order.                               *)
Parent(k, n) == LET ps == {p \in Parents : \E i \in DOMAIN k[p] : k[p][i] = n} IN IF ps = {} THEN None ELSE CHOOSE p \in ps : TRUE
IndexOfNode(k, n) == LET p == Parent(k, n) IN IF p = None THEN 0 ELSE (CHOOSE i \in DOMAIN k[p] : k[p][i] = n) - 1
Path(k, n) == LET path[x \in Nodes] == LET p == Parent(k, x) IN IF p = None THEN <<x>> ELSE Append(path[p], x)
              IN  path[n]
Holds(k, a, b) == a \in Range(Path(k, b))
RootOf(k, n) == Head(Path(k, n))
NextSibling(k, n) == LET i == IndexOfNode(k, n) IN IF i + 2 <= Len(k[Parent(k, n)]) THEN k[Parent(k, n)][i + 2] ELSE None
PrevSibling(k, n) == LET i == IndexOfNode(k, n) IN IF i > 0 THEN k[Parent(k, n)][i] ELSE None
NodeLength(k, t, n) == IF n \in Texts THEN Len(t[n]) ELSE Len(k[n])

(* bpCompare(): the path as a number, odd digits for children, even ones   *)
(* for the gaps between them.                                              *)
Depth == Cardinality(Elements) + 3
Digit == 2 * Cardinality(Nodes)
Position(k, bp) ==
  LET path == Path(k, bp[1])
      down[i \in 0 .. Len(path)] == IF i < 2 THEN 0 ELSE down[i - 1] * Digit + 2 * IndexOfNode(k, path[i]) + 1
  IN  (down[Len(path)] * Digit + 2 * bp[2]) * Digit^(Depth - Len(path))

SameRoot(k, r) == RootOf(k, r.start[1]) = RootOf(k, r.end[1])
Between(k, r, from, to) ==
  /\ RootOf(k, from[1]) = RootOf(k, r.start[1]) /\ SameRoot(k, r)
  /\ Position(k, r.start) <= Position(k, from) /\ Position(k, to) <= Position(k, r.end)
RangeContains(k, t, r, n) == Between(k, r, <<n, 0>>, <<n, NodeLength(k, t, n)>>) /\ r.start # <<n, 0>> /\ r.end # <<n, NodeLength(k, t, n)>>
Selects(k, t, r) ==
  {c \in Chars : \E n \in Texts : \E i \in DOMAIN t[n] : t[n][i] = c /\ Between(k, r, <<n, i - 1>>, <<n, i>>)}
Below(k, t, n) == UNION {Range(t[x]) : x \in {y \in Texts : Holds(k, n, y)}}

-----------------------------------------------------------------------------
(* Steps on w = [kids, text, range, mirror].                               *)
Move(w, Point(_)) == [w EXCEPT !.range = [start |-> Point(w.range.start), end |-> Point(w.range.end)]]

RangesOnInsert(w, p, i, count) ==
  Move(w, LAMBDA bp : IF bp[1] = p /\ bp[2] > i THEN <<p, bp[2] + count>> ELSE bp)

\* mutant of RangesOnRemove
RangesOnRemoveOutside(w, p, n, i) ==
  Move(w, LAMBDA bp : IF bp[1] = p /\ bp[2] > i THEN <<p, bp[2] - 1>> ELSE bp)
RangesOnRemove(w, p, n, i) ==
  Move(w, LAMBDA bp : IF Holds(w.kids, n, bp[1]) THEN <<p, i>>
                      ELSE IF bp[1] = p /\ bp[2] > i THEN <<p, bp[2] - 1>> ELSE bp)

RangesOnReplaceAll(w, p, old) ==
  Move(w, LAMBDA bp : IF bp[1] = p \/ \E n \in Range(old) : Holds(w.kids, n, bp[1]) THEN <<p, 0>> ELSE bp)

RangesOnReplaceData(w, n, offset, count, added) ==
  Move(w, LAMBDA bp : IF bp[1] # n \/ bp[2] <= offset THEN bp
                      ELSE <<n, IF bp[2] <= offset + count THEN offset ELSE bp[2] + added - count>>)

RangesOnSplit(w, n, new, offset, p, i) ==
  Move(w, LAMBDA bp : IF bp[1] = n /\ bp[2] > offset THEN <<new, bp[2] - offset>>
                      ELSE IF bp = <<p, i + 1>> THEN <<p, i + 2>> ELSE bp)

RangesOnMerge(w, into, from, p, i, length) ==
  Move(w, LAMBDA bp : IF bp[1] = from THEN <<into, bp[2] + length>>
                      ELSE IF bp = <<p, i>> THEN <<into, length>> ELSE bp)

(* queueMutation() for the observer {childList, subtree} of the root, and  *)
(* what the observer makes of the record.  It looks at the nodes below     *)
(* those that are added; neighbours that are none leave it with nonsense.  *)
QueueMutation(w, target, added, removed, prev, next) ==
  IF ~Holds(w.kids, Root, target) THEN w
  ELSE LET rest == SelectSeq(w.mirror[target], LAMBDA x : x \notin Range(added) \union Range(removed))
           at == IF prev = None THEN 0 ELSE SelectInSeq(rest, LAMBDA x : x = prev)
           follows == IF at < Len(rest) THEN rest[at + 1] ELSE None
           told == [w.mirror EXCEPT ![target] =
                      IF (prev # None => at # 0) /\ follows = next
                      THEN SubSeq(rest, 1, at) \o added \o SubSeq(rest, at + 1, Len(rest)) ELSE <<None>>]
       IN  [w EXCEPT !.mirror =
              [p \in Parents |-> IF \E n \in Range(added) : Holds(w.kids, n, p) THEN w.kids[p] ELSE told[p]]]

Without(list, n) == SelectSeq(list, LAMBDA x : x # n)
Detached(k, n) == [p \in Parents |-> Without(k[p], n)]
Place(k, p, list, ref) ==
  LET at == IF ref = None THEN Len(k[p]) ELSE SelectInSeq(k[p], LAMBDA x : x = ref) - 1
  IN  [k EXCEPT ![p] = SubSeq(@, 1, at) \o list \o SubSeq(@, at + 1, Len(@))]

OldNeighbours(before, after, n) == <<PrevSibling(before, n), NextSibling(before, n)>>

RemoveCore(w, p, n) ==
  LET ranged == RangesOnRemove(w, p, n, IndexOfNode(w.kids, n))
      removed == [ranged EXCEPT !.kids = Detached(@, n)]
  IN  QueueMutation(removed, p, << >>, <<n>>, PrevSibling(w.kids, n), NextSibling(w.kids, n))

(* insertCore() of one node.                                               *)
TakeOut(w, from, n) == IF from = None THEN w ELSE RangesOnRemove(w, from, n, IndexOfNode(w.kids, n))
Arrive(w, p, n) == RangesOnInsert(w, p, IndexOfNode(w.kids, n), 1)
TellLeft(w, from, n, old) == IF from = None THEN w ELSE QueueMutation(w, from, << >>, <<n>>, old[1], old[2])
TellArrived(w, p, n) == QueueMutation(w, p, <<n>>, << >>, PrevSibling(w.kids, n), NextSibling(w.kids, n))
InsertOne(w, p, n, ref) ==
  LET from == Parent(w.kids, n)
      left == [TakeOut(w, from, n) EXCEPT !.kids = Place(Detached(@, n), p, <<n>>, ref)]
  IN  TellArrived(TellLeft(Arrive(left, p, n), from, n, OldNeighbours(w.kids, left.kids, n)), p, n)

(* insertCore() of a fragment: its children.                               *)
InsertAll(w, p, frag, ref) ==
  LET list == w.kids[frag]
      Leave(acc, c) == RangesOnRemove(acc, frag, c, 0)
      left == FoldLeft(Leave, w, list)
      placed == [left EXCEPT !.kids = Place([@ EXCEPT ![frag] = << >>], p, list, ref)]
      ranged == RangesOnInsert(placed, p, IndexOfNode(placed.kids, list[1]), Len(list))
  IN  IF list = << >> THEN w
      ELSE QueueMutation(ranged, p, list, << >>, PrevSibling(ranged.kids, list[1]), NextSibling(ranged.kids, Last(list)))

InsertCore(w, p, n, ref) == IF n = Frag THEN InsertAll(w, p, n, ref) ELSE InsertOne(w, p, n, ref)

EnsurePreInsert(k, p, n, ref) ==
  /\ n # Root /\ ~Holds(k, n, p)
  /\ ref = None \/ Parent(k, ref) = p
PreInsert(w, p, n, ref) == InsertCore(w, p, n, IF ref = n THEN NextSibling(w.kids, n) ELSE ref)

SetDataCore(w, n, data, offset, count, added) ==
  [RangesOnReplaceData(w, n, offset, count, added) EXCEPT !.text[n] = data]

SplitText(w, n, offset, new) ==
  LET data == w.text[n]
      p == Parent(w.kids, n)
      rest == [w EXCEPT !.text[new] = SubSeq(data, offset + 1, Len(data))]
      split == IF p = None THEN rest
               ELSE RangesOnSplit(InsertOne(rest, p, new, NextSibling(w.kids, n)), n, new, offset, p, IndexOfNode(w.kids, n))
  IN  SetDataCore(split, n, SubSeq(data, 1, offset), offset, Len(data) - offset, 0)

-----------------------------------------------------------------------------
State == [kids |-> kids, text |-> text, range |-> range, mirror |-> mirror]

(* The step that leads to w; moved are the characters it took from one     *)
(* place to another.                                                       *)
Becomes(w, moved) ==
  /\ steps < MaxSteps /\ steps' = steps + 1
  /\ kids' = w.kids /\ text' = w.text /\ range' = w.range /\ mirror' = w.mirror
  /\ LET now == Selects(w.kids, w.text, w.range)
         there == UNION {Range(w.text[n]) : n \in Texts}
     IN  selected' = (((selected \ moved) \union (now \cap moved)) \cap there)
Keeps == UNCHANGED <<fresh, astray>>

Init ==
  /\ \E d \in Starts : kids = d.kids /\ text = d.text /\ fresh = d.fresh /\ range = d.range
  /\ mirror = kids /\ selected = Selects(kids, text, range) /\ astray = FALSE /\ steps = 0

InsertBefore(p, n, ref) ==
  /\ n \notin fresh /\ EnsurePreInsert(kids, p, n, ref)
  /\ Becomes(PreInsert(State, p, n, ref), Below(kids, text, n)) /\ Keeps

RemoveChild(n) ==
  /\ Parent(kids, n) # None
  /\ Becomes(RemoveCore(State, Parent(kids, n), n), Below(kids, text, n)) /\ Keeps

(* Ranges that a step without range steps would have had to move.          *)
Affected(p, n) == \E bp \in {range.start, range.end} :
                     Holds(kids, n, bp[1]) \/ (bp[1] = p /\ bp[2] > IndexOfNode(kids, n))

(* replaceChildImpl() does not look at the live ranges.                    *)
ReplaceChild(n, child) ==
  LET p == Parent(kids, child)
      from == Parent(kids, n)
      list == IF n = Frag THEN kids[Frag] ELSE <<n>>
      next == IF NextSibling(kids, child) = n THEN NextSibling(kids, n) ELSE NextSibling(kids, child)
      prev == IF PrevSibling(kids, child) = n THEN PrevSibling(kids, n) ELSE PrevSibling(kids, child)
      emptied == IF n = Frag THEN [kids EXCEPT ![Frag] = << >>] ELSE Detached(kids, n)
      placed == [State EXCEPT !.kids = Detached(Place(emptied, p, list, child), child)]
      told == IF from \in {None, p} THEN placed
              ELSE QueueMutation(placed, from, << >>, <<n>>, PrevSibling(kids, n), NextSibling(kids, n))
  IN  /\ p # None /\ n \notin fresh /\ n # Root /\ ~Holds(kids, n, p) /\ n # child
      /\ Becomes(QueueMutation(told, p, list, <<child>>, prev, next), Chars)
      /\ astray' = (astray \/ Affected(p, child) \/ (from # None /\ Affected(from, n)) \/ (n = Frag /\ Affected(Frag, Frag)))
      /\ UNCHANGED fresh

(* append(a, b): convertNodes() collects the nodes in a new fragment, also *)
(* without a look at the ranges.                                           *)
AppendTwo(p, a, b) ==
  LET Told(w, n) == IF Parent(w.kids, n) = None THEN w
                    ELSE QueueMutation(w, Parent(w.kids, n), << >>, <<n>>, PrevSibling(w.kids, n), NextSibling(w.kids, n))
      Take(w, n) == [Told(w, n) EXCEPT !.kids = Detached(@, n)]
      taken == Take(Take(State, a), b)
      placed == [taken EXCEPT !.kids = Place(@, p, <<a, b>>, None)]
  IN  /\ a # b /\ {a, b} \cap (fresh \union {Root, Frag}) = {}
      /\ ~Holds(kids, a, p) /\ ~Holds(kids, b, p) /\ ~Holds(kids, b, a) /\ ~Holds(kids, a, b)
      /\ Becomes(QueueMutation(placed, p, <<a, b>>, << >>, PrevSibling(placed.kids, a), None), Chars)
      /\ astray' = (astray \/ \E n \in {a, b} : Affected(Parent(kids, n), n))
      /\ UNCHANGED fresh

(* replaceAllCore() for textContent: nothing, or one new text node.        *)
TextContentSet(p, new) ==
  LET list == IF new = None THEN << >> ELSE <<new>>
      placed == [State EXCEPT !.kids[p] = list]
      ranged == RangesOnReplaceAll(placed, p, kids[p])
  IN  /\ new # None => new \in fresh
      /\ Becomes(QueueMutation(ranged, p, list, kids[p], None, None), UNION {Below(kids, text, n) : n \in Range(kids[p])})
      /\ fresh' = fresh \ {new} /\ UNCHANGED astray

(* deleteData(), insertData(), replaceData(), with at most one character.  *)
ReplaceData(n, offset, count, added) ==
  /\ n \notin fresh /\ offset + count <= Len(text[n])
  /\ Range(added) \cap UNION {Range(text[x]) : x \in Texts} = {}
  /\ Becomes(SetDataCore(State, n, SubSeq(text[n], 1, offset) \o added \o SubSeq(text[n], offset + count + 1, Len(text[n])),
                         offset, count, Len(added)), Range(added))
  /\ Keeps

Split(n, offset, new) ==
  /\ n \notin fresh /\ new \in fresh /\ offset <= Len(text[n])
  /\ Becomes(SplitText(State, n, offset, new), {})
  /\ fresh' = fresh \ {new} /\ UNCHANGED astray

(* normalizeNode(): an empty text goes, another takes in the texts after   *)
(* it (whose characters are its own then).                                 *)
TextsAfter(w, p, n) ==
  LET after == SubSeq(w.kids[p], IndexOfNode(w.kids, n) + 2, Len(w.kids[p]))
      end == SelectInSeq(after, LAMBDA x : x \notin Texts)
  IN  IF end = 0 THEN after ELSE SubSeq(after, 1, end - 1)
Data(w, list) == FlattenSeq([i \in DOMAIN list |-> w.text[list[i]]])

NormalizeText(w, p, n) ==
  LET run == TextsAfter(w, p, n)
      data == w.text[n]
      grown == IF Data(w, run) = << >> THEN w
               ELSE SetDataCore(w, n, data \o Data(w, run), Len(data), 0, Len(Data(w, run)))
      Merge(acc, i) ==
        LET length == Len(data) + Len(Data(w, SubSeq(run, 1, i - 1)))
            moved == RangesOnMerge(acc, n, run[i], p, IndexOfNode(acc.kids, run[i]), length)
        IN  [RemoveCore(moved, p, run[i]) EXCEPT !.text[run[i]] = << >>]
  IN  IF data = << >> THEN RemoveCore(w, p, n) ELSE FoldLeft(Merge, grown, [i \in 1..Len(run) |-> i])

NormalizeNode(w, p) ==
  LET Visit(acc, n) == IF n \in Texts /\ Parent(acc.kids, n) = p THEN NormalizeText(acc, p, n) ELSE acc
  IN  FoldLeft(Visit, w, w.kids[p])
Normalize(p) ==
  /\ Becomes(FoldLeft(NormalizeNode, State, SetToSeq({q \in Parents : Holds(kids, p, q)})), {})
  /\ Keeps

Mutations ==
  \/ \E p \in Parents, n \in Nodes : \E ref \in Nodes \union {None} : InsertBefore(p, n, ref)
  \/ \E n \in Nodes : RemoveChild(n) \/ \E child \in Nodes : ReplaceChild(n, child)
  \/ \E p \in Parents, a, b \in Nodes : AppendTwo(p, a, b)
  \/ \E p \in Parents : Normalize(p) \/ \E new \in fresh \union {None} : TextContentSet(p, new)
  \/ \E n \in Texts : \E offset \in 0..Len(text[n]) :
       \/ \E new \in fresh : Split(n, offset, new)
       \/ \E count \in 0..1, added \in {<< >>} \union {<<c>> : c \in Chars} : ReplaceData(n, offset, count, added)

-----------------------------------------------------------------------------
(* The calls of the range itself, of one that has not gone astray.         *)
Sets(r) == ~astray /\ Becomes([State EXCEPT !.range = r], Chars) /\ Keeps
Collapsed(bp) == [start |-> bp, end |-> bp]
Before(k, bp, bq) == Position(k, bp) < Position(k, bq)

WithStart(r, bp) ==
  IF RootOf(kids, bp[1]) # RootOf(kids, r.end[1]) \/ Before(kids, r.end, bp) THEN Collapsed(bp) ELSE [r EXCEPT !.start = bp]
WithEnd(r, bp) ==
  IF RootOf(kids, bp[1]) # RootOf(kids, r.start[1]) \/ Before(kids, bp, r.start) THEN Collapsed(bp) ELSE [r EXCEPT !.end = bp]
SetStart(bp) == Sets(WithStart(range, bp))
SetEnd(bp) == Sets(WithEnd(range, bp))

(* Where the range stands after its content is gone.                       *)
After(k, r) ==
  LET sc == r.start[1]
      outer == {n \in Range(Path(k, sc)) : ~Holds(k, n, r.end[1])}
      ref == CHOOSE n \in outer : Parent(k, n) \notin outer
  IN  IF outer = {} THEN r.start ELSE <<Parent(k, ref), IndexOfNode(k, ref) + 1>>

\* mutant of ToRemove
ToRemoveShallow(k, t, r) ==
  {n \in Nodes : RangeContains(k, t, r, n) /\ {r.start[1], r.end[1]} \subseteq {m \in Nodes : Holds(k, Parent(k, n), m)}}
ToRemove(k, t, r) == {n \in Nodes : RangeContains(k, t, r, n) /\ ~RangeContains(k, t, r, Parent(k, n))}

(* rangeDelete()                                                           *)
Cut(w, n, from, to) ==
  SetDataCore(w, n, SubSeq(w.text[n], 1, from) \o SubSeq(w.text[n], to + 1, Len(w.text[n])), from, to - from, 0)
InOneText(r) == r.start[1] = r.end[1] /\ r.start[1] \in Texts
Deleted ==
  LET sc == range.start[1]
      so == range.start[2]
      ec == range.end[1]
      eo == range.end[2]
      head == IF sc \in Texts THEN Cut(State, sc, so, Len(text[sc])) ELSE State
      Drop(w, n) == RemoveCore(w, Parent(w.kids, n), n)
      rest == FoldLeft(Drop, head, SetToSeq(ToRemove(kids, text, range)))
      tail == IF ec \in Texts THEN Cut(rest, ec, 0, eo) ELSE rest
  IN  IF range.start = range.end THEN State
      ELSE IF InOneText(range) THEN Cut(State, sc, so, eo) ELSE [tail EXCEPT !.range = Collapsed(After(kids, range))]
DeleteContents == ~astray /\ range.start # range.end /\ Keeps /\ Becomes(Deleted, IF InOneText(range) THEN {} ELSE Chars)

(* rangeInsert(): a node of the tree is taken out first, and a range that  *)
(* was empty ends after what came in.                                      *)
Freed(w, n) == IF Parent(w.kids, n) = None THEN w ELSE RemoveCore(w, Parent(w.kids, n), n)
EndAfter(w, p, n, next) ==
  (IF next = None THEN Len(w.kids[p]) ELSE IndexOfNode(w.kids, next)) + IF n = Frag THEN Len(w.kids[Frag]) ELSE 1
InsertFreed(w, p, n, next, empty) ==
  [PreInsert(w, p, n, next) EXCEPT !.range.end = IF empty THEN <<p, EndAfter(w, p, n, next)>> ELSE @]
InsertInto(w, p, n, ref, empty) == InsertFreed(Freed(w, n), p, n, IF n = ref THEN NextSibling(w.kids, n) ELSE ref, empty)
StartsBefore(w) == LET bp == w.range.start IN IF bp[1] \in Texts THEN bp[1] ELSE IF bp[2] < Len(w.kids[bp[1]]) THEN w.kids[bp[1]][bp[2] + 1] ELSE None
StartsIn(w) == IF StartsBefore(w) = None THEN w.range.start[1] ELSE Parent(w.kids, StartsBefore(w))
MayInsert(w, n) == n # w.range.start[1] /\ StartsIn(w) # None /\ EnsurePreInsert(w.kids, StartsIn(w), n, StartsBefore(w))
Inserted(w, n, new) ==
  LET sc == w.range.start[1] IN
  InsertInto(IF sc \in Texts THEN SplitText(w, sc, w.range.start[2], new) ELSE w, StartsIn(w), n,
             IF sc \in Texts THEN new ELSE StartsBefore(w), w.range.start = w.range.end)
InsertNode(n, new) ==
  /\ ~astray /\ n \notin fresh /\ MayInsert(State, n)
  /\ IF range.start[1] \in Texts THEN new \in fresh /\ fresh' = fresh \ {new} ELSE new = None /\ UNCHANGED fresh
  /\ Becomes(Inserted(State, n, new), Below(kids, text, n)) /\ UNCHANGED astray

RangeCalls ==
  \/ \E n \in Nodes \ fresh : \E offset \in 0..NodeLength(kids, text, n) : SetStart(<<n, offset>>) \/ SetEnd(<<n, offset>>)
  \/ DeleteContents \/ \E n \in Nodes, new \in fresh \union {None} : InsertNode(n, new)

Next == Mutations \/ RangeCalls
Spec == Init /\ [][Next]_domVars

-----------------------------------------------------------------------------
(* What cloneContents() and extractContents() give, as tags and texts.     *)
RECURSIVE Tokens(_, _, _)
Within(n, content) == <<<<"<", n>>>> \o content \o <<<<">", n>>>>
Tokens(k, t, n) ==
  IF n \in Texts THEN <<<<"text", t[n]>>>> ELSE Within(n, FlattenSeq([i \in DOMAIN k[n] |-> Tokens(k, t, k[n][i])]))

(* rangeProcess(): what lies in the child the range starts in, the children*)
(* it contains, what lies in the child it ends in.                         *)
RECURSIVE RangeProcess(_, _, _)
Holding(k, p, n, other) == IF Holds(k, n, other) \/ ~\E i \in DOMAIN k[p] : Holds(k, k[p][i], n) THEN None
                           ELSE k[p][SelectInSeq(k[p], LAMBDA c : Holds(k, c, n))]
Common(k, r) == LET both == SelectSeq(Path(k, r.start[1]), LAMBDA a : Holds(k, a, r.end[1])) IN both[Len(both)]
Gives(w, r, extract, n, from, to) ==
  [w |-> IF extract THEN Cut(w, n, from, to) ELSE w, out |-> <<<<"text", SubSeq(w.text[n], from + 1, to)>>>>]
\* mutant of SubRange
SubRangeWhole(w, r, n, first) == [start |-> <<n, 0>>, end |-> <<n, NodeLength(w.kids, w.text, n)>>]
SubRange(w, r, n, first) == IF first THEN [start |-> r.start, end |-> <<n, NodeLength(w.kids, w.text, n)>>] ELSE [start |-> <<n, 0>>, end |-> r.end]
Adds(acc, p) == [w |-> p.w, out |-> acc.out \o p.out]
Wrapped(n, p) == [p EXCEPT !.out = Within(n, @)]
Part(acc, r, extract, n, first) ==
  IF n = None THEN acc
  ELSE IF n \in Texts THEN Adds(acc, Gives(acc.w, r, extract, n, IF first THEN r.start[2] ELSE 0, IF first THEN Len(acc.w.text[n]) ELSE r.end[2]))
  ELSE Adds(acc, Wrapped(n, RangeProcess(acc.w, SubRange(acc.w, r, n, first), extract)))
Contained(acc, w, r, extract, ca) ==
  LET Whole(before, c) == Adds(before, [w |-> IF extract THEN RemoveCore(before.w, ca, c) ELSE before.w, out |-> Tokens(w.kids, w.text, c)])
  IN FoldLeft(Whole, acc, SelectSeq(w.kids[ca], LAMBDA c : RangeContains(w.kids, w.text, r, c)))
Through(w, r, extract, ca) ==
  Part(Contained(Part([w |-> w, out |-> << >>], r, extract, Holding(w.kids, ca, r.start[1], r.end[1]), TRUE), w, r, extract, ca),
       r, extract, Holding(w.kids, ca, r.end[1], r.start[1]), FALSE)
RangeProcess(w, r, extract) ==
  IF r.start = r.end THEN [w |-> w, out |-> << >>]
  ELSE IF InOneText(r) THEN Gives(w, r, extract, r.start[1], r.start[2], r.end[2])
  ELSE Through(w, r, extract, Common(w.kids, r))
Cloned == RangeProcess(State, range, FALSE)
Settled(p) == IF range.start = range.end \/ InOneText(range) THEN p ELSE [p EXCEPT !.w.range = Collapsed(After(kids, range))]
Extracted == Settled(RangeProcess(State, range, TRUE))

(* toString(): the texts from one end to the other.                        *)
RangeText(k, t, r) ==
  LET sc == r.start[1]
      ec == r.end[1]
      order[n \in Nodes] == <<n>> \o (IF n \in Texts THEN << >> ELSE FlattenSeq([i \in DOMAIN k[n] |-> order[k[n][i]]]))
      all == order[RootOf(k, sc)]
      after == SubSeq(all, SelectInSeq(all, LAMBDA n : n = sc) + 1, Len(all))
      stop == SelectInSeq(after, LAMBDA n : n = ec \/ Position(k, <<n, 0>>) >= Position(k, r.end))
      between == SelectSeq(IF stop = 0 THEN after ELSE SubSeq(after, 1, stop - 1), LAMBDA n : n \in Texts /\ RangeContains(k, t, r, n))
  IN IF InOneText(r) THEN SubSeq(t[sc], r.start[2] + 1, r.end[2])
     ELSE (IF sc \in Texts THEN SubSeq(t[sc], r.start[2] + 1, Len(t[sc])) ELSE << >>)
          \o FlattenSeq([i \in DOMAIN between |-> t[between[i]]])
          \o (IF ec \in Texts /\ ec # sc THEN SubSeq(t[ec], 1, r.end[2]) ELSE << >>)

(* intersectsNode()                                                        *)
SameTree(n) == RootOf(kids, n) = RootOf(kids, range.start[1])
IntersectsNode(n) ==
  LET p == Parent(kids, n)
      i == IndexOfNode(kids, n)
  IN SameTree(n) /\ (p = None \/ (Before(kids, <<p, i>>, range.end) /\ Before(kids, range.start, <<p, i + 1>>)))

(* surroundContents(): n takes the place of the content and then holds it. *)
Partially(k, r, n) == Holds(k, n, r.start[1]) # Holds(k, n, r.end[1])
MaySurround(n) == ~\E x \in {range.start[1], range.end[1]} \ Texts : Partially(kids, range, x)
Emptied(w, n) == IF kids[n] = << >> THEN w ELSE RangesOnReplaceAll([w EXCEPT !.kids[n] = << >>], n, w.kids[n])
Around(e, n, new) == [e EXCEPT !.w = Inserted(Emptied(@, n), n, new)]
Surrounded(n, new) == Around(Extracted, n, new)

-----------------------------------------------------------------------------
(* The selection: a range of its own, and which end of it is the anchor.   *)
VARIABLES
  hasRange, backward,
  changeQueued,   \* a task will fire selectionchange
  reported,           \* what the page saw at the last one
  silently,       \* it has changed in a way that posts none since
  asked           \* the ends the last call asked for
selectionVars == <<hasRange, backward, changeQueued, reported, silently, asked>>

Ends == IF ~hasRange THEN None ELSE IF backward THEN <<range.end, range.start>> ELSE <<range.start, range.end>>
Points == UNION {{n} \X (0 .. NodeLength(kids, text, n)) : n \in Nodes \ (fresh \union {Frag})}
NewRange == Collapsed(<<Root, 0>>)
SelectionInit == Init /\ hasRange = FALSE /\ backward = FALSE /\ changeQueued = FALSE /\ reported = None /\ silently = FALSE /\ asked = None

Choose(r, back) == Sets(r) /\ hasRange' = TRUE /\ backward' = back
Changed == changeQueued' = TRUE /\ UNCHANGED <<reported, silently>>
(* bpCompare(): nodes of two trees are in the order of their making.       *)
IsForward(a, f) == ~Before(kids, f, a)
Selecting(a, f, back) ==
  Choose(WithEnd(WithStart(NewRange, IF back THEN f ELSE a), IF back THEN a ELSE f), back) /\ Changed
SetBaseAndExtent(a, f) == RootOf(kids, a[1]) = RootOf(kids, f[1]) /\ Selecting(a, f, ~IsForward(a, f)) /\ asked' = <<a, f>>
SetApart(a, f) == RootOf(kids, a[1]) # RootOf(kids, f[1]) /\ (\E back \in BOOLEAN : Selecting(a, f, back)) /\ asked' = None
Extend(f) == hasRange /\ (SetBaseAndExtent(Ends[1], f) \/ SetApart(Ends[1], f))
Collapse(bp) == Choose(Collapsed(bp), FALSE) /\ Changed /\ asked' = <<bp, bp>>
CollapseTo(bp) == hasRange /\ Choose(Collapsed(bp), backward) /\ Changed /\ asked' = <<bp, bp>>
SelectAllChildren(n) ==
  Choose([start |-> <<n, 0>>, end |-> <<n, NodeLength(kids, text, n)>>], FALSE) /\ Changed /\ asked' = <<<<n, 0>>, <<n, NodeLength(kids, text, n)>>>>
RemoveAllRanges == hasRange /\ Sets(range) /\ hasRange' = FALSE /\ Changed /\ UNCHANGED backward /\ asked' = None
AddRange(f) == ~hasRange /\ Choose(WithEnd(NewRange, f), FALSE) /\ Changed /\ asked' = None

(* The page takes the range and sets it, or changes the tree; nobody says  *)
(* that the selection has changed.  Nor does deleteFromDocument().         *)
Silently == silently' = TRUE /\ asked' = None /\ UNCHANGED <<hasRange, backward, changeQueued, reported>>
SelectNode(n) ==
  Parent(kids, n) # None /\ Sets([start |-> <<Parent(kids, n), IndexOfNode(kids, n)>>, end |-> <<Parent(kids, n), IndexOfNode(kids, n) + 1>>])
MovesRange == hasRange /\ ((\E bp \in Points : SetStart(bp) \/ SetEnd(bp)) \/ (\E n \in Nodes : RemoveChild(n) \/ SelectNode(n)) \/ DeleteContents) /\ Silently
SelectionChange ==
  /\ changeQueued /\ changeQueued' = FALSE /\ reported' = Ends /\ silently' = FALSE
  /\ UNCHANGED <<kids, text, range, mirror, fresh, selected, astray, steps, hasRange, backward, asked>>

SelectionNext ==
  \/ ~hasRange /\ steps = 0 /\ \E a, f \in Points : SetBaseAndExtent(a, f) \/ SetApart(a, f)
  \/ \E bp \in Points : AddRange(bp)
  \/ \E bp \in Points : Extend(bp) \/ Collapse(bp)
  \/ CollapseTo(range.start) \/ CollapseTo(range.end)
  \/ \E n \in Nodes \ fresh : SelectAllChildren(n)
  \/ RemoveAllRanges \/ MovesRange \/ SelectionChange

-----------------------------------------------------------------------------
(* A live range stays a range: both ends in one tree, in order, at offsets *)
(* that exist.  replaceChild() and append() of several nodes forget the    *)
(* ranges they disturb (astray).                                           *)
RangeValid ==
  ~astray => /\ \A bp \in {range.start, range.end} : bp[2] <= NodeLength(kids, text, bp[1])
             /\ SameRoot(kids, range) /\ Position(kids, range.start) <= Position(kids, range.end)

(* Through insertions, removals, splits, merges and changed texts it goes  *)
(* on selecting the characters it did, but for those that were deleted and *)
(* those that were themselves moved.                                       *)
RangeFollows == ~astray => selected = Selects(kids, text, range)

(* Whoever replays the records of a childList observer with subtree has    *)
(* the child list of every node below the root, and the neighbours that    *)
(* the records name are the ones of their time.                            *)
RecordsReplay == \A p \in Parents : Holds(kids, Root, p) => mirror[p] = kids[p]

(* deleteContents() takes from the tree what was selected, no more.        *)
DeletesSelection ==
  [][DeleteContents => LET root == RootOf(kids, range.start[1])
                       IN  Below(kids', text', root) = Below(kids, text, root) \ selected]_domVars

(* The content is, in the order of the tree, every node the range contains *)
(* or starts or ends in, with the characters it selects.                   *)
Touched(n) == RangeContains(kids, text, range, n) \/ Partially(kids, range, n)
RECURSIVE SelectedPart(_, _)
SelectedPart(n, chars) ==
  IF n \in Texts THEN <<<<"text", SelectSeq(text[n], LAMBDA c : c \in chars)>>>>
  ELSE Within(n, LET cs == SelectSeq(kids[n], Touched) IN FlattenSeq([i \in DOMAIN cs |-> SelectedPart(cs[i], chars)]))
ClonesSelected ==
  ~astray /\ range.start # range.end =>
    LET ca == Common(kids, range)
        cs == SelectSeq(kids[ca], Touched)
        chars == Selects(kids, text, range)
    IN Cloned.out = IF InOneText(range) THEN SelectedPart(ca, chars) ELSE FlattenSeq([i \in DOMAIN cs |-> SelectedPart(cs[i], chars)])

(* Extracting gives what cloning does, and leaves tree, texts and range as *)
(* deleting does.                                                          *)
ExtractsAndDeletes == ~astray => Extracted = [w |-> Deleted, out |-> Cloned.out]

(* The text of a range is that of its content; one that ends in an element *)
(* that does not hold its start leaves out what is selected there.         *)
TextOf(tokens) == FlattenSeq([i \in DOMAIN tokens |-> IF tokens[i][1] = "text" THEN tokens[i][2] ELSE << >>])
TextAsCloned ==
  ~astray /\ (range.end[1] \in Texts \/ Holds(kids, range.end[1], range.start[1])) => RangeText(kids, text, range) = TextOf(Cloned.out)

(* A node meets the range that holds an end of it or is contained in it.   *)
MeetsTouched ==
  \A n \in Nodes : IntersectsNode(n) <=> SameTree(n) /\ (Holds(kids, n, range.start[1]) \/ Holds(kids, n, range.end[1]) \/ RangeContains(kids, text, range, n))

(* A new element around the content changes no text and gets what was      *)
(* selected.                                                               *)
TextAround(all, at, out) == TextOf(SubSeq(all, 1, at) \o out \o SubSeq(all, at + 1, Len(all)))
TextKept(s, n, root) ==
  LET all == Tokens(s.w.kids, s.w.text, root)
  IN /\ TextAround(all, SelectInSeq(all, LAMBDA x : x = <<"<", n>>), s.out) = TextOf(Tokens(kids, text, root))
     /\ Range(TextOf(s.out)) = Selects(kids, text, range)
SurroundKeepsText ==
  \A n \in Elements, new \in fresh :
    ~astray /\ Parent(kids, n) = None /\ kids[n] = << >> /\ MaySurround(n) /\ n \notin {range.start[1], range.end[1]} /\ MayInsert(Extracted.w, n) =>
      TextKept(Surrounded(n, new), n, RootOf(kids, range.start[1]))

(* The selection goes from where a call anchored it to where it put its    *)
(* focus, whichever comes first in the tree.                               *)
AsAsked == asked # None => hasRange /\ Ends = asked

(* A page that looks at each selectionchange event knows the selection, but*)
(* for what changes of its range and of the tree have made of it.          *)
SelectionTold == ~changeQueued /\ ~silently => reported = Ends
=============================================================================
