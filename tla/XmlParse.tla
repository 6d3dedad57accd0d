------------------------------ MODULE XmlParse ------------------------------
(***************************************************************************)
(* The XML parser and serializer of crates/script/js/20_dom.js: one pass   *)
(* over the pieces of a text with a stack of open elements and of the      *)
(* namespaces in scope, and the way back.  A piece is a tag, a run of      *)
(* text, a comment and so on; the namespace "none" is null.                *)
(***************************************************************************)
EXTENDS Integers, Sequences, SequencesExt, FiniteSetsExt

CONSTANTS
  Tags,        \* start tags: [prefix, decls, empty]; decls maps prefixes ("" for xmlns) to namespaces
  Kinds,       \* other pieces: text, blank, cdata, comment, pi, doctype, malformed
  MaxPieces

VARIABLE
  pieces       \* the text

Piece(kind) == [kind |-> kind, prefix |-> "", decls |-> [p \in {} |-> ""]]
Start(tag) == [kind |-> IF tag.empty THEN "empty" ELSE "start", prefix |-> tag.prefix, decls |-> tag.decls]
End(prefix) == [Piece("end") EXCEPT !.prefix = prefix]
Known == {tag.prefix : tag \in Tags}

-----------------------------------------------------------------------------
(* parseXML(): `stack` holds what is open, the fragment first; a node has  *)
(* its parent (0 is the fragment), its prefix and its namespace.           *)
Root == [node |-> 0, prefix |-> "#", ns |-> [p \in {""} |-> "none"]]
Begin == [stack |-> <<Root>>, nodes |-> << >>, sawRoot |-> FALSE, error |-> FALSE]
AtTop(a) == Len(a.stack) = 1
Fails(a) == [a EXCEPT !.error = TRUE]
Appended(a, piece, ns) ==
  [a EXCEPT !.nodes = Append(@, [kind |-> piece.kind, parent |-> Last(a.stack).node, prefix |-> piece.prefix, ns |-> ns, decls |-> piece.decls])]
Scope(a, decls) ==
  LET ns == Last(a.stack).ns
  IN [p \in DOMAIN ns \union DOMAIN decls |-> IF p \in DOMAIN decls THEN decls[p] ELSE ns[p]]
Opened(a, piece) ==
  LET scope == Scope(a, piece.decls)
      named == [piece EXCEPT !.kind = "element"]
      with == [Appended(a, named, scope[piece.prefix]) EXCEPT !.sawRoot = TRUE]
  IN IF piece.kind = "empty" THEN with
     ELSE [with EXCEPT !.stack = Append(@, [node |-> Len(with.nodes), prefix |-> piece.prefix, ns |-> scope])]
\* mutant of Closes
ClosesAny(a, piece) == ~AtTop(a)
Closes(a, piece) == ~AtTop(a) /\ Last(a.stack).prefix = piece.prefix
Popped(a) == [a EXCEPT !.stack = Front(@)]
Take(a, piece) ==
  CASE a.error -> a
    [] piece.kind = "malformed" -> Fails(a)
    [] piece.kind \in {"pi", "doctype"} -> a
    [] piece.kind = "comment" -> Appended(a, piece, "none")
    [] piece.kind = "cdata" -> IF AtTop(a) THEN Fails(a) ELSE Appended(a, piece, "none")
    [] piece.kind \in {"text", "blank"} -> IF ~AtTop(a) THEN Appended(a, piece, "none") ELSE IF piece.kind = "text" THEN Fails(a) ELSE a
    [] piece.kind = "end" -> IF Closes(a, piece) THEN Popped(a) ELSE Fails(a)
    [] piece.kind \in {"start", "empty"} ->
         IF (AtTop(a) /\ a.sawRoot) \/ piece.prefix \notin DOMAIN Scope(a, piece.decls) THEN Fails(a) ELSE Opened(a, piece)
Read(ps) == FoldLeft(Take, Begin, ps)
Finished(a) == IF AtTop(a) /\ a.sawRoot THEN a ELSE Fails(a)
Parsed(ps) == Finished(Read(ps))

-----------------------------------------------------------------------------
(* xmlSerialize(): of a node, with the default namespace it inherits.      *)
KidsOf(nodes, n) == SelectSeq([i \in DOMAIN nodes |-> i], LAMBDA i : nodes[i].parent = n)
Declares(node, inherited) == node.ns # inherited /\ node.prefix = "" /\ "" \notin DOMAIN node.decls
RECURSIVE Serialized(_, _, _)
Serialized(nodes, n, inherited) ==
  LET node == nodes[n]
      kids == KidsOf(nodes, n)
      declared == IF node.ns # inherited /\ node.prefix = "" THEN node.ns ELSE inherited
      decls == IF Declares(node, inherited)
               THEN [p \in DOMAIN node.decls \union {""} |-> IF p = "" THEN node.ns ELSE node.decls[p]] ELSE node.decls
      tag(kind) == [kind |-> kind, prefix |-> node.prefix, decls |-> decls]
  IN CASE node.kind # "element" -> <<Piece(node.kind)>>
       [] node.kind = "element" /\ kids = << >> -> <<tag("empty")>>
       [] OTHER -> FoldLeft(LAMBDA out, k : out \o Serialized(nodes, k, declared), <<tag("start")>>, kids) \o <<End(node.prefix)>>

-----------------------------------------------------------------------------
(* The text grows by a piece at a time while that can still be XML; two    *)
(* runs of text are one.                                                   *)
Init == pieces = << >>
Runs == {"text", "blank"}
Write(piece) ==
  /\ Len(pieces) < MaxPieces /\ ~Read(pieces).error
  /\ pieces # << >> /\ piece.kind \in Runs => Last(pieces).kind \notin Runs
  /\ pieces' = Append(pieces, piece)
Next ==
  \/ \E kind \in Kinds : Write(Piece(kind))
  \/ \E tag \in Tags : Write(Start(tag))
  \/ \E prefix \in Known : Write(End(prefix))
Spec == Init /\ [][Next]_pieces

-----------------------------------------------------------------------------
(* What XML is, without a stack: how deep each piece is, which start tags  *)
(* enclose it, and the nearest one that declares its prefix.               *)
Depth(ps, i) == Cardinality({k \in 1 .. i : ps[k].kind = "start"}) - Cardinality({k \in 1 .. i : ps[k].kind = "end"})
Encloses(ps, j, i) == j < i /\ ps[j].kind = "start" /\ \A k \in j .. i - 1 : Depth(ps, k) >= Depth(ps, j)
Near(ps, i) == LET e == {j \in 1 .. i - 1 : Encloses(ps, j, i)} IN IF e = {} THEN 0 ELSE Max(e)
Declared(ps, i, p) == {j \in 1 .. i : (j = i \/ Encloses(ps, j, i)) /\ p \in DOMAIN ps[j].decls}
IsTag(piece) == piece.kind \in {"start", "empty"}
Namespace(ps, i) == LET d == Declared(ps, i, ps[i].prefix) IN IF d = {} THEN "none" ELSE ps[Max(d)].decls[ps[i].prefix]
WellFormed(ps) ==
  /\ Cardinality({i \in DOMAIN ps : IsTag(ps[i]) /\ Near(ps, i) = 0}) = 1
  /\ Depth(ps, Len(ps)) = 0
  /\ \A i \in DOMAIN ps :
       /\ ps[i].kind # "malformed"
       /\ ps[i].kind = "end" => Near(ps, i) # 0 /\ ps[Near(ps, i)].prefix = ps[i].prefix
       /\ ps[i].kind \in {"text", "cdata"} => Near(ps, i) # 0
       /\ IsTag(ps[i]) => ps[i].prefix = "" \/ Declared(ps, i, ps[i].prefix) # {}

ReadRight(a, tags, elements) ==
  /\ a.error <=> ~WellFormed(pieces)
  /\ ~a.error => /\ Len(tags) = Len(elements)
                 /\ \A i \in DOMAIN tags :
                      LET node == a.nodes[elements[i]]
                          parents == {k \in DOMAIN tags : tags[k] = Near(pieces, tags[i])}
                      IN node.ns = Namespace(pieces, tags[i]) /\ node.parent = (IF parents = {} THEN 0 ELSE elements[Max(parents)])
(* The parser takes what is well formed, and every element has the         *)
(* namespace of the nearest declaration and the parent that encloses it.   *)
ParsesXml ==
  LET a == Parsed(pieces)
  IN ReadRight(a, SelectSeq([i \in DOMAIN pieces |-> i], LAMBDA i : IsTag(pieces[i])),
               SelectSeq([i \in DOMAIN a.nodes |-> i], LAMBDA i : a.nodes[i].kind = "element"))

Below(nodes, n, i) == LET up[k \in 0 .. Len(nodes)] == k = n \/ (k > n /\ up[nodes[k].parent]) IN up[i]
Within(nodes, n) == SelectSeq([i \in DOMAIN nodes |-> i], LAMBDA i : i >= n /\ Below(nodes, n, i))
OwnPrefixes(nodes, n) ==
  \A i \in Range(Within(nodes, n)) :
    nodes[i].prefix = "" \/ \E j \in Range(Within(nodes, n)) : Below(nodes, j, i) /\ nodes[i].prefix \in DOMAIN nodes[j].decls
SameAgain(nodes, within, again) ==
  /\ ~again.error /\ Len(again.nodes) = Len(within)
  /\ \A i \in DOMAIN within : \A f \in {"kind", "prefix", "ns"} : again.nodes[i][f] = nodes[within[i]][f]
ReadBack(nodes) ==
  \A n \in DOMAIN nodes : nodes[n].kind = "element" /\ OwnPrefixes(nodes, n) =>
    SameAgain(nodes, Within(nodes, n), Parsed(Serialized(nodes, n, "none")))
(* An element that is serialized and parsed again is as it was, if the     *)
(* prefixes used in it are declared in it (xmlSerialize).                  *)
SerializesBack == LET a == Parsed(pieces) IN ~a.error => ReadBack(a.nodes)
=============================================================================
