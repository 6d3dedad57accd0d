------------------------------ MODULE NodeViews ------------------------------
(***************************************************************************)
(* The attributes of elements and the objects that stand for them: Attr    *)
(* nodes, which belong to an element or keep a value of their own; and the *)
(* token list of one attribute, which remembers what it parsed last        *)
(* (crates/script/js/20_dom.js).                                           *)
(***************************************************************************)
EXTENDS Naturals, Sequences, SequencesExt, FiniteSets, FiniteSetsExt

CONSTANTS
  AttrElements, Names,
  Listed,         \* the name of the attribute that has a token list
  Values,         \* what the page sets attributes to: sequences of tokens
  Tokens,
  MaxAttrs, MaxAttrOps,   \* bounds: Attr objects made, operations
  None

VARIABLES
  value,    \* of each attribute of each element, or None
  attrs,    \* the Attr objects
  nodeOf,   \* attrNodeCache: the Attr of an attribute that was asked for
  parsed,   \* #str and #tokens of the token list of each element
  forsaken, \* Attr objects whose attribute was taken away with removeAttribute()
  lastOp,   \* the list operation of the last step, if it was one
  attrOps

attrVars == <<value, attrs, nodeOf, parsed, forsaken, lastOp, attrOps>>

AttrInit ==
  /\ value = [e \in AttrElements |-> [n \in Names |-> None]]
  /\ attrs = << >>
  /\ nodeOf = [e \in AttrElements |-> [n \in Names |-> None]]
  /\ parsed = [e \in AttrElements |-> [str |-> None, tokens |-> << >>]]
  /\ forsaken = {} /\ lastOp = None /\ attrOps = 0

AttrDoes == attrOps < MaxAttrOps /\ attrOps' = attrOps + 1
Plain == AttrDoes /\ lastOp' = None /\ UNCHANGED parsed
Has(e, n) == value[e][n] # None
Exists(a) == a \in DOMAIN attrs
Room(detach) == Len(attrs) < MaxAttrs \/ ~detach
NewAttr(e, n, v) == [owner |-> e, name |-> n, stored |-> v]

-----------------------------------------------------------------------------
SetTo(e, n, v) == value' = [value EXCEPT ![e][n] = v]
SetAttribute(e, n, v) == Plain /\ SetTo(e, n, v) /\ UNCHANGED <<attrs, nodeOf, forsaken>>

(* removeAttribute(), toggleAttribute() and delete el.dataset.x tell the   *)
(* Attr object nothing.                                                    *)
RemoveAttribute(e, n) ==
  /\ Plain /\ Has(e, n)
  /\ SetTo(e, n, None)
  /\ forsaken' = forsaken \union {a \in DOMAIN attrs : attrs[a].owner = e /\ attrs[a].name = n}
  /\ UNCHANGED <<attrs, nodeOf>>
ToggleAttribute(e, n) == IF Has(e, n) THEN RemoveAttribute(e, n) ELSE SetAttribute(e, n, << >>)

(* attrNode(): getAttributeNode(), attributes[i] and getNamedItem().       *)
\* mutant of AttrNode
AttrNodeAlways(e, n) ==
  /\ Plain /\ Has(e, n)
  /\ Len(attrs) < MaxAttrs
  /\ attrs' = Append(attrs, NewAttr(e, n, << >>))
  /\ nodeOf' = [nodeOf EXCEPT ![e][n] = Len(attrs')]
  /\ UNCHANGED <<value, forsaken>>
AttrNode(e, n) ==
  /\ Plain /\ Has(e, n)
  /\ IF nodeOf[e][n] = None THEN TRUE ELSE attrs[nodeOf[e][n]].owner # e
  /\ Len(attrs) < MaxAttrs
  /\ attrs' = Append(attrs, NewAttr(e, n, << >>))
  /\ nodeOf' = [nodeOf EXCEPT ![e][n] = Len(attrs')]
  /\ UNCHANGED <<value, forsaken>>

CreateAttribute(n, v) ==
  /\ Plain /\ Len(attrs) < MaxAttrs
  /\ attrs' = Append(attrs, NewAttr(None, n, v))
  /\ UNCHANGED <<value, nodeOf, forsaken>>

SetAttrValue(a, v) ==
  /\ Plain /\ Exists(a)
  /\ attrs' = [attrs EXCEPT ![a].stored = v]
  /\ IF attrs[a].owner = None THEN UNCHANGED value ELSE SetTo(attrs[a].owner, attrs[a].name, v)
  /\ UNCHANGED <<nodeOf, forsaken>>

(* detachAttr(): the object of the attribute, or a new one.                *)
\* mutant of Detached
DetachedEmpty(e, n, v) ==
  IF nodeOf[e][n] = None THEN Append(attrs, NewAttr(None, n, v)) ELSE [attrs EXCEPT ![nodeOf[e][n]].owner = None]
Detached(e, n, v) ==
  IF nodeOf[e][n] = None THEN Append(attrs, NewAttr(None, n, v))
  ELSE [attrs EXCEPT ![nodeOf[e][n]] = [@ EXCEPT !.owner = None, !.stored = v]]

SetAttributeNode(e, a) ==
  LET n == attrs[a].name IN
  /\ Plain /\ Exists(a) /\ attrs[a].owner = None
  /\ Room(Has(e, n) /\ nodeOf[e][n] = None)
  /\ SetTo(e, n, attrs[a].stored)
  /\ attrs' = [(IF Has(e, n) THEN Detached(e, n, value[e][n]) ELSE attrs) EXCEPT ![a].owner = e]
  /\ nodeOf' = [nodeOf EXCEPT ![e][n] = a]
  /\ UNCHANGED forsaken

(* removeAttributeNode(): what is detached is the object of the attribute. *)
RemoveAttributeNode(a) ==
  LET e == attrs[a].owner
      n == attrs[a].name
      v == IF Has(e, n) THEN value[e][n] ELSE << >>
  IN  /\ Plain /\ Exists(a) /\ attrs[a].owner # None
      /\ Room(nodeOf[e][n] = None)
      /\ SetTo(e, n, None)
      /\ attrs' = Detached(e, n, v)
      /\ nodeOf' = [nodeOf EXCEPT ![e][n] = None]
      /\ UNCHANGED forsaken
RemoveNamedItem(e, n) ==
  /\ Plain /\ Has(e, n)
  /\ Room(nodeOf[e][n] = None)
  /\ SetTo(e, n, None)
  /\ attrs' = Detached(e, n, value[e][n])
  /\ nodeOf' = [nodeOf EXCEPT ![e][n] = None]
  /\ UNCHANGED forsaken

-----------------------------------------------------------------------------
(* DOMTokenList.  Tokens are parsed again when the attribute has changed.  *)
Once(tokens) == FoldLeft(LAMBDA seen, t : IF Contains(seen, t) THEN seen ELSE Append(seen, t), << >>, tokens)
Parsed(e) ==
  LET str == IF Has(e, Listed) THEN value[e][Listed] ELSE << >>
  IN  IF str = parsed[e].str THEN parsed[e] ELSE [str |-> str, tokens |-> Once(str)]

(* dtlUpdate(): an absent attribute is not made for an empty list.         *)
Update(e, list) == IF list = << >> /\ ~Has(e, Listed) THEN UNCHANGED value ELSE SetTo(e, Listed, list)

Without(list, set) == SelectSeq(list, LAMBDA t : t \notin set)
Added(list, new) == Once(list \o new)
Replaced(list, t, new) == Once([i \in DOMAIN list |-> IF list[i] = t THEN new ELSE list[i]])

ListOp(e, op, list, changes) ==
  /\ AttrDoes /\ lastOp' = [on |-> e, op |-> op, saw |-> list]
  /\ parsed' = [parsed EXCEPT ![e] = Parsed(e)]
  /\ IF changes # None THEN Update(e, changes) ELSE UNCHANGED value
  /\ UNCHANGED <<attrs, nodeOf, forsaken>>
TokenList(e) ==
  \E list \in {Parsed(e).tokens} :
    \/ ListOp(e, "read", list, None)
    \/ \E t, u \in Tokens :
         \/ ListOp(e, "add", list, Added(list, <<t, u>>))
         \/ ListOp(e, "remove", list, Without(list, {t, u}))
         \/ ListOp(e, "toggle", list, IF Contains(list, t) THEN Without(list, {t}) ELSE Append(list, t))
         \/ t # u /\ ListOp(e, "replace", list, IF Contains(list, t) THEN Replaced(list, t, u) ELSE None)

(* element.dataset sets and removes attributes as the methods do;          *)
(* element.attributes gives the Attr objects out and detaches them.        *)
Dataset(e, n) == RemoveAttribute(e, n) \/ \E v \in Values : SetAttribute(e, n, v)
NamedNodeMap(e, n) == AttrNode(e, n) \/ RemoveNamedItem(e, n)

AttrNext ==
  \/ \E e \in AttrElements, n \in Names : Dataset(e, n) \/ ToggleAttribute(e, n) \/ NamedNodeMap(e, n)
  \/ \E n \in Names, v \in Values : CreateAttribute(n, v)
  \/ \E a \in 1..MaxAttrs : RemoveAttributeNode(a) \/ (\E v \in Values : SetAttrValue(a, v)) \/ \E e \in AttrElements : SetAttributeNode(e, a)
  \/ \E e \in AttrElements : TokenList(e)
AttrSpec == AttrInit /\ [][AttrNext]_attrVars

-----------------------------------------------------------------------------
(* An attribute has one Attr object, and the one that belongs to it is the *)
(* one the page gets: except those whose attribute went with               *)
(* removeAttribute(), which still call the element their owner.            *)
OneObject ==
  /\ \A a, b \in DOMAIN attrs \ forsaken :
       attrs[a].owner # None /\ attrs[a].owner = attrs[b].owner /\ attrs[a].name = attrs[b].name => a = b
  /\ \A a \in DOMAIN attrs \ forsaken :
       attrs[a].owner # None => Has(attrs[a].owner, attrs[a].name) /\ nodeOf[attrs[a].owner][attrs[a].name] = a
  /\ \A e \in AttrElements, n \in Names : nodeOf[e][n] # None => attrs[nodeOf[e][n]].owner = e

(* The object that leaves its element takes the value along.               *)
LeavesWithValue ==
  [][\A a \in DOMAIN attrs : attrs[a].owner # None /\ attrs'[a].owner = None /\ Has(attrs[a].owner, attrs[a].name)
       => attrs'[a].stored = value[attrs[a].owner][attrs[a].name]]_attrVars

(* Whoever changed the attribute meanwhile, a token list works on what it  *)
(* is now: it sees each of its tokens once; and what it writes is a list   *)
(* without repetition, which makes no empty attribute.                     *)
ListsFollow ==
  [][lastOp' # None /\ attrOps' # attrOps =>
       LET old == value[lastOp'.on][Listed]
           new == value'[lastOp'.on][Listed]
       IN  /\ IsInjective(lastOp'.saw) /\ Range(lastOp'.saw) = (IF old = None THEN {} ELSE Range(old))
           /\ new # old => IsInjective(new) /\ (old = None => new # << >>)]_attrVars

-----------------------------------------------------------------------------
(***************************************************************************)
(* Live collections and what else is remembered of the tree                *)
(* (crates/script/js/20_dom.js, 25_xpath.js).  Three counters tell when    *)
(* the memory is stale: one of child lists, one of attributes, and one of  *)
(* changes whose parents are not known; a list of the children of a node   *)
(* asks for the version of that node only.                                 *)
(***************************************************************************)

CONSTANTS
  Root, TreeElements, Texts, Frag,   \* the nodes of the tree
  Fresh,                         \* the child a parsed fragment has
  Shape,                         \* the tree at the start
  MaxTreeOps

VARIABLES
  treeKids,   \* the children of every node
  named,      \* elements with the attribute the queries ask for
  tree, attr, untracked, childVer,
  watched,    \* the collection the page holds
  memory,     \* what it remembers: ids, and its epoch and pv
  treeOps

cacheVars == <<treeKids, named, tree, attr, untracked, childVer, watched, memory, treeOps>>
counters == <<tree, attr, untracked, childVer>>

Parents == {Root, Frag} \union TreeElements
Nodes == Parents \union Texts
Collections == {<<"childNodes", Root>>, <<"children", Root>>, <<"childNodes", Frag>>, <<"query", Root>>, <<"body", Root>>, <<"xpath", Root>>}
           \union {<<"children", e>> : e \in TreeElements}
ParentOf(n) == LET in == {p \in Parents : n \in Range(treeKids[p])} IN IF in = {} THEN None ELSE CHOOSE p \in in : TRUE
OfElements(list) == SelectSeq(list, LAMBDA n : n \in TreeElements)
(* Two levels are enough here.                                             *)
InOrder(kids) == FlattenSeq([i \in DOMAIN kids[Root] |->
                   <<kids[Root][i]>> \o (IF kids[Root][i] \in Parents THEN kids[kids[Root][i]] ELSE << >>)])

Empty == [ids |-> None, epoch |-> <<0, 0>>]
TreeInit ==
  /\ treeKids = Shape /\ named = {}
  /\ tree = 1 /\ attr = 1 /\ untracked = 1 /\ childVer = [p \in Parents |-> 0]
  /\ watched \in Collections /\ memory = Empty /\ treeOps = 0

-----------------------------------------------------------------------------
(* What a collection is, and when what it remembers is still good.  A pair *)
(* of counters stands for tree * 1048576 + attr: as both only grow, two    *)
(* pairs of one sum are the same.                                          *)
Truth(c) ==
  CASE c[1] = "childNodes" -> treeKids[c[2]]
    [] c[1] = "children" -> OfElements(treeKids[c[2]])
    [] c[1] = "query" -> SelectSeq(OfElements(InOrder(treeKids)), LAMBDA n : n \in named)
    [] c[1] = "xpath" -> <<treeKids, named>>
    [] c[1] = "body" -> IF OfElements(treeKids[Root]) = << >> THEN << >> ELSE <<OfElements(treeKids[Root])[1]>>
\* mutant of Epoch
EpochOfParent(c) ==
  CASE c[1] \in {"childNodes", "children"} -> <<1, childVer[c[2]]>>
    [] c[1] \in {"query", "xpath"} -> <<tree, attr>>
    [] c[1] = "body" -> <<tree, 0>>
Epoch(c) ==
  CASE c[1] \in {"childNodes", "children"} -> <<untracked, childVer[c[2]]>>
    [] c[1] \in {"query", "xpath"} -> <<tree, attr>>
    [] c[1] = "body" -> <<tree, 0>>
Valid == memory.ids # None /\ memory.epoch = Epoch(watched)
Read ==
  /\ ~Valid
  /\ memory' = [ids |-> Truth(watched), epoch |-> Epoch(watched)]
  /\ UNCHANGED <<treeKids, named, counters, watched, treeOps>>

-----------------------------------------------------------------------------
TreeDoes == treeOps < MaxTreeOps /\ treeOps' = treeOps + 1 /\ UNCHANGED <<watched, memory>>
ChildListChanged(parent, other) ==
  /\ tree' = tree + 1
  /\ childVer' = [p \in Parents |-> IF p \in {parent, other} THEN tree + 1 ELSE childVer[p]]
  /\ UNCHANGED <<attr, untracked>>
TreeChanged(times) == tree' = tree + times /\ untracked' = untracked + 1
BumpAll == TreeChanged(1) /\ attr' = attr + 1 /\ UNCHANGED childVer

Out(kids, gone) == [p \in Parents |-> SelectSeq(kids[p], LAMBDA n : n \notin gone)]
Into(kids, p, at, list) == [kids EXCEPT ![p] = SubSeq(@, 1, at) \o list \o SubSeq(@, at + 1, Len(@))]
MayHold(p, n) == n \notin {p, Root, Frag} /\ ~(n \in Parents /\ p \in Range(treeKids[n])) /\ (n \in TreeElements => p \in {Root, Frag})

(* insertCore() and removeCore(): the parents are known.                   *)
InsertCore(p, n, at) ==
  /\ TreeDoes /\ MayHold(p, n)
  /\ at \in 0..Len(Out(treeKids, {n})[p])
  /\ treeKids' = Into(Out(treeKids, {n}), p, at, <<n>>)
  /\ ChildListChanged(p, ParentOf(n))
  /\ UNCHANGED named
InsertFragment(p, at) ==
  /\ TreeDoes /\ p # Frag /\ treeKids[Frag] # << >> /\ (\A n \in Range(treeKids[Frag]) : MayHold(p, n)) /\ at \in 0..Len(treeKids[p])
  /\ treeKids' = Into([treeKids EXCEPT ![Frag] = << >>], p, at, treeKids[Frag])
  /\ ChildListChanged(p, Frag)
  /\ UNCHANGED named
RemoveCore(n) ==
  /\ TreeDoes /\ ParentOf(n) # None
  /\ treeKids' = Out(treeKids, {n})
  /\ ChildListChanged(ParentOf(n), None)
  /\ UNCHANGED named

(* convertNodes() moves its nodes by itself, into a fragment of its own.   *)
AppendTwo(p, n, m) ==
  /\ TreeDoes /\ n # m /\ MayHold(p, n) /\ MayHold(p, m)
  /\ treeKids' = Into(Out(treeKids, {n, m}), p, Len(Out(treeKids, {n, m})[p]), <<n, m>>)
  /\ TreeChanged(2) /\ childVer' = [childVer EXCEPT ![p] = tree + 2] /\ UNCHANGED attr
  /\ UNCHANGED named

(* replaceAllCore(): what was parsed is new, a node that is passed may     *)
(* have come from elsewhere.                                               *)
SetInnerHTML(p) ==
  /\ TreeDoes /\ p # Frag /\ ParentOf(Fresh) = None
  /\ treeKids' = [treeKids EXCEPT ![p] = <<Fresh>>]
  /\ ChildListChanged(p, None)
  /\ UNCHANGED named
ReplaceChildren(p, n) ==
  /\ TreeDoes /\ MayHold(p, n)
  /\ treeKids' = [Out(treeKids, {n}) EXCEPT ![p] = <<n>>]
  /\ TreeChanged(2) /\ childVer' = [childVer EXCEPT ![p] = tree + 2] /\ UNCHANGED attr
  /\ UNCHANGED named
ReplaceChild(p, n, old) ==
  /\ TreeDoes /\ MayHold(p, n) /\ ParentOf(old) = p /\ n # old
  /\ LET list == [i \in DOMAIN treeKids[p] |-> IF treeKids[p][i] = old THEN n ELSE treeKids[p][i]]
         once == [i \in DOMAIN treeKids[p] |-> treeKids[p][i] = old \/ treeKids[p][i] # n]
     IN  treeKids' = [Out(treeKids, {n}) EXCEPT ![p] =
                       FlattenSeq([i \in DOMAIN list |-> IF once[i] THEN <<list[i]>> ELSE << >>])]
  /\ ChildListChanged(p, ParentOf(n))
  /\ UNCHANGED named

SetAttr(e) ==
  /\ TreeDoes
  /\ named' = (named \union {e}) \ (named \intersect {e})
  /\ attr' = attr + 1 /\ UNCHANGED <<treeKids, tree, untracked, childVer>>

(* The engine changes the tree between tasks, and every task begins with   *)
(* bumpAll().                                                              *)
Task(n) ==
  /\ TreeDoes /\ BumpAll
  /\ \/ MayHold(Root, n) /\ treeKids' = Into(Out(treeKids, {n}), Root, Len(Out(treeKids, {n})[Root]), <<n>>)
     \/ UNCHANGED treeKids
  /\ UNCHANGED named

TreeNext ==
  \/ Read
  \/ \E n \in Nodes : RemoveCore(n) \/ Task(n)
  \/ \E e \in TreeElements : SetAttr(e)
  \/ \E p \in Parents : SetInnerHTML(p) \/ \E at \in 0..1 : InsertFragment(p, at) \/ \E n \in Nodes : InsertCore(p, n, at)
  \/ \E p \in Parents, n, m \in Nodes : AppendTwo(p, n, m) \/ ReplaceChild(p, n, m) \/ (n = m /\ ReplaceChildren(p, n))
TreeSpec == TreeInit /\ [][TreeNext]_cacheVars

-----------------------------------------------------------------------------
(* What a collection would answer without looking again is the truth,      *)
(* whatever has been moved meanwhile, from wherever; and an XPath iterator *)
(* that does not call itself invalid walks the tree it was made for.       *)
CollectionsLive == Valid => memory.ids = Truth(watched)
=============================================================================
