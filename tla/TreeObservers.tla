---------------------------- MODULE TreeObservers ----------------------------
(***************************************************************************)
(* TreeWalker and NodeIterator (crates/script/js/20_dom.js): loops over    *)
(* the links of a tree, with a filter that accepts a node, skips it or     *)
(* rejects it and all below it.  Each walk is compared with what it should *)
(* find, said in terms of document order and ancestors.                    *)
(***************************************************************************)
EXTENDS Naturals, Sequences, SequencesExt, FiniteSets

CONSTANTS
  WalkNodes,
  Top, Root,   \* of the tree; of the traversal
  Shapes,      \* trees: node -> its children
  None

VARIABLES
  walked, verdict,   \* the tree, and what the filter says of a node
  walker,          \* a TreeWalker, else a NodeIterator
  cur, before,     \* currentNode or referenceNode; pointerBeforeReferenceNode
  last             \* the walk that ended: what was called, from where, and what it returned

walkVars == <<walked, verdict, walker, cur, before, last>>

-----------------------------------------------------------------------------
(* Links of the tree (N.parent, N.firstChild and their like).              *)
Parent(n) == LET up == {p \in WalkNodes : n \in ToSet(walked[p])} IN IF up = {} THEN None ELSE CHOOSE p \in up : TRUE
First(n) == IF walked[n] = << >> THEN None ELSE Head(walked[n])
LastKid(n) == IF walked[n] = << >> THEN None ELSE walked[n][Len(walked[n])]
Place(n) == CHOOSE i \in DOMAIN walked[Parent(n)] : walked[Parent(n)][i] = n
NextSib(n) == IF Parent(n) = None \/ Place(n) = Len(walked[Parent(n)]) THEN None ELSE walked[Parent(n)][Place(n) + 1]
PrevSib(n) == IF Parent(n) = None \/ Place(n) = 1 THEN None ELSE walked[Parent(n)][Place(n) - 1]
End(n, first) == IF first THEN First(n) ELSE LastKid(n)
Sibling(n, next) == IF next THEN NextSib(n) ELSE PrevSib(n)

Accepts(n) == verdict[n] = "accept"

(* TreeWalker.parentNode().                                                *)
RECURSIVE ParentNode(_)
ParentNode(n) ==
  IF n \in {None, Root} THEN None
  ELSE LET p == Parent(n) IN IF p # None /\ Accepts(p) THEN p ELSE ParentNode(p)

(* #children(): down through nodes that are skipped, then across and up.   *)
\* mutant of StopsAt
StopsAtRoot == {None, Root}
StopsAt == {None, Root, cur}
RECURSIVE Kid(_, _), Across(_, _)
Kid(n, first) ==
  IF n = None THEN None
  ELSE IF Accepts(n) THEN n
  ELSE IF verdict[n] = "skip" /\ End(n, first) # None THEN Kid(End(n, first), first)
  ELSE Across(n, first)
Across(n, first) ==
  IF Sibling(n, first) # None THEN Kid(Sibling(n, first), first)
  ELSE IF Parent(n) \in StopsAt THEN None
  ELSE Across(Parent(n), first)
Children(first) == Kid(End(cur, first), first)

(* #siblings(): an ancestor that is skipped passes its siblings on.        *)
RECURSIVE Along(_, _, _)
Along(n, sib, next) ==
  IF sib # None
  THEN IF Accepts(sib) THEN sib
       ELSE LET down == End(sib, next)
            IN  Along(sib, IF verdict[sib] = "reject" \/ down = None THEN Sibling(sib, next) ELSE down, next)
  ELSE LET p == Parent(n)
       IN  IF p \in {None, Root} THEN None
           ELSE IF Accepts(p) THEN None
           ELSE Along(p, Sibling(p, next), next)
Siblings(next) == IF cur = Root THEN None ELSE Along(cur, Sibling(cur, next), next)

(* nextNode().                                                             *)
RECURSIVE Climb(_)
Climb(n) ==
  IF n \in {None, Root} THEN None ELSE IF NextSib(n) # None THEN NextSib(n) ELSE Climb(Parent(n))
RECURSIVE Descend(_, _)
Descend(n, r) ==
  LET to == IF r # "reject" /\ First(n) # None THEN First(n) ELSE Climb(n)
  IN  IF to = None THEN None ELSE IF Accepts(to) THEN to ELSE Descend(to, verdict[to])
NextNode == Descend(cur, "accept")

(* previousNode().                                                         *)
RECURSIVE Deep(_)
Deep(n) == IF verdict[n] = "reject" \/ LastKid(n) = None THEN n ELSE Deep(LastKid(n))
RECURSIVE Back(_)
Back(n) ==
  IF PrevSib(n) # None
  THEN LET d == Deep(PrevSib(n)) IN IF Accepts(d) THEN d ELSE Back(d)
  ELSE IF n = Root \/ Parent(n) = None THEN None
  ELSE IF Accepts(Parent(n)) THEN Parent(n)
  ELSE IF Parent(n) = Root THEN None ELSE Back(Parent(n))
PreviousNode == IF cur = Root THEN None ELSE Back(cur)

-----------------------------------------------------------------------------
(* NodeIterator, for which a node that is rejected is one that is skipped. *)
RECURSIVE AfterAll(_)
AfterAll(n) == IF n \in {None, Root} THEN None ELSE IF NextSib(n) # None THEN NextSib(n) ELSE AfterAll(Parent(n))
FollowingInRoot(n) == IF First(n) # None THEN First(n) ELSE AfterAll(n)
RECURSIVE LastBelow(_)
LastBelow(n) == IF LastKid(n) = None THEN n ELSE LastBelow(LastKid(n))
PrecedingInRoot(n) ==
  IF n = Root THEN None ELSE IF PrevSib(n) # None THEN LastBelow(PrevSib(n)) ELSE Parent(n)
(* #traverse(): to the other side of the reference node first, if the      *)
(* pointer is on the far side of it.                                       *)
Stays(side, next) == side = next
RECURSIVE Traverse(_, _, _)
Traverse(n, side, next) ==
  LET to == IF Stays(side, next) THEN n ELSE IF next THEN FollowingInRoot(n) ELSE PrecedingInRoot(n)
  IN  IF to = None \/ Accepts(to) THEN to ELSE Traverse(to, ~next, next)

-----------------------------------------------------------------------------
RECURSIVE Below(_)
Below(n) == {n} \union UNION {Below(k) : k \in ToSet(walked[n])}
Nothing == [call |-> "none", from |-> None, side |-> TRUE, node |-> None]

WalkInit ==
  /\ walked \in Shapes
  /\ verdict \in {v \in [WalkNodes -> {"accept", "skip", "reject"}] : \A n \in WalkNodes \ Below(Root) : v[n] = "accept"}
  /\ walker \in BOOLEAN /\ cur = Root /\ before = TRUE /\ last = Nothing

Found(call, node) ==
  /\ last' = [call |-> call, from |-> cur, side |-> before, node |-> node]
  /\ cur' = IF node = None THEN cur ELSE node
  /\ UNCHANGED <<walked, verdict, walker>>
Walk(call, node) == walker /\ Found(call, node) /\ UNCHANGED before
SetCurrentNode(n) == walker /\ cur' = n /\ last' = Nothing /\ UNCHANGED <<walked, verdict, walker, before>>
Iterate(call, next) ==
  LET node == Traverse(cur, before, next)
  IN  ~walker /\ Found(call, node) /\ before' = IF node = None THEN before ELSE ~next

WalkNext ==
  \/ Walk("parentNode", ParentNode(cur))
  \/ Walk("firstChild", Children(TRUE))
  \/ Walk("lastChild", Children(FALSE))
  \/ Walk("nextSibling", Siblings(TRUE))
  \/ Walk("previousSibling", Siblings(FALSE))
  \/ Walk("nextNode", NextNode)
  \/ Walk("previousNode", PreviousNode)
  \/ \E n \in Below(Root) : SetCurrentNode(n)
  \/ Iterate("next", TRUE)
  \/ Iterate("previous", FALSE)
WalkSpec == WalkInit /\ [][WalkNext]_walkVars

-----------------------------------------------------------------------------
(* What each walk should find.                                             *)
RECURSIVE Preorder(_)
Preorder(n) == <<n>> \o FlattenSeq([i \in DOMAIN walked[n] |-> Preorder(walked[n][i])])
Index(n) == CHOOSE i \in 1..Len(Preorder(Root)) : Preorder(Root)[i] = n
AboveOf(n) == {a \in Below(Root) : n \in Below(a) /\ a # n}
FirstOf(s) == IF s = {} THEN None ELSE CHOOSE n \in s : \A m \in s : Index(n) <= Index(m)
LastOf(s) == IF s = {} THEN None ELSE CHOOSE n \in s : \A m \in s : Index(n) >= Index(m)

(* Nodes that are accepted, below "at" by way of nodes that are skipped;   *)
(* the ancestors of the node a walk comes from are passed whatever they are*)
Shown(at, from) ==
  {n \in Below(at) \ {at} : Accepts(n) /\ \A a \in AboveOf(n) \ AboveOf(at) : a \in {at} \union AboveOf(from) \/ verdict[a] = "skip"}
Visible(from) == {n \in Below(Root) : Accepts(n) /\ \A a \in AboveOf(n) : a \in AboveOf(from) \union {from, Root} \/ verdict[a] # "reject"}
Enclosing(n) == LastOf({a \in AboveOf(n) : a = Root \/ Accepts(a)})
Expected(call, from) ==
  LET at == Index(from)
      siblings == IF from = Root THEN {} ELSE Shown(Enclosing(from), from) \ (Below(from) \union AboveOf(from))
  IN  CASE call = "parentNode" -> LastOf({a \in AboveOf(from) : Accepts(a)})
        [] call = "firstChild" -> FirstOf(Shown(from, from))
        [] call = "lastChild" -> LastOf(Shown(from, from))
        [] call = "nextSibling" -> FirstOf({n \in siblings : Index(n) > at})
        [] call = "previousSibling" -> LastOf({n \in siblings : Index(n) < at})
        [] call = "nextNode" -> FirstOf({n \in Visible(from) : Index(n) > at})
        [] OTHER -> LastOf({n \in Visible(from) : Index(n) < at})

(* Every walk of a TreeWalker finds the node the filter leaves next.       *)
WalksRight == walker /\ last.call # "none" => last.node = Expected(last.call, last.from)

(* A NodeIterator stands between two nodes of the list of its root, and    *)
(* goes to the next accepted one on the side it is asked for.              *)
Gap == IF last.side THEN Index(last.from) ELSE Index(last.from) + 1
IteratesRight ==
  /\ ~walker /\ last.call = "next" => last.node = FirstOf({n \in Below(Root) : Accepts(n) /\ Index(n) >= Gap})
  /\ ~walker /\ last.call = "previous" => last.node = LastOf({n \in Below(Root) : Accepts(n) /\ Index(n) < Gap})

-----------------------------------------------------------------------------
(***************************************************************************)
(* Mutation observers (crates/script/js/20_dom.js): who is interested in a *)
(* change, the records that wait with each observer, and the microtask     *)
(* that delivers them.  Callbacks change the tree, observe, disconnect and *)
(* take records.  A change is its number; what a record holds is DomTree's.*)
(***************************************************************************)

CONSTANTS
  RecordNodes,
  Above,       \* node -> itself and the nodes above it
  Observers,   \* 1..n, in the order they were constructed
  MaxOps       \* bound on the calls of the page

VARIABLES
  regs,        \* moRegs: set of [node, observer, subtree]
  regCount,    \* moRegCount
  records,     \* observer -> the records that wait
  waiting,     \* moObservers
  armed,       \* moPending
  microtask,   \* number of deliverMutations() that are queued
  delivering,  \* the observers deliverMutations() has yet to come to
  mRunning,     \* a callback runs
  mHeard, owed, \* observer -> the changes it was given, and was due
  changes, mOps

recordVars == <<regs, regCount, records, waiting, armed, microtask, delivering, mRunning, mHeard, owed, changes, mOps>>

RecordInit ==
  /\ regs = {} /\ regCount = 0 /\ waiting = {} /\ armed = FALSE /\ microtask = 0
  /\ records = [o \in Observers |-> << >>] /\ mHeard = records /\ owed = records
  /\ delivering = << >> /\ mRunning = FALSE /\ changes = 0 /\ mOps = 0

(* Scripts run between deliveries, and in the callbacks of one.            *)
MayAct == mRunning \/ delivering = << >>
Acts == MayAct /\ mOps < MaxOps /\ mOps' = mOps + 1

-----------------------------------------------------------------------------
(* queueMutation(): each observer gets one record, however many of its     *)
(* registrations match.                                                    *)
Matches(r, n) == IF r.subtree THEN r.node \in Above[n] ELSE r.node = n
Interested(n) == {r.observer : r \in {q \in regs : Matches(q, n)}}

Mutate(n) ==
  LET who == IF regCount = 0 THEN {} ELSE Interested(n)
  IN  /\ Acts /\ changes' = changes + 1
      /\ records' = [o \in Observers |-> IF o \in who THEN Append(records[o], changes') ELSE records[o]]
      /\ waiting' = waiting \union who
      /\ armed' = (armed \/ who # {})
      /\ microtask' = IF who # {} /\ ~armed THEN microtask + 1 ELSE microtask
      /\ owed' = [o \in Observers |-> IF \E r \in regs : r.observer = o /\ Matches(r, n) THEN Append(owed[o], changes') ELSE owed[o]]
      /\ UNCHANGED <<regs, regCount, delivering, mRunning, mHeard>>

(* observe(): a second call for a node changes the options of the first.   *)
Observe(o, n, subtree) ==
  LET old == {r \in regs : r.observer = o /\ r.node = n}
  IN  /\ Acts
      /\ regs' = (regs \ old) \union {[node |-> n, observer |-> o, subtree |-> subtree]}
      /\ regCount' = IF old = {} THEN regCount + 1 ELSE regCount
      /\ UNCHANGED <<records, waiting, armed, microtask, delivering, mRunning, mHeard, owed, changes>>

(* disconnect() drops what waits, too.                                     *)
\* mutant of Emptied
EmptiedNot(o) == records
Emptied(o) == [records EXCEPT ![o] = << >>]
Disconnect(o) ==
  LET rest == {r \in regs : r.observer # o}
  IN  /\ Acts
      /\ regs' = rest /\ regCount' = regCount - Cardinality(regs \ rest)
      /\ records' = Emptied(o)
      /\ owed' = [owed EXCEPT ![o] = mHeard[o]]
      /\ UNCHANGED <<waiting, armed, microtask, delivering, mRunning, mHeard, changes>>

TakeRecords(o) ==
  /\ Acts
  /\ records' = [records EXCEPT ![o] = << >>]
  /\ mHeard' = [mHeard EXCEPT ![o] = @ \o records[o]]
  /\ UNCHANGED <<regs, regCount, waiting, armed, microtask, delivering, mRunning, owed, changes>>

-----------------------------------------------------------------------------
(* deliverMutations().                                                     *)
\* mutant of Disarmed
DisarmedNever == armed
Disarmed == FALSE
StartDelivery ==
  /\ microtask > 0 /\ delivering = << >> /\ ~mRunning
  /\ microtask' = microtask - 1
  /\ armed' = Disarmed
  /\ delivering' = SetToSortSeq(waiting, <)
  /\ waiting' = {}
  /\ UNCHANGED <<regs, regCount, records, mRunning, mHeard, owed, changes, mOps>>

(* The next observer of the list; one that has nothing left is passed over.*)
Deliver ==
  /\ delivering # << >> /\ ~mRunning
  /\ LET o == Head(delivering)
     IN  /\ mRunning' = (records[o] # << >>)
         /\ mHeard' = [mHeard EXCEPT ![o] = @ \o records[o]]
         /\ records' = [records EXCEPT ![o] = << >>]
  /\ delivering' = Tail(delivering)
  /\ UNCHANGED <<regs, regCount, waiting, armed, microtask, owed, changes, mOps>>

(* A callback returns or throws, which is reported.                        *)
Return ==
  /\ mRunning /\ mRunning' = FALSE
  /\ UNCHANGED <<regs, regCount, records, waiting, armed, microtask, delivering, mHeard, owed, changes, mOps>>

Page ==
  \/ \E n \in RecordNodes : Mutate(n)
  \/ \E o \in Observers : Disconnect(o) \/ TakeRecords(o) \/ \E n \in RecordNodes, subtree \in BOOLEAN : Observe(o, n, subtree)
Engine == StartDelivery \/ Deliver \/ Return
RecordNext == Page \/ Engine
RecordSpec == RecordInit /\ [][RecordNext]_recordVars
FairSpec == RecordSpec /\ WF_recordVars(Engine)

-----------------------------------------------------------------------------
(* An observer is given each change it was interested in when it happened, *)
(* once and in order, but for those a disconnect() dropped.                *)
HeardInOrder == \A o \in Observers : mHeard[o] \o records[o] = owed[o]

(* Records wait only where a delivery is to come.                          *)
RecordsHaveTurn ==
  /\ \A o \in Observers : records[o] # << >> => o \in waiting \/ o \in ToSet(delivering)
  /\ waiting # {} => armed /\ microtask > 0

(* Nothing waits for ever.                                                 *)
AllDelivered == \A o \in Observers : records[o] = << >>
=============================================================================
