---------------------------- MODULE CustomElements ----------------------------
(***************************************************************************)
(* Custom elements (crates/script/js/20_dom.js, the registry and its       *)
(* reactions; the constructor of 30_html.js).  Reactions are not queued:   *)
(* an insertion, removal or definition runs the constructors and callbacks *)
(* itself, one by one, and each may do the same again.  The stack holds    *)
(* the loops over elements, constructors and callbacks that run.           *)
(***************************************************************************)
EXTENDS Naturals, Sequences, SequencesExt, FiniteSets

CONSTANTS
  Doc,
  Elements, Name,   \* elements, and element -> its name
  Starts,           \* the trees to begin with: node -> children
  MaxOps, MaxDepth, \* bounds: calls of the page, stack
  None

VARIABLES
  kids,      \* node -> children
  made,      \* elements that exist
  defined,   \* names with a definition
  ceState,   \* element -> "none", "custom" or "failed"
  under,     \* name -> elements under construction, None once super() returned one
  stack,
  told,      \* element -> the last callback it got, None before the first
  built,     \* element -> how often super() returned it
  crossed,   \* elements that came or went while a loop or a constructor still had them
  ops

ceVars == <<kids, made, defined, ceState, under, stack, told, built, crossed, ops>>

Nodes == Elements \union {Doc}
Names == {Name[e] : e \in Elements}
Top == Last(stack)
Running == {"constructor", "callback"}
PageRuns == IF stack = << >> THEN TRUE ELSE Top.kind \in Running
Acts == PageRuns /\ ops < MaxOps /\ ops' = ops + 1

-----------------------------------------------------------------------------
(* The tree of depth d under a node, in tree order.                        *)
InOrder(ks, n) ==
  LET Tree[d \in 0..Cardinality(Nodes)] ==
        [m \in Nodes |-> IF d = 0 THEN << >> ELSE <<m>> \o FlattenSeq([i \in DOMAIN ks[m] |-> Tree[d - 1][ks[m][i]]])]
  IN  Tree[Cardinality(Nodes)][n]
Connected(ks, n) == n \in Range(InOrder(ks, Doc)) \/ n = Doc
Without(ks, e) == [n \in Nodes |-> SelectSeq(ks[n], LAMBDA m : m # e)]

(* collectCE(): those with a definition, in the tree under n.              *)
\* mutant of CollectCE
CollectCERoot(ks, names, n) == IF n \in Elements /\ Name[n] \in names THEN <<n>> ELSE << >>
CollectCE(ks, names, n) == SelectSeq(InOrder(ks, n), LAMBDA e : e # Doc /\ Name[e] \in names)

Loop(does, es) == [kind |-> "loop", does |-> does, todo |-> es, into |-> None, el |-> None, result |-> None]
Constructor(why, el) == [kind |-> "constructor", does |-> why, todo |-> << >>, into |-> None, el |-> el, result |-> None]
Callback(e) == [kind |-> "callback", does |-> "callback", todo |-> << >>, into |-> None, el |-> e, result |-> None]
(* A loop or a constructor still has the element e.                        *)
Busy(e) ==
  \E i \in DOMAIN stack :
    \/ e \in Range(stack[i].todo)
    \/ stack[i].kind = "constructor" /\ e \in {stack[i].el, stack[i].result}
    \/ stack[i].kind = "loop" /\ stack[i].into # None /\ e \in Range(InOrder(kids, stack[i].el))
Crosses(es) == crossed' = crossed \union {e \in Range(es) : Busy(e)}

Init ==
  /\ kids \in Starts
  /\ made = UNION {Range(kids[n]) : n \in Nodes}
  /\ defined = {} /\ ceState = [e \in Elements |-> "none"] /\ under = [n \in Names |-> << >>]
  /\ stack = << >> /\ told = [e \in Elements |-> None] /\ built = [e \in Elements |-> 0]
  /\ crossed = {} /\ ops = 0

-----------------------------------------------------------------------------
(* Calls of the page.                                                      *)
(* customElements.define(), whose elements in the document are upgraded.   *)
Define(n) ==
  /\ Acts /\ n \notin defined /\ Len(stack) < MaxDepth
  /\ defined' = defined \union {n}
  /\ stack' = Append(stack, Loop("upgrade", CollectCE(kids, {n}, Doc)))
  /\ UNCHANGED <<kids, made, ceState, under, told, built, crossed>>

(* customElements.upgrade()                                                *)
Upgrade(root) ==
  /\ Acts /\ root \in made /\ defined # {} /\ Len(stack) < MaxDepth
  /\ stack' = Append(stack, Loop("upgrade", CollectCE(kids, defined, root)))
  /\ UNCHANGED <<kids, made, defined, ceState, under, told, built, crossed>>

(* appendChild(): insertCore(), which tells those that left, then looks    *)
(* for those that came (afterInsertion).                                   *)
Leaving(e) == IF defined # {} /\ Connected(kids, e) THEN CollectCE(kids, defined, e) ELSE << >>
AppendChild(e, p) ==
  /\ Acts /\ e \in made /\ p \in made \union {Doc} /\ p \notin Range(InOrder(kids, e)) /\ Len(stack) < MaxDepth
  /\ kids' = [Without(kids, e) EXCEPT ![p] = Append(@, e)]
  /\ stack' = Append(stack, [Loop("disconnect", Leaving(e)) EXCEPT !.el = e, !.into = p])
  /\ Crosses(InOrder(kids, e))
  /\ UNCHANGED <<made, defined, ceState, under, told, built>>

RemoveChild(e) ==
  /\ Acts /\ (\E n \in Nodes : e \in Range(kids[n])) /\ Len(stack) < MaxDepth
  /\ kids' = Without(kids, e)
  /\ stack' = Append(stack, Loop("disconnect", Leaving(e)))
  /\ Crosses(InOrder(kids, e))
  /\ UNCHANGED <<made, defined, ceState, under, told, built>>

(* document.createElement(): constructCE() with a definition.              *)
New(n) == CHOOSE e \in Elements \ made : Name[e] = n
CanMake(n) == \E e \in Elements \ made : Name[e] = n
Create(n) ==
  /\ Acts /\ CanMake(n) /\ Len(stack) < MaxDepth
  /\ IF n \in defined THEN stack' = Append(stack, [Constructor("create", None) EXCEPT !.into = n]) /\ UNCHANGED made
     ELSE made' = made \union {New(n)} /\ UNCHANGED stack
  /\ UNCHANGED <<kids, defined, ceState, under, told, built, crossed>>

-----------------------------------------------------------------------------
(* The loops.                                                              *)
Set(frame) == Append(Front(stack), frame)
Looping == stack # << >> /\ Top.kind = "loop"

MayUpgrade(e) == Name[e] \in defined /\ ceState[e] = "none"
Upgrades(e, frames) ==
  /\ ceState' = [ceState EXCEPT ![e] = "custom"]
  /\ under' = [under EXCEPT ![Name[e]] = Append(@, e)]
  /\ stack' = Append(frames, [Constructor("upgrade", e) EXCEPT !.into = Name[e]])
  /\ UNCHANGED told
Calls(e, what, frames) ==
  /\ stack' = Append(frames, Callback(e)) /\ told' = [told EXCEPT ![e] = what] /\ UNCHANGED <<ceState, under>>

LoopStep ==
  LET e == Head(Top.todo)
      rest == Set([Top EXCEPT !.todo = Tail(@)])
  IN  /\ Looping /\ Top.todo # << >>
      /\ IF Top.does # "disconnect" /\ MayUpgrade(e) THEN Upgrades(e, rest)
         ELSE IF Top.does = "connect" /\ ceState[e] = "custom" THEN Calls(e, "connected", rest)
         ELSE IF Top.does = "disconnect" /\ ceState[e] = "custom" THEN Calls(e, "disconnected", rest)
         ELSE stack' = rest /\ UNCHANGED <<ceState, under, told>>
      /\ UNCHANGED <<kids, made, defined, built, crossed, ops>>

LoopEnds ==
  /\ Looping /\ Top.todo = << >>
  /\ stack' = IF Top.does = "disconnect" /\ Top.into # None /\ defined # {} /\ Connected(kids, Top.into)
              THEN Set(Loop("connect", CollectCE(kids, defined, Top.el))) ELSE Front(stack)
  /\ UNCHANGED <<kids, made, defined, ceState, under, told, built, crossed, ops>>

-----------------------------------------------------------------------------
(* Constructors.                                                           *)
Constructing == stack # << >> /\ Top.kind = "constructor"
(* super(): the HTMLElement constructor takes the element of the innermost *)
(* upgrade of its definition, or makes one.                                *)
Super ==
  LET n == Top.into
      innermost == Last(under[n])
  IN  /\ Constructing /\ Top.result = None
      /\ IF under[n] = << >>
         THEN /\ CanMake(n)
              /\ made' = made \union {New(n)} /\ ceState' = [ceState EXCEPT ![New(n)] = "custom"]
              /\ stack' = Set([Top EXCEPT !.result = New(n)]) /\ built' = [built EXCEPT ![New(n)] = @ + 1]
              /\ UNCHANGED under
         ELSE /\ innermost # None
              /\ under' = [under EXCEPT ![n] = Append(Front(@), None)]
              /\ stack' = Set([Top EXCEPT !.result = innermost]) /\ built' = [built EXCEPT ![innermost] = @ + 1]
              /\ UNCHANGED <<made, ceState>>
      /\ UNCHANGED <<kids, defined, told, crossed, ops>>

(* The constructor returns; an upgraded element that is in the document is *)
(* told so.                                                                *)
Constructed ==
  /\ Constructing /\ Top.result # None
  /\ IF Top.does = "create" THEN stack' = Front(stack) /\ UNCHANGED <<under, told>>
     ELSE /\ Top.result = Top.el
          /\ under' = [under EXCEPT ![Top.into] = Front(@)]
          /\ IF Connected(kids, Top.el)
             THEN stack' = Set(Callback(Top.el)) /\ told' = [told EXCEPT ![Top.el] = "connected"]
             ELSE stack' = Front(stack) /\ UNCHANGED told
  /\ UNCHANGED <<kids, made, defined, ceState, built, crossed, ops>>

(* It throws, also because the element was taken already.                  *)
Popped(list) == Front(list)
Throws ==
  /\ Constructing
  /\ IF Top.does = "upgrade"
     THEN /\ ceState' = [ceState EXCEPT ![Top.el] = "failed"] /\ under' = [under EXCEPT ![Top.into] = Popped(@)]
          /\ UNCHANGED made
     ELSE /\ CanMake(Top.into)
          /\ made' = made \union {New(Top.into)} /\ ceState' = [ceState EXCEPT ![New(Top.into)] = "failed"]
          /\ UNCHANGED under
  /\ stack' = Front(stack)
  /\ UNCHANGED <<kids, defined, told, built, crossed, ops>>

Returns ==
  /\ stack # << >> /\ Top.kind = "callback" /\ stack' = Front(stack)
  /\ UNCHANGED <<kids, made, defined, ceState, under, told, built, crossed, ops>>

-----------------------------------------------------------------------------
Page ==
  \/ \E n \in Names : Define(n) \/ Create(n)
  \/ \E e \in Elements : Upgrade(e) \/ RemoveChild(e) \/ \E p \in Nodes : AppendChild(e, p)
Engine == LoopStep \/ LoopEnds \/ Super \/ Constructed \/ Throws \/ Returns
Next == Page \/ Engine
Spec == Init /\ [][Next]_ceVars

-----------------------------------------------------------------------------
Quiet == stack = << >>

(* When nothing runs, every element in the document that has a definition  *)
(* was upgraded, or tried to be, whatever constructors and callbacks did.  *)
EachUpgraded ==
  Quiet => \A e \in Range(InOrder(kids, Doc)) \ {Doc} : Name[e] \in defined => ceState[e] # "none"

(* An element goes through the HTMLElement constructor once.               *)
ConstructedOnce == \A e \in Elements : built[e] <= 1

(* The elements a definition has under construction are those of the       *)
(* upgrades that run, innermost last, also after some have failed.         *)
StacksBalanced ==
  \A n \in Names :
    LET upgrades == SelectSeq(stack, LAMBDA f : f.kind = "constructor" /\ f.does = "upgrade" /\ f.into = n)
    IN  Len(under[n]) = Len(upgrades) /\ \A i \in DOMAIN upgrades : under[n][i] \in {upgrades[i].el, None}

(* The last callback of an element says whether it is in the document,     *)
(* unless it came or went while a loop that was to call it, or its         *)
(* constructor, was running.                                               *)
ToldRight ==
  Quiet => \A e \in Elements \ crossed : ceState[e] = "custom" =>
             (IF Connected(kids, e) THEN told[e] = "connected" ELSE told[e] # "connected")
=============================================================================
