----------------------------- MODULE ShadowSlots -----------------------------
(***************************************************************************)
(* Shadow roots (crates/script/js/20_dom.js, "Shadow roots (approximation: *)
(* content lives in the host's light DOM)").  The shadow root is its host: *)
(* what it contains are the host's children, and the children of the host  *)
(* are kept in a hidden fragment until a slot takes them.  A list of ids   *)
(* says which nodes the page is to see as children, and in which order.    *)
(***************************************************************************)
EXTENDS Naturals, Sequences, SequencesExt, FiniteSets

CONSTANTS
  Slots, SlotName,   \* the slots of shadow trees, and the name of each
  Lights,            \* the nodes the page puts into the host
  Wrapped,           \* one of them, which comes in a fragment
  MaxShadowOps       \* bound: operations

VARIABLES
  holds,      \* the children of each parent: "host", "light" (the hidden fragment), the slots
  order,      \* info.order
  cleared,    \* info.cleared: the slots that were given light children
  declared,   \* info.declarative; "none" while there is no shadow root
  wants,      \* the slot attribute of each light node
  children,   \* what the page has put into the host and not taken out
  lost,       \* those of them that went with a slot, came in a fragment or were put beside one that did
  strayed,    \* those that need not be in the slot they name
  shadowOps

shadowVars == <<holds, order, cleared, declared, wants, children, lost, strayed, shadowOps>>
Parents == {"host", "light"} \union Slots

Init ==
  /\ \E kids \in {<< >>} \union {<<n>> : n \in Lights \ {Wrapped}} :
       holds = [p \in Parents |-> IF p = "host" THEN kids ELSE << >>] /\ children = kids
  /\ order = << >> /\ cleared = {} /\ declared = "none"
  /\ wants = [n \in Lights |-> ""]
  /\ lost = {} /\ strayed = {} /\ shadowOps = 0

Does == shadowOps < MaxShadowOps /\ shadowOps' = shadowOps + 1
Rooted == Does /\ declared # "none"
In(p, n) == Contains(holds[p], n)
Out(seq, set) == SelectSeq(seq, LAMBDA n : n \notin set)
InsertedBefore(seq, n, ref) == IF Contains(seq, ref) THEN InsertAt(seq, CHOOSE i \in DOMAIN seq : seq[i] = ref, n) ELSE Append(seq, n)
(* Where the nodes are that the host holds through its slots.              *)
Slotted == UNION {Range(holds[s]) : s \in {s \in Slots : In("host", s)}}

(* lightIdsOf(): the order is filtered whenever somebody looks.            *)
Light == SelectSeq(order, LAMBDA n : In("light", n) \/ \E s \in cleared : In("host", s) /\ In(s, n))

(* shadowDistribute(): the first slot of a name takes the nodes that name  *)
(* it; the first it takes drive out what it contained.                     *)
First(h, name) ==
  LET named == SelectSeq(h["host"], LAMBDA s : s \in Slots /\ SlotName[s] = name) IN IF named = << >> THEN "none" ELSE named[1]
Distributed(h, c) ==
  FoldLeft(LAMBDA st, n :
             LET s == First(h, wants[n]) IN
             IF s = "none" THEN st
             ELSE [holds |-> [st.holds EXCEPT ![s] = Append(IF s \in st.cleared THEN @ ELSE << >>, n), !["light"] = Out(@, {n})],
                   cleared |-> st.cleared \union {s}],
           [holds |-> h, cleared |-> c], h["light"])
Distribute(h, c) == \E st \in {Distributed(h, c)} : holds' = st.holds /\ cleared' = st.cleared

-----------------------------------------------------------------------------
(* attachShadow(), or a template with shadowrootmode: the children leave.  *)
AttachShadow(declarative, content) ==
  /\ Does /\ declared = "none"
  /\ declared' = IF declarative THEN "yes" ELSE "no"
  /\ order' = holds["host"]
  /\ Distribute([holds EXCEPT !["host"] = IF declarative THEN content ELSE << >>, !["light"] = holds["host"]], cleared)
  /\ UNCHANGED <<wants, children, lost, strayed>>

(* The first attachShadow() of a declared root empties it.                 *)
Reattach ==
  /\ Rooted /\ declared = "yes"
  /\ declared' = "no"
  /\ \E full \in {SetToSeq({s \in cleared : In("host", s)})} :
       holds' = [p \in Parents |->
                   CASE p = "light" -> FoldLeft(LAMBDA all, s : all \o holds[s], holds["light"], full)
                     [] p = "host" \/ Contains(full, p) -> << >>
                     [] OTHER -> holds[p]]
  /\ cleared' = {}
  /\ UNCHANGED <<order, wants, children, lost, strayed>>

(* Insertion into the shadow root, and removal from it.  A light node that *)
(* is in a slot goes with it.                                              *)
InsertSlot(s, ref) ==
  /\ Rooted /\ s # ref
  /\ Distribute([holds EXCEPT !["host"] = InsertedBefore(Out(@, {s}), s, ref)], cleared)
  /\ UNCHANGED <<order, declared, wants, children, lost, strayed>>
RemoveSlot(s) ==
  /\ Rooted /\ In("host", s)
  /\ lost' = lost \union Range(holds[s])
  /\ Distribute([holds EXCEPT !["host"] = Out(@, {s})], cleared)
  /\ UNCHANGED <<order, declared, wants, children, strayed>>

(* shadowRoot.innerHTML = "": the slots go; none counts as filled.         *)
SetShadowHTML ==
  /\ Rooted
  /\ lost' = lost \union Slotted
  /\ Distribute([holds EXCEPT !["host"] = << >>], {})
  /\ UNCHANGED <<order, declared, wants, children, strayed>>

(* lightInsert(): before a child that is in a slot, the node goes into     *)
(* that slot, else it is distributed.                                      *)
\* mutant of OrderWith
OrderWithTwice(n, ref) == InsertedBefore(order, n, ref)
OrderWith(n, ref) == InsertedBefore(Out(order, {n}), n, ref)
LightInsert(n, ref) ==
  LET target == IF \E p \in Parents \ {"host"} : In(p, ref) THEN CHOOSE p \in Parents \ {"host"} : In(p, ref) ELSE "light"
      apart == [p \in Parents |-> Out(holds[p], {n})]
  IN  /\ Rooted /\ n # ref /\ n # Wrapped
      /\ target = "light" \/ In("host", target)
      /\ ref = "none" \/ In("light", ref) \/ ref \in Slotted
      /\ Distribute([apart EXCEPT ![target] = InsertedBefore(@, n, ref)], cleared)
      /\ order' = OrderWith(n, ref)
      /\ children' = InsertedBefore(Out(children, {n}), n, ref)
      /\ lost' = IF ref = "none" \/ Contains(Light, ref) THEN lost \ {n} ELSE lost \union {n}
      /\ strayed' = IF target = "light" THEN strayed \ {n} ELSE strayed \union {n}
      /\ UNCHANGED <<declared, wants>>

(* A fragment: what is noted is the fragment, which stays empty behind.    *)
InsertFragment ==
  /\ Rooted /\ \A p \in Parents : ~In(p, Wrapped)
  /\ Distribute([holds EXCEPT !["light"] = Append(@, Wrapped)], cleared)
  /\ children' = Append(Out(children, {Wrapped}), Wrapped)
  /\ lost' = lost \union {Wrapped}
  /\ UNCHANGED <<order, declared, wants, strayed>>

(* host.removeChild(): of a node the host holds one way or another.        *)
RemoveLight(n) ==
  /\ Rooted
  /\ In("light", n) \/ n \in Slotted
  /\ holds' = [p \in Parents |-> Out(holds[p], {n})]
  /\ children' = Out(children, {n})
  /\ lost' = lost \ {n}
  /\ UNCHANGED <<order, cleared, declared, wants, strayed>>

(* Nothing is distributed when an attribute changes.                       *)
SetSlot(n, name) ==
  /\ Does
  /\ wants' = [wants EXCEPT ![n] = name]
  /\ strayed' = strayed \union {n}
  /\ UNCHANGED <<holds, order, cleared, declared, children, lost>>

(* childNodes, assignedSlot: what has moved away is forgotten.             *)
Look ==
  /\ Rooted /\ order # Light
  /\ order' = Light
  /\ UNCHANGED <<holds, cleared, declared, wants, children, lost, strayed>>

Next ==
  \/ AttachShadow(FALSE, << >>)
  \/ \E s \in Slots : AttachShadow(TRUE, <<s>>)
  \/ Reattach \/ SetShadowHTML \/ InsertFragment \/ Look
  \/ \E s \in Slots : RemoveSlot(s) \/ \E ref \in Slots \union {"none"} : InsertSlot(s, ref)
  \/ \E n \in Lights : RemoveLight(n) \/ (\E ref \in Lights \union {"none"} : LightInsert(n, ref)) \/ \E s \in Slots : SetSlot(n, SlotName[s])
Spec == Init /\ [][Next]_shadowVars

-----------------------------------------------------------------------------
(* The page sees, as children of the host, the nodes it put there, each    *)
(* once and in the order it put them, wherever the slots have taken them:  *)
(* but for those a slot took along when it went, and those that came in a  *)
(* fragment.                                                               *)
ChildrenSeen ==
  declared # "none" =>
    /\ Out(Light, lost) = Out(children, lost)
    /\ IsInjective(Light)

(* A child is in the slot it names when the shadow tree has one, unless it *)
(* was put beside a sibling in another slot or changed its mind.           *)
SlottedRight ==
  \A n \in Range(children) \ (lost \union strayed) :
    declared = "none" \/ LET s == First(holds, wants[n]) IN
      \/ In(IF s = "none" THEN "light" ELSE s, n)
      \/ s # "none" /\ \E t \in Slots \ {s} : In(t, n) /\ SlotName[t] = wants[n]
=============================================================================
