----------------------------- MODULE FrameObservers -----------------------------
(***************************************************************************)
(* ResizeObserver and IntersectionObserver (crates/script/js/40_webapi.js).*)
(* Both look at the layout in an animation frame, which is asked for when  *)
(* it may have changed: frame callbacks, the resize observers with their   *)
(* callbacks, then the intersection observers, whose records wait for a    *)
(* task.  Sizes and places are small numbers; an element is in view or not.*)
(***************************************************************************)
EXTENDS Naturals, Sequences, SequencesExt, FiniteSets

CONSTANTS
  Elements,
  Sizers,     \* resize observers
  Watchers,   \* intersection observers
  Sizes,      \* of an element, 0 without a box
  MaxOps      \* bound on what the page and the user do

VARIABLES
  size, inView, scrolled,   \* the layout; scrolled is the place of the viewport
  sizing,      \* resize observer -> element -> its last size, a function of the observed ones
  watching,    \* intersection observer -> element -> what it last was: "new", "in" or "out"
  records,     \* intersection observer -> records that wait, <<element, in view>>
  task,        \* intersection observers whose task is queued
  heard,       \* intersection observer -> element -> what its callback heard last
  order,       \* the resize observers with targets, in order
  dirty,       \* obsDirty
  wanted,      \* a frame was asked for
  checked,     \* lastScrollCheck
  events,      \* scroll events to be delivered
  phase, checking, left,   \* of the frame that runs: its dirty flag, and the resize observers left
  ops

vars == <<size, inView, scrolled, sizing, watching, records, task, heard, order, dirty, wanted, checked, events, phase, checking, left, ops>>

Unseen == 9   \* no lastScrollCheck yet
With(f, x, v) == [y \in DOMAIN f \union {x} |-> IF y = x THEN v ELSE f[y]]
Without(f, x) == [y \in DOMAIN f \ {x} |-> f[y]]

Init ==
  /\ size = [e \in Elements |-> 1] /\ inView = [e \in Elements |-> TRUE] /\ scrolled = 0
  /\ sizing = [o \in Sizers |-> << >>] /\ watching = [o \in Watchers |-> << >>]
  /\ records = [o \in Watchers |-> << >>] /\ heard = [o \in Watchers |-> << >>]
  /\ task = {} /\ order = << >> /\ dirty = TRUE /\ wanted = FALSE /\ checked = Unseen
  /\ events = 0 /\ phase = "idle" /\ checking = FALSE /\ left = << >> /\ ops = 0

layout == <<size, inView, scrolled>>
observed == <<sizing, watching, order>>
frameRun == <<phase, checking, left>>
outcome == <<records, task, heard>>

Someone == order # << >> \/ \E o \in Watchers : watching[o] # << >>
(* observersDirty(), which every change of the tree or a style calls.      *)
\* mutant of AskFrame
AskFrameNot == FALSE
AskFrame == TRUE
ObserversDirty ==
  IF Someone /\ ~dirty THEN dirty' = TRUE /\ wanted' = (wanted \/ AskFrame) ELSE UNCHANGED <<dirty, wanted>>

-----------------------------------------------------------------------------
(* Scripts run in tasks, frame callbacks and the callbacks of observers.   *)
Acts == phase \in {"idle", "callbacks", "resized"} /\ ops < MaxOps /\ ops' = ops + 1

Resize(e, n) ==
  /\ Acts /\ n # size[e] /\ size' = [size EXCEPT ![e] = n]
  /\ ObserversDirty
  /\ UNCHANGED <<inView, scrolled, observed, outcome, checked, events, frameRun>>
Move(e) ==
  /\ Acts /\ inView' = [inView EXCEPT ![e] = ~@]
  /\ ObserversDirty
  /\ UNCHANGED <<size, scrolled, observed, outcome, checked, events, frameRun>>

(* The user scrolls; the host tells the page later.                        *)
Scroll(e) ==
  /\ Acts /\ phase = "idle" /\ scrolled' = 1 - scrolled /\ inView' = [inView EXCEPT ![e] = ~@] /\ events' = events + 1
  /\ UNCHANGED <<size, observed, outcome, dirty, wanted, checked, frameRun>>
ScrollEvent ==
  /\ phase = "idle" /\ events > 0 /\ events' = events - 1
  /\ ObserversDirty
  /\ UNCHANGED <<layout, observed, outcome, checked, frameRun, ops>>

ObserveSize(o, e) ==
  /\ Acts
  /\ sizing' = [sizing EXCEPT ![o] = With(@, e, 0)]
  /\ order' = IF o \in ToSet(order) THEN order ELSE Append(order, o)
  /\ dirty' = TRUE /\ wanted' = TRUE
  /\ UNCHANGED <<layout, watching, outcome, checked, events, frameRun>>
UnobserveSize(o, e) ==
  /\ Acts /\ e \in DOMAIN sizing[o]
  /\ sizing' = [sizing EXCEPT ![o] = Without(@, e)]
  /\ order' = IF DOMAIN sizing'[o] = {} THEN SelectSeq(order, LAMBDA x : x # o) ELSE order
  /\ UNCHANGED <<layout, watching, outcome, dirty, wanted, checked, events, frameRun>>

ObserveView(o, e) ==
  /\ Acts /\ e \notin DOMAIN watching[o]
  /\ watching' = [watching EXCEPT ![o] = With(@, e, "new")]
  /\ heard' = [heard EXCEPT ![o] = With(@, e, "new")]
  /\ dirty' = TRUE /\ wanted' = TRUE
  /\ UNCHANGED <<layout, sizing, order, records, task, checked, events, frameRun>>
UnobserveView(o, e) ==
  /\ Acts /\ e \in DOMAIN watching[o]
  /\ watching' = [watching EXCEPT ![o] = Without(@, e)]
  /\ heard' = [heard EXCEPT ![o] = Without(@, e)]
  /\ UNCHANGED <<layout, sizing, order, records, task, dirty, wanted, checked, events, frameRun>>

-----------------------------------------------------------------------------
(* onFrame().                                                              *)
StartFrame ==
  /\ phase = "idle" /\ wanted /\ wanted' = FALSE /\ phase' = "callbacks"
  /\ UNCHANGED <<layout, observed, outcome, dirty, checked, events, checking, left, ops>>

(* The flag is taken before the observers run: what their callbacks change *)
(* is for the next frame.                                                  *)
\* mutant of Cleared
ClearedNot == dirty
Cleared == FALSE
CallbacksEnd ==
  /\ phase = "callbacks" /\ phase' = "resize"
  /\ checking' = dirty /\ dirty' = Cleared
  /\ left' = IF dirty THEN order ELSE << >>
  /\ UNCHANGED <<layout, observed, outcome, wanted, checked, events, ops>>

(* roCheck(): the sizes are noted, then the callback runs.                 *)
RoCheck ==
  /\ phase = "resize" /\ left # << >> /\ left' = Tail(left)
  /\ LET o == Head(left)
     IN  /\ phase' = IF \E e \in DOMAIN sizing[o] : sizing[o][e] # size[e] THEN "resized" ELSE "resize"
         /\ sizing' = [sizing EXCEPT ![o] = [e \in DOMAIN @ |-> size[e]]]
  /\ UNCHANGED <<layout, watching, order, outcome, dirty, wanted, checked, events, checking, ops>>
CallbackReturns ==
  /\ phase = "resized" /\ phase' = "resize"
  /\ UNCHANGED <<layout, observed, outcome, dirty, wanted, checked, events, checking, left, ops>>

(* runIntersectionObservers() and ioCheck() of each.                       *)
View(e) == IF inView[e] THEN "in" ELSE "out"
Looks == checking \/ scrolled # checked
\* mutant of Changed
ChangedIntoView(o) == {e \in DOMAIN watching[o] : watching[o][e] # View(e) /\ inView[e]}
Changed(o) == {e \in DOMAIN watching[o] : watching[o][e] # View(e)}
IoChecks ==
  /\ phase = "resize" /\ left = << >> /\ phase' = "idle"
  /\ IF (\E o \in Watchers : watching[o] # << >>) /\ Looks
     THEN /\ checked' = scrolled
          /\ watching' = [o \in Watchers |-> [e \in DOMAIN watching[o] |-> View(e)]]
          /\ records' = [o \in Watchers |-> records[o] \o SetToSeq({<<e, View(e)>> : e \in Changed(o)})]
          /\ task' = task \union {o \in Watchers : records'[o] # << >>}
     ELSE UNCHANGED <<checked, watching, records, task>>
  /\ UNCHANGED <<layout, sizing, order, heard, dirty, wanted, events, checking, left, ops>>

(* The task: what a callback hears of an element is the last record of it. *)
LastOf(recs, e) == recs[CHOOSE i \in DOMAIN recs : recs[i][1] = e /\ \A j \in DOMAIN recs : recs[j][1] = e => j <= i][2]
Told(o) == [e \in DOMAIN heard[o] |-> IF \E i \in DOMAIN records[o] : records[o][i][1] = e THEN LastOf(records[o], e) ELSE heard[o][e]]
IoTask(o) ==
  /\ phase = "idle" /\ o \in task /\ task' = task \ {o}
  /\ heard' = [heard EXCEPT ![o] = Told(o)]
  /\ records' = [records EXCEPT ![o] = << >>]
  /\ UNCHANGED <<layout, observed, dirty, wanted, checked, events, frameRun, ops>>

-----------------------------------------------------------------------------
Page ==
  \/ \E e \in Elements : Move(e) \/ Scroll(e) \/ \E n \in Sizes : Resize(e, n)
  \/ \E e \in Elements, o \in Sizers : ObserveSize(o, e) \/ UnobserveSize(o, e)
  \/ \E e \in Elements, o \in Watchers : ObserveView(o, e) \/ UnobserveView(o, e)
Engine ==
  \/ ScrollEvent \/ StartFrame \/ CallbacksEnd \/ RoCheck \/ CallbackReturns \/ IoChecks
  \/ \E o \in Watchers : IoTask(o)
Next == Page \/ Engine
Spec == Init /\ [][Next]_vars
FairSpec == Spec /\ WF_vars(Engine)

-----------------------------------------------------------------------------
(* What was reported is what is, unless a look at the layout is to come.   *)
SizesReported == \A o \in Sizers : \A e \in DOMAIN sizing[o] : sizing[o][e] = size[e]
ViewsNoted == \A o \in Watchers : \A e \in DOMAIN watching[o] : watching[o][e] = View(e)
NothingOverlooked == phase = "idle" /\ ~wanted /\ events = 0 => SizesReported /\ ViewsNoted

(* What the callback of an intersection observer heard last of an element  *)
(* is what was noted last, once its task has run.                          *)
LastHeard == \A o \in Watchers : o \notin task => \A e \in DOMAIN watching[o] : watching[o][e] \in {"new", heard[o][e]}

(* Once the layout rests, everybody knows it.                              *)
AllReported == SizesReported /\ ViewsNoted /\ task = {}
=============================================================================
