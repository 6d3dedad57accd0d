-------------------------------- MODULE MCPage --------------------------------
(***************************************************************************)
(* Instances of the modules of the page itself for TLC: the count of its   *)
(* resources, its tree, its scripts, its events, an animation, its custom  *)
(* elements, its mutation observers, walks over its tree, and its forms,    *)
(* selects and text tracks.  They share no state here: a behaviour is one  *)
(* of them, picked in the initial state.                                   *)
(***************************************************************************)
EXTENDS ResourceCount, Integers, Sequences, TLC

CONSTANTS R, E, F, ta, tb, tc, None, rootNode, leaf, e1, e2, s1, s2, s3, c1, c2, x, y, z

VARIABLES
  part,
  kids, text, range, mirror, fresh, selected, astray, steps,
  page, kind, fetch, parserQueue, deferQueue, endQueue, asyncWaiting, ordered, evaluating, stack, arrived, tasks,
  pumps, deferTimers, endTimers, parsed, deferredDone, deferRunning, dclFired, loadQueued, loaded, reopened,
  asyncPending, counted, writtenQueued, place, point, ran, dropped, events,
  listeners, lists, undiscovered, handler, aborted, algos, stopped, stoppedNow, dispatches, calls, fired, eventOps,
  anim, fills, relevant, applied, scheduled, micro, reacting, late, animOps,
  ceKids, made, defined, ceState, under, ceStack, told, built, crossed, ceOps,
  regs, regCount, records, waiting, armed, microtask, delivering, mRunning, mHeard, owed, changes, mOps,
  walked, verdict, walker, cur, before, last,
  ticked, mixed, off, ungrouped, clicking, submitting, clicks, known, joined, formOps,
  options, byDefault, set, outside, multiple, multi, wanted, selectOps,
  trackKids, listed, added, trackModes, cues, cueOwner, span, changing, trackTasks, heardOf, unseen, slipped, trackOps,
  textarea, inputText, selection, ranged, textOps, isRange, number, least, most, stepAttr, valueAttr, numberOp, numberOps, field,
  hasRange, backward, changeQueued, reported, silently, asked,
  timing, keyFrames, keyLists

userSelection == <<hasRange, backward, changeQueued, reported, silently, asked>>
dom == <<kids, text, range, mirror, fresh, selected, astray, steps, userSelection>>
loader == <<page, kind, fetch, parserQueue, deferQueue, endQueue, asyncWaiting, ordered, evaluating, stack, arrived, tasks,
            pumps, deferTimers, endTimers, parsed, deferredDone, deferRunning, dclFired, loadQueued, loaded, reopened,
            asyncPending, counted, writtenQueued, place, point, ran, dropped, events>>
dispatch == <<listeners, lists, undiscovered, handler, aborted, algos, stopped, stoppedNow, dispatches, calls, fired, eventOps>>
animation == <<anim, fills, relevant, applied, scheduled, micro, reacting, late, animOps>>
elements == <<ceKids, made, defined, ceState, under, ceStack, told, built, crossed, ceOps>>
observing == <<regs, regCount, records, waiting, armed, microtask, delivering, mRunning, mHeard, owed, changes, mOps>>
walk == <<walked, verdict, walker, cur, before, last>>
forms == <<ticked, mixed, off, ungrouped, clicking, submitting, clicks, known, joined, formOps>>
selects == <<options, byDefault, set, outside, multiple, multi, wanted, selectOps>>
tracks == <<trackKids, listed, added, trackModes, cues, cueOwner, span, changing, trackTasks, heardOf, unseen, slipped, trackOps>>
texts == <<textarea, inputText, selection, ranged, textOps>>
numbers == <<isRange, number, least, most, stepAttr, valueAttr, numberOp, numberOps, field>>
effect == <<timing, keyFrames, keyLists>>
allVars == <<part, vars, dom, loader, dispatch, animation, elements, observing, walk, forms, selects, tracks, texts, numbers, effect>>

-----------------------------------------------------------------------------
(* A tree of two levels, a flat one and a fragment, with ranges in them.   *)
Ranged(k, t, from, to) == [kids |-> k, text |-> t, fresh |-> {tc}, range |-> [start |-> from, end |-> to]]
Characters == (ta :> <<1, 2>>) @@ (tb :> <<3>>) @@ (tc :> << >>)
Nested == (R :> <<ta, E>>) @@ (E :> <<tb>>) @@ (F :> << >>)
Flat == (R :> <<E, tb, ta>>) @@ (E :> << >>) @@ (F :> << >>)
InFragment == (R :> <<E, ta>>) @@ (E :> << >>) @@ (F :> <<tb>>)
Trees == {Ranged(Nested, Characters, <<ta, 1>>, <<E, 1>>), Ranged(Nested, Characters, <<R, 1>>, <<R, 2>>),
          Ranged(Nested, Characters, <<ta, 1>>, <<ta, 1>>), Ranged(Flat, Characters, <<tb, 0>>, <<ta, 1>>),
          Ranged(Flat, Characters, <<R, 2>>, <<ta, 1>>), Ranged(InFragment, Characters, <<E, 0>>, <<R, 2>>)}
D == INSTANCE DomTree WITH Root <- R, Elements <- {E}, Frag <- F, Texts <- {ta, tb, tc}, Chars <- 1..4, MaxSteps <- 2, Starts <- Trees

Document(s, w, i, n, e) == [scripts |-> s, writes |-> w, inserts |-> i, more |-> n, events |-> e]
Plain == Document(<<"defer", "module", "inline">>, {"async", "async module"}, {"dynamic inline", "dynamic module"}, 1, 0)
Loading == {Plain,
            Document(<<"blocking">>, {"inline", "blocking"}, {}, 2, 1),
            Document(<<"blocking", "async">>, {"inline", "blocking"}, {}, 1, 1),
            Document(<<"inline">>, {"blocking", "defer", "module"}, {}, 2, 1),
            Document(<<"inline", "defer">>, {"defer", "module"}, {}, 2, 1),
            Document(<<"blocking", "async module">>, {"inline"}, {"dynamic async", "dynamic ordered"}, 2, 0)}
S == INSTANCE ScriptLoader WITH Pages <- Loading

(* A node in another, each with a listener or two, and signals in a chain. *)
Listener(t, callback, capture, once, s) ==
  [target |-> t, callback |-> callback, capture |-> capture, once |-> once, signal |-> s, handles |-> "no"]
Few == <<Listener(leaf, c1, FALSE, TRUE, None), Listener(leaf, c2, TRUE, FALSE, s1), Listener(rootNode, c1, FALSE, FALSE, s3)>>
Many == <<Listener(rootNode, c1, TRUE, FALSE, None), Listener(leaf, c1, FALSE, FALSE, s2), Listener(leaf, c2, FALSE, FALSE, None),
          Listener(s2, c1, FALSE, FALSE, None)>>
V == INSTANCE EventDispatch WITH
       Events <- {e1, e2}, Signals <- {s1, s2, s3}, Callbacks <- {c1}, Paths <- {<<leaf, rootNode>>}, Bubbles <- {e1}, Markup <- {leaf},
       Follows <- (s1 :> {}) @@ (s2 :> {s1}) @@ (s3 :> {s1, s2}), Starts <- {Few, Many},
       MaxListeners <- 5, MaxOps <- 3, MaxDepth <- 3, Nobody <- None, stack <- dispatches, ops <- eventOps

A == INSTANCE Animations WITH End <- 2, Rates <- {1, -1}, Seeks <- 0..2, Ages <- 0..2, MaxOps <- 5, ops <- animOps,
       Delays <- {-1, 0, 1}, EndDelays <- {-2, 0, 1}, Durations <- {0, 2, 4}, IterationCounts <- 0..3, IterationStarts <- {0, 2, 6},
       EffectTimes <- -2..9, MaxFrames <- 4

(* Two names; an element in another or two side by side, and one to make.  *)
NoKids == [n \in {R, x, y, z} |-> << >>]
C == INSTANCE CustomElements WITH
       Doc <- R, Elements <- {x, y, z}, Name <- (x :> "n1") @@ (y :> "n2") @@ (z :> "n1"),
       Starts <- {[NoKids EXCEPT ![R] = <<x>>, ![x] = <<y>>], [NoKids EXCEPT ![R] = <<y, x>>]},
       MaxOps <- 4, MaxDepth <- 4, kids <- ceKids, stack <- ceStack, ops <- ceOps


(* A traversal of part of a tree: two levels below its root, of one shape  *)
(* or another.                                                             *)
Bare == [n \in {R, E, F, ta, tb, tc, leaf} |-> << >>]
Deep == [Bare EXCEPT ![R] = <<E, leaf>>, ![E] = <<F, tc>>, ![F] = <<ta, tb>>]
Wide == [Bare EXCEPT ![R] = <<E, leaf>>, ![E] = <<ta, F, tc>>, ![F] = <<tb>>]
TO == INSTANCE TreeObservers WITH
        WalkNodes <- DOMAIN Bare, Top <- R, Root <- E, Shapes <- {Deep, Wide}, RecordNodes <- {R, E}, Above <- (R :> {R}) @@ (E :> {E, R}),
        Observers <- {1, 2}, MaxOps <- 5

FC == INSTANCE Forms WITH
        Boxes <- {"box"}, Radios <- <<"r1", "r2">>, Required <- {"box"}, FormDefaults <- {"r1"}, Labelled <- "box", FormMaxOps <- 3,
        MaxDepth <- 5, Options <- {"o1", "o2", "o3"}, Disabled <- {"o2"}, SelectMaxOps <- 3,
        text <- inputText, TextValues <- {<< >>, <<"a">>, <<"a", "nl">>, <<"a", "b", "c">>}, MaxTextOps <- 2,
        Numbers <- {-3, 0, 1, 5}, Bounds <- {-2, 3}, NumberSteps <- {3, leaf}, AnyStep <- leaf, RangeMax <- 4, MaxNumberOps <- 3
TT == INSTANCE TextTracks WITH
        Medias <- {"m1", "m2"}, Tracks <- {"k1", "k2"}, Cues <- {"q1", "q2"}, Times <- {<<0, 1>>, <<0, 2>>, <<1, 2>>}, MaxTrackOps <- 3, owner <- cueOwner

-----------------------------------------------------------------------------
MCInit ==
  /\ part \in {"count", "dom", "scripts", "events", "animation", "elements", "observers", "walk", "forms", "selects", "tracks", "texts", "numbers", "effect"}
  /\ Init
  /\ D!SelectionInit /\ (part # "dom" => kids = Nested /\ range.start = <<ta, 1>> /\ range.end = <<ta, 1>>)
  /\ S!Init /\ (part # "scripts" => page = Plain)
  /\ V!Init /\ (part # "events" => listeners = Few)
  /\ A!Init /\ (part # "animation" => fills)
  /\ C!Init /\ (part # "elements" => ceKids[R] = <<x>>)
  /\ TO!RecordInit
  /\ TO!WalkInit /\ (part # "walk" => walker /\ walked = Deep /\ \A n \in DOMAIN verdict : verdict[n] = "accept")
  /\ FC!FormInit /\ (part # "forms" => mixed = {})
  /\ FC!SelectInit /\ (part # "selects" => ~multiple /\ options = << >> /\ byDefault = {})
  /\ TT!Init
  /\ FC!TextInit /\ (part # "texts" => textarea /\ inputText = << >>)
  /\ FC!NumberInit /\ (part # "numbers" => isRange /\ least = None /\ most = None /\ stepAttr = None)
  /\ A!EffectInit

(* What the other parts keep.                                              *)
Others ==
  /\ IF part = "count" THEN TRUE ELSE UNCHANGED vars
  /\ IF part = "dom" THEN TRUE ELSE UNCHANGED dom
  /\ IF part = "scripts" THEN TRUE ELSE UNCHANGED loader
  /\ IF part = "events" THEN TRUE ELSE UNCHANGED dispatch
  /\ IF part = "animation" THEN TRUE ELSE UNCHANGED animation
  /\ IF part = "elements" THEN TRUE ELSE UNCHANGED elements
  /\ IF part = "observers" THEN TRUE ELSE UNCHANGED observing
  /\ IF part = "walk" THEN TRUE ELSE UNCHANGED walk
  /\ IF part = "forms" THEN TRUE ELSE UNCHANGED forms
  /\ IF part = "selects" THEN TRUE ELSE UNCHANGED selects
  /\ IF part = "tracks" THEN TRUE ELSE UNCHANGED tracks
  /\ IF part = "texts" THEN TRUE ELSE UNCHANGED texts
  /\ IF part = "numbers" THEN TRUE ELSE UNCHANGED numbers
  /\ IF part = "effect" THEN TRUE ELSE UNCHANGED effect
In(name, act) == part = name /\ act /\ UNCHANGED part /\ Others

MCNext ==
  \/ In("count", Next)
  \/ In("dom", D!Next /\ UNCHANGED userSelection)
  \/ In("scripts", S!Next)
  \/ In("events", V!Next)
  \/ In("animation", A!Next)
  \/ In("elements", C!Next)
  \/ In("observers", TO!RecordNext)
  \/ In("walk", TO!WalkNext)
  \/ In("forms", FC!FormNext)
  \/ In("selects", FC!SelectNext)
  \/ In("tracks", TT!Next)
  \/ In("texts", FC!TextNext)
  \/ In("numbers", FC!NumberNext)
  \/ In("effect", A!EffectNext)

MCSpec == MCInit /\ [][MCNext]_allVars

(* Requests are answered and the main loop ticks; scripts return, timers   *)
(* and tasks run, and fetches end; frames that are asked for come.  The    *)
(* parts being apart, one condition stands for several of them.            *)
MCFairSpec ==
  /\ MCSpec
  /\ WF_allVars(In("count", (\E r \in Requests : Goes(r)) \/ ResetCount) \/ In("scripts", S!Engine \/ S!Network) \/ In("animation", A!Frames) \/ In("observers", TO!Engine))
  /\ WF_allVars(In("count", Tick) \/ In("animation", A!TimePasses))

(* What follows a state is right after every step: the ends of a live      *)
(* range, the records of a mutation observer, the style an animation sets, *)
(* what a form or a select shows, and what the page was told of them and   *)
(* of the text tracks.                                                     *)
StateAgrees ==
  /\ part = "dom" => D!RangeValid /\ D!RangeFollows /\ D!RecordsReplay
  /\ part = "animation" => A!StyleFollows
  /\ part = "forms" => FC!OneOfGroup /\ FC!ChangesAnnounced
  /\ part = "selects" => FC!ShowsChosen
  /\ part = "tracks" => TT!CuesInPlace /\ TT!TracksAnnounced /\ TT!OneChange
  /\ part = "texts" => FC!SelectionInside
  /\ part = "numbers" => FC!FieldsReadBack

(* Scripts run in the order of their markup, and of the lists they are in. *)
ScriptsInOrder == part = "scripts" => S!ParserOrder /\ S!DeferAndAsync

(* Page code is called when it should be, in order and once: listeners,    *)
(* abort algorithms, constructors and callbacks of elements, observers;    *)
(* the frame an animation needs is asked for, and the promise it gave out  *)
(* is the one it will settle.                                              *)
CalledRight ==
  /\ part = "events" => V!CalledInOrder /\ V!OnceIsOnce /\ V!AbortIsFinal
  /\ part = "elements" => C!EachUpgraded /\ C!ConstructedOnce /\ C!StacksBalanced /\ C!ToldRight
  /\ part = "observers" => TO!HeardInOrder /\ TO!RecordsHaveTurn
  /\ part = "forms" => FC!NoReentry
  /\ part = "animation" => A!FrameComes /\ A!ReadySettles

(* Loops and searches find what their definition says, and effects are     *)
(* where the time says.                                                    *)
AnswersRight ==
  /\ part = "walk" => TO!WalksRight /\ TO!IteratesRight
  /\ part = "effect" => A!TimingAddsUp /\ A!FramesMet /\ A!ListsEven /\ A!EasingsMeet

(* What no step may do: delete too much or too little, fire load early,    *)
(* forget a listener or call one that was removed, make an animation jump, *)
(* submit what is not valid, reset to something else.                      *)
StepsRight ==
  /\ D!DeletesSelection
  /\ S!LoadIsLast
  /\ V!EveryListenerCalled /\ V!RemovedIsQuiet
  /\ A!TimeKeeps
  /\ FC!SubmitsValid
  /\ FC!ResetRestores
  /\ FC!KeepsSelected /\ FC!NumbersStayValid

(* What was begun comes to an end, in each of the parts.                   *)
EverythingEnds ==
  /\ LoadFires
  /\ []<>(part = "scripts" => S!LoadFires)
  /\ []<>(part = "scripts" => S!AllRan)
  /\ []<>(part = "observers" => TO!AllDelivered)
  /\ []<>(part = "animation" => A!FinishedTold)
  /\ []<>(part = "animation" => A!ComesToEnd)
=============================================================================
