----------------------------- MODULE EventDispatch -----------------------------
(***************************************************************************)
(* Event listeners, event handlers, dispatch and abort signals             *)
(* (crates/script/js/10_events.js), for one event type on nodes and the    *)
(* abort event on signals.  Listeners are numbered as they are made.  The  *)
(* stack holds what runs: dispatches, and signals whose abort algorithms   *)
(* run; the page acts when nothing runs or a listener does, so listeners   *)
(* come and go, and events are dispatched, in the middle of a dispatch.    *)
(***************************************************************************)
EXTENDS Naturals, Sequences, SequencesExt, FiniteSets

CONSTANTS
  Events,      \* those of the page
  Signals,     \* and their abort events
  Callbacks,
  Paths,       \* the paths of dispatches at nodes, from the target upwards
  Bubbles,     \* the events that bubble
  Markup,      \* nodes with an event handler in the markup
  Follows,     \* signal -> the signals it was made from, by AbortSignal.any()
  Starts,      \* sequences of listeners to begin with
  MaxListeners, MaxOps, MaxDepth,   \* bounds: listeners made, calls, stack
  Nobody

VARIABLES
  listeners,   \* their records, in the order they were made
  lists,       \* target -> registered listeners, as they will be called
  undiscovered, \* nodes whose markup handler has not been seen yet
  handler,     \* target -> listener of its event handler, 0 without one
  aborted, algos,   \* signals, signal -> what is to be done when it aborts
  stopped, stoppedNow,   \* events with the flag of stopPropagation() and of stopImmediatePropagation()
  stack,
  calls,       \* listener -> how often it was called
  fired,       \* signals whose abort event was dispatched, in order
  ops

eventVars == <<listeners, lists, undiscovered, handler, aborted, algos, stopped, stoppedNow, stack, calls, fired, ops>>

Nodes == UNION {Range(p) : p \in Paths}
Targets == Nodes \union Signals
Made == DOMAIN listeners
Registered(l) == l \in Range(lists[listeners[l].target])
Top == Last(stack)
Dispatching == SelectSeq(stack, LAMBDA f : f.kind = "dispatch")
PageRuns == IF stack = << >> THEN TRUE ELSE Top.kind = "dispatch" /\ Top.running # 0

Init ==
  /\ listeners \in Starts /\ calls = [l \in Made |-> 0]
  /\ lists = [t \in Targets |-> SelectSeq([l \in Made |-> l], LAMBDA l : listeners[l].target = t)]
  /\ undiscovered = Markup /\ handler = [t \in Targets |-> 0]
  /\ aborted = {} /\ stopped = {} /\ stoppedNow = {} /\ stack = << >> /\ fired = << >> /\ ops = 0
  /\ algos = [s \in Signals |->
                SetToSeq({<<"abort", f>> : f \in {x \in Signals : s \in Follows[x]}})
                \o [i \in 1..Cardinality({l \in Made : listeners[l].signal = s}) |->
                     <<"remove", SetToSortSeq({l \in Made : listeners[l].signal = s}, LAMBDA x, y : x < y)[i]>>]]

-----------------------------------------------------------------------------
(* Listeners and handlers.                                                 *)
New(t, callback, capture, once, signal, handles) ==
  [target |-> t, callback |-> callback, capture |-> capture, once |-> once, signal |-> signal, handles |-> handles]
Without(ls, l) == [ls EXCEPT ![listeners[l].target] = SelectSeq(@, LAMBDA x : x # l)]

Acts == PageRuns /\ ops < MaxOps /\ ops' = ops + 1
Makes(l) == Len(listeners) < MaxListeners /\ listeners' = Append(listeners, l) /\ calls' = Append(calls, 0)
NewId == Len(listeners) + 1

Accepts(t, callback, capture, signal) ==
  /\ signal \notin aborted
  /\ ~\E l \in Range(lists[t]) : listeners[l].handles = "no" /\ listeners[l].callback = callback /\ listeners[l].capture = capture
AddEventListener(t, callback, capture, once, signal) ==
  /\ Acts /\ Accepts(t, callback, capture, signal)
  /\ Makes(New(t, callback, capture, once, signal, "no"))
  /\ lists' = [lists EXCEPT ![t] = Append(@, NewId)]
  /\ algos' = IF signal = Nobody THEN algos ELSE [algos EXCEPT ![signal] = Append(@, <<"remove", NewId>>)]
  /\ UNCHANGED <<undiscovered, handler, aborted, stopped, stoppedNow, stack, fired>>

RemoveEventListener(t, callback, capture) ==
  /\ Acts
  /\ \E l \in Range(lists[t]) :
       /\ listeners[l].handles = "no" /\ listeners[l].callback = callback /\ listeners[l].capture = capture
       /\ lists' = Without(lists, l)
  /\ UNCHANGED <<listeners, undiscovered, handler, aborted, algos, stopped, stoppedNow, stack, calls, fired>>

(* activate() of a handler that has no listener: at the end, or before the *)
(* listeners if the handler is of the markup.                              *)
\* mutant of Activated
ActivatedLast(list, l, fromMarkup) == Append(list, l)
Activated(list, l, fromMarkup) == IF fromMarkup THEN <<l>> \o list ELSE Append(list, l)

(* discoverInline() of the nodes in ts, which have a handler each.         *)
Discover(ts) ==
  LET order == SetToSeq(ts)
      id(t) == Len(listeners) + SelectInSeq(order, LAMBDA x : x = t)
  IN  /\ listeners' = listeners \o [i \in DOMAIN order |-> New(order[i], Nobody, FALSE, FALSE, Nobody, "markup")]
      /\ calls' = calls \o [i \in DOMAIN order |-> 0]
      /\ handler' = [t \in Targets |-> IF t \in ts THEN id(t) ELSE handler[t]]
      /\ lists' = [t \in Targets |-> IF t \in ts THEN Activated(lists[t], id(t), TRUE) ELSE lists[t]]
      /\ undiscovered' = undiscovered \ ts

(* target.onclick = function: a handler that stands keeps its place.       *)
SetHandler(t) ==
  /\ Acts
  /\ IF t \in undiscovered THEN Discover({t})
     ELSE /\ handler[t] = 0 /\ UNCHANGED undiscovered
          /\ Makes(New(t, Nobody, FALSE, FALSE, Nobody, "set"))
          /\ handler' = [handler EXCEPT ![t] = NewId]
          /\ lists' = [lists EXCEPT ![t] = Activated(@, NewId, FALSE)]
  /\ UNCHANGED <<aborted, algos, stopped, stoppedNow, stack, fired>>

(* target.onclick = null, also of a handler not seen yet.                  *)
ClearHandler(t) ==
  /\ Acts /\ (handler[t] # 0 \/ t \in undiscovered)
  /\ undiscovered' = undiscovered \ {t}
  /\ handler' = [handler EXCEPT ![t] = 0] /\ lists' = IF handler[t] # 0 THEN Without(lists, handler[t]) ELSE lists
  /\ UNCHANGED <<listeners, aborted, algos, stopped, stoppedNow, stack, calls, fired>>

-----------------------------------------------------------------------------
(* Dispatch.  agenda are the calls of invoke() still to come, todo what is *)
(* left of the snapshot of the one that runs; path, bubbles, known, called *)
(* and halted tell the properties where the event goes, what stood at the  *)
(* start, what was called and whether propagation was stopped.             *)
Pass(t, capturing, phase) == [target |-> t, capturing |-> capturing, phase |-> phase]
\* mutant of Agenda
AgendaTargetOnce(path, bubbles) ==
  [i \in 1..(Len(path) - 1) |-> Pass(path[Len(path) + 1 - i], TRUE, "capture")]
  \o <<Pass(path[1], FALSE, "target")>>
  \o (IF bubbles THEN [i \in 1..(Len(path) - 1) |-> Pass(path[i + 1], FALSE, "bubble")] ELSE << >>)
Agenda(path, bubbles) ==
  [i \in 1..(Len(path) - 1) |-> Pass(path[Len(path) + 1 - i], TRUE, "capture")]
  \o <<Pass(path[1], TRUE, "target"), Pass(path[1], FALSE, "target")>>
  \o (IF bubbles THEN [i \in 1..(Len(path) - 1) |-> Pass(path[i + 1], FALSE, "bubble")] ELSE << >>)

DispatchFrame(event, path, bubbles, known) ==
  [kind |-> "dispatch", event |-> event, agenda |-> Agenda(path, bubbles), todo |-> << >>, pass |-> Nobody, running |-> 0,
   path |-> path, bubbles |-> bubbles, known |-> known, called |-> << >>, halted |-> FALSE]

MayDispatch(event) == \A i \in DOMAIN stack : stack[i].kind = "dispatch" => stack[i].event # event
DispatchEvent(event, path) ==
  /\ Acts /\ MayDispatch(event) /\ Len(stack) < MaxDepth
  /\ Discover(Range(path) \cap undiscovered)
  /\ stack' = Append(stack, DispatchFrame(event, path, event \in Bubbles, {l \in DOMAIN listeners' : l \in Range(lists'[listeners'[l].target])}))
  /\ UNCHANGED <<aborted, algos, stopped, stoppedNow, fired>>

Halt(frames, event) ==
  [i \in DOMAIN frames |-> IF frames[i].kind = "dispatch" /\ frames[i].event = event THEN [frames[i] EXCEPT !.halted = TRUE] ELSE frames[i]]
(* stopPropagation() and stopImmediatePropagation() of an event that is    *)
(* being dispatched, not always the innermost.                             *)
Stop(event, immediately) ==
  /\ Acts /\ \E i \in DOMAIN Dispatching : Dispatching[i].event = event
  /\ stopped' = stopped \union {event}
  /\ stoppedNow' = IF immediately THEN stoppedNow \union {event} ELSE stoppedNow
  /\ stack' = Halt(stack, event)
  /\ UNCHANGED <<listeners, lists, undiscovered, handler, aborted, algos, calls, fired>>

Engaged == stack # << >> /\ Top.kind = "dispatch" /\ Top.running = 0
TopIs(f) == stack' = Append(Front(stack), f)

(* invoke() takes a snapshot of the next target's listeners.               *)
Invoke ==
  /\ Engaged /\ Top.todo = << >> /\ Top.agenda # << >> /\ Top.event \notin stopped
  /\ TopIs([Top EXCEPT !.agenda = Tail(@), !.pass = Head(Top.agenda), !.todo = lists[Head(Top.agenda).target]])
  /\ UNCHANGED <<listeners, lists, undiscovered, handler, aborted, algos, stopped, stoppedNow, calls, fired, ops>>

Skips(l) == ~Registered(l) \/ listeners[l].capture # Top.pass.capturing
AfterOnce(l) == IF listeners[l].once THEN Without(lists, l) ELSE lists

Call ==
  LET l == Head(Top.todo)
  IN  /\ Engaged /\ Top.todo # << >>
      /\ IF Skips(l) THEN TopIs([Top EXCEPT !.todo = Tail(@)]) /\ UNCHANGED <<lists, calls>>
         ELSE /\ lists' = AfterOnce(l)
              /\ calls' = [calls EXCEPT ![l] = @ + 1]
              /\ TopIs([Top EXCEPT !.todo = Tail(@), !.running = l, !.called = Append(@, l)])
      /\ UNCHANGED <<listeners, undiscovered, handler, aborted, algos, stopped, stoppedNow, fired, ops>>

(* The listener returns.                                                   *)
Return ==
  /\ stack # << >> /\ Top.kind = "dispatch" /\ Top.running # 0
  /\ TopIs([Top EXCEPT !.running = 0, !.todo = IF Top.event \in stoppedNow THEN << >> ELSE @])
  /\ UNCHANGED <<listeners, lists, undiscovered, handler, aborted, algos, stopped, stoppedNow, calls, fired, ops>>

EndDispatch ==
  /\ Engaged /\ Top.todo = << >> /\ (Top.agenda = << >> \/ Top.event \in stopped)
  /\ stack' = Front(stack)
  /\ stopped' = stopped \ {Top.event} /\ stoppedNow' = stoppedNow \ {Top.event}
  /\ UNCHANGED <<listeners, lists, undiscovered, handler, aborted, algos, calls, fired, ops>>

-----------------------------------------------------------------------------
(* signalAbortInternal(): the algorithms, then the event.                  *)
AbortFrame(s) == [kind |-> "abort", signal |-> s, todo |-> algos[s]]
MayAbort(s) == s \notin aborted
Begins(s, frames) ==
  /\ aborted' = aborted \union {s}
  /\ algos' = [algos EXCEPT ![s] = << >>]
  /\ stack' = Append(frames, AbortFrame(s))

Abort(s) ==
  /\ Acts /\ Follows[s] = {} /\ MayAbort(s) /\ Begins(s, stack)
  /\ UNCHANGED <<listeners, lists, undiscovered, handler, stopped, stoppedNow, calls, fired>>

RunAlgorithm ==
  LET algorithm == Head(Top.todo)
      rest == Append(Front(stack), [Top EXCEPT !.todo = Tail(@)])
  IN  /\ stack # << >> /\ Top.kind = "abort" /\ Top.todo # << >>
      /\ IF algorithm[1] = "remove" THEN lists' = Without(lists, algorithm[2]) /\ stack' = rest /\ UNCHANGED <<aborted, algos>>
         ELSE IF MayAbort(algorithm[2]) THEN Begins(algorithm[2], rest) /\ UNCHANGED lists
         ELSE stack' = rest /\ UNCHANGED <<lists, aborted, algos>>
      /\ UNCHANGED <<listeners, undiscovered, handler, stopped, stoppedNow, calls, fired, ops>>

FireAbort ==
  /\ stack # << >> /\ Top.kind = "abort" /\ Top.todo = << >>
  /\ fired' = Append(fired, Top.signal)
  /\ TopIs(DispatchFrame(Top.signal, <<Top.signal>>, FALSE, {l \in Made : Registered(l)}))
  /\ UNCHANGED <<listeners, lists, undiscovered, handler, aborted, algos, stopped, stoppedNow, calls, ops>>

-----------------------------------------------------------------------------
Page ==
  \/ \E t \in Nodes, c \in Callbacks, capture, once \in BOOLEAN, s \in Signals \union {Nobody} :
       AddEventListener(t, c, capture, once, s)
  \/ \E s \in Signals, c \in Callbacks : AddEventListener(s, c, FALSE, FALSE, Nobody)
  \/ \E t \in Nodes, c \in Callbacks, capture \in BOOLEAN : RemoveEventListener(t, c, capture)
  \/ \E t \in Nodes : SetHandler(t) \/ ClearHandler(t)
  \/ \E e \in Events, p \in Paths : DispatchEvent(e, p)
  \/ \E e \in Events, immediately \in BOOLEAN : Stop(e, immediately)
  \/ \E s \in Signals : Abort(s)
Engine == Invoke \/ Call \/ Return \/ EndDispatch \/ RunAlgorithm \/ FireAbort
Next == Page \/ Engine
Spec == Init /\ [][Next]_eventVars

-----------------------------------------------------------------------------
Concerns(f, l) == LET t == listeners[l].target IN t \in Range(f.path) /\ (listeners[l].capture \/ t = f.path[1] \/ f.bubbles)
Place(f, l) == LET i == SelectInSeq(f.path, LAMBDA t : t = listeners[l].target)
               IN  IF listeners[l].capture THEN Len(f.path) - i ELSE Len(f.path) + i
Times(f, l) == Cardinality({i \in DOMAIN f.called : f.called[i] = l})

(* A dispatch that nobody stops has called, when it ends, each listener    *)
(* that stood from its beginning to its end on the way of the event once,  *)
(* whatever else was added and removed meanwhile; nothing is called twice. *)
EveryListenerCalled ==
  [][EndDispatch /\ ~Top.halted =>
       \A l \in Top.known : Registered(l) /\ Concerns(Top, l) => Times(Top, l) = 1]_eventVars

(* Listeners are called in the order of the path and, at one target, in    *)
(* the order they were added, those of the markup before all others.       *)
Rank(l) == IF listeners[l].handles = "markup" THEN 0 ELSE l
CalledInOrder ==
  \A k \in DOMAIN Dispatching : LET f == Dispatching[k] IN
    \A i, j \in DOMAIN f.called : i < j =>
      \/ Place(f, f.called[i]) < Place(f, f.called[j])
      \/ Place(f, f.called[i]) = Place(f, f.called[j]) /\ Rank(f.called[i]) < Rank(f.called[j])

(* What is removed is not called any more, also in the middle of a         *)
(* dispatch, and nothing is called at another target, or at all, once the  *)
(* event was stopped there.                                                *)
RemovedIsQuiet ==
  [][\A l \in Made : calls'[l] > calls[l] =>
       /\ Registered(l)
       /\ ~Top.halted \/ (Top.called # << >> /\ listeners[Last(Top.called)].target = listeners[l].target)]_eventVars

(* A listener added with once is called at most once, however dispatches   *)
(* nest.                                                                   *)
OnceIsOnce == \A l \in Made : listeners[l].once => calls[l] <= 1

(* When a signal has run its abort algorithms, no listener that was added  *)
(* with it is left, and none comes later; what follows it has aborted      *)
(* before; and its event is fired once.                                    *)
AbortIsFinal ==
  /\ \A s \in aborted : (\A i \in DOMAIN stack : stack[i].kind = "abort" => stack[i].signal # s) =>
       /\ \A l \in Made : listeners[l].signal = s => ~Registered(l)
       /\ \A f \in Signals : s \in Follows[f] => f \in aborted
  /\ \A i, j \in DOMAIN fired : fired[i] = fired[j] => i = j
=============================================================================
