----------------------------- MODULE AudioNodes ------------------------------
(***************************************************************************)
(* An AudioParam (crates/script/js/46_webaudio.js): the list of its        *)
(* automation events, the value they give at a time, and computeParam(),   *)
(* which fills the values of a render quantum and takes short cuts where   *)
(* nothing can vary.  A value is the way it is made: what it starts from,  *)
(* goes to and between which times, so that two are equal only if they are *)
(* so for every number.  Times count samples.                              *)
(***************************************************************************)
EXTENDS Integers, Sequences, SequencesExt, FiniteSetsExt

CONSTANTS
  Default,     \* the default value; a call gives its own number, none of them 0
  ParamQuantum,     \* samples in a quantum
  ParamMaxTime, MaxParamCalls

VARIABLES
  paramEvents,      \* sorted by time: [type, time, value, until] (`until` of a curve)
  initialValue,     \* the value before the first event
  baseValue,        \* the value without events
  paramRate,        \* "a-rate" or "k-rate"
  paramFrame,       \* the sample rendered next
  paramFilled,      \* what computeParam() filled the quantum before it with
  paramCalls

timeline == <<paramEvents, initialValue, baseValue, paramRate, paramFrame, paramFilled, paramCalls>>
Num(n) == <<"num", n>>
Ramps == {"linear", "exponential"}
Event(type, t, v, until) == [type |-> type, time |-> t, value |-> v, until |-> until]

-----------------------------------------------------------------------------
(* valueAtTime(): the value on the way from event to event.  A ramp starts *)
(* at the event before it, a target is approached till the next event.     *)
Ramp(e, from, since, t) ==
  CASE e.time > since -> IF t = since THEN from ELSE <<e.type, from, since, e.value, e.time, t>>
    [] e.time <= since -> IF e.type = "linear" THEN e.value ELSE from
Target(e, from, t) == IF t = e.time THEN from ELSE <<"target", from, e.value, t - e.time>>
\* mutant of Reached
ReachedBehind(e, t) == t > e.time
Reached(e, t) == t >= e.time
ValueAt(evs, first, t) ==
  LET Goes(v, since) == [value |-> v, prev |-> v, since |-> since, done |-> FALSE]
      Ends(v, acc) == [acc EXCEPT !.value = v, !.done = TRUE]
      OnTarget(acc, e, i) ==
        IF i = Len(evs) THEN Ends(Target(e, acc.value, t), acc)
        ELSE IF t < evs[i + 1].time THEN Ends(Target(e, acc.value, t), acc)
        ELSE Goes(Target(e, acc.value, evs[i + 1].time), evs[i + 1].time)
      step(acc, i) ==
        LET e == evs[i] IN
        CASE acc.done -> acc
          [] ~acc.done /\ ~Reached(e, t) -> Ends(IF e.type \in Ramps THEN Ramp(e, acc.prev, acc.since, t) ELSE acc.value, acc)
          [] ~acc.done /\ Reached(e, t) /\ e.type = "target" -> OnTarget(acc, e, i)
          [] ~acc.done /\ Reached(e, t) /\ e.type = "curve" /\ t < e.until -> Ends(<<"curve", e.time, e.until, t>>, acc)
          [] OTHER -> Goes(e.value, IF e.type = "curve" THEN e.until ELSE e.time)
  IN FoldLeft(step, Goes(first, 0), [i \in DOMAIN evs |-> i]).value
Value(t) == IF paramEvents = << >> THEN baseValue ELSE ValueAt(paramEvents, initialValue, t)

ParamInit ==
  /\ paramEvents = << >> /\ initialValue = Num(Default) /\ baseValue = Num(Default)
  /\ paramRate \in {"a-rate", "k-rate"} /\ paramFrame = 0 /\ paramFilled = << >> /\ paramCalls = 0

-----------------------------------------------------------------------------
(* insertEvent(): in place of one of its type and time, or behind those of *)
(* its time.                                                               *)
Place(evs, t) == Len(SelectSeq(evs, LAMBDA e : e.time <= t))
Inserted(evs, e) ==
  LET same == {i \in DOMAIN evs : evs[i].time = e.time /\ evs[i].type = e.type /\ e.type # "curve"}
  IN IF same # {} THEN [evs EXCEPT ![CHOOSE i \in same : \A j \in same : i <= j] = e]
     ELSE InsertAt(evs, Place(evs, e.time) + 1, e)
Insert(evs, e) == paramEvents' = Inserted(evs, e) /\ initialValue' = (IF evs = << >> THEN baseValue ELSE initialValue)
ParamCall == paramCalls < MaxParamCalls /\ paramCalls' = paramCalls + 1 /\ UNCHANGED <<paramRate, paramFrame, paramFilled>>

(* setValueAtTime(), the two ramps and setTargetAtTime().                  *)
New == Num(paramCalls + 1)
Schedule(type, t) == ParamCall /\ Insert(paramEvents, Event(type, t, New, t)) /\ UNCHANGED baseValue
(* Setting `value`: an event at the current time.                          *)
SetValue ==
  /\ ParamCall /\ Insert(paramEvents, Event("set", paramFrame, New, paramFrame))
  /\ baseValue' = (IF paramEvents = << >> THEN New ELSE baseValue)
SetValueCurve(t, until) ==
  /\ ParamCall
  /\ \A i \in DOMAIN paramEvents : IF paramEvents[i].type = "curve" THEN t >= paramEvents[i].until \/ until <= paramEvents[i].time
                              ELSE paramEvents[i].time <= t \/ paramEvents[i].time >= until
  /\ Insert(paramEvents, Event("curve", t, New, until)) /\ UNCHANGED baseValue
CancelScheduledValues(t) ==
  /\ ParamCall /\ paramEvents' = SelectSeq(paramEvents, LAMBDA e : e.time < t /\ ~(e.type = "curve" /\ e.until > t))
  /\ UNCHANGED <<initialValue, baseValue>>
\* mutant of Kept
KeptAll(t) == paramEvents
Kept(t) == SelectSeq(paramEvents, LAMBDA e : e.time <= t)
CancelAndHold(t) == ParamCall /\ Insert(Kept(t), Event("set", t, Value(t), t)) /\ UNCHANGED baseValue

-----------------------------------------------------------------------------
(* computeParam() of the next quantum.                                     *)
Settled(last) == paramFrame >= last.time /\ last.type \in {"set"} \union Ramps
Same(v) == [i \in 1 .. ParamQuantum |-> v]
Each == [i \in 1 .. ParamQuantum |-> Value(paramFrame + i - 1)]
BeforeFirst == paramEvents[1].time >= paramFrame + ParamQuantum /\ paramEvents[1].type \notin Ramps
ComputeParam ==
  /\ paramFrame + ParamQuantum <= ParamMaxTime + 1 /\ paramFrame' = paramFrame + ParamQuantum
  /\ LET settled == IF paramEvents = << >> THEN FALSE ELSE Settled(Last(paramEvents))
         got == CASE paramEvents = << >> -> Same(baseValue)
                  [] settled -> Same(Last(paramEvents).value)
                  [] ~settled /\ paramEvents # << >> /\ (paramRate = "k-rate" \/ BeforeFirst) -> Same(Value(paramFrame))
                  [] OTHER -> Each
     IN /\ paramFilled' = got
        /\ baseValue' = (IF settled THEN Last(paramEvents).value ELSE baseValue)
  /\ UNCHANGED <<paramEvents, initialValue, paramRate, paramCalls>>

Times == 0 .. ParamMaxTime
ParamNext ==
  \/ ComputeParam
  \/ SetValue
  \/ \E t \in Times : \/ CancelScheduledValues(t) \/ CancelAndHold(t)
                     \/ \E type \in {"set", "linear", "exponential", "target"} : Schedule(type, t)
                     \/ \E until \in t + 1 .. ParamMaxTime : SetValueCurve(t, until)
ParamSpec == ParamInit /\ [][ParamNext]_timeline

-----------------------------------------------------------------------------
(* An event in a curve, which setValueAtTime() does not refuse.            *)
InCurve == \E i, j \in DOMAIN paramEvents : i < j /\ paramEvents[i].type = "curve" /\ paramEvents[j].time < paramEvents[i].until

(* What a quantum is filled with is the value of the timeline at each of   *)
(* its samples, whichever short cut was taken (computeParam); not so for   *)
(* an event set into a curve.                                              *)
ShortCutsExact == [][ComputeParam /\ ~InCurve => paramFilled' = IF paramRate = "k-rate" THEN Same(Value(paramFrame)) ELSE Each]_timeline

(* The events are sorted, the value is the event's own at its time, and    *)
(* of one type there is one event at a time (insertEvent).                 *)
EventsMet ==
  \A i \in DOMAIN paramEvents :
    /\ \A j \in DOMAIN paramEvents : i < j => paramEvents[i].time <= paramEvents[j].time /\ (paramEvents[i].time = paramEvents[j].time => paramEvents[i].type # paramEvents[j].type \/ paramEvents[i].type = "curve")
    /\ paramEvents[i].type \in {"set"} \union Ramps /\ ~InCurve /\ (i < Len(paramEvents) => paramEvents[i + 1].time > paramEvents[i].time)
       => Value(paramEvents[i].time) = paramEvents[i].value

(* cancelAndHoldAtTime() holds the value for good, but for a curve that    *)
(* goes on, or a target or a ramp that is asked for at that very time; and *)
(* of the events of one time the last one asked for decides, unless it     *)
(* took the place of one.                                                  *)
Free(t, type) ==
  \A i \in DOMAIN paramEvents : /\ paramEvents[i].type = "curve" => t < paramEvents[i].time \/ t >= paramEvents[i].until
                                /\ paramEvents[i].time = t => paramEvents[i].type # type
HoldsValue ==
  [][/\ \A t \in Times : CancelAndHold(t) /\ Free(t, "curve") /\ (\A i \in DOMAIN paramEvents : paramEvents[i].time = t => paramEvents[i].type = "set")
                          => \A later \in t .. ParamMaxTime : Value(later)' = Value(t)
     /\ \A t \in Times : Schedule("set", t) /\ Free(t, "set") => Value(t)' = New]_timeline

-----------------------------------------------------------------------------
(***************************************************************************)
(* The graph of audio nodes (crates/script/js/46_webaudio.js and           *)
(* 47_webaudio_nodes.js): connections kept at both of their ends, the      *)
(* rendering of a quantum that pulls every node once, starting with the    *)
(* destination, and sources that begin and stop at a sample.  Every node   *)
(* has one output and one input; a gain also has a parameter.  What a bus  *)
(* carries is counted: how many times each source is in each sample.  The  *)
(* delay is one of a quantum.                                              *)
(***************************************************************************)

CONSTANTS
  Sources, Gains, Delays, Analysers,
  Destination,
  Wirings,     \* what the page has connected at first: sequences of nodes and targets
  GraphQuantum,     \* samples in a quantum
  GraphMaxTime, MaxGraphCalls

VARIABLES
  nodeOuts,        \* per node, the targets of its output
  nodeIns,         \* per target, the nodes connected to it
  autoPull,    \* analysers rendered without a way to the destination
  playState,        \* per source: start and stop sample (Never), `began`, `ended`
  delayRing,        \* per delay, the input of the last quantum it was rendered in
  graphFrame,       \* the sample rendered next
  graphRendered,    \* the last quantum: what the destination got, and how often each node was rendered
  graphCalls

audioGraph == <<nodeOuts, nodeIns, autoPull, playState, delayRing, graphFrame, graphRendered, graphCalls>>
Nodes == Sources \union Gains \union Delays \union Analysers \union {Destination}
Never == GraphMaxTime + 1
In(n) == <<n, "input">>
Param(n) == <<n, "param">>
Targets == {In(n) : n \in Nodes \ Sources} \union {Param(n) : n \in Gains}
Zero == [x \in Sources \X (0 .. GraphQuantum - 1) |-> 0]
Add(a, b) == [x \in DOMAIN Zero |-> a[x] + b[x]]

GraphInit ==
  /\ \E wiring \in Wirings :
       /\ nodeOuts = [n \in Nodes \ {Destination} |-> LET out == SelectSeq(wiring, LAMBDA c : c[1] = n) IN [i \in DOMAIN out |-> out[i][2]]]
       /\ nodeIns = [t \in Targets |-> LET to == SelectSeq(wiring, LAMBDA c : c[2] = t) IN [i \in DOMAIN to |-> to[i][1]]]
       /\ autoPull = {a \in Analysers : \E i \in DOMAIN wiring : wiring[i][2] = In(a)}
  /\ playState = [s \in Sources |-> [started |-> FALSE, start |-> Never, stop |-> Never, began |-> FALSE, ended |-> 0]]
  /\ delayRing = [d \in Delays |-> Zero] /\ graphFrame = 0
  /\ graphRendered = [dest |-> Zero, runs |-> [n \in Nodes |-> 0]] /\ graphCalls = 0

-----------------------------------------------------------------------------
(* connect() and disconnect().                                             *)
GraphCall == graphCalls < MaxGraphCalls /\ graphCalls' = graphCalls + 1 /\ UNCHANGED <<delayRing, graphFrame, graphRendered>>
Connect(n, t) ==
  /\ GraphCall /\ UNCHANGED playState
  /\ IF Contains(nodeIns[t], n) THEN UNCHANGED <<nodeOuts, nodeIns>>
     ELSE nodeOuts' = [nodeOuts EXCEPT ![n] = Append(@, t)] /\ nodeIns' = [nodeIns EXCEPT ![t] = Append(@, n)]
  /\ autoPull' = autoPull \union {a \in Analysers : t = In(a)}

\* mutant of DropAll
DropFirst(n, gone) ==
  /\ nodeOuts' = [nodeOuts EXCEPT ![n] = SelectSeq(@, LAMBDA t : t \notin gone)]
  /\ nodeIns' = [t \in Targets |-> IF t \in gone /\ t[2] = "input" THEN Remove(nodeIns[t], n) ELSE nodeIns[t]]
DropAll(n, gone) ==
  /\ nodeOuts' = [nodeOuts EXCEPT ![n] = SelectSeq(@, LAMBDA t : t \notin gone)]
  /\ nodeIns' = [t \in Targets |-> IF t \in gone THEN Remove(nodeIns[t], n) ELSE nodeIns[t]]
Disconnect(n, t) ==
  /\ GraphCall /\ Contains(nodeOuts[n], t)
  /\ DropAll(n, {t}) /\ UNCHANGED <<autoPull, playState>>
DisconnectAll(n) == GraphCall /\ nodeOuts[n] # << >> /\ DropAll(n, Targets) /\ UNCHANGED <<autoPull, playState>>

(* start() and stop() of a source.                                         *)
Start(s, when) ==
  /\ GraphCall /\ ~playState[s].started
  /\ playState' = [playState EXCEPT ![s].started = TRUE, ![s].start = when] /\ UNCHANGED <<nodeOuts, nodeIns, autoPull>>
Stop(s, when) ==
  /\ GraphCall /\ playState[s].started /\ playState' = [playState EXCEPT ![s].stop = when] /\ UNCHANGED <<nodeOuts, nodeIns, autoPull>>

-----------------------------------------------------------------------------
(* schedule(): the samples of the quantum in which a source is heard, and  *)
(* what it knows after it.                                                 *)
Starts(s) == playState[s].started /\ playState[s].ended = 0 /\ (playState[s].began \/ playState[s].start < graphFrame + GraphQuantum)
StopsAt(s) == Max({0, Min({GraphQuantum, playState[s].stop - graphFrame})})
Audible(s) ==
  LET offset == IF playState[s].began THEN 0 ELSE Max({0, playState[s].start - graphFrame})
  IN IF Starts(s) THEN offset .. StopsAt(s) - 1 ELSE {}
Finishes(s) == Starts(s) /\ playState[s].stop <= graphFrame + GraphQuantum
Played(s) == [playState[s] EXCEPT !.began = @ \/ Starts(s), !.ended = IF Finishes(s) THEN @ + 1 ELSE @]
Sound(s) == [x \in DOMAIN Zero |-> IF x[1] = s /\ x[2] \in Audible(s) THEN 1 ELSE 0]

(* processNode(): the nodes connected to it first, but one that is being   *)
(* rendered, then those connected to its parameters.                       *)
Skips(before, after, m) == m \in after.busy
\* mutant of Rendered
RenderedNever(acc, n) == FALSE
Rendered(acc, n) == acc.runs[n] > 0
Gives(n, sum) == CASE n \in Sources -> Sound(n) [] n \in Delays -> delayRing[n] [] OTHER -> sum
RECURSIVE ProcessNode(_, _)
ProcessNode(n, acc) ==
  IF n \in acc.busy \/ Rendered(acc, n) THEN acc
  ELSE LET pull(a, m) ==
             LET b == ProcessNode(m, a.acc)
             IN [acc |-> b, sum |-> IF Skips(a.acc, b, m) THEN a.sum ELSE Add(a.sum, b.bus[m])]
           pulls(a, t) == IF t \in Targets THEN FoldLeft(pull, [acc |-> a, sum |-> Zero], nodeIns[t]) ELSE [acc |-> a, sum |-> Zero]
           input == pulls([acc EXCEPT !.busy = @ \union {n}], In(n))
           done == pulls(input.acc, Param(n)).acc
       IN [done EXCEPT !.busy = @ \ {n}, !.runs[n] = @ + 1, !.bus[n] = Gives(n, input.sum), !.got[n] = input.sum]

(* renderQuantum(): the destination, then what is rendered anyway.         *)
Nothing == [busy |-> {}, runs |-> [n \in Nodes |-> 0], bus |-> [n \in Nodes |-> Zero], got |-> [n \in Nodes |-> Zero]]
RenderQuantum ==
  /\ graphFrame + GraphQuantum <= GraphMaxTime /\ graphFrame' = graphFrame + GraphQuantum
  /\ LET all == FoldLeft(LAMBDA a, n : ProcessNode(n, a), ProcessNode(Destination, Nothing), SetToSeq(autoPull))
     IN /\ graphRendered' = [dest |-> all.got[Destination], runs |-> all.runs]
        /\ delayRing' = [d \in Delays |-> IF all.runs[d] > 0 THEN all.got[d] ELSE delayRing[d]]
        /\ playState' = [s \in Sources |-> IF all.runs[s] > 0 THEN Played(s) ELSE playState[s]]
  /\ UNCHANGED <<nodeOuts, nodeIns, autoPull, graphCalls>>

GraphNext ==
  \/ \E n \in Nodes \ {Destination} : DisconnectAll(n) \/ \E t \in Targets : Connect(n, t) \/ Disconnect(n, t)
  \/ \E s \in Sources, when \in 0 .. GraphMaxTime : Start(s, when) \/ Stop(s, when)
  \/ RenderQuantum
GraphSpec == GraphInit /\ [][GraphNext]_audioGraph

-----------------------------------------------------------------------------
(* Walks of each length along the outputs, from a node to an end of the    *)
(* rendering; `through` says which edges and nodes a walk may take.        *)
Walks(ends, through(_, _)) ==
  LET w[k \in 0 .. Cardinality(Nodes)] ==
        [n \in Nodes |-> IF k = 0 THEN IF n \in ends THEN 1 ELSE 0
                         ELSE IF n = Destination THEN 0
                         ELSE MapThenSumSet(LAMBDA t : IF through(n, t) THEN w[k - 1][t[1]] ELSE 0, Range(nodeOuts[n]))]
  IN w
Reaches(n) == \E k \in 0 .. Cardinality(Nodes) : Walks({Destination} \union autoPull, LAMBDA m, t : TRUE)[k][n] > 0
Acyclic == \A n \in Nodes : Walks(Nodes, LAMBDA m, t : TRUE)[Cardinality(Nodes)][n] = 0
Paths(n) ==
  LET w == Walks({Destination}, LAMBDA m, t : t[2] = "input" /\ t[1] \notin Delays)
  IN MapThenSumSet(LAMBDA k : w[k][n], DOMAIN w)

(* A connection is known at both its ends, once.                           *)
BothEnds == \A t \in Targets : IsInjective(nodeIns[t]) /\ Range(nodeIns[t]) = {n \in DOMAIN nodeOuts : Contains(nodeOuts[n], t)}

(* In every quantum every node from which the destination or an analyser   *)
(* is reached is rendered, once, cycles or not; and without a cycle what   *)
(* arrives is the sum over all ways of what sources and delays give.       *)
EachOnce == [][RenderQuantum => \A n \in Nodes : graphRendered'.runs[n] = IF Reaches(n) THEN 1 ELSE 0]_audioGraph
AllWaysHeard ==
  [][RenderQuantum /\ Acyclic =>
       graphRendered'.dest = [x \in DOMAIN Zero |-> MapThenSumSet(LAMBDA n : Paths(n) * Gives(n, Zero)[x], Sources \union Delays)]]_audioGraph

(* A source is heard only from its start to its stop, and ends once.       *)
HeardInTime ==
  [][RenderQuantum => \A s \in Sources :
       /\ \A i \in Audible(s) : playState[s].start <= graphFrame + i /\ graphFrame + i < playState[s].stop
       /\ playState'[s].ended <= 1]_audioGraph
=============================================================================
