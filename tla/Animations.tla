------------------------------ MODULE Animations ------------------------------
(***************************************************************************)
(* One animation of the Web Animations part of                             *)
(* crates/script/js/40_webapi.js: play, pause, finish, cancel, reverse,    *)
(* seeks and rate changes by the page, at any time and from the reactions  *)
(* of its own promises and events, against the frames that start it, move  *)
(* it and end it.  Times are relative: age is the timeline's time minus    *)
(* the start time, so that current time = age * rate.                      *)
(***************************************************************************)
EXTENDS Integers, Sequences

CONSTANTS
  End,       \* end of the effect
  Rates, Seeks, Ages,   \* what the page sets: playback rates 1 and -1, current times, ages
  MaxOps,    \* bound on the calls of the page
  None

VARIABLES
  anim,      \* the state of the animation, with its promises
  fills,     \* the effect fills forwards
  relevant,  \* it is in ANIMATIONS
  applied,   \* its values are in the style of the target
  scheduled, \* a frame is to tick the animations
  micro,     \* microtasks that are queued
  reacting,  \* page code runs that reacts to a promise or an event
  late,      \* the page has set a state that the promises do not follow
  ops

animVars == <<anim, fills, relevant, applied, scheduled, micro, reacting, late, ops>>

-----------------------------------------------------------------------------
CurrentTime(a) == IF a.hold # None THEN a.hold ELSE IF a.age = None THEN None ELSE a.age * a.rate
AtEnd(a, ct) == (a.rate > 0 /\ ct >= End) \/ (a.rate < 0 /\ ct <= 0)
PlayState(a) ==
  LET ct == CurrentTime(a)
  IN  IF ct = None /\ ~a.pending THEN "idle"
      ELSE IF a.paused THEN "paused"
      ELSE IF ct # None THEN (IF AtEnd(a, ct) THEN "finished" ELSE "running") ELSE "running"

(* computeTiming() gives a progress.                                       *)
InEffect(a) ==
  LET ct == CurrentTime(a)
  IN  IF ct = None THEN FALSE
      ELSE /\ ~(ct < 0 \/ (a.rate < 0 /\ ct = 0))
           /\ fills \/ ~(ct > End \/ (a.rate > 0 /\ ct = End))

\* mutant of NewFinished
NewFinishedSettled(a) == [a EXCEPT !.finished = "pending"]
NewFinished(a) == [a EXCEPT !.finished = "pending", !.settled = FALSE]

(* w = [anim, micro]                                                       *)
Clamped(a) ==
  LET ct == CurrentTime(a)
  IN  IF a.age = None \/ a.pending THEN a
      ELSE IF AtEnd(a, ct) THEN [a EXCEPT !.hold = IF a.rate > 0 THEN End ELSE 0, !.age = None] ELSE a

UpdateFinished(w, sync) ==
  LET a == Clamped(w.anim)
      done == PlayState(a) = "finished" /\ ~a.pending
  IN  IF done /\ ~a.settled
      THEN IF sync THEN [anim |-> [a EXCEPT !.settled = TRUE, !.finished = "resolved"], micro |-> Append(w.micro, <<"finish event", 0>>)]
           ELSE [anim |-> [a EXCEPT !.settled = TRUE], micro |-> Append(w.micro, <<"finish", 0>>)]
      ELSE [w EXCEPT !.anim = IF ~done /\ a.settled THEN NewFinished(a) ELSE a]

Current == [anim |-> anim, micro |-> micro]
Init ==
  /\ anim = [hold |-> None, age |-> None, rate |-> 1, paused |-> FALSE, pending |-> FALSE, settled |-> FALSE,
             finished |-> "pending", ready |-> "resolved", readyId |-> 0, resolver |-> FALSE]
  /\ fills \in BOOLEAN /\ relevant = FALSE /\ applied = FALSE /\ scheduled = FALSE
  /\ micro = << >> /\ reacting = FALSE /\ late = FALSE /\ ops = 0

-----------------------------------------------------------------------------
(* Calls of the page.                                                      *)
Acts == (micro = << >> \/ reacting) /\ ops < MaxOps /\ ops' = ops + 1
(* The call leads to w and applies the animations, of which this one is    *)
(* one from now on; most ask for a frame.                                  *)
Becomes(w, asks) ==
  /\ anim' = w.anim /\ micro' = w.micro
  /\ relevant' = TRUE /\ applied' = InEffect(w.anim)
  /\ scheduled' = (scheduled \/ asks)
  /\ UNCHANGED <<fills, reacting>>

Played(a) ==
  LET ct == CurrentTime(a)
      from == IF a.rate > 0 THEN (IF ct = None THEN 0 ELSE IF ct < 0 \/ ct >= End THEN 0 ELSE None)
              ELSE (IF ct = None THEN End ELSE IF ct <= 0 \/ ct > End THEN End ELSE None)
      held == IF from # None THEN from ELSE IF a.age # None /\ ~a.paused THEN ct ELSE a.hold
      new == [a EXCEPT !.hold = held, !.age = None, !.paused = FALSE, !.pending = TRUE,
                       !.ready = "pending", !.readyId = @ + 1, !.resolver = TRUE]
  IN  IF a.settled THEN NewFinished(new) ELSE new
Play == Acts /\ Becomes([anim |-> Played(anim), micro |-> micro], TRUE) /\ UNCHANGED late
Reverse == Acts /\ -anim.rate \in Rates /\ Becomes([anim |-> Played([anim EXCEPT !.rate = -@]), micro |-> micro], TRUE) /\ UNCHANGED late

\* mutant of PausedAt
PausedAtHold(a) == IF a.hold # None THEN a.hold ELSE 0
PausedAt(a) == IF CurrentTime(a) # None THEN CurrentTime(a) ELSE IF a.rate > 0 THEN 0 ELSE End
Pause ==
  /\ Acts /\ ~anim.paused
  /\ Becomes([anim |-> [anim EXCEPT !.hold = PausedAt(anim), !.age = None, !.paused = TRUE, !.pending = FALSE, !.resolver = FALSE,
                                    !.ready = IF anim.resolver THEN @ ELSE "resolved"],
              micro |-> IF anim.resolver THEN Append(micro, <<"ready", anim.readyId>>) ELSE micro], TRUE)
  /\ UNCHANGED late

(* resolveReady() of a play that had not begun.                            *)
Readied(w) ==
  IF w.anim.resolver
  THEN [anim |-> [w.anim EXCEPT !.ready = "resolved", !.resolver = FALSE], micro |-> Append(w.micro, <<"reaction", 0>>)]
  ELSE w
Finish ==
  LET readied == IF anim.pending \/ anim.age = None THEN Readied(Current) ELSE Current
      limit == IF anim.rate > 0 THEN End ELSE 0
  IN  /\ Acts
      /\ Becomes(UpdateFinished([readied EXCEPT !.anim = [@ EXCEPT !.paused = FALSE, !.pending = FALSE, !.hold = None,
                                                                    !.age = limit * anim.rate]], TRUE), FALSE)
      /\ UNCHANGED late

Cancel ==
  LET gone == [NewFinished(anim) EXCEPT !.age = None, !.hold = None, !.paused = FALSE, !.pending = FALSE, !.resolver = FALSE,
                                        !.ready = IF anim.resolver THEN "rejected" ELSE @]
  IN  /\ Acts
      /\ IF PlayState(anim) = "idle" THEN UNCHANGED <<anim, micro>>
         ELSE anim' = gone /\ micro' = Append(micro, <<"cancel event", 0>>)
      /\ relevant' = FALSE /\ applied' = FALSE
      /\ UNCHANGED <<fills, scheduled, reacting, late>>

(* animation.currentTime = t                                               *)
SeekTo(a, t) == IF a.hold # None \/ a.age = None \/ a.paused \/ a.pending THEN [a EXCEPT !.hold = t] ELSE [a EXCEPT !.age = t * a.rate]
SetCurrentTime(t) ==
  /\ Acts /\ Becomes(UpdateFinished([Current EXCEPT !.anim = SeekTo(anim, t)], TRUE), TRUE) /\ UNCHANGED late

(* animation.startTime = time, of the age given; the promise of a play     *)
(* that had not begun is left as it is.                                    *)
SetStartTime(age) ==
  LET a == IF age = None THEN [anim EXCEPT !.hold = CurrentTime(anim), !.age = None]
           ELSE [anim EXCEPT !.age = age, !.hold = None, !.pending = FALSE, !.paused = FALSE]
      w == UpdateFinished([Current EXCEPT !.anim = a], TRUE)
  IN  /\ Acts
      /\ anim' = w.anim /\ micro' = w.micro
      /\ relevant' = (relevant \/ age # None) /\ applied' = ((relevant \/ age # None) /\ InEffect(w.anim)) /\ scheduled' = TRUE
      /\ late' = (late \/ (anim.pending /\ age # None))
      /\ UNCHANGED <<fills, reacting>>

Rated(a, rate) == SeekTo([a EXCEPT !.rate = rate], CurrentTime(a))
SetPlaybackRate(rate) ==
  /\ Acts /\ rate # anim.rate
  /\ IF CurrentTime(anim) # None THEN Becomes(UpdateFinished([Current EXCEPT !.anim = Rated(anim, rate)], TRUE), TRUE)
     ELSE anim' = [anim EXCEPT !.rate = rate] /\ UNCHANGED <<fills, relevant, applied, scheduled, micro, reacting>>
  /\ UNCHANGED late

-----------------------------------------------------------------------------
(* Microtasks; reactions of the page run as they do.                       *)
RunMicrotask ==
  LET task == Head(micro)
      tells == task[1] = "finish" /\ PlayState(anim) = "finished"
  IN  /\ micro # << >> /\ ~reacting
      /\ micro' = IF tells THEN Append(Tail(micro), <<"finish event", 0>>) ELSE Tail(micro)
      /\ anim' = IF tells THEN [anim EXCEPT !.finished = "resolved"]
                 ELSE IF task[1] = "ready" /\ task[2] = anim.readyId THEN [anim EXCEPT !.ready = "resolved"] ELSE anim
      /\ reacting' = (task[1] # "finish")
      /\ late' = (late \/ (task[1] = "finish" /\ ~tells))
      /\ UNCHANGED <<fills, relevant, applied, scheduled, ops>>
Return == reacting /\ reacting' = FALSE /\ UNCHANGED <<anim, fills, relevant, applied, scheduled, micro, late, ops>>

Started(a) == [a EXCEPT !.pending = FALSE, !.age = (IF a.hold = None THEN 0 ELSE a.hold) * a.rate, !.hold = None]
\* mutant of Drops
DropsFinished(a) == PlayState(a) \in {"idle", "finished"}
Drops(a) == PlayState(a) = "idle" \/ (PlayState(a) = "finished" /\ ~InEffect(a) /\ a.settled)
\* mutant of Running
RunningUnlessStarted(a) == PlayState(a) = "running" /\ ~anim.pending
Running(a) == PlayState(a) = "running"

(* tickAnimations(), at the beginning of a frame, also of one that others  *)
(* have asked for.                                                         *)
Tick ==
  LET started == IF anim.pending THEN Readied([Current EXCEPT !.anim = Started(anim)]) ELSE Current
      w == UpdateFinished(started, FALSE)
  IN  /\ micro = << >> /\ ~reacting /\ (scheduled \/ relevant \/ applied)
      /\ IF relevant THEN anim' = w.anim /\ micro' = w.micro ELSE UNCHANGED <<anim, micro>>
      /\ applied' = (relevant /\ InEffect(anim'))
      /\ relevant' = (relevant /\ ~Drops(anim'))
      /\ scheduled' = (relevant /\ Running(anim'))
      /\ UNCHANGED <<fills, reacting, late, ops>>

Cap == End + 1   \* bound on the age: nothing changes any more
TimePasses ==
  /\ micro = << >> /\ ~reacting /\ anim.age # None
  /\ anim.age < Cap /\ anim' = [anim EXCEPT !.age = @ + 1]
  /\ UNCHANGED <<fills, relevant, applied, scheduled, micro, reacting, late, ops>>

Page ==
  \/ Play \/ Reverse \/ Pause \/ Finish \/ Cancel
  \/ \E t \in Seeks : SetCurrentTime(t)
  \/ \E age \in Ages \union {None} : SetStartTime(age)
  \/ \E rate \in Rates : SetPlaybackRate(rate)
Frames == RunMicrotask \/ Return \/ (scheduled /\ Tick)
Next == Page \/ RunMicrotask \/ Return \/ Tick \/ TimePasses
Spec == Init /\ [][Next]_animVars
(* Microtasks run, a frame that was asked for comes, time passes.          *)
FairSpec == Spec /\ WF_animVars(Frames) /\ WF_animVars(TimePasses)

-----------------------------------------------------------------------------
(* An animation that is to move has asked for a frame (scheduleAnimations),*)
(* so that it does not stand still until something else draws one.         *)
Playing == PlayState(anim) = "running" /\ (anim.age # None \/ anim.pending)
FrameComes == Playing => scheduled

(* When no frame is to come, the style of the target has the values of the *)
(* animation just if it is in effect, however it was stopped.              *)
StyleFollows == ~scheduled /\ micro = << >> => applied = InEffect(anim)

(* Pausing, changing the rate and the frame that begins a play leave the   *)
(* current time where it is.                                               *)
TimeKeeps ==
  [][/\ Pause /\ CurrentTime(anim) # None => CurrentTime(anim') = CurrentTime(anim)
     /\ anim'.rate # anim.rate /\ ~anim'.pending /\ CurrentTime(anim) # None =>
          CurrentTime(anim') = CurrentTime(anim) \/ PlayState(anim') = "finished"
     /\ Tick /\ anim.pending => CurrentTime(anim') = CurrentTime(anim)]_animVars

(* A ready promise waits for a play that is yet to begin (or for the       *)
(* microtask of a pause), unless a start time was set for it.              *)
ReadySettles ==
  anim.ready = "pending" /\ ~late => anim.pending \/ \E i \in DOMAIN micro : micro[i] = <<"ready", anim.readyId>>

(* An animation that has finished says so: its finished promise resolves,  *)
(* unless it was stopped before the promise was and restarted.             *)
FinishedTold == PlayState(anim) # "finished" \/ anim.pending \/ anim.finished = "resolved" \/ late

(* What plays begins, comes to its end or is stopped, and is held there.   *)
ComesToEnd == anim.age = None /\ ~anim.pending
-----------------------------------------------------------------------------
(***************************************************************************)
(* What an effect makes of a local time: its timing and its keyframes,     *)
(* which the page may replace at any time.  Iterations are counted in      *)
(* halves, where they begin and the progress in quarters, and offsets in   *)
(* twelfths, so that all of them are whole numbers.                        *)
(***************************************************************************)

CONSTANTS Delays, EndDelays, Durations, IterationCounts, IterationStarts, EffectTimes, MaxFrames

VARIABLES
  timing,    \* of the effect
  keyFrames, \* [offset, x, y]: the value there of each of two properties, 0 for none
  keyLists   \* << >>, or how many values of each were given as lists

effectVars == <<timing, keyFrames, keyLists>>

NotNegative(n) == IF n < 0 THEN 0 ELSE n
Least(a, b) == IF a < b THEN a ELSE b
ActiveDuration(t) == (t.duration * t.iterations) \div 2
EndTime(t) == NotNegative(t.delay + ActiveDuration(t) + t.endDelay)
ActiveFrom(t) == NotNegative(Least(t.delay, EndTime(t)))
ActiveTo(t) == NotNegative(Least(t.delay + ActiveDuration(t), EndTime(t)))

(* computeTiming(): none, or the iteration and how far it is.              *)
\* mutant of ComputeTiming
ComputeTimingFloor(t, time, rate) ==
  LET ad == ActiveDuration(t)
      isBefore == time < ActiveFrom(t) \/ (rate < 0 /\ time = ActiveFrom(t))
      isAfter == time > ActiveTo(t) \/ (rate >= 0 /\ time = ActiveTo(t))
      active == IF isBefore THEN NotNegative(time - t.delay) ELSE IF isAfter THEN NotNegative(Least(time - t.delay, ad)) ELSE time - t.delay
      overall == IF t.duration = 0 THEN t.start + (IF isAfter THEN 2 * t.iterations ELSE 0) ELSE (4 * active) \div t.duration + t.start
      whole == overall % 4 = 0 /\ (isAfter \/ (t.duration = 0 /\ ~isBefore)) /\ t.iterations # 0 /\ overall # 0 /\ (active = ad \/ t.duration = 0)
      simple == IF whole THEN 4 ELSE overall % 4
      iteration == overall \div 4
      forward == CASE t.direction = "normal" -> TRUE [] t.direction = "reverse" -> FALSE
                   [] t.direction = "alternate" -> iteration % 2 = 0 [] OTHER -> iteration % 2 # 0
  IN IF (isBefore \/ isAfter) /\ ~t.fill THEN {} ELSE {[iteration |-> iteration, simple |-> simple, progress |-> IF forward THEN simple ELSE 4 - simple]}
ComputeTiming(t, time, rate) ==
  LET ad == ActiveDuration(t)
      isBefore == time < ActiveFrom(t) \/ (rate < 0 /\ time = ActiveFrom(t))
      isAfter == time > ActiveTo(t) \/ (rate >= 0 /\ time = ActiveTo(t))
      active == IF isBefore THEN NotNegative(time - t.delay) ELSE IF isAfter THEN NotNegative(Least(time - t.delay, ad)) ELSE time - t.delay
      overall == IF t.duration = 0 THEN t.start + (IF isAfter THEN 2 * t.iterations ELSE 0) ELSE (4 * active) \div t.duration + t.start
      whole == overall % 4 = 0 /\ (isAfter \/ (t.duration = 0 /\ ~isBefore)) /\ t.iterations # 0 /\ overall # 0 /\ (active = ad \/ t.duration = 0)
      simple == IF whole THEN 4 ELSE overall % 4
      iteration == overall \div 4 - (IF (isAfter \/ t.duration = 0) /\ simple = 4 THEN 1 ELSE 0)
      forward == CASE t.direction = "normal" -> TRUE [] t.direction = "reverse" -> FALSE
                   [] t.direction = "alternate" -> iteration % 2 = 0 [] OTHER -> iteration % 2 # 0
  IN IF (isBefore \/ isAfter) /\ ~t.fill THEN {} ELSE {[iteration |-> iteration, simple |-> simple, progress |-> IF forward THEN simple ELSE 4 - simple]}

(* computedOffsets(): what is missing is spaced evenly between neighbours. *)
Missing == -1
ComputedOffsets(frames) ==
  LET n == Len(frames)
      given == [i \in 1 .. n |-> IF frames[i].offset # Missing THEN frames[i].offset ELSE IF i = n THEN 12 ELSE IF i = 1 THEN 0 ELSE Missing]
      between(i) ==
        LET from == CHOOSE j \in 1 .. i - 1 : given[j] # Missing /\ \A k \in j + 1 .. i : given[k] = Missing
            to == CHOOSE j \in i + 1 .. n : given[j] # Missing /\ \A k \in i .. j - 1 : given[k] = Missing
        IN given[from] + ((given[to] - given[from]) * (i - from)) \div (to - from)
  IN [i \in 1 .. n |-> IF given[i] # Missing THEN given[i] ELSE between(i)]

(* currentValues(), of one property: between which two values, and how far.*)
Base == 99  \* the value without animations
Opened(at) == IF at[1][1] # 0 THEN << <<0, Base>> >> \o at ELSE at
Closed(at) == IF at[Len(at)][1] # 12 THEN Append(at, <<12, Base>>) ELSE at
Framed(frames, prop) ==
  LET offs == ComputedOffsets(frames)
  IN Closed(Opened(SelectSeq([i \in 1 .. Len(frames) |-> <<offs[i], frames[i][prop]>>], LAMBDA f : f[2] # 0)))
\* mutant of Interval
IntervalStrict(at, progress) ==
  IF progress >= 12 THEN Len(at) - 1
  ELSE IF progress <= 0 THEN 1
  ELSE CHOOSE i \in 1 .. Len(at) - 1 : (\A j \in 2 .. i : at[j][1] < progress) /\ (i = Len(at) - 1 \/ at[i + 1][1] >= progress)
Interval(at, progress) ==
  IF progress >= 12 THEN Len(at) - 1
  ELSE IF progress <= 0 THEN 1
  ELSE CHOOSE i \in 1 .. Len(at) - 1 : (\A j \in 2 .. i : at[j][1] <= progress) /\ (i = Len(at) - 1 \/ at[i + 1][1] > progress)
Between(f, g, progress) ==
  [from |-> f[2], to |-> g[2], part |-> IF g[1] = f[1] THEN 0 ELSE progress - f[1], whole |-> IF g[1] = f[1] THEN 1 ELSE g[1] - f[1]]
ValueAt(at, i, progress) == Between(at[i], at[i + 1], progress)
ValueIn(at, progress) == ValueAt(at, Interval(at, progress), progress)
CurrentValue(frames, prop, progress) == ValueIn(Framed(frames, prop), progress)

(* parseEasing(): steps(n, position), as a number of steps and of jumps,   *)
(* and linear(), which takes the first of several points at one place.     *)
StepPositions == {"start", "end", "jump-none", "jump-both"}
Jumps(n, position) == CASE position = "jump-none" -> n - 1 [] position = "jump-both" -> n + 1 [] OTHER -> n
\* mutant of Steps
StepsUncapped(n, position, progress) == ((progress * n) \div 12) + (IF position \in {"start", "jump-both"} THEN 1 ELSE 0)
Steps(n, position, progress) ==
  Least(((progress * n) \div 12) + (IF position \in {"start", "jump-both"} THEN 1 ELSE 0), Jumps(n, position))
Segment(offs, progress) ==
  LET i == CHOOSE k \in 2 .. Len(offs) : (progress <= offs[k] \/ k = Len(offs)) /\ \A j \in 2 .. k - 1 : progress > offs[j]
  IN IF offs[i] = offs[i - 1] THEN [from |-> i, to |-> i, part |-> 0, whole |-> 1]
     ELSE [from |-> i - 1, to |-> i, part |-> progress - offs[i - 1], whole |-> offs[i] - offs[i - 1]]
LinearEasing(points, progress) == Segment(ComputedOffsets(points), progress)

(* normalizeKeyframes() of lists of m and n values, each spaced evenly.    *)
ListOffset(i, n) == IF n = 1 THEN 12 ELSE ((i - 1) * 12) \div (n - 1)
ListValue(offset, n) == IF \E i \in 1 .. n : ListOffset(i, n) = offset THEN CHOOSE i \in 1 .. n : ListOffset(i, n) = offset ELSE 0
\* mutant of ListFrames
ListFramesImplicit(m, n) ==
  LET offsets == SelectSeq([o \in 1 .. 13 |-> o - 1], LAMBDA o : ListValue(o, m) # 0 \/ ListValue(o, n) # 0)
  IN [k \in 1 .. Len(offsets) |-> [offset |-> Missing, x |-> ListValue(offsets[k], m), y |-> ListValue(offsets[k], n)]]
ListFrames(m, n) ==
  LET offsets == SelectSeq([o \in 1 .. 13 |-> o - 1], LAMBDA o : ListValue(o, m) # 0 \/ ListValue(o, n) # 0)
  IN [k \in 1 .. Len(offsets) |->
        [offset |-> IF m = n \/ m = 0 \/ n = 0 \/ Len(offsets) = 1 THEN Missing ELSE offsets[k], x |-> ListValue(offsets[k], m), y |-> ListValue(offsets[k], n)]]

NewTiming == [delay |-> 0, endDelay |-> 0, duration |-> 0, iterations |-> 2, start |-> 0, direction |-> "normal", fill |-> FALSE]
EffectInit ==
  /\ timing = NewTiming
  /\ keyFrames = << >> /\ keyLists = << >>
(* makeTiming(): each member that is given replaces the one before.  Of two*)
(* effects, one has its timing changed here and one its frames.            *)
UpdateTiming ==
  /\ UNCHANGED <<keyFrames, keyLists>> /\ keyFrames = << >>
  /\ \/ \E v \in Delays : timing' = [timing EXCEPT !.delay = v]
     \/ \E v \in EndDelays : timing' = [timing EXCEPT !.endDelay = v]
     \/ \E v \in Durations : timing' = [timing EXCEPT !.duration = v]
     \/ \E v \in IterationCounts : timing' = [timing EXCEPT !.iterations = v]
     \/ \E v \in IterationStarts : timing' = [timing EXCEPT !.start = v]
     \/ \E v \in {"normal", "reverse", "alternate", "alternate-reverse"} : timing' = [timing EXCEPT !.direction = v]
     \/ \E v \in BOOLEAN : timing' = [timing EXCEPT !.fill = v]
(* Frames one longer than before, of offsets that do not decrease.         *)
SetKeyframes(offset, x) ==
  /\ timing = NewTiming /\ Len(keyFrames) < MaxFrames /\ keyLists = << >>
  /\ offset # Missing => \A i \in 1 .. Len(keyFrames) : keyFrames[i].offset <= offset
  /\ keyFrames' = Append(keyFrames, [offset |-> offset, x |-> IF x THEN Len(keyFrames) + 1 ELSE 0, y |-> 0])
  /\ UNCHANGED <<timing, keyLists>>
SetLists(m, n) == m + n > 0 /\ timing = NewTiming /\ keyFrames = << >> /\ keyFrames' = ListFrames(m, n) /\ keyLists' = <<m, n>> /\ UNCHANGED timing
EffectNext ==
  \/ UpdateTiming
  \/ \E offset \in {Missing, 0, 6, 12}, x \in BOOLEAN : SetKeyframes(offset, x)
  \/ \E m, n \in 0 .. 4 : SetLists(m, n)

(* The iteration and its progress add up to the time that has run, with a  *)
(* whole iteration only where the effect ends; an effect that fills is     *)
(* always there, and one that does not exactly while it is active; and one *)
(* that alternates does not jump from an iteration to the next.  (Of one   *)
(* that is over before time 0 there is nothing to add up.)                 *)
TimingAddsUp ==
  \A time \in EffectTimes, rate \in {1, -1} :
    LET now == ComputeTiming(timing, time, rate)
        ad == ActiveDuration(timing)
    IN /\ now # {} <=> timing.fill \/ (IF rate > 0 THEN ActiveFrom(timing) <= time /\ time < ActiveTo(timing) ELSE ActiveFrom(timing) < time /\ time <= ActiveTo(timing))
       /\ \A c \in now :
            /\ c.progress \in 0 .. 4 /\ (c.simple = 4 => time >= ActiveTo(timing))
            /\ timing.duration > 0 /\ timing.delay + ad >= 0 => 4 * c.iteration + c.simple = (4 * NotNegative(Least(time - timing.delay, ad))) \div timing.duration + timing.start
       /\ timing.direction \in {"alternate", "alternate-reverse"} /\ timing.duration > 0 /\ timing.delay + ad >= 0 =>
            \A c \in now, d \in ComputeTiming(timing, time + 1, rate) :
              NotNegative(c.progress - d.progress) + NotNegative(d.progress - c.progress) <= 4 \div timing.duration

(* A property has the value of a keyframe at the offset of the frame, also *)
(* when others leave it out, of several at one place that of the last, but *)
(* at either end; missing offsets are in the middle of their neighbours'.  *)
Reaches(v, i) == (v.from = i /\ v.part = 0) \/ (v.to = i /\ v.part = v.whole)
FramesMet ==
  /\ LET offs == ComputedOffsets(keyFrames)
     IN /\ \A i \in 1 .. Len(keyFrames) :
             keyFrames[i].x # 0 /\ (\A j \in 1 .. Len(keyFrames) : keyFrames[j].x # 0 /\ offs[j] = offs[i] => j = i \/ (j < i /\ offs[i] \in 1 .. 11)) =>
               Reaches(CurrentValue(keyFrames, "x", offs[i]), keyFrames[i].x)
        /\ \A i \in 2 .. Len(keyFrames) : offs[i - 1] <= offs[i]
        /\ \A i \in 2 .. Len(keyFrames) - 1 : keyFrames[i].offset = Missing => 2 * offs[i] = offs[i - 1] + offs[i + 1]
(* Lists of different lengths are each spaced evenly.                      *)
ListsEven ==
  keyLists # << >> =>
    \A l \in {<<"x", keyLists[1]>>, <<"y", keyLists[2]>>} : \A i \in 1 .. l[2] :
      Reaches(CurrentValue(keyFrames, l[1], ListOffset(i, l[2])), i)
(* Steps go up, one at a time, to the last at the end, and not before      *)
(* unless they jump at the start; and linear() meets its points.           *)
EasingsMeet ==
  /\ timing = NewTiming /\ keyFrames = << >> =>
       \A n \in 1 .. 4, position \in StepPositions : n > 1 \/ position # "jump-none" =>
         /\ Steps(n, position, 12) = Jumps(n, position)
         /\ Steps(n, position, 0) = (IF position \in {"start", "jump-both"} THEN 1 ELSE 0)
         /\ \A p \in 1 .. 12 : Steps(n, position, p) - Steps(n, position, p - 1) \in {0, 1}
  /\ Len(keyFrames) > 1 =>
       LET offs == ComputedOffsets(keyFrames)
       IN \A i \in 1 .. Len(keyFrames) : (\A j \in 1 .. Len(keyFrames) : offs[j] = offs[i] => j = i) =>
            Reaches(LinearEasing(keyFrames, offs[i]), i)
=============================================================================
