--------------------------- MODULE EventLoopProofs ---------------------------
(***************************************************************************)
(* The event loop of a page calls what waits: no timer, task, idle or      *)
(* frame callback is forgotten, none is called after it was cancelled,     *)
(* tasks keep their order and deep timers wait, whatever handlers set,     *)
(* clear and post while they run.                                          *)
(*                                                                         *)
(* The argument is about who has an id.  A timer's id is handed out once   *)
(* and then in one place: armed, due, or that of the handler that runs;    *)
(* and it is a page timer's or an internal one's, never both.              *)
(***************************************************************************)
EXTENDS EventLoop, SequenceTheorems, TLAPS

Ids == 1..next - 1
FrameIds == 1..rafId
Kinds == {"none", "event", "timer", "task", "idle", "frame"}
PageTimers == [repeat : BOOLEAN, nesting : Nat]
MapOn(I, f, S) == DOMAIN f \subseteq I /\ f \in [DOMAIN f -> S]

LoopTypeOK ==
  /\ next \in Nat \ {0} /\ rafId \in Nat /\ frame \in Nat /\ nesting \in Nat
  /\ calls \in Nat /\ events \in Nat /\ posted \in Nat /\ started \in Nat
  /\ MapOn(Ids, page, PageTimers) /\ MapOn(Ids, internal, {"task", "idle"}) /\ MapOn(Ids, armed, {0, 4})
  /\ MapOn(Ids, idle, Ids) /\ MapOn(Ids, depth, Nat)
  /\ due \subseteq Ids
  /\ tasks \in Seq(Nat) /\ raf \in Seq(Nat)
  /\ run \in [kind : Kinds, id : Nat]
  /\ frameRequested \in BOOLEAN /\ wanted \in BOOLEAN

(* The timer whose handler runs.                                           *)
Running(id) == run.kind = "timer" /\ run.id = id

(* Every id is in its place: armed or due, a page timer's or an internal   *)
(* timer's; a timer whose handler runs is in none of them, and still a     *)
(* page timer only if it repeats.                                          *)
IdsInPlace ==
  /\ DOMAIN page \cap DOMAIN internal = {}
  /\ DOMAIN armed \cap due = {}
  /\ DOMAIN idle = {id \in DOMAIN internal : internal[id] = "idle"}
  /\ \A id \in DOMAIN page : Running(id) => page[id].repeat
  /\ run.kind = "timer" => run.id \in Ids \ (due \cup DOMAIN armed \cup DOMAIN internal)

(* What is a timer's is waited for, and what is waited for a timer's.      *)
TimersKept ==
  /\ DOMAIN internal \subseteq DOMAIN armed \cup due
  /\ \A id \in DOMAIN page : id \in DOMAIN armed \cup due \/ Running(id)
  /\ DOMAIN armed \subseteq DOMAIN page \cup DOMAIN internal

(* The queue has a timer if it has tasks, and only one: the tasks are the  *)
(* ones posted last.                                                       *)
TaskTimer(id) == id \in DOMAIN internal /\ internal[id] = "task"
TasksQueued ==
  /\ posted = started + Len(tasks)
  /\ \A n \in 1..Len(tasks) : tasks[n] = started + n
  /\ tasks # << >> => \E id \in DOMAIN internal : TaskTimer(id)
  /\ \A id \in DOMAIN internal : TaskTimer(id) => tasks # << >>
  /\ \A id, other \in DOMAIN internal : TaskTimer(id) /\ TaskTimer(other) => id = other

(* Frame callbacks wait in the order of their ids for a frame that was     *)
(* asked for, or the one that runs.                                        *)
FramesAsked ==
  /\ \A n \in 1..Len(raf) : raf[n] \in FrameIds
  /\ \A m, n \in 1..Len(raf) : m < n => raf[m] < raf[n]
  /\ frameRequested => wanted
  /\ wanted => rafId > 0
  /\ raf # << >> => wanted \/ frame # 0

(* What was cancelled was there, and is there no more.                     *)
CancelledGone ==
  /\ cleared \subseteq ({"timer", "idle"} \X Ids) \cup ({"frame"} \X FrameIds)
  /\ \A id \in DOMAIN page : <<"timer", id>> \notin cleared
  /\ \A id \in DOMAIN idle : <<"idle", id>> \notin cleared
  /\ \A n \in 1..Len(raf) : <<"frame", raf[n]>> \notin cleared

(* The nesting level a timer was given is the length of its chain, and the *)
(* level of the handler that runs is its timer's.                          *)
NestingCounts ==
  /\ DOMAIN page \subseteq DOMAIN depth
  /\ \A id \in DOMAIN page : page[id].nesting = depth[id]
  /\ run.kind = "timer" => run.id \in DOMAIN depth /\ nesting = depth[run.id]
  /\ run.kind # "timer" => nesting = 0
  /\ \A id \in DOMAIN page : id \in DOMAIN armed => (armed[id] = 4 <=> depth[id] > NestLimit + 1)

LoopInvariant ==
  LoopTypeOK /\ IdsInPlace /\ TimersKept /\ TasksQueued /\ FramesAsked /\ CancelledGone /\ NestingCounts

-----------------------------------------------------------------------------
(***************************************************************************)
(* What the operators return, and which steps there are                    *)
(***************************************************************************)

LEMMA WithMaps ==
  ASSUME NEW S, NEW f, f \in [DOMAIN f -> S], NEW x, NEW v \in S
  PROVE  /\ DOMAIN With(f, x, v) = DOMAIN f \cup {x}
         /\ With(f, x, v) \in [DOMAIN With(f, x, v) -> S]
         /\ With(f, x, v)[x] = v
         /\ \A y \in DOMAIN f : y # x => With(f, x, v)[y] = f[y]
BY DEF With

LEMMA WithoutMaps ==
  ASSUME NEW S, NEW f, f \in [DOMAIN f -> S], NEW x
  PROVE  /\ DOMAIN Without(f, x) = DOMAIN f \ {x}
         /\ Without(f, x) \in [DOMAIN Without(f, x) -> S]
         /\ \A y \in DOMAIN f \ {x} : Without(f, x)[y] = f[y]
BY DEF Without

(* Ids are added, and a map has its ids and values.                        *)
LEMMA NewId ==
  ASSUME next \in Nat \ {0}, next' = next + 1
  PROVE  Ids' = Ids \cup {next} /\ next \notin Ids /\ next \in Ids'
BY DEF Ids

LEMMA MapAdds ==
  ASSUME NEW I, NEW S, NEW f, MapOn(I, f, S), NEW x, NEW v \in S
  PROVE  MapOn(I \cup {x}, With(f, x, v), S)
<1>1. DOMAIN f \subseteq I /\ f \in [DOMAIN f -> S]
  BY DEF MapOn
<1>2. DOMAIN With(f, x, v) = DOMAIN f \cup {x} /\ With(f, x, v) \in [DOMAIN With(f, x, v) -> S]
  BY <1>1 DEF With
<1> QED
  BY <1>1, <1>2 DEF MapOn

LEMMA MapDrops ==
  ASSUME NEW I, NEW S, NEW f, MapOn(I, f, S), NEW x
  PROVE  MapOn(I, Without(f, x), S)
<1>1. DOMAIN f \subseteq I /\ f \in [DOMAIN f -> S]
  BY DEF MapOn
<1>2. DOMAIN Without(f, x) = DOMAIN f \ {x} /\ Without(f, x) \in [DOMAIN Without(f, x) -> S]
  BY <1>1, WithoutMaps
<1> QED
  BY <1>1, <1>2 DEF MapOn

LEMMA MapWidens ==
  ASSUME NEW I, NEW S, NEW f, MapOn(I, f, S), NEW x
  PROVE  MapOn(I \cup {x}, f, S)
BY DEF MapOn

LEMMA DeeperCounts ==
  ASSUME NEW level \in Nat
  PROVE  /\ Deeper(level) \in Nat
         /\ Clamped(level) \in {0, 4}
         /\ Clamped(level) = 4 <=> Deeper(level) > NestLimit + 1
         /\ Deeper(0) = 1
BY LoopBounds DEF Deeper, Clamped

(* An element goes: the others stay in their order.                        *)
LEMMA RemoveAtKeeps ==
  ASSUME NEW S, NEW s \in Seq(S), NEW k \in 1..Len(s)
  PROVE  /\ RemoveAt(s, k) \in Seq(S)
         /\ Len(RemoveAt(s, k)) = Len(s) - 1
         /\ \A n \in 1..k - 1 : RemoveAt(s, k)[n] = s[n]
         /\ \A n \in k..Len(s) - 1 : RemoveAt(s, k)[n] = s[n + 1]
<1> DEFINE a == SubSeq(s, 1, k - 1)
           b == SubSeq(s, k + 1, Len(s))
<1>1. a \in Seq(S) /\ b \in Seq(S) /\ Len(s) \in Nat
  BY LenProperties, SubSeqProperties
<1>2. Len(a) = k - 1 /\ Len(b) = Len(s) - k
  BY LenProperties, SubSeqProperties
<1>3. \A n \in 1..k - 1 : a[n] = s[n]
  BY LenProperties, SubSeqProperties
<1>4. \A n \in 1..Len(s) - k : b[n] = s[k + n]
  BY LenProperties, SubSeqProperties
<1>5. RemoveAt(s, k) = a \o b
  BY DEF RemoveAt
<1> HIDE DEF a, b
<1>6. a \o b \in Seq(S) /\ Len(a \o b) = Len(a) + Len(b)
      /\ \A n \in 1..Len(a) + Len(b) : (a \o b)[n] = IF n <= Len(a) THEN a[n] ELSE b[n - Len(a)]
  BY <1>1, ConcatProperties
<1>7. ASSUME NEW n \in 1..k - 1 PROVE (a \o b)[n] = s[n]
  BY <1>1, <1>2, <1>3, <1>6
<1>8. ASSUME NEW n \in k..Len(s) - 1 PROVE (a \o b)[n] = s[n + 1]
  <2>1. n - (k - 1) \in 1..Len(s) - k /\ n \in 1..Len(a) + Len(b) /\ ~(n <= Len(a)) /\ n - Len(a) = n - (k - 1)
    BY <1>1, <1>2
  <2>2. (a \o b)[n] = b[n - (k - 1)] /\ b[n - (k - 1)] = s[k + (n - (k - 1))]
    BY <1>4, <1>6, <2>1
  <2>3. k + (n - (k - 1)) = n + 1
    OBVIOUS
  <2> QED
    BY <2>2, <2>3
<1>9. Len(a \o b) = Len(s) - 1
  BY <1>1, <1>2, <1>6
<1> QED
  BY <1>5, <1>6, <1>7, <1>8, <1>9, Zenon

LEMMA TailKeeps ==
  ASSUME NEW S, NEW s \in Seq(S), s # << >>
  PROVE  /\ Tail(s) \in Seq(S) /\ Head(s) = s[1] /\ Head(s) \in S
         /\ Len(s) >= 1 /\ Len(Tail(s)) = Len(s) - 1
         /\ \A n \in 1..Len(s) - 1 : Tail(s)[n] = s[n + 1]
BY HeadTailProperties

LEMMA AppendKeeps ==
  ASSUME NEW S, NEW s \in Seq(S), NEW e \in S
  PROVE  /\ Append(s, e) \in Seq(S) /\ Append(s, e) # << >>
         /\ Len(Append(s, e)) = Len(s) + 1
         /\ \A n \in 1..Len(s) : Append(s, e)[n] = s[n]
         /\ Append(s, e)[Len(s) + 1] = e
BY AppendProperties

(* An action of the loop, by name.                                         *)
Step ==
  \/ \E repeat \in BOOLEAN : AddTimer(repeat)
  \/ \E id \in DOMAIN page \cup due : ClearTimer(id)
  \/ PostTask \/ RequestIdle \/ RequestFrame
  \/ \E n \in DOMAIN idle : CancelIdle(n)
  \/ \E n \in DOMAIN raf : CancelFrame(n)
  \/ Event
  \/ \E id \in due : OnTimer(id) \/ StaleTimer(id) \/ RunOneTask(id) \/ RunIdle(id)
  \/ FrameCallback \/ EndFrame \/ BeginFrame
  \/ TimerReturns(run.id) \/ OtherReturns
  \/ \E ids \in SUBSET DOMAIN armed : TakeDue(ids)
  \/ UNCHANGED loopVars

LEMMA Steps == [Next]_loopVars => Step
BY DEF Step, Next, Scripts, Host, Handlers

-----------------------------------------------------------------------------
(***************************************************************************)
(* Types                                                                   *)
(***************************************************************************)

-----------------------------------------------------------------------------
(***************************************************************************)
(* Types                                                                   *)
(***************************************************************************)

LEMMA NoMap == \A I, S : MapOn(I, << >>, S)
<1> SUFFICES ASSUME NEW I, NEW S PROVE MapOn(I, << >>, S)
  OBVIOUS
<1>1. DOMAIN << >> = {}
  OBVIOUS
<1>2. << >> \in [{} -> S]
  OBVIOUS
<1> QED
  BY <1>1, <1>2 DEF MapOn

LEMMA TypesStart == Init => LoopTypeOK
<1> SUFFICES ASSUME Init PROVE LoopTypeOK
  OBVIOUS
<1>1. /\ MapOn(Ids, page, PageTimers) /\ MapOn(Ids, internal, {"task", "idle"}) /\ MapOn(Ids, armed, {0, 4})
      /\ MapOn(Ids, idle, Ids) /\ MapOn(Ids, depth, Nat)
  BY NoMap DEF Init
<1>2. run \in [kind : Kinds, id : Nat]
  BY DEF Init, NoRun, Kinds
<1>3. tasks \in Seq(Nat) /\ raf \in Seq(Nat)
  BY DEF Init
<1>4. due \subseteq Ids
  BY DEF Init
<1>5. frameRequested \in BOOLEAN /\ wanted \in BOOLEAN
  BY Zenon DEF Init
<1>6. /\ next \in Nat \ {0} /\ rafId \in Nat /\ frame \in Nat /\ nesting \in Nat
      /\ calls \in Nat /\ events \in Nat /\ posted \in Nat /\ started \in Nat
  BY DEF Init
<1> QED
  BY <1>1, <1>2, <1>3, <1>4, <1>5, <1>6, Zenon DEF LoopTypeOK

LEMMA TypesKept ==
  ASSUME LoopInvariant, [Next]_loopVars
  PROVE  LoopTypeOK'
<1>0. LoopTypeOK /\ (run.kind = "timer" => run.id \in DOMAIN depth)
  BY DEF LoopInvariant, NestingCounts
<1> USE <1>0 DEF LoopTypeOK
<1>1. next' = next => Ids' = Ids
  BY DEF Ids
<1>2. next' = next + 1 => /\ Ids' = Ids \cup {next} /\ next \notin Ids /\ next \in Ids' /\ next' \in Nat \ {0}
                          /\ MapOn(Ids', page, PageTimers) /\ MapOn(Ids', internal, {"task", "idle"})
                          /\ MapOn(Ids', armed, {0, 4}) /\ MapOn(Ids', idle, Ids') /\ MapOn(Ids', depth, Nat)
  <2> SUFFICES ASSUME next' = next + 1
               PROVE  /\ Ids' = Ids \cup {next} /\ next \notin Ids /\ next \in Ids' /\ next' \in Nat \ {0}
                      /\ MapOn(Ids', page, PageTimers) /\ MapOn(Ids', internal, {"task", "idle"})
                      /\ MapOn(Ids', armed, {0, 4}) /\ MapOn(Ids', idle, Ids') /\ MapOn(Ids', depth, Nat)
    OBVIOUS
  <2>1. Ids' = Ids \cup {next} /\ next \notin Ids /\ next \in Ids' /\ next' \in Nat \ {0}
    BY NewId
  <2>2. MapOn(Ids', idle, Ids')
    BY <2>1 DEF MapOn
  <2> QED
    BY <2>1, <2>2, MapWidens
<1>3. Called => calls' \in Nat
  BY DEF Called
<1>4. ASSUME NEW repeat \in BOOLEAN, AddTimer(repeat) PROVE LoopTypeOK'
  <2>1. Deeper(nesting) \in Nat /\ Clamped(nesting) \in {0, 4}
    BY DeeperCounts
  <2>2. MapOn(Ids', page', PageTimers)
    <3>1. [repeat |-> repeat, nesting |-> Deeper(nesting)] \in PageTimers
      BY <2>1 DEF PageTimers
    <3> QED
      BY <1>2, <1>4, <3>1, MapAdds DEF AddTimer
  <2>3. MapOn(Ids', armed', {0, 4})
    BY <1>2, <1>4, <2>1, MapAdds DEF AddTimer
  <2>4. MapOn(Ids', depth', Nat)
    <3>1. (IF run.kind = "timer" THEN Deeper(depth[run.id]) ELSE 1) \in Nat
      <4>1. run.kind = "timer" => depth[run.id] \in Nat
        BY DEF MapOn
      <4> QED
        BY <4>1, DeeperCounts
    <3> QED
      BY <1>2, <1>4, <3>1, MapAdds DEF AddTimer
  <2> QED
    BY <1>2, <1>3, <1>4, <2>2, <2>3, <2>4 DEF AddTimer, frameVars, history
<1>5. ASSUME NEW id \in DOMAIN page \cup due, ClearTimer(id) PROVE LoopTypeOK'
  BY <1>1, <1>3, <1>5, MapDrops DEF ClearTimer, frameVars, history
<1>6. ASSUME PostTask PROVE LoopTypeOK'
  <2>1. tasks' \in Seq(Nat) /\ posted' \in Nat
    BY <1>6, AppendKeeps DEF PostTask
  <2>2. CASE UNCHANGED <<next, internal, armed>>
    BY <1>1, <1>3, <1>6, <2>1, <2>2 DEF PostTask, frameVars
  <2>3. CASE InternalTimeout("task")
    <3>1. MapOn(Ids', internal', {"task", "idle"}) /\ MapOn(Ids', armed', {0, 4})
      BY <1>2, <2>3, MapAdds DEF InternalTimeout
    <3> QED
      BY <1>2, <1>3, <1>6, <2>1, <2>3, <3>1 DEF PostTask, InternalTimeout, frameVars
  <2> QED
    BY <1>6, <2>2, <2>3 DEF PostTask
<1>7. ASSUME RequestIdle PROVE LoopTypeOK'
  <2>1. MapOn(Ids', internal', {"task", "idle"}) /\ MapOn(Ids', armed', {0, 4})
    BY <1>2, <1>7, MapAdds DEF RequestIdle, InternalTimeout
  <2>2. MapOn(Ids', idle', Ids')
    <3>1. next' = next + 1 /\ idle' = With(idle, next, next)
      BY <1>7 DEF RequestIdle, InternalTimeout
    <3>2. MapOn(Ids' \cup {next}, With(idle, next, next), Ids') /\ Ids' \cup {next} = Ids'
      BY <1>2, <3>1, MapAdds
    <3> QED
      BY <3>1, <3>2
  <2> QED
    BY <1>2, <1>3, <1>7, <2>1, <2>2 DEF RequestIdle, InternalTimeout, frameVars, history
<1>8. ASSUME RequestFrame PROVE LoopTypeOK'
  <2>1. raf' \in Seq(Nat) /\ rafId' \in Nat
    BY <1>8, AppendKeeps DEF RequestFrame
  <2>2. frameRequested' \in BOOLEAN /\ wanted' \in BOOLEAN
    BY <1>8 DEF RequestFrame
  <2> QED
    BY <1>1, <1>3, <1>8, <2>1, <2>2 DEF RequestFrame, history
<1>9. ASSUME NEW n \in DOMAIN idle, CancelIdle(n) PROVE LoopTypeOK'
  BY <1>1, <1>3, <1>9, MapDrops DEF CancelIdle, frameVars, history
<1>10. ASSUME NEW n \in DOMAIN raf, CancelFrame(n) PROVE LoopTypeOK'
  <2>1. raf' \in Seq(Nat)
    BY <1>10, RemoveAtKeeps, LenProperties DEF CancelFrame
  <2> QED
    BY <1>1, <1>3, <1>10, <2>1 DEF CancelFrame, history
<1>11. ASSUME Event PROVE LoopTypeOK'
  <2>1. run' \in [kind : Kinds, id : Nat]
    BY <1>11 DEF Event, Start, Kinds
  <2> QED
    BY <1>1, <1>11, <2>1 DEF Event, frameVars
<1>12. ASSUME NEW id \in due, OnTimer(id) PROVE LoopTypeOK'
  <2>1. run' \in [kind : Kinds, id : Nat]
    BY <1>12 DEF OnTimer, Start, Kinds, Ids
  <2>2. nesting' \in Nat
    BY <1>12 DEF OnTimer, MapOn, PageTimers
  <2>3. MapOn(Ids, page', PageTimers)
    BY <1>12, MapDrops DEF OnTimer
  <2> QED
    BY <1>1, <1>12, <2>1, <2>2, <2>3 DEF OnTimer, frameVars, history
<1>13. ASSUME NEW id \in due, StaleTimer(id) PROVE LoopTypeOK'
  BY <1>1, <1>13 DEF StaleTimer, frameVars, history
<1>14. ASSUME NEW id \in due, RunOneTask(id) PROVE LoopTypeOK'
  <2>1. tasks # << >>
    BY <1>14 DEF RunOneTask, LoopInvariant, TasksQueued, TaskTimer
  <2>2. tasks' \in Seq(Nat) /\ started' \in Nat /\ Head(tasks) \in Nat
    BY <1>14, <2>1, TailKeeps DEF RunOneTask
  <2>3. run' \in [kind : Kinds, id : Nat]
    BY <1>14, <2>2 DEF RunOneTask, Start, Kinds
  <2>4. CASE MoreTasks
    <3>1. /\ next' = next + 1
          /\ internal' = With(Without(internal, id), next, "task")
          /\ armed' = With(armed, next, 0)
      BY <1>14, <2>4 DEF RunOneTask
    <3>2. MapOn(Ids', Without(internal, id), {"task", "idle"})
      BY <1>2, <3>1, MapDrops
    <3>3. MapOn(Ids', internal', {"task", "idle"}) /\ MapOn(Ids', armed', {0, 4})
      <4>1. Ids' \cup {next} = Ids'
        BY <1>2, <3>1
      <4>2. MapOn(Ids' \cup {next}, internal', {"task", "idle"}) /\ MapOn(Ids' \cup {next}, armed', {0, 4})
        BY <1>2, <3>1, <3>2, MapAdds
      <4> QED
        BY <4>1, <4>2
    <3> QED
      BY <1>2, <1>14, <2>2, <2>3, <3>1, <3>3 DEF RunOneTask, frameVars
  <2>5. CASE ~MoreTasks
    <3>1. next' = next /\ armed' = armed /\ internal' = Without(internal, id)
      BY <1>14, <2>5 DEF RunOneTask
    <3> QED
      BY <1>1, <1>14, <2>2, <2>3, <3>1, MapDrops DEF RunOneTask, frameVars
  <2> QED
    BY <2>4, <2>5
<1>15. ASSUME NEW id \in due, RunIdle(id) PROVE LoopTypeOK'
  <2>1. run' \in [kind : Kinds, id : Nat]
    BY <1>15 DEF RunIdle, Start, Kinds, Ids
  <2> QED
    BY <1>1, <1>15, <2>1, MapDrops DEF RunIdle, frameVars, history
<1>16. ASSUME FrameCallback PROVE LoopTypeOK'
  <2>1. raf' \in Seq(Nat) /\ Head(raf) \in Nat
    BY <1>16, TailKeeps DEF FrameCallback
  <2>2. run' \in [kind : Kinds, id : Nat]
    BY <1>16, <2>1 DEF FrameCallback, Start, Kinds
  <2> QED
    BY <1>1, <1>16, <2>1, <2>2 DEF FrameCallback, history
<1>17. ASSUME EndFrame PROVE LoopTypeOK'
  <2>1. frameRequested' \in BOOLEAN /\ wanted' \in BOOLEAN
    BY <1>17 DEF EndFrame
  <2> QED
    BY <1>1, <1>17, <2>1 DEF EndFrame, history
<1>18. ASSUME BeginFrame PROVE LoopTypeOK'
  <2>1. frameRequested' \in BOOLEAN /\ wanted' \in BOOLEAN
    BY <1>18 DEF BeginFrame, FlagInFrame
  <2> QED
    BY <1>1, <1>18, <2>1 DEF BeginFrame, history
<1>19. ASSUME TimerReturns(run.id) PROVE LoopTypeOK'
  <2>1. run' \in [kind : Kinds, id : Nat]
    BY <1>19 DEF TimerReturns, Return, NoRun, Kinds
  <2>2. CASE Rearm(run.id)
    <3>1. run.id \in DOMAIN page /\ run.id \in Ids /\ run.id \in DOMAIN depth
      BY <1>19, <2>2 DEF TimerReturns, Rearm, MapOn
    <3>2. page[run.id].nesting \in Nat /\ depth[run.id] \in Nat /\ page[run.id] \in PageTimers
      BY <3>1 DEF MapOn, PageTimers
    <3>3. Deeper(page[run.id].nesting) \in Nat /\ Clamped(page[run.id].nesting) \in {0, 4} /\ Deeper(depth[run.id]) \in Nat
      BY <3>2, DeeperCounts
    <3>4. MapOn(Ids, page', PageTimers)
      <4>1. page' = [page EXCEPT ![run.id].nesting = Deeper(@)]
        BY <1>19, <2>2 DEF TimerReturns
      <4>2. [page[run.id] EXCEPT !.nesting = Deeper(@)] \in PageTimers
        BY <3>2, <3>3 DEF PageTimers
      <4> QED
        BY <3>1, <4>1, <4>2 DEF MapOn
    <3>5. MapOn(Ids, depth', Nat)
      BY <1>19, <2>2, <3>1, <3>3 DEF TimerReturns, MapOn
    <3>6. MapOn(Ids, armed', {0, 4})
      <4>1. Ids \cup {run.id} = Ids
        BY <3>1
      <4>2. armed' = With(armed, run.id, Clamped(page[run.id].nesting))
        BY <1>19, <2>2 DEF TimerReturns
      <4>3. MapOn(Ids \cup {run.id}, With(armed, run.id, Clamped(page[run.id].nesting)), {0, 4})
        BY <3>3, MapAdds
      <4> QED
        BY <4>1, <4>2, <4>3
    <3> QED
      BY <1>1, <1>19, <2>1, <3>4, <3>5, <3>6 DEF TimerReturns, frameVars, history
  <2>3. CASE ~Rearm(run.id)
    BY <1>1, <1>19, <2>1, <2>3 DEF TimerReturns, frameVars, history
  <2> QED
    BY <2>2, <2>3
<1>20. ASSUME OtherReturns PROVE LoopTypeOK'
  <2>1. run' \in [kind : Kinds, id : Nat]
    BY <1>20 DEF OtherReturns, Return, NoRun, Kinds
  <2> QED
    BY <1>1, <1>20, <2>1 DEF OtherReturns, frameVars, history
<1>21. ASSUME NEW ids \in SUBSET DOMAIN armed, TakeDue(ids) PROVE LoopTypeOK'
  <2>1. MapOn(Ids, armed', {0, 4}) /\ due' \subseteq Ids
    BY <1>21 DEF TakeDue, MapOn
  <2> QED
    BY <1>1, <1>21, <2>1 DEF TakeDue, frameVars, history
<1>22. CASE UNCHANGED loopVars
  BY <1>1, <1>22 DEF loopVars
<1> HIDE DEF LoopTypeOK
<1> QED
  BY <1>4, <1>5, <1>6, <1>7, <1>8, <1>9, <1>10, <1>11, <1>12, <1>13, <1>14, <1>15, <1>16, <1>17,
     <1>18, <1>19, <1>20, <1>21, <1>22, Steps DEF Step

-----------------------------------------------------------------------------
(***************************************************************************)
(* Frames                                                                  *)
(***************************************************************************)

LEMMA FrameSteps ==
  ASSUME [Next]_loopVars
  PROVE  \/ RequestFrame \/ \E n \in DOMAIN raf : CancelFrame(n)
         \/ BeginFrame \/ FrameCallback \/ EndFrame
         \/ UNCHANGED frameVars
BY Steps DEF Step, loopVars, AddTimer, ClearTimer, PostTask, RequestIdle, CancelIdle, Event, OnTimer, StaleTimer,
             RunOneTask, RunIdle, TimerReturns, OtherReturns, TakeDue, frameVars

LEMMA FramesStay ==
  ASSUME LoopInvariant, [Next]_loopVars
  PROVE  FramesAsked'
<1> USE DEF FramesAsked, FrameIds
<1>1. FramesAsked /\ raf \in Seq(Nat) /\ rafId \in Nat /\ Len(raf) \in Nat
      /\ frameRequested \in BOOLEAN /\ wanted \in BOOLEAN /\ DOMAIN raf = 1..Len(raf)
  BY LenProperties DEF LoopInvariant, LoopTypeOK
<1>2. ASSUME RequestFrame PROVE FramesAsked'
  <2>1. raf' = Append(raf, rafId + 1) /\ rafId' = rafId + 1 /\ frameRequested' /\ (wanted' \/ frameRequested)
        /\ (wanted => wanted')
    BY <1>2 DEF RequestFrame
  <2>2. wanted'
    BY <1>1, <2>1
  <2>3. Len(raf') = Len(raf) + 1 /\ raf'[Len(raf) + 1] = rafId + 1 /\ \A n \in 1..Len(raf) : raf'[n] = raf[n]
    BY <1>1, <2>1, AppendKeeps
  <2>4. \A n \in 1..Len(raf') : raf'[n] \in 1..rafId'
    BY <1>1, <2>1, <2>3
  <2>5. ASSUME NEW m \in 1..Len(raf'), NEW n \in 1..Len(raf'), m < n PROVE raf'[m] < raf'[n]
    <3>1. m \in 1..Len(raf) /\ raf'[m] = raf[m] /\ raf[m] \in 1..rafId
      BY <1>1, <2>3, <2>5
    <3>2. CASE n = Len(raf) + 1
      BY <1>1, <2>3, <3>1, <3>2
    <3>3. CASE n # Len(raf) + 1
      <4>1. n \in 1..Len(raf)
        BY <1>1, <2>3, <3>3
      <4> QED
        BY <1>1, <2>3, <2>5, <3>1, <4>1
    <3> QED
      BY <3>2, <3>3
  <2> QED
    BY <1>1, <2>1, <2>2, <2>4, <2>5
<1>3. ASSUME NEW n \in DOMAIN raf, CancelFrame(n) PROVE FramesAsked'
  <2>1. raf' = RemoveAt(raf, n) /\ rafId' = rafId /\ frameRequested' = frameRequested /\ wanted' = wanted /\ frame' = frame
    BY <1>3 DEF CancelFrame
  <2>2. Len(raf') = Len(raf) - 1
        /\ (\A k \in 1..n - 1 : raf'[k] = raf[k]) /\ \A k \in n..Len(raf) - 1 : raf'[k] = raf[k + 1]
    <3>1. n \in 1..Len(raf)
      BY <1>1
    <3>2. raf \in Seq(Nat)
      BY <1>1
    <3> HIDE DEF FramesAsked
    <3>3. RemoveAt(raf, n) \in Seq(Nat)
      BY <3>1, <3>2, RemoveAtKeeps
    <3>4. Len(RemoveAt(raf, n)) = Len(raf) - 1
      BY <3>1, <3>2, RemoveAtKeeps
    <3>5. \A k \in 1..n - 1 : RemoveAt(raf, n)[k] = raf[k]
      BY <3>1, <3>2, RemoveAtKeeps
    <3>6. \A k \in n..Len(raf) - 1 : RemoveAt(raf, n)[k] = raf[k + 1]
      BY <3>1, <3>2, RemoveAtKeeps
    <3> QED
      BY <2>1, <3>4, <3>5, <3>6
  <2> DEFINE from(k) == IF k < n THEN k ELSE k + 1
  <2>3. ASSUME NEW k \in 1..Len(raf') PROVE from(k) \in 1..Len(raf) /\ raf'[k] = raf[from(k)]
    <3>1. n \in 1..Len(raf)
      BY <1>1
    <3>2. CASE k < n
      BY <1>1, <2>2, <3>1, <3>2
    <3>3. CASE ~(k < n)
      <4>1. k \in n..Len(raf) - 1 /\ k + 1 \in 1..Len(raf)
        BY <1>1, <2>2, <3>1, <3>3
      <4> QED
        BY <2>2, <3>3, <4>1
    <3> QED
      BY <3>2, <3>3
  <2>4. \A k, m \in 1..Len(raf') : k < m => raf'[k] < raf'[m]
    <3>1. ASSUME NEW k \in 1..Len(raf'), NEW m \in 1..Len(raf'), k < m PROVE from(k) < from(m)
      <4>1. k \in Nat /\ m \in Nat /\ n \in Nat
        BY <1>1, <2>2
      <4> QED
        BY <3>1, <4>1
    <3> HIDE DEF from
    <3> QED
      BY <1>1, <2>3, <3>1
  <2>5. \A k \in 1..Len(raf') : raf'[k] \in 1..rafId'
    <3> HIDE DEF from
    <3> QED
      BY <1>1, <2>1, <2>3
  <2>6. raf # << >>
    BY <1>1
  <2> QED
    BY <1>1, <2>1, <2>4, <2>5, <2>6
<1>4. ASSUME BeginFrame PROVE FramesAsked'
  <2>1. frame' # 0 /\ raf' = raf /\ rafId' = rafId /\ ~frameRequested' /\ ~wanted'
    BY <1>1, <1>4 DEF BeginFrame, FlagInFrame
  <2> QED
    BY <1>1, <2>1
<1>5. ASSUME FrameCallback PROVE FramesAsked'
  <2>1. raf # << >> /\ raf' = Tail(raf) /\ rafId' = rafId /\ frame # 0 /\ frame' = frame
        /\ frameRequested' = frameRequested /\ wanted' = wanted
    BY <1>5 DEF FrameCallback
  <2>2. Len(raf') = Len(raf) - 1 /\ \A k \in 1..Len(raf) - 1 : raf'[k] = raf[k + 1]
    BY <1>1, <2>1, TailKeeps
  <2>3. \A k \in 1..Len(raf') : raf'[k] \in 1..rafId'
    BY <1>1, <2>1, <2>2
  <2>4. \A k, m \in 1..Len(raf') : k < m => raf'[k] < raf'[m]
    BY <1>1, <2>1, <2>2
  <2> QED
    BY <1>1, <2>1, <2>3, <2>4
<1>6. ASSUME EndFrame PROVE FramesAsked'
  <2>1. raf' = raf /\ rafId' = rafId /\ (frameRequested' <=> frameRequested \/ raf # << >>)
        /\ (wanted' <=> wanted \/ (~frameRequested /\ raf # << >>))
    BY <1>6 DEF EndFrame
  <2>2. raf # << >> => rafId > 0
    <3>1. raf # << >> => 1 \in 1..Len(raf)
      BY <1>1, EmptySeq
    <3> QED
      BY <1>1, <3>1
  <2> QED
    BY <1>1, <2>1, <2>2
<1>7. CASE UNCHANGED frameVars
  BY <1>1, <1>7 DEF frameVars
<1> QED
  BY <1>2, <1>3, <1>4, <1>5, <1>6, <1>7, FrameSteps

-----------------------------------------------------------------------------
(***************************************************************************)
(* Tasks                                                                   *)
(***************************************************************************)

LEMMA TaskSteps ==
  ASSUME [Next]_loopVars
  PROVE  \/ PostTask \/ RequestIdle \/ \E n \in DOMAIN idle : CancelIdle(n)
         \/ \E id \in due : RunOneTask(id) \/ RunIdle(id)
         \/ UNCHANGED <<tasks, posted, started, internal>>
BY Steps DEF Step, loopVars, AddTimer, ClearTimer, RequestFrame, CancelFrame, Event, OnTimer, StaleTimer,
             FrameCallback, EndFrame, BeginFrame, TimerReturns, OtherReturns, TakeDue, history

LEMMA TasksStay ==
  ASSUME LoopInvariant, [Next]_loopVars
  PROVE  TasksQueued'
<1>1. /\ TasksQueued /\ tasks \in Seq(Nat) /\ Len(tasks) \in Nat /\ started \in Nat /\ posted \in Nat
      /\ internal \in [DOMAIN internal -> {"task", "idle"}] /\ next \notin DOMAIN internal
      /\ DOMAIN idle = {id \in DOMAIN internal : internal[id] = "idle"}
  BY LenProperties DEF LoopInvariant, LoopTypeOK, MapOn, IdsInPlace, Ids
<1> USE DEF TasksQueued, TaskTimer
<1>2. ASSUME PostTask PROVE TasksQueued'
  <2>1. tasks' = Append(tasks, posted + 1) /\ posted' = posted + 1 /\ started' = started
    BY <1>2 DEF PostTask, history
  <2>2. tasks' # << >> /\ Len(tasks') = Len(tasks) + 1 /\ tasks'[Len(tasks) + 1] = posted + 1
        /\ \A n \in 1..Len(tasks) : tasks'[n] = tasks[n]
    BY <1>1, <2>1, AppendKeeps
  <2>3. posted' = started' + Len(tasks') /\ \A n \in 1..Len(tasks') : tasks'[n] = started' + n
    <3>1. posted' = started' + Len(tasks')
      BY <1>1, <2>1, <2>2
    <3>2. ASSUME NEW n \in 1..Len(tasks') PROVE tasks'[n] = started' + n
      <4>1. CASE n = Len(tasks) + 1
        BY <1>1, <2>1, <2>2, <4>1
      <4>2. CASE n # Len(tasks) + 1
        <5>1. n \in 1..Len(tasks)
          BY <1>1, <2>2, <4>2
        <5> QED
          BY <1>1, <2>1, <2>2, <5>1
      <4> QED
        BY <4>1, <4>2
    <3> QED
      BY <3>1, <3>2
  <2>4. CASE \E id \in DOMAIN internal : internal[id] = "task"
    <3>1. internal' = internal
      BY <1>2, <2>4 DEF PostTask
    <3> QED
      BY <1>1, <2>2, <2>3, <2>4, <3>1
  <2>5. CASE ~ \E id \in DOMAIN internal : internal[id] = "task"
    <3>1. internal' = With(internal, next, "task")
      BY <1>2, <2>5 DEF PostTask, InternalTimeout
    <3>2. DOMAIN internal' = DOMAIN internal \cup {next} /\ internal'[next] = "task"
          /\ \A id \in DOMAIN internal : internal'[id] = internal[id]
      BY <1>1, <3>1 DEF With
    <3> QED
      BY <2>2, <2>3, <2>5, <3>2
  <2> QED
    BY <2>4, <2>5
<1>3. ASSUME RequestIdle PROVE TasksQueued'
  <2>1. internal' = With(internal, next, "idle") /\ UNCHANGED <<tasks, posted, started>>
    BY <1>3 DEF RequestIdle, InternalTimeout, history
  <2>2. DOMAIN internal' = DOMAIN internal \cup {next} /\ internal'[next] = "idle"
        /\ \A id \in DOMAIN internal : internal'[id] = internal[id]
    BY <1>1, <2>1 DEF With
  <2> QED
    BY <1>1, <2>1, <2>2
<1>4. ASSUME NEW n, internal' = Without(internal, n), internal[n] = "idle", UNCHANGED <<tasks, posted, started>>
      PROVE  TasksQueued'
  <2>1. DOMAIN internal' = DOMAIN internal \ {n} /\ \A id \in DOMAIN internal \ {n} : internal'[id] = internal[id]
    BY <1>4 DEF Without
  <2> QED
    BY <1>1, <1>4, <2>1
<1>5. ASSUME NEW n \in DOMAIN idle, CancelIdle(n) PROVE TasksQueued'
  BY <1>1, <1>4, <1>5 DEF CancelIdle, history
<1>6. ASSUME NEW id \in due, RunIdle(id) PROVE TasksQueued'
  BY <1>4, <1>6 DEF RunIdle, history
<1>7. ASSUME NEW id \in due, RunOneTask(id) PROVE TasksQueued'
  <2>1. TaskTimer(id) /\ tasks' = Tail(tasks) /\ started' = Head(tasks) /\ posted' = posted
    BY <1>7 DEF RunOneTask
  <2>2. tasks # << >>
    BY <1>1, <2>1
  <2>3. Head(tasks) = started + 1 /\ Len(tasks) >= 1 /\ Len(tasks') = Len(tasks) - 1
        /\ \A n \in 1..Len(tasks) - 1 : tasks'[n] = tasks[n + 1]
    <3>1. /\ Head(tasks) = tasks[1] /\ Len(tasks) >= 1 /\ Len(Tail(tasks)) = Len(tasks) - 1
          /\ \A n \in 1..Len(tasks) - 1 : Tail(tasks)[n] = tasks[n + 1]
      BY <1>1, <2>2, TailKeeps
    <3>2. tasks[1] = started + 1
      BY <1>1, <3>1
    <3> QED
      BY <2>1, <3>1, <3>2
  <2>4. posted' = started' + Len(tasks') /\ \A n \in 1..Len(tasks') : tasks'[n] = started' + n
    <3>1. posted' = started' + Len(tasks')
      BY <1>1, <2>1, <2>3
    <3>2. ASSUME NEW n \in 1..Len(tasks') PROVE tasks'[n] = started' + n
      <4>1. n \in 1..Len(tasks) - 1 /\ n + 1 \in 1..Len(tasks)
        BY <1>1, <2>3
      <4>2. tasks'[n] = tasks[n + 1] /\ tasks[n + 1] = started + (n + 1)
        BY <1>1, <2>3, <4>1
      <4>3. started + (n + 1) = (started + 1) + n
        BY <1>1, <4>1
      <4> QED
        BY <2>1, <2>3, <4>2, <4>3
    <3> QED
      BY <3>1, <3>2
  <2>5. tasks' # << >> <=> MoreTasks
    <3>1. tasks' \in Seq(Nat)
      BY <1>1, <2>1, <2>2, TailKeeps
    <3> QED
      BY <1>1, <2>3, <3>1, EmptySeq DEF MoreTasks
  <2>6. DOMAIN Without(internal, id) = DOMAIN internal \ {id}
        /\ \A other \in DOMAIN internal \ {id} : Without(internal, id)[other] # "task"
    BY <1>1, <2>1 DEF Without
  <2>7. CASE MoreTasks
    <3>1. internal' = With(Without(internal, id), next, "task")
      BY <1>7, <2>7 DEF RunOneTask
    <3>2. DOMAIN internal' = (DOMAIN internal \ {id}) \cup {next} /\ internal'[next] = "task"
          /\ \A other \in DOMAIN internal \ {id} : internal'[other] # "task"
      BY <1>1, <2>6, <3>1 DEF With
    <3> QED
      BY <2>4, <2>5, <2>7, <3>2
  <2>8. CASE ~MoreTasks
    <3>1. internal' = Without(internal, id)
      BY <1>7, <2>8 DEF RunOneTask
    <3> QED
      BY <2>4, <2>5, <2>6, <2>8, <3>1
  <2> QED
    BY <2>7, <2>8
<1>8. CASE UNCHANGED <<tasks, posted, started, internal>>
  BY <1>1, <1>8
<1> QED
  BY <1>2, <1>3, <1>5, <1>6, <1>7, <1>8, TaskSteps

-----------------------------------------------------------------------------
(***************************************************************************)
(* Ids and timers                                                          *)
(***************************************************************************)

LEMMA IdsThere ==
  ASSUME LoopInvariant
  PROVE  /\ page \in [DOMAIN page -> PageTimers] /\ internal \in [DOMAIN internal -> {"task", "idle"}]
         /\ armed \in [DOMAIN armed -> {0, 4}] /\ idle \in [DOMAIN idle -> Ids] /\ due \subseteq Ids
         /\ DOMAIN page \subseteq Ids /\ DOMAIN internal \subseteq Ids
         /\ DOMAIN armed \subseteq Ids /\ DOMAIN idle \subseteq Ids
BY DEF LoopInvariant, LoopTypeOK, MapOn

LEMMA IdsGrow ==
  ASSUME LoopInvariant
  PROVE  next \notin Ids /\ (next' = next => Ids' = Ids) /\ (next' = next + 1 => Ids' = Ids \cup {next})
<1>1. next \in Nat \ {0}
  BY DEF LoopInvariant, LoopTypeOK
<1>2. next \notin Ids
  BY <1>1 DEF Ids
<1>3. next' = next => Ids' = Ids
  BY DEF Ids
<1> QED
  BY <1>1, <1>2, <1>3, NewId

(* What the steps do to the maps of the timers.                            *)
TimersVars == <<next, page, internal, armed, due, idle, run>>

LEMMA TimerSteps ==
  ASSUME [Next]_loopVars
  PROVE  \/ \E repeat \in BOOLEAN : AddTimer(repeat)
         \/ \E id \in DOMAIN page \cup due : ClearTimer(id)
         \/ PostTask \/ RequestIdle
         \/ \E n \in DOMAIN idle : CancelIdle(n)
         \/ \E id \in due : OnTimer(id) \/ StaleTimer(id) \/ RunOneTask(id) \/ RunIdle(id)
         \/ TimerReturns(run.id)
         \/ Event \/ FrameCallback \/ OtherReturns
         \/ \E ids \in SUBSET DOMAIN armed : TakeDue(ids)
         \/ UNCHANGED TimersVars
BY Steps DEF Step, loopVars, RequestFrame, CancelFrame, EndFrame, BeginFrame, TimersVars

LEMMA TimersStay ==
  ASSUME LoopInvariant, [Next]_loopVars
  PROVE  IdsInPlace' /\ TimersKept'
<1>1. /\ IdsInPlace /\ TimersKept
      /\ page \in [DOMAIN page -> PageTimers] /\ internal \in [DOMAIN internal -> {"task", "idle"}]
      /\ armed \in [DOMAIN armed -> {0, 4}] /\ idle \in [DOMAIN idle -> Ids] /\ due \subseteq Ids
      /\ next \notin Ids /\ DOMAIN page \subseteq Ids /\ DOMAIN internal \subseteq Ids
      /\ DOMAIN armed \subseteq Ids /\ DOMAIN idle \subseteq Ids
      /\ (next' = next => Ids' = Ids) /\ (next' = next + 1 => Ids' = Ids \cup {next})
  BY IdsThere, IdsGrow DEF LoopInvariant
<1> USE DEF IdsInPlace, TimersKept, Running
<1> DEFINE Inv == IdsInPlace /\ TimersKept
<1>2. ASSUME NEW repeat \in BOOLEAN, AddTimer(repeat) PROVE Inv'
  <2>1. /\ next' = next + 1 /\ UNCHANGED <<internal, due, idle, run>>
        /\ DOMAIN page' = DOMAIN page \cup {next} /\ \A id \in DOMAIN page : page'[id] = page[id]
        /\ DOMAIN armed' = DOMAIN armed \cup {next}
    BY <1>1, <1>2 DEF AddTimer, With
  <2> QED
    BY <1>1, <2>1
<1>3. ASSUME NEW id, ClearTimer(id) PROVE Inv'
  <2>1. CASE id \in DOMAIN page
    <3>1. /\ UNCHANGED <<next, internal, due, idle, run>>
          /\ DOMAIN page' = DOMAIN page \ {id} /\ \A other \in DOMAIN page \ {id} : page'[other] = page[other]
          /\ DOMAIN armed' = DOMAIN armed \ {id}
      BY <1>3, <2>1 DEF ClearTimer, Without
    <3> QED
      BY <1>1, <2>1, <3>1
  <2>2. CASE id \notin DOMAIN page
    <3>1. UNCHANGED TimersVars
      BY <1>3, <2>2 DEF ClearTimer, TimersVars
    <3> QED
      BY <1>1, <3>1 DEF TimersVars
  <2> QED
    BY <2>1, <2>2
<1>4. ASSUME NEW job \in {"task", "idle"}, InternalTimeout(job), UNCHANGED <<page, due, run>>,
             DOMAIN idle' = DOMAIN idle \cup (IF job = "idle" THEN {next} ELSE {})
      PROVE  Inv'
  <2>1. /\ DOMAIN internal' = DOMAIN internal \cup {next} /\ internal'[next] = job
        /\ \A id \in DOMAIN internal : internal'[id] = internal[id]
        /\ DOMAIN armed' = DOMAIN armed \cup {next} /\ next' = next + 1
    BY <1>1, <1>4 DEF InternalTimeout, With
  <2>2. DOMAIN idle' = {id \in DOMAIN internal' : internal'[id] = "idle"}
    BY <1>1, <1>4, <2>1
  <2> QED
    BY <1>1, <1>4, <2>1, <2>2
<1>5. ASSUME PostTask PROVE Inv'
  <2>1. UNCHANGED <<page, due, idle, run>>
    BY <1>5 DEF PostTask
  <2>2. CASE InternalTimeout("task")
    BY <1>4, <2>1, <2>2
  <2>3. CASE UNCHANGED <<next, internal, armed>>
    BY <1>1, <2>1, <2>3
  <2> QED
    BY <1>5, <2>2, <2>3 DEF PostTask
<1>6. ASSUME RequestIdle PROVE Inv'
  <2>1. DOMAIN idle' = DOMAIN idle \cup {next}
    BY <1>6 DEF RequestIdle, With
  <2> QED
    BY <1>4, <1>6, <2>1 DEF RequestIdle
<1>7. ASSUME NEW n \in DOMAIN idle, CancelIdle(n) PROVE Inv'
  <2>1. /\ UNCHANGED <<next, page, due, run>>
        /\ DOMAIN idle' = DOMAIN idle \ {n} /\ DOMAIN armed' = DOMAIN armed \ {n}
        /\ DOMAIN internal' = DOMAIN internal \ {n} /\ \A id \in DOMAIN internal \ {n} : internal'[id] = internal[id]
    BY <1>7 DEF CancelIdle, Without
  <2> QED
    BY <1>1, <1>7, <2>1
<1>8. ASSUME NEW id \in due, OnTimer(id) PROVE Inv'
  <2>1. /\ UNCHANGED <<next, internal, armed, idle>> /\ due' = due \ {id}
        /\ id \in DOMAIN page /\ run'.kind = "timer" /\ run'.id = id /\ run = NoRun
    BY <1>8 DEF OnTimer, Start, Idle
  <2>2. CASE page[id].repeat
    <3>1. page' = page
      BY <1>8, <2>2 DEF OnTimer
    <3> QED
      BY <1>1, <2>1, <2>2, <3>1 DEF NoRun
  <2>3. CASE ~page[id].repeat
    <3>1. DOMAIN page' = DOMAIN page \ {id} /\ \A other \in DOMAIN page \ {id} : page'[other] = page[other]
      BY <1>8, <2>3 DEF OnTimer, Without
    <3> QED
      BY <1>1, <2>1, <3>1 DEF NoRun
  <2> QED
    BY <2>2, <2>3
<1>9. ASSUME NEW id \in due, StaleTimer(id) PROVE Inv'
  <2>1. UNCHANGED <<next, page, internal, armed, idle, run>> /\ due' = due \ {id} /\ id \notin DOMAIN page \cup DOMAIN internal
    BY <1>9 DEF StaleTimer
  <2> QED
    BY <1>1, <2>1
<1>10. ASSUME NEW id \in due, RunOneTask(id) PROVE Inv'
  <2>1. /\ UNCHANGED <<page, idle>> /\ due' = due \ {id} /\ id \in DOMAIN internal /\ internal[id] = "task"
        /\ run'.kind = "task" /\ run = NoRun
        /\ DOMAIN Without(internal, id) = DOMAIN internal \ {id}
        /\ \A other \in DOMAIN internal \ {id} : Without(internal, id)[other] = internal[other]
    BY <1>10 DEF RunOneTask, Start, Idle, Without
  <2>2. CASE MoreTasks
    <3>1. /\ next' = next + 1 /\ DOMAIN armed' = DOMAIN armed \cup {next}
          /\ DOMAIN internal' = (DOMAIN internal \ {id}) \cup {next} /\ internal'[next] = "task"
          /\ \A other \in DOMAIN internal \ {id} : internal'[other] = internal[other]
      BY <1>1, <1>10, <2>1, <2>2 DEF RunOneTask, With
    <3> QED
      BY <1>1, <2>1, <3>1 DEF NoRun
  <2>3. CASE ~MoreTasks
    <3>1. next' = next /\ armed' = armed /\ internal' = Without(internal, id)
      BY <1>10, <2>3 DEF RunOneTask
    <3> QED
      BY <1>1, <2>1, <3>1 DEF NoRun
  <2> QED
    BY <2>2, <2>3
<1>11. ASSUME NEW id \in due, RunIdle(id) PROVE Inv'
  <2>1. /\ UNCHANGED <<next, page, armed>> /\ due' = due \ {id} /\ id \in DOMAIN internal
        /\ run'.kind = "idle" /\ run = NoRun /\ DOMAIN idle' = DOMAIN idle \ {id}
        /\ DOMAIN internal' = DOMAIN internal \ {id}
        /\ \A other \in DOMAIN internal \ {id} : internal'[other] = internal[other]
    BY <1>11 DEF RunIdle, Start, Idle, Without
  <2> QED
    BY <1>1, <2>1 DEF NoRun
<1>12. ASSUME TimerReturns(run.id) PROVE Inv'
  <2>1. UNCHANGED <<next, internal, due, idle>> /\ run'.kind = "none" /\ run.kind = "timer"
    BY <1>12 DEF TimerReturns, Return, NoRun
  <2>2. CASE Rearm(run.id)
    <3>1. /\ run.id \in DOMAIN page /\ DOMAIN page' = DOMAIN page
          /\ DOMAIN armed' = DOMAIN armed \cup {run.id}
      BY <1>12, <2>2 DEF TimerReturns, Rearm, With
    <3> QED
      BY <1>1, <2>1, <3>1
  <2>3. CASE ~Rearm(run.id)
    <3>1. page' = page /\ armed' = armed /\ run.id \notin DOMAIN page
      BY <1>1, <1>12, <2>1, <2>3 DEF TimerReturns, Rearm
    <3> QED
      BY <1>1, <2>1, <3>1
  <2> QED
    BY <2>2, <2>3
<1>13. ASSUME UNCHANGED <<next, page, internal, armed, due, idle>>, run.kind # "timer", run'.kind # "timer" PROVE Inv'
  BY <1>1, <1>13
<1>14. ASSUME Event \/ FrameCallback \/ OtherReturns PROVE Inv'
  <2>1. run'.kind # "timer" /\ run.kind # "timer"
    BY <1>14 DEF Event, FrameCallback, OtherReturns, Start, Idle, Return, NoRun
  <2> QED
    BY <1>13, <1>14, <2>1 DEF Event, FrameCallback, OtherReturns
<1>15. ASSUME NEW ids \in SUBSET DOMAIN armed, TakeDue(ids) PROVE Inv'
  <2>1. UNCHANGED <<next, page, internal, idle, run>> /\ due = {} /\ due' = ids /\ DOMAIN armed' = DOMAIN armed \ ids /\ run = NoRun
    BY <1>15 DEF TakeDue, Idle
  <2> QED
    BY <1>1, <2>1 DEF NoRun
<1>16. CASE UNCHANGED TimersVars
  BY <1>1, <1>16 DEF TimersVars
<1> QED
  BY <1>2, <1>3, <1>5, <1>6, <1>7, <1>8, <1>9, <1>10, <1>11, <1>12, <1>14, <1>15, <1>16, TimerSteps

-----------------------------------------------------------------------------
(***************************************************************************)
(* What was cancelled                                                      *)
(***************************************************************************)

LEMMA CancelledStaysGone ==
  ASSUME LoopInvariant, [Next]_loopVars
  PROVE  CancelledGone'
<1>1. /\ CancelledGone
      /\ next \notin Ids /\ DOMAIN page \subseteq Ids /\ DOMAIN idle \subseteq Ids /\ due \subseteq Ids
      /\ (next' = next => Ids' = Ids) /\ (next' = next + 1 => Ids' = Ids \cup {next})
      /\ rafId \in Nat /\ raf \in Seq(Nat) /\ Len(raf) \in Nat /\ DOMAIN raf = 1..Len(raf)
      /\ \A n \in 1..Len(raf) : raf[n] \in FrameIds
      /\ \A m, n \in 1..Len(raf) : m < n => raf[m] < raf[n]
  <2>1. CancelledGone /\ rafId \in Nat /\ raf \in Seq(Nat) /\ FramesAsked
    BY DEF LoopInvariant, LoopTypeOK
  <2>2. Len(raf) \in Nat /\ DOMAIN raf = 1..Len(raf)
    BY <2>1, LenProperties
  <2> QED
    BY <2>1, <2>2, IdsThere, IdsGrow DEF FramesAsked
<1>2. (rafId' = rafId => FrameIds' = FrameIds) /\ (rafId' = rafId + 1 => FrameIds' = FrameIds \cup {rafId + 1}) /\ rafId + 1 \notin FrameIds
  BY <1>1 DEF FrameIds
<1> USE DEF CancelledGone
<1>3. ASSUME Ids \subseteq Ids', UNCHANGED <<cleared, raf, rafId>>,
             DOMAIN page' \subseteq DOMAIN page \cup (Ids' \ Ids), DOMAIN idle' \subseteq DOMAIN idle \cup (Ids' \ Ids)
      PROVE  CancelledGone'
  <2>1. \A id \in Ids' \ Ids : <<"timer", id>> \notin cleared /\ <<"idle", id>> \notin cleared
    BY <1>1
  <2> QED
    BY <1>1, <1>2, <1>3, <2>1
<1>4. ASSUME UNCHANGED <<next, cleared, raf, rafId>>,
             DOMAIN page' \subseteq DOMAIN page, DOMAIN idle' \subseteq DOMAIN idle
      PROVE  CancelledGone'
  BY <1>1, <1>3, <1>4
<1>5. ASSUME NEW repeat \in BOOLEAN, AddTimer(repeat) PROVE CancelledGone'
  BY <1>1, <1>3, <1>5 DEF AddTimer, With, frameVars
<1>6. ASSUME NEW id \in DOMAIN page \cup due, ClearTimer(id) PROVE CancelledGone'
  <2>1. /\ UNCHANGED <<next, idle, raf, rafId>> /\ cleared' = cleared \cup {<<"timer", id>>} /\ id \in Ids
        /\ DOMAIN page' = DOMAIN page \ {id}
    BY <1>1, <1>6 DEF ClearTimer, Without, frameVars
  <2> QED
    BY <1>1, <1>2, <2>1
<1>7. ASSUME PostTask PROVE CancelledGone'
  BY <1>1, <1>3, <1>7 DEF PostTask, InternalTimeout, frameVars
<1>8. ASSUME RequestIdle PROVE CancelledGone'
  BY <1>1, <1>3, <1>8 DEF RequestIdle, InternalTimeout, With, frameVars
<1>9. ASSUME RequestFrame PROVE CancelledGone'
  <2>1. UNCHANGED <<next, page, idle, cleared>> /\ raf' = Append(raf, rafId + 1) /\ rafId' = rafId + 1
    BY <1>9 DEF RequestFrame
  <2>2. Len(raf') = Len(raf) + 1 /\ raf'[Len(raf) + 1] = rafId + 1 /\ \A n \in 1..Len(raf) : raf'[n] = raf[n]
    BY <1>1, <2>1, AppendKeeps
  <2>3. \A n \in 1..Len(raf') : <<"frame", raf'[n]>> \notin cleared
    BY <1>1, <1>2, <2>2
  <2> QED
    BY <1>1, <1>2, <2>1, <2>3
<1>10. ASSUME NEW n \in DOMAIN idle, CancelIdle(n) PROVE CancelledGone'
  <2>1. /\ UNCHANGED <<next, page, raf, rafId>> /\ cleared' = cleared \cup {<<"idle", n>>} /\ n \in Ids
        /\ DOMAIN idle' = DOMAIN idle \ {n}
    BY <1>1, <1>10 DEF CancelIdle, Without, frameVars
  <2> QED
    BY <1>1, <1>2, <2>1
<1>11. ASSUME NEW n \in DOMAIN raf, CancelFrame(n) PROVE CancelledGone'
  <2>1. UNCHANGED <<next, page, idle, rafId>> /\ cleared' = cleared \cup {<<"frame", raf[n]>>} /\ raf' = RemoveAt(raf, n)
    BY <1>11 DEF CancelFrame
  <2>2. Len(raf') = Len(raf) - 1
        /\ (\A k \in 1..n - 1 : raf'[k] = raf[k]) /\ \A k \in n..Len(raf) - 1 : raf'[k] = raf[k + 1]
    <3>1. n \in 1..Len(raf) /\ raf \in Seq(Nat)
      BY <1>1
    <3> HIDE DEF CancelledGone
    <3>2. RemoveAt(raf, n) \in Seq(Nat) /\ Len(RemoveAt(raf, n)) = Len(raf) - 1
      BY <3>1, RemoveAtKeeps
    <3>3. \A k \in 1..n - 1 : RemoveAt(raf, n)[k] = raf[k]
      BY <3>1, RemoveAtKeeps
    <3>4. \A k \in n..Len(raf) - 1 : RemoveAt(raf, n)[k] = raf[k + 1]
      BY <3>1, RemoveAtKeeps
    <3> QED
      BY <2>1, <3>2, <3>3, <3>4
  <2>3. ASSUME NEW k \in 1..Len(raf') PROVE \E m \in 1..Len(raf) : m # n /\ raf'[k] = raf[m]
    <3>1. CASE k < n
      <4>1. k \in 1..n - 1 /\ k \in 1..Len(raf) /\ k # n
        BY <1>1, <2>2, <3>1
      <4> QED
        BY <2>2, <4>1
    <3>2. CASE ~(k < n)
      <4>1. k \in n..Len(raf) - 1 /\ k + 1 \in 1..Len(raf) /\ k + 1 # n
        BY <1>1, <2>2, <3>2
      <4> QED
        BY <2>2, <4>1
    <3> QED
      BY <3>1, <3>2
  <2>4. \A m \in 1..Len(raf) : m # n => raf[m] # raf[n]
    BY <1>1 DEF FrameIds
  <2>5. \A k \in 1..Len(raf') : <<"frame", raf'[k]>> \notin cleared'
    BY <1>1, <2>1, <2>3, <2>4
  <2> QED
    BY <1>1, <1>2, <2>1, <2>5
<1>12. ASSUME NEW id \in due, OnTimer(id) PROVE CancelledGone'
  BY <1>4, <1>12 DEF OnTimer, Without, frameVars
<1>13. ASSUME NEW id \in due, StaleTimer(id) PROVE CancelledGone'
  BY <1>4, <1>13 DEF StaleTimer, frameVars
<1>14. ASSUME NEW id \in due, RunOneTask(id) PROVE CancelledGone'
  BY <1>1, <1>3, <1>14 DEF RunOneTask, frameVars
<1>15. ASSUME NEW id \in due, RunIdle(id) PROVE CancelledGone'
  BY <1>4, <1>15 DEF RunIdle, Without, frameVars
<1>16. ASSUME FrameCallback PROVE CancelledGone'
  <2>1. raf # << >> /\ raf' = Tail(raf) /\ UNCHANGED <<next, page, idle, rafId, cleared>>
    BY <1>16 DEF FrameCallback
  <2>2. Len(raf') = Len(raf) - 1 /\ \A k \in 1..Len(raf) - 1 : raf'[k] = raf[k + 1]
    BY <1>1, <2>1, TailKeeps
  <2>3. ASSUME NEW k \in 1..Len(raf') PROVE <<"frame", raf'[k]>> \notin cleared
    <3>1. k \in 1..Len(raf) - 1 /\ k + 1 \in 1..Len(raf)
      BY <1>1, <2>2
    <3> QED
      BY <1>1, <2>2, <3>1
  <2> QED
    BY <1>1, <1>2, <2>1, <2>3
<1>17. ASSUME TimerReturns(run.id) PROVE CancelledGone'
  BY <1>4, <1>17 DEF TimerReturns, frameVars
<1>18. ASSUME Event \/ EndFrame \/ BeginFrame \/ OtherReturns \/ (\E ids \in SUBSET DOMAIN armed : TakeDue(ids)) \/ UNCHANGED loopVars
       PROVE  CancelledGone'
  BY <1>4, <1>18 DEF Event, EndFrame, BeginFrame, OtherReturns, TakeDue, loopVars, frameVars
<1> QED
  BY <1>5, <1>6, <1>7, <1>8, <1>9, <1>10, <1>11, <1>12, <1>13, <1>14, <1>15, <1>16, <1>17, <1>18, Steps DEF Step

-----------------------------------------------------------------------------
(***************************************************************************)
(* Nesting levels                                                          *)
(***************************************************************************)

LEMMA NestingSteps ==
  ASSUME [Next]_loopVars
  PROVE  \/ \E repeat \in BOOLEAN : AddTimer(repeat)
         \/ \E id \in DOMAIN page \cup due : ClearTimer(id)
         \/ PostTask \/ RequestIdle
         \/ \E n \in DOMAIN idle : CancelIdle(n)
         \/ \E id \in due : OnTimer(id) \/ RunOneTask(id) \/ RunIdle(id)
         \/ TimerReturns(run.id)
         \/ Event \/ FrameCallback \/ OtherReturns
         \/ \E ids \in SUBSET DOMAIN armed : TakeDue(ids)
         \/ UNCHANGED <<page, armed, depth, run, nesting>>
BY Steps DEF Step, loopVars, RequestFrame, CancelFrame, EndFrame, BeginFrame, StaleTimer

LEMMA NestingStays ==
  ASSUME LoopInvariant, [Next]_loopVars
  PROVE  NestingCounts'
<1>1. /\ NestingCounts /\ nesting \in Nat
      /\ page \in [DOMAIN page -> PageTimers] /\ armed \in [DOMAIN armed -> {0, 4}] /\ depth \in [DOMAIN depth -> Nat]
      /\ next \notin DOMAIN page /\ next \notin DOMAIN depth /\ (run.kind = "timer" => run.id # next)
      /\ next \notin DOMAIN armed
      /\ DOMAIN armed \subseteq DOMAIN page \cup DOMAIN internal /\ DOMAIN page \cap DOMAIN internal = {}
      /\ DOMAIN idle = {id \in DOMAIN internal : internal[id] = "idle"}
  BY DEF LoopInvariant, LoopTypeOK, MapOn, Ids, IdsInPlace, TimersKept, NestingCounts
<1> USE DEF NestingCounts
<1>2. ASSUME NEW repeat \in BOOLEAN, AddTimer(repeat) PROVE NestingCounts'
  <2> DEFINE chain == IF run.kind = "timer" THEN Deeper(depth[run.id]) ELSE 1
  <2>1. /\ UNCHANGED <<run, nesting>>
        /\ DOMAIN page' = DOMAIN page \cup {next} /\ DOMAIN armed' = DOMAIN armed \cup {next} /\ DOMAIN depth' = DOMAIN depth \cup {next}
        /\ page'[next].nesting = Deeper(nesting) /\ armed'[next] = Clamped(nesting) /\ depth'[next] = chain
        /\ \A id \in DOMAIN page : page'[id] = page[id]
        /\ \A id \in DOMAIN armed : armed'[id] = armed[id]
        /\ \A id \in DOMAIN depth : depth'[id] = depth[id]
    BY <1>1, <1>2 DEF AddTimer, With
  <2>2. chain = Deeper(nesting)
    BY <1>1, DeeperCounts
  <2>3. Clamped(nesting) = 4 <=> Deeper(nesting) > NestLimit + 1
    BY <1>1, DeeperCounts
  <2> HIDE DEF chain
  <2> QED
    BY <1>1, <2>1, <2>2, <2>3
<1>3. ASSUME DOMAIN page' \subseteq DOMAIN page, \A id \in DOMAIN page' : page'[id] = page[id],
             \A id \in DOMAIN page' : id \in DOMAIN armed' => id \in DOMAIN armed /\ armed'[id] = armed[id],
             depth' = depth, run' = run \/ (run.kind # "timer" /\ run'.kind # "timer"), nesting' = nesting
      PROVE  NestingCounts'
  BY <1>1, <1>3
<1>4. ASSUME NEW id, ClearTimer(id) PROVE NestingCounts'
  BY <1>3, <1>4 DEF ClearTimer, Without
<1>5. ASSUME NEW job, InternalTimeout(job), UNCHANGED <<page, depth, run, nesting>> PROVE NestingCounts'
  <2>1. \A id \in DOMAIN page' : id \in DOMAIN armed' => id \in DOMAIN armed /\ armed'[id] = armed[id]
    BY <1>1, <1>5 DEF InternalTimeout, With
  <2> QED
    BY <1>3, <1>5, <2>1
<1>6. ASSUME PostTask PROVE NestingCounts'
  <2>1. UNCHANGED <<page, depth, run, nesting>>
    BY <1>6 DEF PostTask
  <2>2. CASE UNCHANGED armed
    BY <1>3, <2>1, <2>2
  <2> QED
    BY <1>5, <1>6, <2>1, <2>2 DEF PostTask
<1>7. ASSUME RequestIdle PROVE NestingCounts'
  BY <1>5, <1>7 DEF RequestIdle
<1>8. ASSUME NEW n \in DOMAIN idle, CancelIdle(n) PROVE NestingCounts'
  BY <1>3, <1>8 DEF CancelIdle, Without
<1>9. ASSUME NEW id \in due, OnTimer(id) PROVE NestingCounts'
  <2>1. /\ id \in DOMAIN page /\ nesting' = page[id].nesting /\ UNCHANGED <<armed, depth>>
        /\ run'.kind = "timer" /\ run'.id = id
        /\ DOMAIN page' \subseteq DOMAIN page /\ \A other \in DOMAIN page' : page'[other] = page[other]
    BY <1>9 DEF OnTimer, Start, Without
  <2> QED
    BY <1>1, <2>1
<1>10. ASSUME NEW id \in due, RunOneTask(id) PROVE NestingCounts'
  <2>1. UNCHANGED <<page, depth, nesting>> /\ run.kind # "timer" /\ run'.kind # "timer"
    BY <1>10 DEF RunOneTask, Idle, Start, NoRun
  <2>2. \A other \in DOMAIN page' : other \in DOMAIN armed' => other \in DOMAIN armed /\ armed'[other] = armed[other]
    BY <1>1, <1>10, <2>1 DEF RunOneTask, With
  <2> QED
    BY <1>3, <2>1, <2>2
<1>11. ASSUME (\E id \in due : RunIdle(id)) \/ Event \/ FrameCallback \/ OtherReturns PROVE NestingCounts'
  <2>1. UNCHANGED <<page, armed, depth, nesting>>
    BY <1>11 DEF RunIdle, Event, FrameCallback, OtherReturns
  <2>2. run.kind # "timer" /\ run'.kind # "timer"
    BY <1>11 DEF RunIdle, Event, FrameCallback, OtherReturns, Idle, Start, NoRun, Return
  <2> QED
    BY <1>3, <2>1, <2>2
<1>12. ASSUME TimerReturns(run.id) PROVE NestingCounts'
  <2>1. nesting' = 0 /\ run'.kind = "none" /\ run.kind = "timer"
    BY <1>12 DEF TimerReturns, Return, NoRun
  <2>2. CASE Rearm(run.id)
    <3>1. run.id \in DOMAIN page /\ run.id \in DOMAIN depth /\ page[run.id].nesting = depth[run.id]
          /\ page[run.id].nesting \in Nat /\ page[run.id] \in PageTimers
      BY <1>1, <2>1, <2>2 DEF Rearm, PageTimers
    <3>2. page' = [page EXCEPT ![run.id].nesting = Deeper(@)] /\ depth' = [depth EXCEPT ![run.id] = Deeper(@)]
          /\ armed' = With(armed, run.id, Clamped(page[run.id].nesting))
      BY <1>12, <2>2 DEF TimerReturns
    <3>3. DOMAIN page' = DOMAIN page /\ page'[run.id].nesting = Deeper(page[run.id].nesting)
          /\ \A id \in DOMAIN page \ {run.id} : page'[id] = page[id]
      BY <1>1, <3>1, <3>2 DEF PageTimers
    <3>4. DOMAIN depth' = DOMAIN depth /\ depth'[run.id] = Deeper(depth[run.id])
          /\ \A id \in DOMAIN depth \ {run.id} : depth'[id] = depth[id]
      BY <1>1, <3>1, <3>2
    <3>5. DOMAIN armed' = DOMAIN armed \cup {run.id} /\ armed'[run.id] = Clamped(page[run.id].nesting)
          /\ \A id \in DOMAIN armed \ {run.id} : armed'[id] = armed[id]
      BY <1>1, <3>2 DEF With
    <3>6. Clamped(page[run.id].nesting) = 4 <=> Deeper(page[run.id].nesting) > NestLimit + 1
      BY <3>1, DeeperCounts
    <3> QED
      BY <1>1, <2>1, <3>1, <3>3, <3>4, <3>5, <3>6
  <2>3. CASE ~Rearm(run.id)
    <3>1. UNCHANGED <<page, armed, depth>>
      BY <1>12, <2>3 DEF TimerReturns
    <3> QED
      BY <1>1, <2>1, <3>1
  <2> QED
    BY <2>2, <2>3
<1>13. ASSUME NEW ids \in SUBSET DOMAIN armed, TakeDue(ids) PROVE NestingCounts'
  BY <1>3, <1>13 DEF TakeDue
<1>14. CASE UNCHANGED <<page, armed, depth, run, nesting>>
  BY <1>3, <1>14
<1> QED
  BY <1>2, <1>4, <1>6, <1>7, <1>8, <1>9, <1>10, <1>11, <1>12, <1>13, <1>14, NestingSteps

-----------------------------------------------------------------------------
(***************************************************************************)
(* The loop                                                                *)
(***************************************************************************)

LEMMA LoopStarts == Init => LoopInvariant
<1> SUFFICES ASSUME Init PROVE LoopInvariant
  OBVIOUS
<1>1. DOMAIN << >> = {} /\ Len(<< >>) = 0
  OBVIOUS
<1>2. IdsInPlace /\ TimersKept
  BY <1>1 DEF Init, IdsInPlace, TimersKept, NoRun
<1>3. TasksQueued
  BY <1>1 DEF Init, TasksQueued
<1>4. FramesAsked
  BY <1>1 DEF Init, FramesAsked
<1>5. CancelledGone
  BY <1>1 DEF Init, CancelledGone
<1>6. NestingCounts
  BY <1>1 DEF Init, NestingCounts, NoRun
<1> QED
  BY TypesStart, <1>2, <1>3, <1>4, <1>5, <1>6 DEF LoopInvariant

LEMMA LoopGoesOn == LoopInvariant /\ [Next]_loopVars => LoopInvariant'
BY TypesKept, TimersStay, TasksStay, FramesStay, CancelledStaysGone, NestingStays DEF LoopInvariant

(* The inductive invariant: ids are in one place each, the task queue has  *)
(* its one timer, frames are asked for, and levels count (40_webapi.js,    *)
(* lines 13 to 157).                                                       *)
THEOREM LoopKeepsItsBooks == Spec => []LoopInvariant
BY LoopStarts, LoopGoesOn, PTL DEF Spec

(* Every timer, idle callback, task and frame callback that waits is armed,*)
(* due or run, whatever handlers set, clear, post or cancel (addTimer,     *)
(* onTimer, clearTimer, runOneTask, onFrame).                              *)
THEOREM LoopForgetsNothing == Spec => []NothingForgotten
<1>1. LoopInvariant => NothingForgotten
  BY DEF LoopInvariant, IdsInPlace, TimersKept, TasksQueued, TaskTimer, FramesAsked, Running, NothingForgotten
<1> QED
  BY <1>1, LoopKeepsItsBooks, PTL

(* A timer waits 4 ms exactly if its chain is longer than the limit, and   *)
(* so does an interval that repeated so often (addTimer, onTimer).         *)
THEOREM DeepTimersAlwaysWait == Spec => []DeepTimersWait
<1>1. LoopInvariant => DeepTimersWait
  BY DEF LoopInvariant, NestingCounts, DeepTimersWait
<1> QED
  BY <1>1, LoopKeepsItsBooks, PTL

(* What was cancelled is not called any more, also when the host had taken *)
(* the timer already or a handler of the same batch cancelled it           *)
(* (clearTimer, cancelIdleCallback, cancelAnimationFrame).                 *)
THEOREM CancelledNeverRuns == Spec => CancelledStaysQuiet
<1>1. ASSUME LoopInvariant, Next, run' # run, run'.id # 0
      PROVE  <<run'.kind, run'.id>> \notin cleared
  <2>1. CancelledGone /\ raf \in Seq(Nat) /\ cleared \subseteq ({"timer", "idle"} \X Ids) \cup ({"frame"} \X FrameIds)
    BY <1>1 DEF LoopInvariant, LoopTypeOK, CancelledGone
  <2>2. ASSUME NEW id \in due, OnTimer(id) PROVE <<run'.kind, run'.id>> \notin cleared
    BY <2>1, <2>2 DEF OnTimer, Start, CancelledGone
  <2>3. ASSUME NEW id \in due, RunIdle(id) PROVE <<run'.kind, run'.id>> \notin cleared
    BY <2>1, <2>3 DEF RunIdle, Start, CancelledGone
  <2>4. ASSUME NEW id \in due, RunOneTask(id) PROVE <<run'.kind, run'.id>> \notin cleared
    <3>1. run'.kind = "task"
      BY <2>4 DEF RunOneTask, Start
    <3> QED
      BY <2>1, <3>1
  <2>5. ASSUME FrameCallback PROVE <<run'.kind, run'.id>> \notin cleared
    <3>1. raf # << >> /\ run'.kind = "frame" /\ run'.id = Head(raf)
      BY <2>5 DEF FrameCallback, Start
    <3>2. Head(raf) = raf[1] /\ 1 \in 1..Len(raf)
      BY <2>1, <3>1, TailKeeps, LenProperties
    <3> QED
      BY <2>1, <3>1, <3>2 DEF CancelledGone
  <2>6. ASSUME Event \/ TimerReturns(run.id) \/ OtherReturns PROVE FALSE
    BY <1>1, <2>6 DEF Event, TimerReturns, OtherReturns, Return, Start, NoRun
  <2>7. \/ \E id \in due : OnTimer(id) \/ RunOneTask(id) \/ RunIdle(id)
        \/ FrameCallback \/ Event \/ TimerReturns(run.id) \/ OtherReturns
    BY <1>1, Steps DEF Step, loopVars, AddTimer, ClearTimer, PostTask, RequestIdle, RequestFrame, CancelIdle, CancelFrame,
                       StaleTimer, EndFrame, BeginFrame, TakeDue
  <2> QED
    BY <2>2, <2>3, <2>4, <2>5, <2>6, <2>7
<1>2. LoopInvariant /\ [Next]_loopVars => [run'.id # 0 /\ run' # run => <<run'.kind, run'.id>> \notin cleared]_loopVars
  BY <1>1
<1> QED
  BY <1>2, LoopKeepsItsBooks, PTL DEF Spec, CancelledStaysQuiet

(* Tasks run in the order they were posted, each once, and a frame does    *)
(* not run the callbacks registered while it runs (runOneTask, onFrame).   *)
THEOREM TasksRunInOrder == Spec => InOrder
<1>1. ASSUME LoopInvariant, Next, started' # started
      PROVE  started' = started + 1
  <2>1. PICK id \in due : RunOneTask(id)
    BY <1>1, Steps DEF Step, loopVars, history, AddTimer, ClearTimer, PostTask, RequestIdle, RequestFrame, CancelIdle, CancelFrame, Event,
                       OnTimer, StaleTimer, RunIdle, FrameCallback, EndFrame, BeginFrame, TimerReturns, OtherReturns, TakeDue
  <2>2. tasks # << >> /\ tasks \in Seq(Nat) /\ started' = Head(tasks) /\ \A n \in 1..Len(tasks) : tasks[n] = started + n
    BY <1>1, <2>1 DEF RunOneTask, LoopInvariant, LoopTypeOK, TasksQueued, TaskTimer
  <2>3. Head(tasks) = tasks[1] /\ 1 \in 1..Len(tasks)
    BY <2>2, TailKeeps, LenProperties
  <2> QED
    BY <2>2, <2>3
<1>2. ASSUME Next, run'.kind = "frame", run' # run
      PROVE  run'.id <= frame
  <2>1. FrameCallback \/ (\E id \in due : OnTimer(id) \/ RunOneTask(id) \/ RunIdle(id)) \/ Event \/ TimerReturns(run.id) \/ OtherReturns
    BY <1>2, Steps DEF Step, loopVars, AddTimer, ClearTimer, PostTask, RequestIdle, RequestFrame, CancelIdle, CancelFrame,
                       StaleTimer, EndFrame, BeginFrame, TakeDue
  <2>2. FrameCallback
    BY <1>2, <2>1 DEF Event, OnTimer, RunOneTask, RunIdle, TimerReturns, OtherReturns, Start, Return, NoRun
  <2> QED
    BY <2>2 DEF FrameCallback, Start, InFrame
<1>3. /\ LoopInvariant /\ [Next]_loopVars => [started' # started => started' = started + 1]_loopVars
      /\ [Next]_loopVars => [run'.kind = "frame" /\ run' # run => run'.id <= frame]_loopVars
  BY <1>1, <1>2
<1> QED
  BY <1>3, LoopKeepsItsBooks, PTL DEF Spec, InOrder
=============================================================================
