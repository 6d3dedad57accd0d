------------------------------ MODULE EventLoop ------------------------------
(***************************************************************************)
(* Timers, the task queue, animation frames and idle callbacks of a page   *)
(* (crates/script/js/40_webapi.js:13-157) over the native one-shot timers. *)
(* A handler is the variable run; until it returns it may call any of the  *)
(* operations, so a timer can clear itself, its neighbours in the batch    *)
(* that is due, and frames can cancel frames.                              *)
(***************************************************************************)
EXTENDS Naturals, Sequences, SequencesExt, FiniteSets

CONSTANTS
  MaxCalls,     \* bound on the calls scripts make
  MaxEvents,    \* bound on the events that start scripts from outside
  NestLimit     \* 5 in the code: deeper chains of timers are slowed down

ASSUME LoopBounds == {MaxCalls, MaxEvents, NestLimit} \subseteq Nat

VARIABLES
  next,       \* the next timer id
  page,       \* pageTimers: id -> [repeat, nesting]
  internal,   \* internalTimers: id -> "task" or the number of an idle callback
  armed,      \* native timers: id -> delay (0, or 4 for one that was slowed down)
  due,        \* ids the host took from the native timers and has yet to call
  tasks,      \* taskQueue: the numbers of the tasks
  idle,       \* idleCallbacks: idle callback -> timer id
  run,        \* the handler that runs, or NoRun
  nesting,    \* currentNesting
  raf, rafId, frame,         \* frame callbacks; frame: the maxId of the frame that runs, or 0
  frameRequested, wanted,    \* the page's flag that it asked for a frame, and the host's
  calls, events, posted, started, cleared, depth

loopVars == <<next, page, internal, armed, due, tasks, idle, run, nesting,
              raf, rafId, frame, frameRequested, wanted, calls, events, posted, started, cleared, depth>>

NoRun == [kind |-> "none", id |-> 0]
With(f, x, v) == [y \in DOMAIN f \union {x} |-> IF y = x THEN v ELSE f[y]]
Without(f, x) == [y \in DOMAIN f \ {x} |-> f[y]]
Deeper(level) == IF level > NestLimit + 1 THEN level ELSE level + 1   \* counted no further
Clamped(level) == IF level > NestLimit THEN 4 ELSE 0   \* of a timer that asked for 0

Init ==
  /\ next = 1 /\ rafId = 0 /\ frame = 0 /\ nesting = 0 /\ events = 0 /\ calls = 0 /\ posted = 0 /\ started = 0
  /\ page = << >> /\ internal = << >> /\ armed = << >> /\ idle = << >> /\ depth = << >>
  /\ due = {} /\ cleared = {} /\ tasks = << >> /\ raf = << >>
  /\ run = NoRun /\ frameRequested = FALSE /\ wanted = FALSE

-----------------------------------------------------------------------------
(* What a script may do while it runs.                                     *)

frameVars == <<raf, rafId, frame, frameRequested, wanted>>
history == <<events, posted, started>>
Called == run # NoRun /\ calls < MaxCalls /\ calls' = calls + 1

AddTimer(repeat) ==
  /\ Called
  /\ next' = next + 1
  /\ page' = With(page, next, [repeat |-> repeat, nesting |-> Deeper(nesting)])
  /\ armed' = With(armed, next, Clamped(nesting))
  /\ depth' = With(depth, next, IF run.kind = "timer" THEN Deeper(depth[run.id]) ELSE 1)
  /\ UNCHANGED <<internal, due, tasks, idle, run, nesting, frameVars, history, cleared>>

\* mutant of ClearTimer
ClearTimerNativeOnly(id) ==
  /\ Called
  /\ cleared' = cleared \union {<<"timer", id>>}
  /\ armed' = IF id \in DOMAIN page THEN Without(armed, id) ELSE armed
  /\ UNCHANGED <<next, page, internal, due, tasks, idle, run, nesting, frameVars, history, depth>>

ClearTimer(id) ==
  /\ Called
  /\ cleared' = cleared \union {<<"timer", id>>}
  /\ IF id \in DOMAIN page
     THEN page' = Without(page, id) /\ armed' = Without(armed, id)
     ELSE UNCHANGED <<page, armed>>
  /\ UNCHANGED <<next, internal, due, tasks, idle, run, nesting, frameVars, history, depth>>

InternalTimeout(job) ==
  /\ next' = next + 1
  /\ internal' = With(internal, next, job)
  /\ armed' = With(armed, next, 0)

PostTask ==
  /\ Called
  /\ posted' = posted + 1
  /\ tasks' = Append(tasks, posted + 1)
  /\ IF \E id \in DOMAIN internal : internal[id] = "task"
     THEN UNCHANGED <<next, internal, armed>>
     ELSE InternalTimeout("task")
  /\ UNCHANGED <<page, due, idle, run, nesting, frameVars, events, started, cleared, depth>>

RequestIdle ==
  /\ Called
  /\ InternalTimeout("idle")
  /\ idle' = With(idle, next, next)
  /\ UNCHANGED <<page, due, tasks, run, nesting, frameVars, history, cleared, depth>>

CancelIdle(n) ==
  /\ Called /\ n \in DOMAIN idle
  /\ cleared' = cleared \union {<<"idle", n>>}
  /\ idle' = Without(idle, n)
  /\ internal' = Without(internal, n)
  /\ armed' = Without(armed, n)
  /\ UNCHANGED <<next, page, due, tasks, run, nesting, frameVars, history, depth>>

RequestFrame ==
  /\ Called
  /\ rafId' = rafId + 1
  /\ raf' = Append(raf, rafId + 1)
  /\ frameRequested' = TRUE
  /\ wanted' = (wanted \/ ~frameRequested)
  /\ UNCHANGED <<next, page, internal, armed, due, tasks, idle, run, nesting, frame, history, cleared, depth>>

(* The callback at place n of the map goes.                                *)
CancelFrame(n) ==
  /\ Called /\ n \in DOMAIN raf
  /\ cleared' = cleared \union {<<"frame", raf[n]>>}
  /\ raf' = RemoveAt(raf, n)
  /\ UNCHANGED <<next, page, internal, armed, due, tasks, idle, run, nesting, rafId, frame, frameRequested, wanted, history, depth>>

Return(id) == run.id = id /\ run' = NoRun
(* After its handler an interval is armed again, if it is still there.     *)
Rearm(id) == id \in DOMAIN page /\ page[id].repeat

(* A handler returns, or throws, which is reported.                        *)
TimerReturns(id) ==
  /\ run.kind = "timer" /\ Return(id)
  /\ nesting' = 0
  /\ IF Rearm(id)
     THEN /\ page' = [page EXCEPT ![id].nesting = Deeper(@)]
          /\ armed' = With(armed, id, Clamped(page[id].nesting))
          /\ depth' = [depth EXCEPT ![id] = Deeper(@)]
     ELSE UNCHANGED <<page, armed, depth>>
  /\ UNCHANGED <<next, internal, due, tasks, idle, frameVars, history, calls, cleared>>

OtherReturns ==
  /\ run.kind \in {"event", "task", "idle", "frame"} /\ Return(run.id)
  /\ UNCHANGED <<next, page, internal, armed, due, tasks, idle, nesting, frameVars, history, calls, cleared, depth>>

-----------------------------------------------------------------------------
(* What the host does: an event of the page, the timers that are due in    *)
(* their order or another, a frame.                                        *)

Idle == run = NoRun /\ frame = 0
Start(kind, id) == run' = [kind |-> kind, id |-> id]

Event ==
  /\ Idle /\ due = {} /\ events < MaxEvents
  /\ events' = events + 1
  /\ Start("event", 0)
  /\ UNCHANGED <<next, page, internal, armed, due, tasks, idle, nesting, frameVars, posted, started, calls, cleared, depth>>

TakeDue(ids) ==
  /\ Idle /\ due = {}
  /\ ids # {} /\ ids \subseteq DOMAIN armed
  /\ due' = ids
  /\ armed' = [id \in DOMAIN armed \ ids |-> armed[id]]
  /\ UNCHANGED <<next, page, internal, tasks, idle, run, nesting, frameVars, history, calls, cleared, depth>>

\* mutant of OnTimer
OnTimerForgetsNesting(id) ==
  /\ Idle /\ id \in due /\ id \in DOMAIN page
  /\ due' = due \ {id} /\ Start("timer", id)
  /\ page' = IF page[id].repeat THEN page ELSE Without(page, id)
  /\ UNCHANGED <<next, internal, armed, tasks, idle, nesting, frameVars, history, calls, cleared, depth>>

OnTimer(id) ==
  /\ Idle /\ id \in due /\ id \in DOMAIN page
  /\ due' = due \ {id}
  /\ page' = IF page[id].repeat THEN page ELSE Without(page, id)
  /\ nesting' = page[id].nesting
  /\ Start("timer", id)
  /\ UNCHANGED <<next, internal, armed, tasks, idle, frameVars, history, calls, cleared, depth>>

(* The timer was cleared after the host took it.                           *)
StaleTimer(id) ==
  /\ Idle /\ id \in due \ (DOMAIN page \union DOMAIN internal)
  /\ due' = due \ {id}
  /\ UNCHANGED <<next, page, internal, armed, tasks, idle, run, nesting, frameVars, history, calls, cleared, depth>>

\* mutant of MoreTasks
MoreTasksLate == Len(tasks) > 2
MoreTasks == Len(tasks) > 1

(* One task a turn; the next turn is asked for before the task runs.       *)
RunOneTask(id) ==
  /\ Idle /\ id \in due /\ id \in DOMAIN internal /\ internal[id] = "task"
  /\ due' = due \ {id}
  /\ tasks' = Tail(tasks)
  /\ started' = Head(tasks)
  /\ IF MoreTasks
     THEN /\ next' = next + 1
          /\ internal' = With(Without(internal, id), next, "task")
          /\ armed' = With(armed, next, 0)
     ELSE UNCHANGED <<next, armed>> /\ internal' = Without(internal, id)
  /\ Start("task", Head(tasks))
  /\ UNCHANGED <<page, idle, nesting, frameVars, events, posted, calls, cleared, depth>>

RunIdle(id) ==
  /\ Idle /\ id \in due /\ id \in DOMAIN internal /\ internal[id] = "idle" /\ id \in DOMAIN idle
  /\ due' = due \ {id}
  /\ internal' = Without(internal, id)
  /\ idle' = Without(idle, id)
  /\ Start("idle", id)
  /\ UNCHANGED <<next, page, armed, tasks, nesting, frameVars, history, calls, cleared, depth>>

\* mutant of FlagInFrame
FlagInFrameKept == frameRequested
FlagInFrame == FALSE

(* onFrame(): the callbacks up to maxId run, one after the other.          *)
BeginFrame ==
  /\ Idle /\ due = {} /\ wanted
  /\ wanted' = FALSE
  /\ frameRequested' = FlagInFrame
  /\ frame' = rafId
  /\ UNCHANGED <<next, page, internal, armed, due, tasks, idle, run, nesting, raf, rafId, history, calls, cleared, depth>>

InFrame(id) == id <= frame

FrameCallback ==
  /\ frame # 0 /\ run = NoRun /\ raf # << >> /\ InFrame(Head(raf))
  /\ raf' = Tail(raf)
  /\ Start("frame", Head(raf))
  /\ UNCHANGED <<next, page, internal, armed, due, tasks, idle, nesting, rafId, frame, frameRequested, wanted, history, calls, cleared, depth>>

EndFrame ==
  /\ frame # 0 /\ run = NoRun /\ (raf # << >> => ~InFrame(Head(raf)))
  /\ frame' = 0
  /\ frameRequested' = (frameRequested \/ raf # << >>)
  /\ wanted' = (wanted \/ (~frameRequested /\ raf # << >>))
  /\ UNCHANGED <<next, page, internal, armed, due, tasks, idle, run, nesting, raf, rafId, history, calls, cleared, depth>>

Scripts ==
  \/ \E repeat \in BOOLEAN : AddTimer(repeat)
  \/ \E id \in DOMAIN page \union due : ClearTimer(id)
  \/ PostTask \/ RequestIdle \/ RequestFrame
  \/ \E n \in DOMAIN idle : CancelIdle(n)
  \/ \E n \in DOMAIN raf : CancelFrame(n)
Handlers ==
  \/ \E id \in due : OnTimer(id) \/ StaleTimer(id) \/ RunOneTask(id) \/ RunIdle(id)
  \/ FrameCallback \/ EndFrame
  \/ (\E id \in {run.id} : TimerReturns(id)) \/ OtherReturns

Host == Handlers \/ BeginFrame \/ \E ids \in SUBSET DOMAIN armed : TakeDue(ids)

Next == Scripts \/ Event \/ Host
Spec == Init /\ [][Next]_loopVars

-----------------------------------------------------------------------------
(* Every timer, task and frame callback that waits is still going to be    *)
(* called: it is armed, due or run, whatever handlers cleared, threw or    *)
(* posted meanwhile (addTimer, onTimer, runOneTask, onFrame).              *)
NothingForgotten ==
  /\ DOMAIN internal \subseteq DOMAIN armed \union due
  /\ DOMAIN page \subseteq DOMAIN armed \union due \union {id \in {run.id} : run.kind = "timer"}
  /\ tasks # << >> => \E id \in DOMAIN internal : internal[id] = "task"
  /\ raf # << >> => wanted \/ frame # 0
  /\ DOMAIN armed \subseteq DOMAIN page \union DOMAIN internal

(* A timer, idle callback or frame callback that was cancelled does not    *)
(* run any more, even if it was cancelled from a handler of the same batch *)
(* or from its own (clearTimer, cancelIdleCallback, cancelAnimationFrame). *)
CancelledStaysQuiet ==
  [][run'.id # 0 /\ run' # run => <<run'.kind, run'.id>> \notin cleared]_loopVars

(* A timer set by a chain of more than NestLimit timers waits 4 ms, an     *)
(* interval that often repeated too; a timer set outside of a timer        *)
(* handler is not slowed down (40_webapi.js:27).                           *)
DeepTimersWait ==
  \A id \in DOMAIN page \cap DOMAIN armed : armed[id] = 4 <=> depth[id] > NestLimit + 1

(* Tasks run in the order they were posted, each once, and a frame         *)
(* callback registered during a frame is not run by that frame.            *)
InOrder ==
  /\ [][started' # started => started' = started + 1]_loopVars
  /\ [][run'.kind = "frame" /\ run' # run => run'.id <= frame]_loopVars

(* Every posted task runs, and a frame callback runs or is cancelled.      *)
AllRun == tasks = << >> /\ raf = << >>

(* The host takes the timers of tasks that are due, and makes the frames   *)
(* it was asked for.                                                       *)
Turn == BeginFrame \/ \E ids \in SUBSET DOMAIN armed :
                        (\E id \in ids \cap DOMAIN internal : internal[id] = "task") /\ TakeDue(ids)
FairSpec == Spec /\ WF_loopVars(Handlers) /\ SF_loopVars(Turn)
=============================================================================
