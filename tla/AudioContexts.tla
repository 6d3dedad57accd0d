---------------------------- MODULE AudioContexts ----------------------------
(***************************************************************************)
(* A realtime AudioContext (crates/script/js/46_webaudio.js and            *)
(* 47_webaudio_nodes.js).  There is no output device: while the context    *)
(* runs, a timer renders the quanta that wall time owes it.  resume()      *)
(* waits for a gesture of the user, trying again and again.  A script      *)
(* processor hands every filled buffer to the page in a task of its own    *)
(* and plays what the page made of it in one of the next rounds.           *)
(* Time is counted in quanta.                                              *)
(***************************************************************************)
EXTENDS Integers, Sequences, FiniteSets, FiniteSetsExt

CONSTANTS
  CatchUp,     \* quanta a tick renders at most (200 in the code)
  BufferSize,  \* quanta in a buffer of the script processor
  MaxTime, MaxAudioCalls

VARIABLES
  audioState, audioClosed, userSuspended,  \* of the context
  audioTick,         \* the tick is scheduled
  lastWall, audioFrame,  \* the wall time rendered up to, and how many quanta
  wallTime,           \* wall time
  activated,     \* the user has touched the page
  audioTasks,         \* posted tasks
  resumes,       \* what became of each resume(): waiting, started, done
  processor,            \* the script processor: quanta filled, what plays, what plays next, events made
  heardBlocks,        \* what it has played
  ranFor,        \* how long the context was running
  audioCall       \* the page's last call

audio == <<audioState, audioClosed, userSuspended, audioTick, lastWall, audioFrame, wallTime, activated, audioTasks, resumes, processor, heardBlocks, ranFor, audioCall>>
Silence == 0

LiveInit ==
  /\ audioState = "suspended" /\ audioClosed = FALSE /\ userSuspended = FALSE
  /\ audioTick = FALSE /\ lastWall = 0 /\ audioFrame = 0 /\ wallTime = 0 /\ ranFor = 0
  /\ activated \in BOOLEAN
  /\ audioTasks = (IF activated THEN <<<<"start", 0>>>> ELSE << >>)
  /\ resumes = << >> /\ audioCall = "none"
  /\ processor = [fill |-> 0, out |-> Silence, next |-> Silence, made |-> 0] /\ heardBlocks = << >>

(* setState(): the event is dispatched in a task.                          *)
LiveAnnounced(s, ts) == IF audioState = s THEN ts ELSE Append(ts, <<"event", 0>>)
(* startRealtime().                                                        *)
\* mutant of WallFrom
WallFromKept(wall) == lastWall
WallFrom(wall) == wall
StartRealtime == audioState' = "running" /\ lastWall' = WallFrom(wallTime) /\ audioTick' = TRUE
clock == <<audioState, lastWall, audioTick>>

-----------------------------------------------------------------------------
(* The page.                                                               *)
LiveCall(c) == /\ Len(resumes) < MaxAudioCalls /\ ~audioClosed /\ audioCall' = c
               /\ UNCHANGED <<audioFrame, wallTime, activated, processor, heardBlocks, ranFor>>

(* One attempt of the resume() call i.                                     *)
GivesUp(asked) == audioClosed \/ asked
Attempt(i, rs, asked) ==
  CASE GivesUp(asked) -> resumes' = [rs EXCEPT ![i] = "done"] /\ UNCHANGED <<clock, audioTasks>>
    [] activated -> resumes' = [rs EXCEPT ![i] = "started"] /\ StartRealtime
                     /\ audioTasks' = Append(LiveAnnounced("running", audioTasks), <<"resolve", i>>)
    [] OTHER -> resumes' = rs /\ UNCHANGED <<clock, audioTasks>>
LiveResume ==
  /\ LiveCall("resume") /\ userSuspended' = FALSE /\ UNCHANGED audioClosed
  /\ IF audioState = "running" THEN resumes' = Append(resumes, "done") /\ UNCHANGED <<clock, audioTasks>>
     ELSE Attempt(Len(resumes) + 1, Append(resumes, "waiting"), FALSE)

LiveSuspend ==
  /\ LiveCall("suspend") /\ userSuspended' = TRUE
  /\ audioTick' = FALSE /\ audioState' = "suspended" /\ audioTasks' = LiveAnnounced("suspended", audioTasks)
  /\ UNCHANGED <<audioClosed, lastWall, resumes>>
Close ==
  /\ LiveCall("close") /\ audioClosed' = TRUE
  /\ audioTick' = FALSE /\ audioState' = "closed" /\ audioTasks' = LiveAnnounced("closed", audioTasks)
  /\ UNCHANGED <<userSuspended, lastWall, resumes>>

Activate == ~activated /\ activated' = TRUE
            /\ UNCHANGED <<clock, audioClosed, userSuspended, audioFrame, wallTime, audioTasks, resumes, processor, heardBlocks, ranFor, audioCall>>

-----------------------------------------------------------------------------
(* The script processor in one quantum (its process()).                    *)
NextPlayed(s) == Silence
Processed(s) ==
  IF s.fill + 1 < BufferSize THEN [s EXCEPT !.fill = @ + 1]
  ELSE [fill |-> 0, out |-> s.next, next |-> NextPlayed(s), made |-> s.made + 1]
(* n quanta: the events it makes are posted.                               *)
Rendered(n) ==
  LET step[k \in 0 .. n] == IF k = 0 THEN processor ELSE Processed(step[k - 1])
      starts == {k \in 1 .. n : step[k].made > step[k - 1].made /\ step[k].out # Silence}
  IN /\ processor' = step[n]
     /\ audioTasks' = audioTasks \o [k \in 1 .. step[n].made - processor.made |-> <<"process", processor.made + k>>]
     /\ heardBlocks' = heardBlocks \o [k \in 1 .. Cardinality(starts) |-> processor.next]

(* rtTick().                                                               *)
Tick ==
  /\ audioTick
  /\ UNCHANGED <<audioState, audioClosed, userSuspended, wallTime, activated, resumes, ranFor, audioCall>>
  /\ IF audioState # "running" THEN audioTick' = FALSE /\ UNCHANGED <<lastWall, audioFrame, audioTasks, processor, heardBlocks>>
     ELSE LET due == wallTime - lastWall  n == Min({due, CatchUp}) IN
          /\ due > 0 /\ Rendered(n) /\ audioFrame' = audioFrame + n
          /\ lastWall' = (IF due > CatchUp THEN wallTime ELSE lastWall + n) /\ audioTick' = TRUE

(* The timeout of a resume() that waits.                                   *)
Retry(i) ==
  /\ resumes[i] = "waiting" /\ Attempt(i, resumes, userSuspended)
  /\ UNCHANGED <<audioClosed, userSuspended, audioFrame, wallTime, activated, processor, heardBlocks, ranFor, audioCall>>

LiveRunTask ==
  /\ audioTasks # << >>
  /\ LET t == Head(audioTasks) IN
     CASE t[1] = "start" /\ audioState = "suspended" /\ ~audioClosed /\ ~userSuspended -> StartRealtime /\ audioTasks' = LiveAnnounced("running", Tail(audioTasks))
            /\ UNCHANGED <<resumes, processor>>
       [] t[1] = "resolve" -> resumes' = [resumes EXCEPT ![t[2]] = "done"] /\ audioTasks' = Tail(audioTasks) /\ UNCHANGED <<clock, processor>>
       [] t[1] = "process" -> processor' = [processor EXCEPT !.next = t[2]] /\ audioTasks' = Tail(audioTasks) /\ UNCHANGED <<clock, resumes>>
       [] OTHER -> audioTasks' = Tail(audioTasks) /\ UNCHANGED <<clock, resumes, processor>>
  /\ UNCHANGED <<audioClosed, userSuspended, audioFrame, wallTime, activated, heardBlocks, ranFor, audioCall>>

Advance ==
  /\ wallTime < MaxTime /\ wallTime' = wallTime + 1 /\ ranFor' = ranFor + (IF audioState = "running" THEN 1 ELSE 0)
  /\ UNCHANGED <<clock, audioClosed, userSuspended, audioFrame, activated, audioTasks, resumes, processor, heardBlocks, audioCall>>

LiveNext == LiveResume \/ LiveSuspend \/ Close \/ Activate \/ Tick \/ (\E i \in DOMAIN resumes : Retry(i)) \/ LiveRunTask \/ Advance
LiveSpec == LiveInit /\ [][LiveNext]_audio

-----------------------------------------------------------------------------
(* The context never renders more than the time it was running, and while  *)
(* it runs its clock is kept going (startRealtime, rtTick, suspend).       *)
ClockHonest == audioFrame <= ranFor /\ (audioState = "running" => audioTick)

(* Once nothing waits, the context is as the page's last call wants it,    *)
(* whichever attempts of earlier calls were still to come (resume).        *)
LastCallWins ==
  audioTasks = << >> /\ "waiting" \notin {resumes[i] : i \in DOMAIN resumes} =>
    CASE audioCall = "resume" -> audioState = "running"
      [] audioCall = "suspend" -> audioState = "suspended"
      [] audioCall = "close" -> audioState = "closed"
      [] OTHER -> audioState \in {"running", "suspended"}

(* What the page makes of a buffer is played at most once, and in the      *)
(* order of the buffers, however late the page is (ScriptProcessorNode).   *)
PlayedInOrder == \A i, j \in DOMAIN heardBlocks : i < j => heardBlocks[i] < heardBlocks[j]

-----------------------------------------------------------------------------
(***************************************************************************)
(* An OfflineAudioContext (crates/script/js/47_webaudio_nodes.js): the     *)
(* rendering goes on in tasks of many quanta each, stops where suspend()   *)
(* was asked to stop it and goes on when the page resumes it.              *)
(***************************************************************************)

CONSTANTS
  Total,       \* quanta to render
  Batch,       \* quanta rendered in one task (2000 in the code)
  MaxOfflineCalls

VARIABLES
  offlineState, renderStarted,
  renderPaused,      \* the rendering waits for resume()
  quantaDone,        \* quanta rendered
  quantaWritten,     \* what was copied to the result
  suspends,    \* what suspend() was asked for: [frame, fired, at]
  offlineTasks, offlineEvents,
  offlineCalls

offline == <<offlineState, renderStarted, renderPaused, quantaDone, quantaWritten, suspends, offlineTasks, offlineEvents, offlineCalls>>
Never == 1000

OfflineInit ==
  /\ offlineState = "suspended" /\ renderStarted = FALSE /\ renderPaused = FALSE
  /\ quantaDone = 0 /\ quantaWritten = {} /\ suspends = << >> /\ offlineTasks = << >> /\ offlineEvents = << >> /\ offlineCalls = 0

OfflineAnnounced(s, ts) == IF offlineState = s THEN ts ELSE Append(ts, s)
OfflineCall == offlineCalls < MaxOfflineCalls /\ offlineCalls' = offlineCalls + 1 /\ UNCHANGED <<quantaDone, quantaWritten, offlineEvents>>

MayStart == ~renderStarted
StartRendering ==
  /\ OfflineCall /\ MayStart /\ renderStarted' = TRUE
  /\ offlineState' = "running" /\ offlineTasks' = Append(OfflineAnnounced("running", offlineTasks), "step")
  /\ UNCHANGED <<renderPaused, suspends>>

(* suspend(), at the time the page gives or the next quantum.              *)
TooLate(f) == f < quantaDone \/ (renderStarted /\ f <= quantaDone /\ ~renderPaused)
OfflineSuspend(f) ==
  /\ OfflineCall /\ ~(renderStarted /\ offlineState = "closed") /\ ~TooLate(f)
  /\ ~\E i \in DOMAIN suspends : suspends[i].frame = f
  /\ suspends' = Append(suspends, [frame |-> f, fired |-> FALSE, at |-> Never])
  /\ UNCHANGED <<offlineState, renderStarted, renderPaused, offlineTasks>>

OfflineResume ==
  /\ OfflineCall /\ renderStarted /\ offlineState # "closed"
  /\ IF offlineState = "suspended" /\ renderPaused
     THEN offlineState' = "running" /\ renderPaused' = FALSE /\ offlineTasks' = Append(OfflineAnnounced("running", offlineTasks), "step")
     ELSE UNCHANGED <<offlineState, renderPaused, offlineTasks>>
  /\ UNCHANGED <<renderStarted, suspends>>

(* step(): up to the next suspension, the end of the batch or the end.     *)
Waiting == {i \in DOMAIN suspends : ~suspends[i].fired}
\* mutant of Stop
StopOfLast(goal) == Max({goal} \union {suspends[i].frame : i \in Waiting})
Stop(goal) == Min({goal} \union {suspends[i].frame : i \in Waiting})
Step ==
  LET goal == Min({Total, quantaDone + Batch})
      stop == Stop(goal)
      due == {i \in Waiting : suspends[i].frame <= stop}
  IN /\ quantaDone' = stop /\ quantaWritten' = quantaWritten \union quantaDone .. stop - 1
     /\ IF stop < goal
        THEN /\ offlineState' = "suspended" /\ renderPaused' = TRUE /\ offlineTasks' = OfflineAnnounced("suspended", Tail(offlineTasks))
             /\ suspends' = [suspends EXCEPT ![Min(due)] = [@ EXCEPT !.fired = TRUE, !.at = stop]]
        ELSE /\ UNCHANGED <<renderPaused, suspends>>
             /\ IF stop < Total THEN UNCHANGED offlineState /\ offlineTasks' = Append(Tail(offlineTasks), "step")
                ELSE offlineState' = "closed" /\ offlineTasks' = Append(OfflineAnnounced("closed", Tail(offlineTasks)), "complete")
     /\ UNCHANGED offlineEvents

OfflineRunTask ==
  /\ offlineTasks # << >>
  /\ IF Head(offlineTasks) = "step" THEN Step
     ELSE /\ offlineEvents' = Append(offlineEvents, Head(offlineTasks)) /\ offlineTasks' = Tail(offlineTasks)
          /\ UNCHANGED <<offlineState, renderPaused, quantaDone, quantaWritten, suspends>>
  /\ UNCHANGED <<renderStarted, offlineCalls>>

OfflineNext == StartRendering \/ (\E f \in 0 .. Total : OfflineSuspend(f)) \/ OfflineResume \/ OfflineRunTask
OfflineSpec == OfflineInit /\ [][OfflineNext]_offline

-----------------------------------------------------------------------------
(* A suspend() is answered where it asked for, not a quantum later, and    *)
(* before the end unless it asked for the end itself (startRendering).     *)
SuspendedThere ==
  \A i \in DOMAIN suspends :
    /\ suspends[i].fired => suspends[i].at = suspends[i].frame
    /\ offlineState = "closed" /\ suspends[i].frame < Total => suspends[i].fired

(* There is one rendering: one step to come or a pause, never both, and    *)
(* every quantum is in the result when the page is told of the end.        *)
OneRendering ==
  /\ Cardinality({i \in DOMAIN offlineTasks : offlineTasks[i] = "step"}) = (IF renderStarted /\ ~renderPaused /\ offlineState # "closed" THEN 1 ELSE 0)
  /\ "complete" \in {offlineEvents[i] : i \in DOMAIN offlineEvents} => quantaWritten = 0 .. Total - 1
=============================================================================
