------------------------------ MODULE Messaging ------------------------------
(***************************************************************************)
(* A message channel whose ports move between the realms of a page         *)
(* (crates/script/js/40_webapi.js, MessagePort and "Ports across realms"). *)
(* A transferred port stays behind as a stub that hands on what it still   *)
(* receives, and relays what its new owner posts; realms talk through      *)
(* N.framePost, first in first out for each pair of frames.                *)
(* A port is <<end, n>>: the n-th incarnation of one end of the channel.   *)
(***************************************************************************)
EXTENDS Naturals, Sequences, SequencesExt, FiniteSets

CONSTANTS
  Frames,      \* the realms of the page
  Top,         \* the realm that made the channel
  MaxMoves,    \* bounds on the transfers of each end
  MaxSends     \* bounds on the messages posted at each end

Ends == {"x", "y"}
Peer(e) == IF e = "x" THEN "y" ELSE "x"
PortIds == UNION {{e} \X (0..MaxMoves[e]) : e \in Ends}
Pairs == Frames \X Frames

VARIABLES
  port,     \* the state of each port object
  home,     \* the realm it lives in
  now,      \* end -> the number of its present incarnation
  registry, \* portReg: <<"port", p>> and <<"relay", p>>
  wire,     \* envelopes under way
  sent, got \* messages posted at an end, and delivered at an end

portVars == <<port, home, now, registry, wire, sent, got>>

NewPort == [other |-> FALSE, link |-> FALSE, fwd |-> FALSE, queue |-> << >>,
            started |-> FALSE, closed |-> FALSE, turns |-> 0]

PortInit ==
  /\ port = [p \in PortIds |-> [NewPort EXCEPT !.other = (p[2] = 0)]]
  /\ home = [p \in PortIds |-> Top]
  /\ now = [e \in Ends |-> 0]
  /\ registry = {}
  /\ wire = [c \in Pairs |-> << >>]
  /\ sent = [e \in Ends |-> 0] /\ got = [e \in Ends |-> << >>]

-----------------------------------------------------------------------------
(* The operations on a state w = [port, wire].                             *)

Older(p) == <<p[1], p[2] - 1>>
Newer(p) == <<p[1], p[2] + 1>>
Post(w, p, q, m) == [w EXCEPT !.wire[<<home[p], home[q]>>] = Append(@, m)]
State == [port |-> port, wire |-> wire]
Becomes(w) == port' = w.port /\ wire' = w.wire


(* portEnqueue(): a stub sends on what it receives.                        *)
Enqueue(w, p, m) ==
  IF w.port[p].closed THEN w
  ELSE IF w.port[p].fwd THEN Post(w, p, Newer(p), [kind |-> "m", id |-> <<"port", Newer(p)>>, data |-> m])
  ELSE [w EXCEPT !.port[p].queue = Append(@, m), !.port[p].turns = IF w.port[p].started THEN @ + 1 ELSE @]

(* portSend(): to the peer in this realm, or along the link.               *)
Send(w, p, m) ==
  IF w.port[p].other THEN Enqueue(w, <<Peer(p[1]), 0>>, m)
  ELSE IF w.port[p].link THEN Post(w, p, Older(p), [kind |-> "m", id |-> <<"relay", Older(p)>>, data |-> m])
  ELSE w

CloseLink(w, p) ==
  LET closed == [w EXCEPT !.port[p].closed = TRUE, !.port[p].link = FALSE]
  IN  IF w.port[p].link THEN Post(closed, p, Older(p), [kind |-> "c", id |-> <<"relay", Older(p)>>]) ELSE closed

Detach(w, p) == [w EXCEPT !.port[p].queue = << >>, !.port[p].fwd = TRUE]

Undo(w, p, queue) == [w EXCEPT !.port[p].fwd = FALSE, !.port[p].queue = queue]

\* mutant of Forget
ForgetOwn(p) == registry \ {<<"port", p>>}
Forget(p) == registry \ {<<"port", p>>, <<"relay", p>>}

-----------------------------------------------------------------------------
(* What scripts do with the present incarnation of an end.                 *)
Here(p) == now[p[1]] = p[2] /\ ~port[p].fwd

PortPostMessage(p) ==
  /\ Here(p) /\ ~port[p].closed /\ (port[p].other \/ port[p].link)
  /\ sent[p[1]] < MaxSends[p[1]]
  /\ sent' = [sent EXCEPT ![p[1]] = @ + 1]
  /\ Becomes(Send(State, p, sent[p[1]] + 1))
  /\ UNCHANGED <<home, now, registry, got>>

\* mutant of StartTurns
StartTurnsOnce(p) == 1
StartTurns(p) == Len(port[p].queue)   \* one task for each message

StartPort(p) ==
  /\ Here(p) /\ ~port[p].started
  /\ port' = [port EXCEPT ![p].started = TRUE, ![p].turns = StartTurns(p)]
  /\ UNCHANGED <<home, now, registry, wire, sent, got>>

ClosePort(p) ==
  /\ Here(p) /\ ~port[p].closed
  /\ Becomes(CloseLink(State, p))
  /\ registry' = Forget(p)
  /\ UNCHANGED <<home, now, sent, got>>

\* mutant of Exported
ExportedEmpty(p, q) == [kind |-> "w", id |-> <<"port", q>>, closed |-> port[p].closed, queue |-> << >>]
(* The description of the port in the envelope.                            *)
Exported(p, q) == [kind |-> "w", id |-> <<"port", q>>, closed |-> port[p].closed, queue |-> port[p].queue]

(* exportPorts(): the port leaves for another frame with its queue.        *)
Transfer(p, f) ==
  /\ Here(p) /\ p[2] < MaxMoves[p[1]] /\ f # home[p]
  /\ home' = [home EXCEPT ![Newer(p)] = f]
  /\ LET w == Detach(State, p)
     IN  /\ port' = w.port
         /\ wire' = [w.wire EXCEPT ![<<home[p], f>>] = Append(@, Exported(p, Newer(p)))]
  /\ registry' = IF port[p].closed THEN registry ELSE registry \union {<<"relay", p>>}
  /\ UNCHANGED <<now, sent, got>>

(* The envelope cannot be sent: everything is put back.                    *)
TransferFails(p) ==
  /\ Here(p) /\ p[2] < MaxMoves[p[1]]
  /\ Becomes(Undo(Detach(State, p), p, port[p].queue))
  /\ UNCHANGED <<home, now, registry, sent, got>>

-----------------------------------------------------------------------------
(* One task of the receiving realm.                                        *)
DeliverPort(p) ==
  /\ port[p].turns > 0
  /\ LET deliver == ~port[p].closed /\ port[p].queue # << >>
     IN  /\ port' = [port EXCEPT ![p].turns = @ - 1, ![p].queue = IF deliver THEN Tail(@) ELSE @]
         /\ got' = IF deliver THEN [got EXCEPT ![p[1]] = Append(@, Head(port[p].queue))] ELSE got
  /\ UNCHANGED <<home, now, registry, wire, sent>>

(* importPort(): the port arrives; what it had in its queue comes first.   *)
Import(c) ==
  LET m == Head(wire[c])
      p == m.id[2]
  IN  /\ m.kind = "w"
      /\ now' = [now EXCEPT ![p[1]] = p[2]]
      /\ port' = [port EXCEPT ![p] = [NewPort EXCEPT !.closed = m.closed, !.link = ~m.closed,
                                                      !.queue = IF m.closed THEN << >> ELSE m.queue]]
      /\ registry' = IF m.closed THEN registry ELSE registry \union {m.id}
      /\ wire' = [wire EXCEPT ![c] = Tail(@)]
      /\ UNCHANGED <<home, sent, got>>

(* portControl(): a message or a close for a port or a relay.              *)
Control(c) ==
  LET m == Head(wire[c])
      w == [State EXCEPT !.wire[c] = Tail(@)]
      p == m.id[2]
  IN  /\ m.kind # "w"
      /\ IF m.id \notin registry THEN Becomes(w) /\ UNCHANGED registry
         ELSE IF m.kind = "m"
         THEN /\ Becomes(IF m.id[1] = "relay" THEN Send(w, p, m.data) ELSE Enqueue(w, p, m.data))
              /\ UNCHANGED registry
         ELSE /\ Becomes(IF w.port[p].closed THEN w ELSE CloseLink(w, p))
              /\ registry' = Forget(p)
      /\ UNCHANGED <<home, now, sent, got>>

Receive(c) == wire[c] # << >> /\ (Import(c) \/ Control(c))
Deliver == \/ \E p \in PortIds : DeliverPort(p)
           \/ \E c \in Pairs : Receive(c)
PortNext ==
  \/ Deliver
  \/ \E p \in PortIds : PortPostMessage(p) \/ StartPort(p) \/ ClosePort(p) \/ TransferFails(p)
                        \/ \E f \in Frames : Transfer(p, f)

PortSpec == PortInit /\ [][PortNext]_portVars
Engine == (\E p \in PortIds : StartPort(p) \/ DeliverPort(p)) \/ \E c \in Pairs : Receive(c)
PortFairSpec == /\ PortSpec
                /\ \A p \in PortIds : WF_portVars(StartPort(p)) /\ WF_portVars(DeliverPort(p))
                /\ \A c \in Pairs : WF_portVars(Receive(c))

-----------------------------------------------------------------------------
(* However often both ends move, with messages in queues, on wires and     *)
(* behind stubs, an end receives what the other posted in order, each      *)
(* message once, with no gap.                                              *)
ChannelFifo == \A e \in Ends : got[e] = [n \in 1..Len(got[e]) |-> n] /\ Len(got[e]) <= sent[Peer(e)]

(* Messages wait only where somebody will look: a stub keeps none, and a   *)
(* started port has a task for each.                                       *)
QueuesWatched ==
  \A p \in PortIds : LET q == port[p]
                     IN  ~q.closed => /\ q.fwd => q.queue = << >>
                                      /\ q.started => q.turns >= Len(q.queue)

(* As long as nobody closes the channel, everything posted arrives.        *)
PortAllArrived == \A e \in Ends : Len(got[Peer(e)]) = sent[e] \/ \E p \in PortIds : port[p].closed

(* When an end is closed, the stubs it left behind learn of it, and none   *)
(* of its relays stays registered (portPeerClosed, forgetPort).            *)
NoStrayRelay ==
  \A e \in Ends : port[<<e, now[e]>>].closed => \A n \in 0..MaxMoves[e] : <<"relay", <<e, n>>>> \notin registry

-----------------------------------------------------------------------------
(***************************************************************************)
(* A dedicated worker (crates/script/js/40_webapi.js, class Worker).  It   *)
(* runs on the page's thread in a realm of its own, in tasks of the page's *)
(* one task queue; what the page posts before the script has run waits in  *)
(* a queue.  running says whose code runs; worker code may go on after the *)
(* worker was terminated, in the reactions of promises it waited for.      *)
(***************************************************************************)

CONSTANTS MaxPosts, MaxTimers   \* bounds on messages each way, and on timers

VARIABLES
  phase,       \* "loading", "script", "ready" or "failed"
  terminated, closing, queue, wTasks,
  wArmed,       \* the worker's timers: id -> interval?
  nextTimer, running,
  wPosted, wGot, wSent, pageGot, late

workerVars == <<phase, terminated, closing, queue, wTasks, wArmed, nextTimer, running, wPosted, wGot, wSent, pageGot, late>>

WorkerInit ==
  /\ phase = "loading" /\ terminated = FALSE /\ closing = FALSE
  /\ queue = << >> /\ wTasks = << >> /\ wArmed = << >> /\ nextTimer = 1 /\ running = "none"
  /\ wPosted = 0 /\ wGot = << >> /\ wSent = 0 /\ pageGot = << >> /\ late = {}

Task(kind, n) == [kind |-> kind, msg |-> n]
Without(f, S) == [id \in DOMAIN f \ S |-> f[id]]
Gone == terminated \/ closing

-----------------------------------------------------------------------------
(* The page: from its own tasks, or from its error handler.                *)
PageRuns == running \in {"none", "page"}

\* mutant of Waits
WaitsForFetchOnly == phase = "loading"
Waits == phase # "ready"

WorkerPostMessage ==
  /\ PageRuns /\ ~terminated /\ wPosted < MaxPosts
  /\ wPosted' = wPosted + 1
  /\ IF Waits THEN queue' = Append(queue, wPosted + 1) /\ UNCHANGED wTasks
     ELSE /\ wTasks' = IF closing THEN wTasks ELSE Append(wTasks, Task("to worker", wPosted + 1))
          /\ UNCHANGED queue
  /\ UNCHANGED <<phase, terminated, closing, wArmed, nextTimer, running, wGot, wSent, pageGot, late>>

StoppedTimers == DOMAIN wArmed

Terminate ==
  /\ PageRuns /\ ~terminated
  /\ terminated' = TRUE
  /\ wArmed' = Without(wArmed, StoppedTimers)
  /\ queue' = << >>
  /\ UNCHANGED <<phase, closing, wTasks, nextTimer, running, wPosted, wGot, wSent, pageGot, late>>

(* The script has been fetched, or not.                                    *)
Start ==
  /\ running = "none" /\ phase = "loading" /\ ~terminated
  /\ phase' = "script" /\ running' = "worker"
  /\ UNCHANGED <<terminated, closing, queue, wTasks, wArmed, nextTimer, wPosted, wGot, wSent, pageGot, late>>

LoadFails ==
  /\ running = "none" /\ phase = "loading" /\ ~terminated
  /\ phase' = "failed" /\ running' = "page"
  /\ UNCHANGED <<terminated, closing, queue, wTasks, wArmed, nextTimer, wPosted, wGot, wSent, pageGot, late>>

(* An exception of the worker reaches the page's error handler; a module   *)
(* with imports does so instead of running (LoadFails).                    *)
Uncaught ==
  /\ running = "worker" /\ running' = "page"
  /\ UNCHANGED <<phase, terminated, closing, queue, wTasks, wArmed, nextTimer, wPosted, wGot, wSent, pageGot, late>>

Return ==
  /\ running # "none" /\ running' = "none"
  /\ IF phase = "script"
     THEN /\ phase' = "ready" /\ queue' = << >>
          /\ wTasks' = wTasks \o [n \in 1..Len(queue) |-> Task("to worker", queue[n])]
     ELSE UNCHANGED <<phase, queue, wTasks>>
  /\ UNCHANGED <<terminated, closing, wArmed, nextTimer, wPosted, wGot, wSent, pageGot, late>>

-----------------------------------------------------------------------------
(* Worker code.                                                            *)
WorkerPosts ==
  /\ running = "worker" /\ ~Gone /\ wSent < MaxPosts
  /\ wSent' = wSent + 1
  /\ wTasks' = Append(wTasks, Task("to page", wSent + 1))
  /\ UNCHANGED <<phase, terminated, closing, queue, wArmed, nextTimer, running, wPosted, wGot, pageGot, late>>

SetTimer(repeat) ==
  /\ running = "worker" /\ nextTimer <= MaxTimers
  /\ nextTimer' = nextTimer + 1
  /\ wArmed' = [id \in DOMAIN wArmed \union {nextTimer} |-> IF id = nextTimer THEN repeat ELSE wArmed[id]]
  /\ late' = IF Gone THEN late \union {nextTimer} ELSE late
  /\ UNCHANGED <<phase, terminated, closing, queue, wTasks, running, wPosted, wGot, wSent, pageGot>>

ClearTimer(id) ==
  /\ running = "worker" /\ wArmed' = Without(wArmed, {id})
  /\ UNCHANGED <<phase, terminated, closing, queue, wTasks, nextTimer, running, wPosted, wGot, wSent, pageGot, late>>

Close ==
  /\ running = "worker" /\ ~closing /\ closing' = TRUE
  /\ wArmed' = Without(wArmed, StoppedTimers)
  /\ UNCHANGED <<phase, terminated, queue, wTasks, nextTimer, running, wPosted, wGot, wSent, pageGot, late>>

(* A promise that the worker waited for, for example of fetch().           *)
Reaction ==
  /\ running = "none" /\ phase = "ready" /\ running' = "worker"
  /\ UNCHANGED <<phase, terminated, closing, queue, wTasks, wArmed, nextTimer, wPosted, wGot, wSent, pageGot, late>>

OnTimer(id) ==
  /\ running = "none"
  /\ wArmed' = IF wArmed[id] THEN wArmed ELSE Without(wArmed, {id})
  /\ running' = IF Gone THEN "none" ELSE "worker"
  /\ UNCHANGED <<phase, terminated, closing, queue, wTasks, nextTimer, wPosted, wGot, wSent, pageGot, late>>

-----------------------------------------------------------------------------
\* mutant of Heard
HeardUnlessClosing(task) == ~closing
Heard(task) == ~terminated /\ (task.kind = "to worker" => ~closing)

RunTask ==
  /\ running = "none" /\ wTasks # << >> /\ wTasks' = Tail(wTasks)
  /\ LET task == Head(wTasks)
     IN  /\ running' = CASE ~Heard(task) -> "none" [] task.kind = "to worker" -> "worker" [] OTHER -> "page"
         /\ wGot' = IF Heard(task) /\ task.kind = "to worker" THEN Append(wGot, task.msg) ELSE wGot
         /\ pageGot' = IF Heard(task) /\ task.kind = "to page" THEN Append(pageGot, task.msg) ELSE pageGot
  /\ UNCHANGED <<phase, terminated, closing, queue, wArmed, nextTimer, wPosted, wSent, late>>

WorkerNext ==
  \/ WorkerPostMessage \/ Terminate \/ Start \/ LoadFails \/ Uncaught \/ Return \/ Close \/ WorkerPosts \/ Reaction \/ RunTask
  \/ \E repeat \in BOOLEAN : SetTimer(repeat)
  \/ \E id \in DOMAIN wArmed : ClearTimer(id) \/ OnTimer(id)

WorkerSpec == WorkerInit /\ [][WorkerNext]_workerVars
WorkerFairSpec == WorkerSpec /\ WF_workerVars(Return) /\ SF_workerVars(RunTask) /\ SF_workerVars(Start \/ LoadFails)

-----------------------------------------------------------------------------
(* Messages arrive in the order they were posted, with no gap, also those  *)
(* posted before the script had run.                                       *)
MessagesInOrder == /\ \A n \in 1..Len(wGot) : wGot[n] = n
                   /\ \A n \in 1..Len(pageGot) : pageGot[n] = n

(* After terminate() nothing of the worker is heard any more, and nothing  *)
(* is delivered to it, though its tasks and timers were posted before.     *)
SilentAfterTerminate == [][terminated => wGot' = wGot /\ pageGot' = pageGot]_workerVars

(* A closed or terminated worker has no timer that was set before.         *)
TimersStop == Gone => DOMAIN wArmed \subseteq late

(* Every message arrives unless its worker ends or never starts; what the  *)
(* worker posted before it closed itself arrives too.                      *)
WorkerAllArrived ==
  /\ Len(wGot) = wPosted \/ Gone \/ phase = "failed"
  /\ Len(pageGot) = wSent \/ terminated
=============================================================================
