------------------------------ MODULE NetClient ------------------------------
(***************************************************************************)
(* NetClient over IPC (crates/netstack/src/client.rs) against the network  *)
(* service's per-client message handling (service.rs): threads that start  *)
(* and abort requests and open WebSockets, the reader thread that delivers *)
(* messages and the disconnect, and the pool that runs on_done callbacks.  *)
(*                                                                         *)
(* A request id is the request: next_id never repeats.  pending, progress  *)
(* and sockets are the maps of IpcShared; every access is one critical     *)
(* section, and a step.                                                    *)
(***************************************************************************)
EXTENDS Naturals, Sequences, FiniteSets

CONSTANTS
  Fetches,      \* requests, one fetch call each
  Socks,        \* WebSockets, one ws_open call each
  TooBig,       \* requests that do not fit one IPC frame
  Background,   \* connect_in_background: the sender is closed before None
  Garbage,      \* the service may send a message that does not decode
  Crashes,      \* the service may die
  MaxProgress   \* bound on the progress reports of a request

ASSUME ClientAssumption ==
  /\ Fetches \cap Socks = {}
  /\ TooBig \subseteq Fetches
  /\ Background \in BOOLEAN /\ Garbage \in BOOLEAN /\ Crashes \in BOOLEAN
  /\ MaxProgress \in Nat

VARIABLES
  pc,         \* where the fetch or ws_open call of each id stands
  aborting,   \* where the abort call of each fetch stands
  pending,    \* IpcShared::pending: fetches whose on_done is registered
  progress,   \* IpcShared::progress
  sockets,    \* IpcShared::sockets
  connected,  \* IpcShared::connected
  sendOpen,   \* SendState::Open
  reader,     \* the reader thread: delivering, or a step of on_message(None)
  drained,    \* callbacks taken from pending by on_message(None)
  jobs,       \* callbacks queued in the pool, per fetch
  done,       \* history: on_done calls, per fetch
  reports,    \* history: on_progress calls, per fetch
  closed,     \* history: Closed events, per socket
  serviceUp,  \* the service is alive
  toS, fromS, \* messages on the link, oldest first
  tasks,      \* Client::inflight and Client::sockets of the service
  closing,    \* sockets whose task was told to close
  sentReports \* progress reports the service sent, per fetch

clientVars == <<pc, aborting, pending, progress, sockets, connected, sendOpen,
                reader, drained, jobs, done, reports, closed>>
serviceVars == <<serviceUp, toS, fromS, tasks, closing, sentReports>>
vars == <<clientVars, serviceVars>>

Msg(kind, id) == [m |-> kind, id |-> id]

(***************************************************************************)
(* fetch_inner                                                             *)
(***************************************************************************)
At(id, label) == pc[id] = label
Goto(id, label) == pc' = [pc EXCEPT ![id] = label]
Queued(ids) == [f \in Fetches |-> jobs[f] + IF f \in ids THEN 1 ELSE 0]

CheckConnected(f) ==
  /\ At(f, "idle")
  /\ IF connected
     THEN Goto(f, "insert") /\ UNCHANGED jobs
     ELSE Goto(f, "returned") /\ jobs' = Queued({f})
  /\ UNCHANGED <<aborting, pending, progress, sockets, connected, sendOpen, reader, drained,
                 done, reports, closed, serviceVars>>

InsertPending(f) ==
  /\ At(f, "insert")
  /\ Goto(f, "progress")
  /\ pending' = pending \cup {f}
  /\ UNCHANGED <<aborting, progress, sockets, connected, sendOpen, reader, drained, jobs,
                 done, reports, closed, serviceVars>>

InsertProgress(f) ==
  /\ At(f, "progress")
  /\ Goto(f, "send")
  /\ progress' = progress \cup {f}
  /\ UNCHANGED <<aborting, pending, sockets, connected, sendOpen, reader, drained, jobs,
                 done, reports, closed, serviceVars>>

(* IpcSender::send *)
SendSucceeds == sendOpen /\ serviceUp
Send(msg) == toS' = IF SendSucceeds THEN Append(toS, msg) ELSE toS

SendFetch(f) ==
  /\ At(f, "send")
  /\ IF f \in TooBig
     THEN Goto(f, "refused") /\ UNCHANGED toS
     ELSE /\ Goto(f, IF SendSucceeds THEN "recheck" ELSE "failed")
          /\ Send(Msg("fetch", f))
  /\ UNCHANGED <<aborting, pending, progress, sockets, connected, sendOpen, reader, drained,
                 jobs, done, reports, closed, serviceUp, fromS, tasks, closing, sentReports>>

RecheckSkipped(f) ==
  /\ At(f, "recheck")
  /\ Goto(f, "returned")
  /\ UNCHANGED <<aborting, pending, progress, sockets, connected, sendOpen, reader, drained,
                 jobs, done, reports, closed, serviceVars>>

(* A disconnect may have raced with the registration. *)
Recheck(f) ==
  /\ At(f, "recheck")
  /\ Goto(f, IF connected THEN "returned" ELSE "failed")
  /\ UNCHANGED <<aborting, pending, progress, sockets, connected, sendOpen, reader, drained,
                 jobs, done, reports, closed, serviceVars>>

FailFetchAnyway(f) ==
  /\ pc[f] \in {"refused", "failed"}
  /\ Goto(f, "returned")
  /\ pending' = pending \ {f}
  /\ jobs' = Queued({f})
  /\ UNCHANGED <<aborting, progress, sockets, connected, sendOpen, reader, drained, done,
                 reports, closed, serviceVars>>

(* Fail the request, if nobody else has: it was too big or not sent. *)
FailFetch(f) ==
  /\ pc[f] \in {"refused", "failed"}
  /\ Goto(f, "returned")
  /\ progress' = IF At(f, "refused") THEN progress \ {f} ELSE progress
  /\ pending' = pending \ {f}
  /\ jobs' = Queued(pending \cap {f})
  /\ UNCHANGED <<aborting, sockets, connected, sendOpen, reader, drained, done, reports,
                 closed, serviceVars>>

(***************************************************************************)
(* abort, by a thread that has the id                                      *)
(***************************************************************************)
AbortProgress(f) ==
  /\ At(f, "returned")
  /\ aborting[f] = "no"
  /\ aborting' = [aborting EXCEPT ![f] = "half"]
  /\ progress' = progress \ {f}
  /\ UNCHANGED <<pc, pending, sockets, connected, sendOpen, reader, drained, jobs,
                 done, reports, closed, serviceVars>>

AbortPending(f) ==
  /\ aborting[f] = "half"
  /\ aborting' = [aborting EXCEPT ![f] = IF f \in pending THEN "dropped" ELSE "late"]
  /\ pending' = pending \ {f}
  /\ IF f \in pending THEN Send(Msg("abort", f)) ELSE UNCHANGED toS
  /\ UNCHANGED <<pc, progress, sockets, connected, sendOpen, reader, drained, jobs,
                 done, reports, closed, serviceUp, fromS, tasks, closing, sentReports>>

(***************************************************************************)
(* ws_open and ws_close                                                    *)
(***************************************************************************)
Closes(ids) == [s \in Socks |-> closed[s] + IF s \in ids THEN 1 ELSE 0]

WsCheck(s) ==
  /\ At(s, "idle")
  /\ IF connected
     THEN Goto(s, "insert") /\ UNCHANGED closed
     ELSE Goto(s, "returned") /\ closed' = Closes({s})
  /\ UNCHANGED <<aborting, pending, progress, sockets, connected, sendOpen, reader, drained,
                 jobs, done, reports, serviceVars>>

WsInsert(s) ==
  /\ At(s, "insert")
  /\ Goto(s, "send")
  /\ sockets' = sockets \cup {s}
  /\ UNCHANGED <<aborting, pending, progress, connected, sendOpen, reader, drained, jobs,
                 done, reports, closed, serviceVars>>

WsSend(s) ==
  /\ At(s, "send")
  /\ Goto(s, IF SendSucceeds THEN "returned" ELSE "failed")
  /\ Send(Msg("wsOpen", s))
  /\ UNCHANGED <<aborting, pending, progress, sockets, connected, sendOpen, reader, drained,
                 jobs, done, reports, closed, serviceUp, fromS, tasks, closing, sentReports>>

WsFailAnyway(s) ==
  /\ At(s, "failed")
  /\ Goto(s, "returned")
  /\ sockets' = sockets \ {s}
  /\ closed' = Closes({s})
  /\ UNCHANGED <<aborting, pending, progress, connected, sendOpen, reader, drained, jobs,
                 done, reports, serviceVars>>

WsFail(s) ==
  /\ At(s, "failed")
  /\ Goto(s, "returned")
  /\ sockets' = sockets \ {s}
  /\ closed' = Closes(sockets \cap {s})
  /\ UNCHANGED <<aborting, pending, progress, connected, sendOpen, reader, drained, jobs,
                 done, reports, serviceVars>>

WsClose(s) ==
  /\ At(s, "returned")
  /\ Goto(s, "closing")
  /\ Send(Msg("wsClose", s))
  /\ UNCHANGED <<aborting, pending, progress, sockets, connected, sendOpen, reader, drained,
                 jobs, done, reports, closed, serviceUp, fromS, tasks, closing, sentReports>>

(***************************************************************************)
(* The reader thread: on_message                                           *)
(***************************************************************************)
Deliver(kind) ==
  /\ reader = "run"
  /\ fromS # <<>>
  /\ Head(fromS).m = kind
  /\ fromS' = Tail(fromS)
  /\ UNCHANGED <<pc, aborting, connected, sendOpen, reader, drained, done, serviceUp, toS,
                 tasks, closing, sentReports>>

OnResponseKeepsProgress ==
  LET f == Head(fromS).id
  IN /\ Deliver("response")
     /\ pending' = pending \ {f}
     /\ jobs' = Queued(pending \cap {f})
     /\ UNCHANGED <<progress, sockets, reports, closed>>

OnResponse ==
  LET f == Head(fromS).id
  IN /\ Deliver("response")
     /\ progress' = progress \ {f}
     /\ pending' = pending \ {f}
     /\ jobs' = Queued(pending \cap {f})
     /\ UNCHANGED <<sockets, reports, closed>>

OnProgress ==
  LET f == Head(fromS).id
  IN /\ Deliver("progress")
     /\ reports' = IF f \in progress THEN [reports EXCEPT ![f] = @ + 1] ELSE reports
     /\ UNCHANGED <<pending, progress, sockets, jobs, closed>>

OnWsClosed ==
  LET s == Head(fromS).id
  IN /\ Deliver("wsClosed")
     /\ sockets' = sockets \ {s}
     /\ closed' = Closes(sockets \cap {s})
     /\ UNCHANGED <<pending, progress, jobs, reports>>

(* The read loop ends: end of stream, or a message that does not decode. *)
ReadEnds ==
  /\ reader = "run"
  /\ \/ ~serviceUp /\ fromS = <<>>
     \/ Garbage
  /\ reader' = "none"
  /\ sendOpen' = (sendOpen /\ ~Background)
  /\ UNCHANGED <<pc, aborting, pending, progress, sockets, connected, drained, jobs, done,
                 reports, closed, serviceVars>>

SetDisconnected ==
  /\ reader = "none"
  /\ reader' = "clear"
  /\ connected' = FALSE
  /\ UNCHANGED <<pc, aborting, pending, progress, sockets, sendOpen, drained, jobs, done,
                 reports, closed, serviceVars>>

ClearProgress ==
  /\ reader = "clear"
  /\ reader' = "sockets"
  /\ progress' = {}
  /\ UNCHANGED <<pc, aborting, pending, sockets, connected, sendOpen, drained, jobs, done,
                 reports, closed, serviceVars>>

DrainSocketsSilently ==
  /\ reader = "sockets"
  /\ reader' = "pending"
  /\ sockets' = {}
  /\ UNCHANGED <<pc, aborting, pending, progress, connected, sendOpen, drained, jobs, done,
                 reports, closed, serviceVars>>

DrainSockets ==
  /\ reader = "sockets"
  /\ reader' = "pending"
  /\ sockets' = {}
  /\ closed' = Closes(sockets)
  /\ UNCHANGED <<pc, aborting, pending, progress, connected, sendOpen, drained, jobs, done,
                 reports, serviceVars>>

DrainPending ==
  /\ reader = "pending"
  /\ reader' = "jobs"
  /\ pending' = {}
  /\ drained' = pending
  /\ UNCHANGED <<pc, aborting, progress, sockets, connected, sendOpen, jobs, done, reports,
                 closed, serviceVars>>

FailDrainedSilently ==
  /\ reader = "jobs"
  /\ reader' = "end"
  /\ drained' = {}
  /\ UNCHANGED <<pc, aborting, pending, progress, sockets, connected, sendOpen, jobs, done,
                 reports, closed, serviceVars>>

FailDrained ==
  /\ reader = "jobs"
  /\ reader' = "end"
  /\ drained' = {}
  /\ jobs' = Queued(drained)
  /\ UNCHANGED <<pc, aborting, pending, progress, sockets, connected, sendOpen, done, reports,
                 closed, serviceVars>>

(***************************************************************************)
(* A thread of the callback pool                                           *)
(***************************************************************************)
RunCallback(f) ==
  /\ jobs[f] > 0
  /\ jobs' = [jobs EXCEPT ![f] = @ - 1]
  /\ done' = [done EXCEPT ![f] = @ + 1]
  /\ UNCHANGED <<pc, aborting, pending, progress, sockets, connected, sendOpen, reader,
                 drained, reports, closed, serviceVars>>

(***************************************************************************)
(* The service: handle_message and its tasks.  The per-client writer       *)
(* thread keeps the order, so its queue is part of fromS.                  *)
(***************************************************************************)
(* The socket's task, if it still runs, is told to close. *)
ToldToCloseAny(s) == {s}
ToldToClose(s) == tasks \cap {s}

HandleMessage ==
  /\ serviceUp
  /\ toS # <<>>
  /\ toS' = Tail(toS)
  /\ tasks' = IF Head(toS).m \in {"fetch", "wsOpen"} THEN tasks \cup {Head(toS).id}
              ELSE IF Head(toS).m = "abort" THEN tasks \ {Head(toS).id}
              ELSE tasks
  /\ closing' = IF Head(toS).m = "wsClose" THEN closing \cup ToldToClose(Head(toS).id)
                ELSE closing
  /\ UNCHANGED <<clientVars, serviceUp, fromS, sentReports>>

(* A fetch finishes, or a socket ends (closed by either side, or failed). *)
TaskEnds(id) ==
  /\ serviceUp
  /\ id \in tasks
  /\ tasks' = tasks \ {id}
  /\ closing' = closing \ {id}
  /\ fromS' = Append(fromS, Msg(IF id \in Fetches THEN "response" ELSE "wsClosed", id))
  /\ UNCHANGED <<clientVars, serviceUp, toS, sentReports>>

(* Progress of a request body may still be reported after the response. *)
ReportProgress(f) ==
  /\ serviceUp
  /\ f \in tasks \/ sentReports[f] > 0
  /\ sentReports[f] < MaxProgress
  /\ sentReports' = [sentReports EXCEPT ![f] = @ + 1]
  /\ fromS' = Append(fromS, Msg("progress", f))
  /\ UNCHANGED <<clientVars, serviceUp, toS, tasks, closing>>

(* The service dies; of what it sent, a prefix has arrived. *)
ServiceDies ==
  /\ Crashes
  /\ serviceUp
  /\ serviceUp' = FALSE
  /\ toS' = <<>>
  /\ tasks' = {}
  /\ closing' = {}
  /\ \E n \in 0..Len(fromS) : fromS' = SubSeq(fromS, 1, n)
  /\ UNCHANGED <<clientVars, sentReports>>

Init ==
  /\ pc = [id \in Fetches \cup Socks |-> "idle"]
  /\ aborting = [f \in Fetches |-> "no"]
  /\ pending = {} /\ progress = {} /\ sockets = {} /\ drained = {}
  /\ connected = TRUE /\ sendOpen = TRUE /\ serviceUp = TRUE
  /\ reader = "run"
  /\ jobs = [f \in Fetches |-> 0]
  /\ done = [f \in Fetches |-> 0]
  /\ reports = [f \in Fetches |-> 0]
  /\ closed = [s \in Socks |-> 0]
  /\ toS = <<>> /\ fromS = <<>> /\ tasks = {} /\ closing = {}
  /\ sentReports = [f \in Fetches |-> 0]

Fetch(f) == CheckConnected(f) \/ InsertPending(f) \/ InsertProgress(f) \/ SendFetch(f)
            \/ Recheck(f) \/ FailFetch(f)
Abort(f) == AbortProgress(f) \/ AbortPending(f)
WsOpen(s) == WsCheck(s) \/ WsInsert(s) \/ WsSend(s) \/ WsFail(s)
OnMessage == OnResponse \/ OnProgress \/ OnWsClosed
OnNone == SetDisconnected \/ ClearProgress \/ DrainSockets \/ DrainPending \/ FailDrained
Service == HandleMessage \/ ServiceDies
           \/ (\E id \in Fetches \cup Socks : TaskEnds(id))
           \/ (\E f \in Fetches : ReportProgress(f))

Next ==
  \/ \E f \in Fetches : Fetch(f) \/ Abort(f) \/ RunCallback(f)
  \/ \E s \in Socks : WsOpen(s) \/ WsClose(s)
  \/ OnMessage \/ ReadEnds \/ OnNone
  \/ Service

Spec == Init /\ [][Next]_vars

(* Threads run; the service handles what it received, every fetch of it ends
   (netstack has timeouts) and a socket told to close closes; an end of stream
   is noticed. *)
Fairness ==
  /\ \A f \in Fetches : WF_vars(Fetch(f)) /\ WF_vars(RunCallback(f))
  /\ \A s \in Socks : WF_vars(WsOpen(s))
  /\ WF_vars(OnMessage) /\ WF_vars(OnNone) /\ WF_vars(~serviceUp /\ ReadEnds)
  /\ WF_vars(HandleMessage)
  /\ \A f \in Fetches : WF_vars(TaskEnds(f))
  /\ \A s \in Socks : WF_vars(s \in closing /\ TaskEnds(s))

FairSpec == Spec /\ Fairness

-----------------------------------------------------------------------------
FetchLabels == {"idle", "insert", "progress", "send", "refused", "recheck", "failed", "returned"}
SockLabels == {"idle", "insert", "send", "failed", "returned", "closing"}
ToService == [m : {"fetch", "abort"}, id : Fetches] \cup [m : {"wsOpen", "wsClose"}, id : Socks]
FromService == [m : {"response", "progress"}, id : Fetches] \cup [m : {"wsClosed"}, id : Socks]

(* The state has its type; only a socket whose task runs is being closed. *)
TypeOK ==
  /\ pc \in [Fetches \cup Socks -> FetchLabels \cup SockLabels]
  /\ \A f \in Fetches : pc[f] \in FetchLabels
  /\ aborting \in [Fetches -> {"no", "half", "dropped", "late"}]
  /\ pending \subseteq Fetches /\ progress \subseteq Fetches /\ drained \subseteq Fetches
  /\ sockets \subseteq Socks
  /\ connected \in BOOLEAN /\ sendOpen \in BOOLEAN /\ serviceUp \in BOOLEAN
  /\ reader \in {"run", "none", "clear", "sockets", "pending", "jobs", "end"}
  /\ jobs \in [Fetches -> Nat] /\ done \in [Fetches -> Nat] /\ reports \in [Fetches -> Nat]
  /\ closed \in [Socks -> Nat]
  /\ toS \in Seq(ToService) /\ fromS \in Seq(FromService)
  /\ tasks \subseteq Fetches \cup Socks /\ closing \subseteq tasks \cap Socks
  /\ sentReports \in [Fetches -> Nat]

(* fetch: "on_done is called exactly once": no callback runs twice, whoever
   of the caller, the reader and the disconnect got hold of it. *)
DoneAtMostOnce == \A f \in Fetches : jobs[f] + done[f] <= 1

(* fetch: once the call has returned and the disconnect has been handled, no
   callback is left behind in the map, where nothing would ever call it. *)
NoRequestLost ==
  reader = "end" => \A f \in pending : pc[f] # "returned"

(* How many places a callback is in. *)
Holders(f) ==
  jobs[f] + done[f] + (IF f \in pending THEN 1 ELSE 0) + (IF f \in drained THEN 1 ELSE 0)
    + (IF aborting[f] = "dropped" THEN 1 ELSE 0)

(* fetch: once the call has returned, the callback is in exactly one place:
   registered, taken by the disconnect, queued, called, or dropped by abort. *)
CallbackAccounted ==
  \A f \in Fetches : pc[f] = "returned" =>
    Holders(f) = 1

(* fetch_with_progress: on_progress is "never" called "after on_done". *)
ProgressBeforeDone ==
  [][\A f \in Fetches : reports'[f] # reports[f] => done[f] = 0]_vars

(* fetch: on_done is called, unless the request is aborted first. *)
DoneUnlessAborted ==
  \A f \in Fetches : pc[f] = "returned" ~> (done[f] = 1 \/ aborting[f] # "no")

(* ws_open: the events end with exactly one Closed. *)
ClosedAtMostOnce == \A s \in Socks : closed[s] <= 1

(* ws_open: a socket the page closes, and every socket when the service is
   gone, gets its Closed event. *)
EventuallyClosed ==
  \A s \in Socks :
    (pc[s] = "closing" \/ (pc[s] = "returned" /\ reader = "end")) ~> closed[s] = 1
=============================================================================
