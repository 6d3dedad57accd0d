--------------------------------- MODULE Fetch ---------------------------------
(***************************************************************************)
(* fetch() with the bodies and signals of its requests (crates/script/js/  *)
(* 40_webapi.js): a Request object of the page and a clone of it, a body   *)
(* of bytes or a stream of the page, two signals, and the host that serves *)
(* what was started.                                                       *)
(***************************************************************************)
EXTENDS Naturals, FiniteSets

CONSTANTS
  Fetches,
  MaxOps,    \* bound on the calls of the page
  None

VARIABLES
  body,      \* object -> its body record, None without the object
  stream,    \* stream -> its state
  reader,    \* streams the page has a reader of
  aborted,   \* signals
  fetch,     \* fetch -> its state
  pending,   \* pendingFetches
  host,      \* fetch -> what the host does with it
  read,      \* content -> how often it was read to be used: bytes of an object, a stream
  ops

fetchVars == <<body, stream, reader, aborted, fetch, pending, host, read, ops>>

Objects == {"request", "clone"}
Signals == {"own", "other"}   \* of the request, of the init of a fetch
Streams == {"page", "left", "right", "bytes"}

Acts == ops < MaxOps /\ ops' = ops + 1

Init ==
  /\ \E bytes \in BOOLEAN :
       body = [o \in Objects |-> IF o = "clone" THEN None ELSE [bytes |-> bytes, stream |-> IF bytes THEN None ELSE "page", used |-> FALSE]]
  /\ stream = [s \in Streams |-> [state |-> IF s = "page" THEN "open" ELSE "none", locked |-> FALSE]]
  /\ reader = {} /\ aborted = {} /\ ops = 0
  /\ fetch = [f \in Fetches |-> [phase |-> "unused", promise |-> "pending", signal |-> None, reads |-> None]]
  /\ pending = {} /\ host = [f \in Fetches |-> "idle"]
  /\ read = [c \in Objects \union Streams |-> 0]

-----------------------------------------------------------------------------
(* Bodies.                                                                 *)
Locked(b) == b.stream # None /\ stream[b.stream].locked
Streaming(b) == ~b.bytes
(* readAllStream() locks a stream until its end.                           *)
Draining(s) == [stream EXCEPT ![s].locked = stream[s].state # "ended"]
Counted(c) == read' = [read EXCEPT ![c] = @ + 1]

(* object.body of bytes makes a stream of them.                            *)
GetBody ==
  /\ Acts /\ body["request"].bytes /\ body["request"].stream = None
  /\ body' = [body EXCEPT !["request"].stream = "bytes"]
  /\ stream' = [stream EXCEPT !["bytes"].state = "ended"]
  /\ UNCHANGED <<reader, aborted, fetch, pending, host, read>>

GetReader(s) ==
  /\ Acts /\ (\E o \in Objects : body[o] # None /\ body[o].stream = s) /\ ~stream[s].locked
  /\ stream' = [stream EXCEPT ![s].locked = TRUE] /\ reader' = reader \union {s}
  /\ UNCHANGED <<body, aborted, fetch, pending, host, read>>
ReleaseLock(s) ==
  /\ Acts /\ s \in reader
  /\ stream' = [stream EXCEPT ![s].locked = FALSE] /\ reader' = reader \ {s}
  /\ UNCHANGED <<body, aborted, fetch, pending, host, read>>

(* text() and its like: consume().                                         *)
MayConsume(b) == ~b.used /\ ~Locked(b)
Consume(o) ==
  /\ Acts /\ body[o] # None /\ MayConsume(body[o])
  /\ body' = [body EXCEPT ![o].used = TRUE]
  /\ IF Streaming(body[o]) THEN Counted(body[o].stream) /\ stream' = Draining(body[o].stream)
     ELSE Counted(o) /\ UNCHANGED stream
  /\ UNCHANGED <<reader, aborted, fetch, pending, host>>

(* request.clone(), which tees a stream.                                   *)
Clone ==
  LET b == body["request"]
  IN  /\ Acts /\ body["clone"] = None /\ ~b.used
      /\ IF Streaming(b)
         THEN /\ b.stream = "page" /\ ~stream["page"].locked
              /\ body' = [request |-> [b EXCEPT !.stream = "left"], clone |-> [b EXCEPT !.stream = "right"]]
              /\ stream' = [stream EXCEPT !["page"].locked = TRUE, !["left"].state = "open", !["right"].state = "open"]
         ELSE body' = [body EXCEPT !["clone"] = [b EXCEPT !.stream = None]] /\ UNCHANGED stream
      /\ UNCHANGED <<reader, aborted, fetch, pending, host, read>>

(* The source of the page's stream ends or fails; readers at the end       *)
(* release it, and the branches of a tee follow.                           *)
Reading(s) == s \notin reader
SourceEnds(s, how) ==
  /\ stream[s].state = "open"
  /\ s # "page" => stream["page"].state \notin {"none", "open"} /\ how = stream["page"].state
  /\ stream' = [stream EXCEPT ![s] = [state |-> how, locked |-> @.locked /\ ~(how = "ended" /\ Reading(s) /\ read[s] > 0)]]
  /\ UNCHANGED <<body, reader, aborted, fetch, pending, host, read, ops>>

-----------------------------------------------------------------------------
(* fetch(object, {signal}).  The promise of one that is refused is         *)
(* rejected at once; otherwise its request takes the body.                 *)
\* mutant of Taken
TakenNot(o) == body
Taken(o) == [body EXCEPT ![o].used = TRUE]
Settled(f, how) == [fetch EXCEPT ![f] = [@ EXCEPT !.phase = "over", !.promise = how]]
Start(f, o, signal) ==
  LET b == body[o]
      state == [phase |-> "body", promise |-> "pending", signal |-> signal, reads |-> IF Streaming(b) THEN b.stream ELSE None]
  IN  /\ Acts /\ fetch[f].phase = "unused" /\ b # None /\ ~b.used
      /\ body' = Taken(o)
      /\ IF signal \in aborted
         THEN fetch' = [fetch EXCEPT ![f] = [state EXCEPT !.phase = "over", !.promise = "aborted"]] /\ UNCHANGED <<stream, read>>
         ELSE IF Streaming(b) /\ stream[b.stream].locked
         THEN fetch' = [fetch EXCEPT ![f] = [state EXCEPT !.phase = "over", !.promise = "rejected"]] /\ UNCHANGED <<stream, read>>
         ELSE /\ fetch' = [fetch EXCEPT ![f] = state]
              /\ IF Streaming(b) THEN Counted(b.stream) /\ stream' = Draining(b.stream)
                 ELSE Counted(o) /\ UNCHANGED stream
      /\ UNCHANGED <<reader, aborted, pending, host>>

(* The body was read: startNativeFetch(), unless it was aborted meanwhile; *)
(* the host may refuse.                                                    *)
\* mutant of BodyRead
BodyReadEnded(f) == fetch[f].phase = "body" /\ IF fetch[f].reads = None THEN TRUE ELSE stream[fetch[f].reads].state = "ended"
BodyRead(f) == fetch[f].phase = "body" /\ IF fetch[f].reads = None THEN TRUE ELSE stream[fetch[f].reads].state # "open"
\* mutant of GoesOn
GoesOnAborted(f) == TRUE
GoesOn(f) == fetch[f].signal \notin aborted
StartNative(f) ==
  /\ BodyRead(f)
  /\ IF fetch[f].reads # None /\ stream[fetch[f].reads].state = "failed"
     THEN fetch' = Settled(f, "rejected") /\ UNCHANGED <<pending, host>>
     ELSE IF ~GoesOn(f) THEN fetch' = Settled(f, "aborted") /\ UNCHANGED <<pending, host>>
     ELSE \/ /\ fetch' = [fetch EXCEPT ![f].phase = "network"]
             /\ pending' = pending \union {f} /\ host' = [host EXCEPT ![f] = "serves"]
          \/ fetch' = [fetch EXCEPT ![f].phase = "refused"] /\ UNCHANGED <<pending, host>>
  /\ UNCHANGED <<body, stream, reader, aborted, read, ops>>

(* The microtask of one the host refused.                                  *)
Refused(f) ==
  /\ fetch[f].phase = "refused"
  /\ fetch' = IF fetch[f].promise = "pending" THEN Settled(f, "rejected") ELSE [fetch EXCEPT ![f].phase = "over"]
  /\ UNCHANGED <<body, stream, reader, aborted, pending, host, read, ops>>

(* Answers of the host are posted, and taken by onFetch().                 *)
Answer(f) ==
  /\ host[f] = "serves" /\ host' = [host EXCEPT ![f] = "posted"]
  /\ UNCHANGED <<body, stream, reader, aborted, fetch, pending, read, ops>>
Wanted(f) == f \in pending
OnFetch(f, how) ==
  /\ host[f] = "posted" /\ host' = [host EXCEPT ![f] = "idle"]
  /\ pending' = pending \ {f}
  /\ fetch' = IF Wanted(f) THEN Settled(f, how) ELSE fetch
  /\ UNCHANGED <<body, stream, reader, aborted, read, ops>>

(* cancelNativeFetch(): the entry goes, and the host stops serving it.     *)
Entries(hit) == pending \ hit
(* controller.abort(): the requests made with the signal abort, and the    *)
(* fetches under way are cancelled.                                        *)
\* mutant of Cancelled
CancelledNever(f) == FALSE
Cancelled(f) == fetch[f].phase \in {"network", "refused"}
Abort(signal) ==
  LET hit == {f \in Fetches : fetch[f].signal = signal /\ Cancelled(f)}
  IN  /\ Acts /\ signal \notin aborted
      /\ aborted' = aborted \union {signal}
      /\ fetch' = [f \in Fetches |->
                     IF f \notin hit THEN fetch[f]
                     ELSE [fetch[f] EXCEPT !.promise = "aborted", !.phase = IF @ = "network" THEN "over" ELSE @]]
      /\ pending' = Entries(hit)
      /\ host' = [f \in Fetches |-> IF f \in hit \cap pending /\ host[f] = "serves" THEN "idle" ELSE host[f]]
      /\ UNCHANGED <<body, stream, reader, read>>

-----------------------------------------------------------------------------
Page ==
  \/ GetBody \/ Clone
  \/ \E s \in Streams : GetReader(s) \/ ReleaseLock(s)
  \/ \E o \in Objects : Consume(o) \/ \E f \in Fetches, s \in Signals : Start(f, o, s)
  \/ \E s \in Signals : Abort(s)
Engine == \E f \in Fetches : StartNative(f) \/ Refused(f) \/ \E how \in {"resolved", "rejected"} : OnFetch(f, how)
Source == \E s \in Streams, how \in {"ended", "failed"} : SourceEnds(s, how)
Host == \E f \in Fetches : Answer(f)
Next == Page \/ Engine \/ Source \/ Host
Spec == Init /\ [][Next]_fetchVars
FairSpec == Spec /\ WF_fetchVars(Engine \/ Source \/ Host)

-----------------------------------------------------------------------------
(* A body is used once, by text() or by a fetch, whatever was cloned.      *)
BodyOnce == \A c \in DOMAIN read : read[c] <= 1

(* An abort is the end of a fetch: its promise is rejected with the abort  *)
(* reason at once, or when a body that is still read ends, and never       *)
(* resolves.                                                               *)
AbortEnds ==
  \A f \in Fetches : fetch[f].signal \in aborted /\ fetch[f].phase \in {"network", "refused"} => fetch[f].promise = "aborted"
NeverAfterAbort ==
  [][\A f \in Fetches : fetch[f].signal \in aborted => fetch'[f].promise # "resolved" \/ fetch[f].promise = "resolved"]_fetchVars

(* The table of pending fetches is that of the promises that wait for the  *)
(* network, and the host serves nothing that nobody waits for.             *)
NothingLeft ==
  /\ pending = {f \in Fetches : fetch[f].phase = "network"}
  /\ \A f \in Fetches : host[f] = "serves" => f \in pending /\ fetch[f].promise = "pending"
  /\ \A f \in pending : host[f] # "idle"

(* Every fetch settles.                                                    *)
AllSettled == \A f \in Fetches : fetch[f].phase \in {"unused", "over"}
=============================================================================
