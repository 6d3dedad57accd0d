--------------------------- MODULE NetClientProofs ---------------------------
(***************************************************************************)
(* What NetClient promises its callers, proved for any number of requests, *)
(* sockets and progress reports and for every combination of faults.       *)
(***************************************************************************)
EXTENDS NetClient, SequenceTheorems, TLAPS

(***************************************************************************)
(* The inductive invariant.  A callback has no place before it is          *)
(* registered and one place ever after, and so has the Closed event of a   *)
(* socket; connected tells whether the disconnect has begun, and after it  *)
(* has drained the map, only calls that will still look at connected have  *)
(* an entry there.                                                         *)
(***************************************************************************)
Unregistered == {"idle", "insert"}

OnePlace ==
  \A f \in Fetches : Holders(f) = IF pc[f] \in Unregistered THEN 0 ELSE 1

SocketPlace ==
  \A s \in Socks :
    closed[s] + (IF s \in sockets THEN 1 ELSE 0) = IF pc[s] \in Unregistered THEN 0 ELSE 1

AbortAfterReturn == \A f \in Fetches : aborting[f] # "no" => pc[f] = "returned"

DrainedBriefly == drained # {} => reader = "jobs"

ConnectedFollowsReader == connected <=> reader \in {"run", "none"}

DrainIsFinal ==
  reader \in {"jobs", "end"} => \A f \in pending : pc[f] # "returned"

IInv ==
  /\ TypeOK
  /\ OnePlace
  /\ SocketPlace
  /\ AbortAfterReturn
  /\ DrainedBriefly
  /\ ConnectedFollowsReader
  /\ DrainIsFinal

-----------------------------------------------------------------------------
(* What is sent to the service stays a sequence of its messages. *)
LEMMA SendType ==
  ASSUME TypeOK, NEW msg \in ToService, Send(msg)
  PROVE  toS' \in Seq(ToService)
  BY AppendProperties DEF TypeOK, Send

(* A message taken from either end of the link is one of its messages. *)
LEMMA LinkHeads ==
  ASSUME TypeOK
  PROVE  /\ toS # <<>> => Head(toS) \in ToService /\ Tail(toS) \in Seq(ToService)
         /\ fromS # <<>> => Head(fromS) \in FromService /\ Tail(fromS) \in Seq(FromService)
  BY HeadTailProperties DEF TypeOK

(* Queueing callbacks in the pool keeps the counts numbers. *)
LEMMA QueuedType ==
  ASSUME TypeOK, NEW ids
  PROVE  Queued(ids) \in [Fetches -> Nat]
  BY DEF TypeOK, Queued

(* Delivering Closed events keeps the counts numbers. *)
LEMMA ClosesType ==
  ASSUME TypeOK, NEW ids
  PROVE  Closes(ids) \in [Socks -> Nat]
  BY DEF TypeOK, Closes

(* Every step of NetClient and of the service keeps the state in its type. *)
LEMMA TypeStep ==
  ASSUME TypeOK, [Next]_vars
  PROVE  TypeOK'
<1> USE ClientAssumption
<1> USE DEF clientVars, serviceVars, FetchLabels, SockLabels, At, Goto
<1>1. ASSUME NEW f \in Fetches, Fetch(f)
      PROVE  TypeOK'
  <2>1. CASE CheckConnected(f)
    <3>1. jobs' \in [Fetches -> Nat]
      BY <2>1, QueuedType DEF TypeOK, CheckConnected
    <3>2. PICK l \in {"insert", "returned"} : pc' = [pc EXCEPT ![f] = l]
      BY <2>1 DEF CheckConnected
    <3>3. /\ pc' \in [Fetches \cup Socks -> FetchLabels \cup SockLabels]
          /\ \A g \in Fetches : pc'[g] \in FetchLabels
      BY <3>2 DEF TypeOK
    <3>4. QED  BY <2>1, <3>1, <3>3 DEF TypeOK, CheckConnected
  <2>2. CASE InsertPending(f)
    BY <2>2 DEF TypeOK, InsertPending
  <2>3. CASE InsertProgress(f)
    BY <2>3 DEF TypeOK, InsertProgress
  <2>4. CASE SendFetch(f)
    <3>1. Msg("fetch", f) \in ToService
      BY DEF Msg, ToService
    <3>2. toS' \in Seq(ToService)
      BY <2>4, <3>1, SendType DEF SendFetch, TypeOK
    <3>3. PICK l \in {"refused", "recheck", "failed"} : pc' = [pc EXCEPT ![f] = l]
      BY <2>4 DEF SendFetch
    <3>4. /\ pc' \in [Fetches \cup Socks -> FetchLabels \cup SockLabels]
          /\ \A g \in Fetches : pc'[g] \in FetchLabels
      BY <3>3 DEF TypeOK
    <3>5. QED  BY <2>4, <3>2, <3>4 DEF TypeOK, SendFetch
  <2>5. CASE Recheck(f)
    BY <2>5 DEF TypeOK, Recheck
  <2>6. CASE FailFetch(f)
    BY <2>6, QueuedType DEF TypeOK, FailFetch
  <2>7. QED  BY <1>1, <2>1, <2>2, <2>3, <2>4, <2>5, <2>6 DEF Fetch
<1>2. ASSUME NEW f \in Fetches, Abort(f)
      PROVE  TypeOK'
  <2>1. CASE AbortProgress(f)
    BY <2>1 DEF TypeOK, AbortProgress
  <2>2. CASE AbortPending(f)
    <3>1. Msg("abort", f) \in ToService
      BY DEF Msg, ToService
    <3>2. toS' \in Seq(ToService)
      BY <2>2, <3>1, SendType DEF AbortPending, TypeOK
    <3>3. QED  BY <2>2, <3>2 DEF TypeOK, AbortPending
  <2>3. QED  BY <1>2, <2>1, <2>2 DEF Abort
<1>3. ASSUME NEW f \in Fetches, RunCallback(f)
      PROVE  TypeOK'
  BY <1>3, SMTT(30) DEF TypeOK, RunCallback
<1>4. ASSUME NEW s \in Socks, WsOpen(s)
      PROVE  TypeOK'
  <2>1. CASE WsCheck(s)
    <3>1. closed' \in [Socks -> Nat]
      BY <2>1, ClosesType DEF TypeOK, WsCheck
    <3>2. \A f \in Fetches : pc'[f] = pc[f]
      BY <2>1 DEF TypeOK, WsCheck
    <3>3. pc' \in [Fetches \cup Socks -> FetchLabels \cup SockLabels]
      BY <2>1, SMTT(30), ZenonT(30) DEF TypeOK, WsCheck
    <3>4. QED  BY <2>1, <3>1, <3>2, <3>3 DEF TypeOK, WsCheck
  <2>2. CASE WsInsert(s)
    BY <2>2 DEF TypeOK, WsInsert
  <2>3. CASE WsSend(s)
    <3>1. Msg("wsOpen", s) \in ToService
      BY DEF Msg, ToService
    <3>2. toS' \in Seq(ToService)
      BY <2>3, <3>1, SendType DEF WsSend
    <3>3. QED  BY <2>3, <3>2 DEF TypeOK, WsSend
  <2>4. CASE WsFail(s)
    BY <2>4, ClosesType DEF TypeOK, WsFail
  <2>5. QED  BY <1>4, <2>1, <2>2, <2>3, <2>4 DEF WsOpen
<1>5. ASSUME NEW s \in Socks, WsClose(s)
      PROVE  TypeOK'
  <2>1. Msg("wsClose", s) \in ToService
    BY DEF Msg, ToService
  <2>2. toS' \in Seq(ToService)
    BY <1>5, <2>1, SendType DEF WsClose
  <2>3. QED  BY <1>5, <2>2 DEF TypeOK, WsClose
<1>6. CASE OnMessage
  <2>1. fromS # <<>> => Head(fromS) \in FromService /\ Tail(fromS) \in Seq(FromService)
    BY LinkHeads
  <2>2. CASE OnResponse
    <3>1. jobs' \in [Fetches -> Nat]
      BY <2>2, QueuedType DEF OnResponse
    <3>2. fromS' \in Seq(FromService)
      BY <2>1, <2>2 DEF OnResponse, Deliver
    <3>3. QED  BY <2>2, <3>1, <3>2 DEF TypeOK, OnResponse, Deliver
  <2>3. CASE OnProgress
    <3>1. reports' \in [Fetches -> Nat]
      BY <2>3 DEF TypeOK, OnProgress
    <3>2. fromS' \in Seq(FromService)
      BY <2>1, <2>3 DEF OnProgress, Deliver
    <3>3. QED  BY <2>3, <3>1, <3>2 DEF TypeOK, OnProgress, Deliver
  <2>4. CASE OnWsClosed
    <3>1. closed' \in [Socks -> Nat]
      BY <2>4, ClosesType DEF OnWsClosed
    <3>2. fromS' \in Seq(FromService)
      BY <2>1, <2>4 DEF OnWsClosed, Deliver
    <3>3. QED  BY <2>4, <3>1, <3>2 DEF TypeOK, OnWsClosed, Deliver
  <2>5. QED  BY <1>6, <2>2, <2>3, <2>4 DEF OnMessage
<1>7. CASE ReadEnds
  BY <1>7 DEF TypeOK, ReadEnds
<1>8. CASE OnNone
  <2>1. CASE SetDisconnected \/ ClearProgress
    BY <2>1 DEF TypeOK, SetDisconnected, ClearProgress
  <2>2. CASE DrainSockets
    BY <2>2, ClosesType DEF TypeOK, DrainSockets
  <2>3. CASE DrainPending
    BY <2>3 DEF TypeOK, DrainPending
  <2>4. CASE FailDrained
    BY <2>4, QueuedType DEF TypeOK, FailDrained
  <2>5. QED  BY <1>8, <2>1, <2>2, <2>3, <2>4 DEF OnNone
<1>9. CASE HandleMessage
  <2>1. Head(toS) \in ToService /\ Tail(toS) \in Seq(ToService)
    BY <1>9, LinkHeads DEF HandleMessage
  <2>2. tasks' \subseteq Fetches \cup Socks
    BY <1>9, <2>1 DEF TypeOK, HandleMessage, ToService
  <2>3. closing' \subseteq tasks' \cap Socks
    BY <1>9, <2>1 DEF TypeOK, HandleMessage, ToService, ToldToClose
  <2>4. QED  BY <1>9, <2>1, <2>2, <2>3 DEF TypeOK, HandleMessage
<1>10. ASSUME NEW id \in Fetches \cup Socks, TaskEnds(id)
       PROVE  TypeOK'
  <2>1. Msg(IF id \in Fetches THEN "response" ELSE "wsClosed", id) \in FromService
    BY DEF Msg, FromService
  <2>2. fromS' \in Seq(FromService)
    BY <1>10, <2>1, AppendProperties DEF TaskEnds, TypeOK
  <2>3. QED  BY <1>10, <2>2 DEF TypeOK, TaskEnds
<1>11. ASSUME NEW f \in Fetches, ReportProgress(f)
       PROVE  TypeOK'
  <2>1. Msg("progress", f) \in FromService
    BY DEF Msg, FromService
  <2>2. fromS' \in Seq(FromService)
    BY <1>11, <2>1, AppendProperties DEF ReportProgress, TypeOK
  <2>3. QED  BY <1>11, <2>2 DEF TypeOK, ReportProgress
<1>12. CASE ServiceDies
  <2>1. PICK n \in 0..Len(fromS) : fromS' = SubSeq(fromS, 1, n)
    BY <1>12 DEF ServiceDies
  <2>2. \A i \in 1..n : fromS[i] \in FromService
    BY LenProperties, ElementOfSeq DEF TypeOK
  <2>3. fromS' \in Seq(FromService)
    BY <2>1, <2>2, SubSeqProperties, LenProperties DEF TypeOK
  <2>4. toS' \in Seq(ToService)
    BY <1>12 DEF ServiceDies
  <2>5. QED  BY <1>12, <2>3, <2>4 DEF TypeOK, ServiceDies
<1>13. CASE UNCHANGED vars
  BY <1>13 DEF TypeOK, vars
<1>14. QED
  BY <1>1, <1>2, <1>3, <1>4, <1>5, <1>6, <1>7, <1>8, <1>9, <1>10, <1>11, <1>12, <1>13
     DEF Next, Service

(* The initial state has its type. *)
LEMMA TypeInit == Init => TypeOK
  BY EmptySeq DEF Init, TypeOK, FetchLabels, SockLabels

(* Every state that NetClient and the service can reach has its type, and the
   service never holds a close order for a socket whose task is gone. *)
THEOREM TypeCorrect == Spec => []TypeOK
  BY TypeInit, TypeStep, PTL DEF Spec

-----------------------------------------------------------------------------
(* The parts of the invariant that a step keeps when it leaves alone the
   variables they are about. *)
LEMMA Untouched ==
  ASSUME IInv, TypeOK'
  PROVE  /\ UNCHANGED <<pc, aborting, pending, drained, jobs, done>> => OnePlace'
         /\ UNCHANGED <<pc, sockets, closed>> => SocketPlace'
         /\ UNCHANGED <<pc, aborting>> => AbortAfterReturn'
         /\ UNCHANGED <<drained, reader>> => DrainedBriefly'
         /\ UNCHANGED <<connected, reader>> => ConnectedFollowsReader'
         /\ UNCHANGED <<pc, pending, reader>> => DrainIsFinal'
  BY DEF IInv, OnePlace, Holders, SocketPlace, AbortAfterReturn, DrainedBriefly,
         ConnectedFollowsReader, DrainIsFinal

(* A step of one call of fetch keeps the invariant. *)
LEMMA FetchStep ==
  ASSUME IInv, TypeOK', NEW f \in Fetches, Fetch(f)
  PROVE  IInv'
<1> USE ClientAssumption
<1> USE DEF At, Goto, FetchLabels
<1> DEFINE Parts == SocketPlace' /\ AbortAfterReturn' /\ DrainedBriefly' /\ ConnectedFollowsReader'
<1>1. Parts
  <2>1. UNCHANGED <<sockets, closed, aborting, drained, connected, reader>>
    BY DEF Fetch, CheckConnected, InsertPending, InsertProgress, SendFetch, Recheck, FailFetch
  <2>2. \A s \in Socks : pc'[s] = pc[s]
    BY SMTT(30) DEF Fetch, CheckConnected, InsertPending, InsertProgress, SendFetch, Recheck, FailFetch,
           IInv, TypeOK
  <2>3. \A g \in Fetches : pc[g] = "returned" => pc'[g] = "returned"
    <3>1. pc[f] # "returned"
      BY DEF Fetch, CheckConnected, InsertPending, InsertProgress, SendFetch, Recheck, FailFetch,
             IInv, TypeOK
    <3>2. \E label : pc' = [pc EXCEPT ![f] = label]
      BY DEF Fetch, CheckConnected, InsertPending, InsertProgress, SendFetch, Recheck, FailFetch
    <3>3. QED  BY <3>1, <3>2 DEF IInv, TypeOK
  <2>4. SocketPlace'
    BY <2>1, <2>2 DEF IInv, SocketPlace
  <2>5. AbortAfterReturn'
    BY <2>1, <2>3 DEF IInv, AbortAfterReturn
  <2>6. QED  BY <2>1, <2>4, <2>5, Untouched
<1>2. CASE CheckConnected(f)
  <2>1. Holders(f) = 0 /\ f \notin pending
    BY <1>2 DEF CheckConnected, IInv, TypeOK, OnePlace, Holders, Unregistered
  <2>2. OnePlace'
    <3>1. \A g \in Fetches \ {f} : pc'[g] = pc[g] /\ Holders(g)' = Holders(g)
      <4>1. \A g \in Fetches \ {f} : pc'[g] = pc[g] /\ jobs'[g] = jobs[g]
        BY <1>2, SMTT(30) DEF CheckConnected, IInv, TypeOK, Queued
      <4>2. UNCHANGED <<aborting, pending, drained, done>>
        BY <1>2 DEF CheckConnected
      <4>3. QED  BY <4>1, <4>2 DEF Holders
    <3>2. CASE connected
      <4>1. pc'[f] = "insert"
        BY <1>2, <3>2 DEF CheckConnected, IInv, TypeOK
      <4>2. Holders(f)' = Holders(f)
        BY <1>2, <3>2 DEF CheckConnected, Holders
      <4>3. QED  BY <2>1, <3>1, <4>1, <4>2 DEF IInv, OnePlace, Unregistered
    <3>3. CASE ~connected
      <4>1. pc'[f] = "returned"
        BY <1>2, <3>3 DEF CheckConnected, IInv, TypeOK
      <4>2. Holders(f)' = Holders(f) + 1
        BY <1>2, <3>3 DEF CheckConnected, IInv, TypeOK, Holders, Queued
      <4>3. QED  BY <2>1, <3>1, <4>1, <4>2 DEF IInv, OnePlace, Unregistered
    <3>4. QED  BY <3>2, <3>3
  <2>3. DrainIsFinal'
    BY <1>2, <2>1, SMTT(30) DEF CheckConnected, IInv, TypeOK, DrainIsFinal
  <2>4. QED  BY <1>1, <2>2, <2>3 DEF IInv
<1>3. CASE InsertPending(f)
  <2>1. OnePlace'
    BY <1>3, SMTT(30) DEF InsertPending, IInv, TypeOK, OnePlace, Holders, Unregistered
  <2>2. DrainIsFinal'
    BY <1>3 DEF InsertPending, IInv, TypeOK, DrainIsFinal
  <2>3. QED  BY <1>1, <2>1, <2>2 DEF IInv
<1>4. CASE InsertProgress(f) \/ SendFetch(f)
  <2>1. UNCHANGED <<aborting, pending, drained, jobs, done, reader>>
    BY <1>4 DEF InsertProgress, SendFetch
  <2>2. pc'[f] \notin Unregistered /\ pc'[f] # "returned" /\ pc[f] \notin Unregistered
    BY <1>4 DEF InsertProgress, SendFetch, IInv, TypeOK, Unregistered
  <2>3. \A g \in Fetches \ {f} : pc'[g] = pc[g]
    BY <1>4 DEF InsertProgress, SendFetch, IInv, TypeOK
  <2>4. OnePlace'
    BY <2>1, <2>2, <2>3 DEF IInv, OnePlace, Holders
  <2>5. DrainIsFinal'
    BY <2>1, <2>2, <2>3 DEF IInv, TypeOK, DrainIsFinal
  <2>6. QED  BY <1>1, <2>4, <2>5 DEF IInv
<1>5. CASE Recheck(f)
  <2>1. OnePlace'
    BY <1>5 DEF Recheck, IInv, TypeOK, OnePlace, Holders, Unregistered
  <2>2. DrainIsFinal'
    BY <1>5 DEF Recheck, IInv, TypeOK, DrainIsFinal, ConnectedFollowsReader
  <2>3. QED  BY <1>1, <2>1, <2>2 DEF IInv
<1>6. CASE FailFetch(f)
  <2>1. OnePlace'
    <3>1. \A g \in Fetches : pc[g] \in Unregistered <=> pc'[g] \in Unregistered
      BY <1>6 DEF FailFetch, IInv, TypeOK, Unregistered
    <3>2. \A g \in Fetches : Holders(g)' = Holders(g)
      BY <1>6, SMTT(30) DEF FailFetch, IInv, TypeOK, Holders, Queued
    <3>3. QED  BY <3>1, <3>2 DEF IInv, OnePlace
  <2>2. DrainIsFinal'
    BY <1>6 DEF FailFetch, IInv, TypeOK, DrainIsFinal
  <2>3. QED  BY <1>1, <2>1, <2>2 DEF IInv
<1>7. QED  BY <1>2, <1>3, <1>4, <1>5, <1>6 DEF Fetch

(* A step of one call of abort keeps the invariant. *)
LEMMA AbortStep ==
  ASSUME IInv, TypeOK', NEW f \in Fetches, Abort(f)
  PROVE  IInv'
<1>1. CASE AbortProgress(f)
  <2>1. OnePlace'
    BY <1>1 DEF AbortProgress, IInv, TypeOK, OnePlace, Holders
  <2>2. AbortAfterReturn'
    BY <1>1 DEF AbortProgress, At, IInv, TypeOK, AbortAfterReturn
  <2>3. QED  BY <1>1, <2>1, <2>2, Untouched DEF AbortProgress, IInv
<1>2. CASE AbortPending(f)
  <2>1. OnePlace'
    BY <1>2, SMTT(30) DEF AbortPending, IInv, TypeOK, OnePlace, Holders
  <2>2. AbortAfterReturn'
    BY <1>2 DEF AbortPending, IInv, TypeOK, AbortAfterReturn
  <2>3. DrainIsFinal'
    BY <1>2 DEF AbortPending, IInv, TypeOK, DrainIsFinal
  <2>4. QED  BY <1>2, <2>1, <2>2, <2>3, Untouched DEF AbortPending, IInv
<1>3. QED  BY <1>1, <1>2 DEF Abort

(* A step of one call of ws_open or ws_close keeps the invariant. *)
LEMMA SocketStep ==
  ASSUME IInv, TypeOK', NEW s \in Socks, WsOpen(s) \/ WsClose(s)
  PROVE  IInv'
<1> USE ClientAssumption
<1> USE DEF At, Goto, Unregistered
<1>1. UNCHANGED <<aborting, pending, connected, reader, drained, jobs, done>>
  BY DEF WsOpen, WsCheck, WsInsert, WsSend, WsFail, WsClose
<1>2. \A f \in Fetches : pc'[f] = pc[f]
  BY SMTT(30) DEF WsOpen, WsCheck, WsInsert, WsSend, WsFail, WsClose, IInv, TypeOK
<1>3. OnePlace' /\ AbortAfterReturn' /\ DrainIsFinal'
  BY <1>1, <1>2 DEF IInv, TypeOK, OnePlace, Holders, AbortAfterReturn, DrainIsFinal
<1>4. SocketPlace'
  <2>1. CASE WsCheck(s)
    BY <2>1 DEF WsCheck, IInv, TypeOK, SocketPlace, Closes
  <2>2. CASE WsInsert(s)
    BY <2>2 DEF WsInsert, IInv, TypeOK, SocketPlace
  <2>3. CASE WsSend(s) \/ WsClose(s)
    BY <2>3 DEF WsSend, WsClose, IInv, TypeOK, SocketPlace
  <2>4. CASE WsFail(s)
    BY <2>4 DEF WsFail, IInv, TypeOK, SocketPlace, Closes
  <2>5. QED  BY <2>1, <2>2, <2>3, <2>4 DEF WsOpen
<1>5. QED  BY <1>1, <1>3, <1>4, Untouched DEF IInv

(* A step of the reader thread keeps the invariant. *)
LEMMA ReaderStep ==
  ASSUME IInv, TypeOK', OnMessage \/ ReadEnds \/ OnNone
  PROVE  IInv'
<1>1. CASE OnResponse
  <2>1. Head(fromS).id \in Fetches
    BY <1>1, LinkHeads DEF OnResponse, Deliver, IInv, FromService
  <2>2. OnePlace'
    BY <1>1, <2>1, SMTT(30) DEF OnResponse, Deliver, IInv, TypeOK, OnePlace, Holders, Queued
  <2>3. DrainIsFinal'
    BY <1>1 DEF OnResponse, Deliver, IInv, TypeOK, DrainIsFinal
  <2>4. QED  BY <1>1, <2>2, <2>3, Untouched DEF OnResponse, Deliver, IInv
<1>2. CASE OnProgress
  BY <1>2, Untouched DEF OnProgress, Deliver, IInv
<1>3. CASE OnWsClosed
  <2>1. SocketPlace'
    BY <1>3 DEF OnWsClosed, Deliver, IInv, TypeOK, SocketPlace, Closes
  <2>2. QED  BY <1>3, <2>1, Untouched DEF OnWsClosed, Deliver, IInv
<1>4. CASE ReadEnds
  <2>1. ConnectedFollowsReader' /\ DrainedBriefly' /\ DrainIsFinal'
    BY <1>4 DEF ReadEnds, IInv, ConnectedFollowsReader, DrainedBriefly, DrainIsFinal
  <2>2. QED  BY <1>4, <2>1, Untouched DEF ReadEnds, IInv
<1>5. CASE SetDisconnected
  <2>1. ConnectedFollowsReader' /\ DrainedBriefly' /\ DrainIsFinal'
    BY <1>5 DEF SetDisconnected, IInv, ConnectedFollowsReader, DrainedBriefly, DrainIsFinal
  <2>2. QED  BY <1>5, <2>1, Untouched DEF SetDisconnected, IInv
<1>6. CASE ClearProgress
  <2>1. ConnectedFollowsReader' /\ DrainedBriefly' /\ DrainIsFinal'
    BY <1>6 DEF ClearProgress, IInv, ConnectedFollowsReader, DrainedBriefly, DrainIsFinal
  <2>2. QED  BY <1>6, <2>1, Untouched DEF ClearProgress, IInv
<1>7. CASE DrainSockets
  <2>1. SocketPlace'
    BY <1>7 DEF DrainSockets, IInv, TypeOK, SocketPlace, Closes
  <2>2. ConnectedFollowsReader' /\ DrainedBriefly' /\ DrainIsFinal'
    BY <1>7 DEF DrainSockets, IInv, ConnectedFollowsReader, DrainedBriefly, DrainIsFinal
  <2>3. QED  BY <1>7, <2>1, <2>2, Untouched DEF DrainSockets, IInv
<1>8. CASE DrainPending
  <2>1. drained = {}
    BY <1>8 DEF DrainPending, IInv, DrainedBriefly
  <2>2. OnePlace'
    BY <1>8, <2>1 DEF DrainPending, IInv, TypeOK, OnePlace, Holders
  <2>3. ConnectedFollowsReader' /\ DrainedBriefly' /\ DrainIsFinal'
    BY <1>8 DEF DrainPending, IInv, ConnectedFollowsReader, DrainedBriefly, DrainIsFinal
  <2>4. QED  BY <1>8, <2>2, <2>3, Untouched DEF DrainPending, IInv
<1>9. CASE FailDrained
  <2>1. OnePlace'
    BY <1>9, SMTT(30) DEF FailDrained, IInv, TypeOK, OnePlace, Holders, Queued
  <2>2. ConnectedFollowsReader' /\ DrainedBriefly' /\ DrainIsFinal'
    BY <1>9 DEF FailDrained, IInv, ConnectedFollowsReader, DrainedBriefly, DrainIsFinal
  <2>3. QED  BY <1>9, <2>1, <2>2, Untouched DEF FailDrained, IInv
<1>10. QED
  BY <1>1, <1>2, <1>3, <1>4, <1>5, <1>6, <1>7, <1>8, <1>9 DEF OnMessage, OnNone

(* A callback of the pool moves from the queue to the calls made. *)
LEMMA CallbackStep ==
  ASSUME IInv, TypeOK', NEW f \in Fetches, RunCallback(f)
  PROVE  IInv'
<1>1. OnePlace'
  <2>1. UNCHANGED <<pc, aborting, pending, drained>>
    BY DEF RunCallback
  <2>2. \A g \in Fetches : jobs'[g] + done'[g] = jobs[g] + done[g]
    BY DEF RunCallback, IInv, TypeOK
  <2>3. \A g \in Fetches : Holders(g)' = Holders(g)
    BY <2>1, <2>2 DEF Holders, IInv, TypeOK
  <2>4. QED  BY <2>1, <2>3 DEF IInv, OnePlace
<1>2. QED  BY <1>1, Untouched DEF RunCallback, IInv

(* The initial state satisfies the invariant. *)
LEMMA IInvInit == Init => IInv
<1> SUFFICES ASSUME Init PROVE IInv
  OBVIOUS
<1>1. TypeOK
  BY TypeInit
<1>2. QED
  BY <1>1, ClientAssumption
     DEF Init, IInv, OnePlace, Holders, Unregistered, SocketPlace, AbortAfterReturn,
         DrainedBriefly, ConnectedFollowsReader, DrainIsFinal

(* Every step keeps the invariant. *)
LEMMA IInvStep == IInv /\ [Next]_vars => IInv'
<1> SUFFICES ASSUME IInv, [Next]_vars PROVE IInv'
  OBVIOUS
<1>1. TypeOK'
  BY TypeStep DEF IInv
<1>2. CASE Service \/ UNCHANGED vars
  <2>1. UNCHANGED clientVars
    BY <1>2 DEF Service, HandleMessage, ServiceDies, TaskEnds, ReportProgress, vars
  <2>2. QED  BY <1>1, <2>1, Untouched DEF clientVars, IInv
<1>3. QED
  BY <1>1, <1>2, FetchStep, AbortStep, CallbackStep, SocketStep, ReaderStep DEF Next

(* IInv holds in every state of the specification. *)
LEMMA IInvAlways == Spec => []IInv
  BY IInvInit, IInvStep, PTL DEF Spec

(* fetch: whatever order the caller, the reader thread, the disconnect and
   abort come in, a callback is in exactly one place once fetch has returned:
   it is neither lost nor duplicated. *)
THEOREM CallbackNeverLost == Spec => []CallbackAccounted
<1>1. IInv => CallbackAccounted
  BY DEF IInv, OnePlace, Unregistered, CallbackAccounted
<1>2. QED  BY <1>1, IInvAlways, PTL

(* fetch: no on_done callback is queued or called a second time. *)
THEOREM CallbackOnce == Spec => []DoneAtMostOnce
<1>1. IInv => DoneAtMostOnce
  <2> SUFFICES ASSUME IInv, NEW f \in Fetches PROVE jobs[f] + done[f] <= 1
    BY DEF DoneAtMostOnce
  <2>1. jobs[f] \in Nat /\ done[f] \in Nat
    BY DEF IInv, TypeOK
  <2>2. Holders(f) <= 1
    BY DEF IInv, OnePlace
  <2>3. QED  BY <2>1, <2>2 DEF Holders
<1>2. QED  BY <1>1, IInvAlways, PTL

(* fetch and on_message(None): once the disconnect has been handled, a fetch
   that has returned has nothing left in the map of pending callbacks. *)
THEOREM DisconnectFailsAll == Spec => []NoRequestLost
<1>1. IInv => NoRequestLost
  BY DEF IInv, DrainIsFinal, NoRequestLost
<1>2. QED  BY <1>1, IInvAlways, PTL

(* ws_open: a socket gets at most one Closed event, from the service, from a
   failed send or from the disconnect. *)
THEOREM OneClosedEvent == Spec => []ClosedAtMostOnce
<1>1. IInv => ClosedAtMostOnce
  <2> SUFFICES ASSUME IInv, NEW s \in Socks PROVE closed[s] <= 1
    BY DEF ClosedAtMostOnce
  <2>1. closed[s] \in Nat
    BY DEF IInv, TypeOK
  <2>2. closed[s] + (IF s \in sockets THEN 1 ELSE 0) <= 1
    BY DEF IInv, SocketPlace
  <2>3. QED  BY <2>1, <2>2
<1>2. QED  BY <1>1, IInvAlways, PTL
-----------------------------------------------------------------------------
(***************************************************************************)
(* on_progress and on_done.  The service knows a request from the fetch    *)
(* message on its way until the last message about it is read.  While the  *)
(* reader still reads, it knows no request that a send has failed for, and *)
(* a request it knows has lost its on_progress when its on_done is queued. *)
(***************************************************************************)
Known(f) ==
  \/ \E n \in 1..Len(toS) : toS[n] = Msg("fetch", f)
  \/ f \in tasks
  \/ sentReports[f] > 0
  \/ \E n \in 1..Len(fromS) : fromS[n].id = f

KnownAfterSend ==
  \A f \in Fetches : Known(f) => pc[f] \in {"recheck", "failed", "returned"}

UnsentFails ==
  reader = "run" => \A f \in Fetches : pc[f] = "failed" => ~Known(f)

RegisteredUntilSent ==
  reader = "run" => \A f \in Fetches : pc[f] \in {"progress", "send"} => f \in pending

AnsweredUnheard ==
  reader = "run" => \A f \in progress : jobs[f] + done[f] > 0 => ~Known(f)

PInv == KnownAfterSend /\ UnsentFails /\ RegisteredUntilSent /\ AnsweredUnheard

(* A message put on a link is the last one there, and one taken was the first. *)
LEMMA SentIsLast ==
  ASSUME NEW S, NEW q \in Seq(S), NEW msg \in S, NEW n \in 1..Len(Append(q, msg))
  PROVE  Append(q, msg)[n] = msg \/ (n \in 1..Len(q) /\ Append(q, msg)[n] = q[n])
  BY AppendProperties

LEMMA ReadIsFirst ==
  ASSUME NEW S, NEW q \in Seq(S), q # <<>>
  PROVE  /\ 1 \in 1..Len(q) /\ q[1] = Head(q)
         /\ \A n \in 1..Len(Tail(q)) : n + 1 \in 1..Len(q) /\ Tail(q)[n] = q[n + 1]
  BY HeadTailProperties

(* Nothing but the fetch message that its call sends makes the service know a
   request, and the message is sent only while the link takes it. *)
LEMMA KnownBySend ==
  ASSUME TypeOK, NEW f \in Fetches, [Next]_vars, Known(f)', ~Known(f)
  PROVE  SendFetch(f) /\ pc'[f] = "recheck"
<1> USE ClientAssumption
<1>1. ASSUME UNCHANGED serviceVars PROVE FALSE
  BY <1>1 DEF serviceVars, Known
<1>2. ASSUME NEW msg \in ToService, toS' = Append(toS, msg), msg # Msg("fetch", f),
             UNCHANGED <<fromS, tasks, sentReports>>
      PROVE  FALSE
  <2>1. PICK n \in 1..Len(toS') : toS'[n] = Msg("fetch", f)
    BY <1>2 DEF Known
  <2>2. n \in 1..Len(toS) /\ toS'[n] = toS[n]
    BY <1>2, <2>1, SentIsLast DEF TypeOK
  <2>3. QED  BY <2>1, <2>2 DEF Known
<1>3. ASSUME NEW g \in Fetches, SendFetch(g)
      PROVE  SendFetch(f) /\ pc'[f] = "recheck"
  <2>1. Msg("fetch", g) \in ToService
    BY DEF Msg, ToService
  <2>2. UNCHANGED <<fromS, tasks, sentReports>>
    BY <1>3 DEF SendFetch
  <2>3. toS' # toS
    BY <2>2 DEF Known
  <2>4. toS' = Append(toS, Msg("fetch", g)) /\ pc' = [pc EXCEPT ![g] = "recheck"]
    BY <1>3, <2>3 DEF SendFetch, Send, Goto
  <2>5. Msg("fetch", g) = Msg("fetch", f)
    BY <1>2, <2>1, <2>2, <2>4
  <2>6. g = f
    BY <2>5 DEF Msg
  <2>7. QED  BY <1>3, <2>4, <2>6 DEF TypeOK
<1>4. ASSUME NEW g \in Fetches, AbortPending(g) PROVE FALSE
  <2>1. Msg("abort", g) \in ToService /\ Msg("abort", g) # Msg("fetch", f)
    BY DEF Msg, ToService
  <2>2. QED  BY <1>1, <1>2, <1>4, <2>1 DEF AbortPending, Send, serviceVars
<1>5. ASSUME NEW s \in Socks, WsSend(s) \/ WsClose(s) PROVE FALSE
  <2>1. /\ Msg("wsOpen", s) \in ToService /\ Msg("wsOpen", s) # Msg("fetch", f)
        /\ Msg("wsClose", s) \in ToService /\ Msg("wsClose", s) # Msg("fetch", f)
    BY DEF Msg, ToService
  <2>2. QED  BY <1>1, <1>2, <1>5, <2>1 DEF WsSend, WsClose, Send, serviceVars
<1>6. ASSUME NEW kind, Deliver(kind) PROVE FALSE
  <2>1. fromS # <<>> /\ fromS' = Tail(fromS) /\ UNCHANGED <<toS, tasks, sentReports>>
    BY <1>6 DEF Deliver
  <2>2. PICK n \in 1..Len(fromS') : fromS'[n].id = f
    BY <2>1 DEF Known
  <2>3. n + 1 \in 1..Len(fromS) /\ fromS[n + 1].id = f
    BY <2>1, <2>2, ReadIsFirst DEF TypeOK
  <2>4. QED  BY <2>3 DEF Known
<1>7. CASE HandleMessage
  <2>1. /\ toS # <<>> /\ toS' = Tail(toS) /\ UNCHANGED <<fromS, sentReports>>
        /\ tasks' = IF Head(toS).m \in {"fetch", "wsOpen"} THEN tasks \cup {Head(toS).id}
                    ELSE IF Head(toS).m = "abort" THEN tasks \ {Head(toS).id}
                    ELSE tasks
    BY <1>7 DEF HandleMessage, clientVars
  <2>2. 1 \in 1..Len(toS) /\ toS[1] = Head(toS) /\ Head(toS) \in ToService
    BY <2>1, ReadIsFirst, LinkHeads DEF TypeOK
  <2>3. f \in tasks' => f \in tasks
    <3>1. SUFFICES ASSUME f \in tasks', f \notin tasks PROVE FALSE
      OBVIOUS
    <3>2. Head(toS).m \in {"fetch", "wsOpen"} /\ Head(toS).id = f
      BY <2>1, <3>1
    <3>3. toS[1] = Msg("fetch", f)
      BY <2>2, <3>2 DEF ToService, Msg
    <3>4. QED  BY <2>2, <3>3 DEF Known
  <2>4. \A n \in 1..Len(toS') : n + 1 \in 1..Len(toS) /\ toS'[n] = toS[n + 1]
    BY <2>1, ReadIsFirst DEF TypeOK
  <2>5. QED  BY <2>1, <2>3, <2>4 DEF Known
<1>8. ASSUME NEW id \in Fetches \cup Socks, TaskEnds(id) PROVE FALSE
  <2> DEFINE msg == Msg(IF id \in Fetches THEN "response" ELSE "wsClosed", id)
  <2>1. msg \in FromService /\ msg.id = id
    BY DEF Msg, FromService
  <2>2. /\ id \in tasks /\ tasks' = tasks \ {id} /\ fromS' = Append(fromS, msg)
        /\ UNCHANGED <<toS, sentReports>>
    BY <1>8 DEF TaskEnds
  <2>3. PICK n \in 1..Len(fromS') : fromS'[n].id = f
    BY <2>2 DEF Known
  <2> HIDE DEF msg
  <2>4. fromS'[n] = msg \/ (n \in 1..Len(fromS) /\ fromS'[n] = fromS[n])
    BY <2>1, <2>2, SentIsLast DEF TypeOK
  <2>5. QED  BY <2>1, <2>2, <2>3, <2>4 DEF Known
<1>9. ASSUME NEW g \in Fetches, ReportProgress(g) PROVE FALSE
  <2>1. Msg("progress", g) \in FromService /\ Msg("progress", g).id = g
    BY DEF Msg, FromService
  <2>2. /\ (g \in tasks \/ sentReports[g] > 0)
        /\ sentReports' = [sentReports EXCEPT ![g] = @ + 1]
        /\ fromS' = Append(fromS, Msg("progress", g)) /\ UNCHANGED <<toS, tasks>>
    BY <1>9 DEF ReportProgress
  <2>3. f # g
    BY <2>2 DEF Known
  <2>4. sentReports'[f] = sentReports[f]
    BY <2>2, <2>3 DEF TypeOK
  <2>5. PICK n \in 1..Len(fromS') : fromS'[n].id = f
    BY <2>2, <2>4 DEF Known
  <2>6. fromS'[n] = Msg("progress", g) \/ (n \in 1..Len(fromS) /\ fromS'[n] = fromS[n])
    BY <2>1, <2>2, <2>5, SentIsLast DEF TypeOK
  <2>7. QED  BY <2>1, <2>3, <2>5, <2>6 DEF Known
<1>10. CASE ServiceDies
  <2>1. /\ toS' = <<>> /\ tasks' = {} /\ UNCHANGED sentReports
        /\ \E m \in 0..Len(fromS) : fromS' = SubSeq(fromS, 1, m)
    BY <1>10 DEF ServiceDies
  <2>2. \A n \in 1..Len(fromS') : n \in 1..Len(fromS) /\ fromS'[n] = fromS[n]
    BY <2>1 DEF TypeOK
  <2>3. QED  BY <2>1, <2>2 DEF Known
<1>11. ASSUME NEW g \in Fetches, Fetch(g) \/ Abort(g) \/ RunCallback(g)
       PROVE  SendFetch(f) /\ pc'[f] = "recheck"
  BY <1>1, <1>3, <1>4, <1>11
     DEF Fetch, Abort, CheckConnected, InsertPending, InsertProgress, Recheck, FailFetch,
         AbortProgress, RunCallback
<1>12. ASSUME NEW s \in Socks, WsOpen(s) \/ WsClose(s) PROVE FALSE
  BY <1>1, <1>5, <1>12 DEF WsOpen, WsCheck, WsInsert, WsFail
<1>13. CASE ReadEnds \/ OnNone
  BY <1>1, <1>13
     DEF ReadEnds, OnNone, SetDisconnected, ClearProgress, DrainSockets, DrainPending, FailDrained
<1>14. CASE OnMessage
  BY <1>6, <1>14 DEF OnMessage, OnResponse, OnProgress, OnWsClosed
<1>15. CASE UNCHANGED vars
  BY <1>1, <1>15 DEF vars
<1>16. QED
  BY <1>7, <1>8, <1>9, <1>10, <1>11, <1>12, <1>13, <1>14, <1>15 DEF Next, Service

(* The fetch message of a request has been sent, or refused by the link. *)
Sent(f) == pc[f] \in {"recheck", "failed", "returned"}

(* What a step does to a request while the reader still reads. *)
RequestMoves(f) ==
  /\ pc'[f] = "failed" => pc[f] \in {"failed", "send"}
  /\ pc'[f] \in {"progress", "send"} =>
       f \in pending' \/ Known(f) \/ (pc[f] \in {"progress", "send"} /\ f \notin pending)
  /\ f \in progress' => f \in progress \/ pc[f] = "progress"
  /\ f \in progress' /\ jobs'[f] + done'[f] > 0 =>
       jobs[f] + done[f] > 0 \/ pc[f] \in {"idle", "refused", "failed"}

(* A step that leaves the calls and the callbacks of a request alone. *)
LEMMA RequestRests ==
  ASSUME NEW f \in Fetches, pc'[f] = pc[f], UNCHANGED pending, progress' \subseteq progress,
         jobs'[f] + done'[f] = jobs[f] + done[f]
  PROVE  (Sent(f) => Sent(f)') /\ RequestMoves(f)
  BY DEF Sent, RequestMoves

(* Any step moves a request so, and a sent request stays sent. *)
LEMMA RequestStep ==
  ASSUME IInv, NEW f \in Fetches, [Next]_vars
  PROVE  (Sent(f) => Sent(f)') /\ (reader' = "run" => reader = "run" /\ RequestMoves(f))
<1> USE ClientAssumption
<1>1. /\ TypeOK /\ jobs[f] \in Nat /\ done[f] \in Nat
  BY DEF IInv, TypeOK
<1>2. ASSUME NEW g \in Fetches, Fetch(g) PROVE (Sent(f) => Sent(f)') /\ (reader = "run" => RequestMoves(f))
  <2> USE DEF At, Goto
  <2>1. UNCHANGED <<reader, done>>
    BY <1>2 DEF Fetch, CheckConnected, InsertPending, InsertProgress, SendFetch, Recheck, FailFetch
  <2>2. CASE CheckConnected(g)
    <3>1. /\ UNCHANGED <<pending, progress>> /\ pc[g] = "idle"
          /\ pc' = [pc EXCEPT ![g] = IF connected THEN "insert" ELSE "returned"]
      BY <2>2 DEF CheckConnected
    <3>2. f # g => pc'[f] = pc[f] /\ jobs'[f] = jobs[f]
      BY <1>1, <2>2 DEF CheckConnected, TypeOK, Queued
    <3>3. CASE f = g
      BY <1>1, <3>1, <3>3 DEF TypeOK, Sent, RequestMoves
    <3>4. CASE f # g
      BY <2>1, <3>1, <3>2, <3>4, RequestRests
    <3>5. QED  BY <3>3, <3>4
  <2>3. CASE InsertPending(g)
    <3>1. /\ UNCHANGED <<jobs, progress>> /\ pc[g] = "insert" /\ pending' = pending \cup {g}
          /\ pc' = [pc EXCEPT ![g] = "progress"]
      BY <2>3 DEF InsertPending
    <3>2. QED  BY <1>1, <2>1, <3>1 DEF TypeOK, Sent, RequestMoves
  <2>4. CASE InsertProgress(g)
    <3>1. /\ UNCHANGED <<jobs, pending>> /\ pc[g] = "progress" /\ progress' = progress \cup {g}
          /\ pc' = [pc EXCEPT ![g] = "send"]
      BY <2>4 DEF InsertProgress
    <3>2. QED  BY <1>1, <2>1, <3>1 DEF TypeOK, Sent, RequestMoves
  <2>5. CASE SendFetch(g)
    <3>1. /\ UNCHANGED <<jobs, pending, progress>> /\ pc[g] = "send"
          /\ \E l \in {"refused", "recheck", "failed"} : pc' = [pc EXCEPT ![g] = l]
      BY <2>5 DEF SendFetch
    <3>2. QED  BY <1>1, <2>1, <3>1 DEF TypeOK, Sent, RequestMoves
  <2>6. CASE Recheck(g)
    <3>1. /\ UNCHANGED <<jobs, pending, progress>> /\ pc[g] = "recheck"
          /\ pc' = [pc EXCEPT ![g] = IF connected THEN "returned" ELSE "failed"]
      BY <2>6 DEF Recheck
    <3>2. reader = "run" => connected
      BY DEF IInv, ConnectedFollowsReader
    <3>3. QED  BY <1>1, <2>1, <3>1, <3>2 DEF TypeOK, Sent, RequestMoves
  <2>7. CASE FailFetch(g)
    <3>1. /\ pc[g] \in {"refused", "failed"} /\ pending' = pending \ {g}
          /\ progress' \subseteq progress /\ pc' = [pc EXCEPT ![g] = "returned"]
      BY <2>7 DEF FailFetch
    <3>2. f # g => pc'[f] = pc[f] /\ jobs'[f] = jobs[f]
      BY <1>1, <2>7 DEF FailFetch, TypeOK, Queued
    <3>3. QED  BY <1>1, <2>1, <3>1, <3>2 DEF TypeOK, Sent, RequestMoves
  <2>8. QED  BY <1>2, <2>2, <2>3, <2>4, <2>5, <2>6, <2>7 DEF Fetch
<1>3. ASSUME NEW g \in Fetches, Abort(g) PROVE (Sent(f) => Sent(f)') /\ RequestMoves(f)
  <2>1. /\ UNCHANGED <<pc, jobs, done>> /\ progress' \subseteq progress
        /\ UNCHANGED pending \/ (pending' = pending \ {g} /\ aborting[g] = "half")
    BY <1>3 DEF Abort, AbortProgress, AbortPending
  <2>2. aborting[g] = "half" => pc[g] = "returned"
    BY DEF IInv, AbortAfterReturn
  <2>3. QED  BY <2>1, <2>2 DEF Sent, RequestMoves
<1>4. ASSUME NEW g \in Fetches, RunCallback(g) PROVE (Sent(f) => Sent(f)') /\ RequestMoves(f)
  <2>1. UNCHANGED <<pc, pending, progress>>
    BY <1>4 DEF RunCallback
  <2>2. jobs'[f] + done'[f] = jobs[f] + done[f]
    BY <1>1, <1>4 DEF RunCallback, TypeOK
  <2>3. QED  BY <2>1, <2>2, RequestRests
<1>5. ASSUME NEW s \in Socks, WsOpen(s) \/ WsClose(s) PROVE (Sent(f) => Sent(f)') /\ RequestMoves(f)
  <2>1. /\ UNCHANGED <<jobs, done, pending, progress>>
        /\ \E l : pc' = [pc EXCEPT ![s] = l]
    BY <1>5 DEF WsOpen, WsCheck, WsInsert, WsSend, WsFail, WsClose, Goto
  <2>2. f # s
    OBVIOUS
  <2>3. pc'[f] = pc[f]
    BY <1>1, <2>1, <2>2 DEF TypeOK
  <2>4. QED  BY <2>1, <2>3, RequestRests
<1>6. ASSUME OnResponse PROVE (Sent(f) => Sent(f)') /\ RequestMoves(f)
  <2>1. /\ UNCHANGED <<pc, done>> /\ fromS # <<>>
        /\ pending' = pending \ {Head(fromS).id} /\ progress' = progress \ {Head(fromS).id}
    BY <1>6 DEF OnResponse, Deliver
  <2>2. f # Head(fromS).id => jobs'[f] = jobs[f]
    BY <1>1, <1>6 DEF OnResponse, TypeOK, Queued
  <2>3. f = Head(fromS).id => Known(f)
    BY <1>1, <2>1, ReadIsFirst DEF TypeOK, Known
  <2>4. CASE f = Head(fromS).id
    <3>1. f \notin progress' /\ pc'[f] = pc[f] /\ Known(f)
      BY <2>1, <2>3, <2>4
    <3>2. QED  BY <3>1 DEF Sent, RequestMoves
  <2>5. CASE f # Head(fromS).id
    <3>1. /\ pc'[f] = pc[f] /\ jobs'[f] = jobs[f] /\ done'[f] = done[f]
          /\ f \in pending' <=> f \in pending
          /\ f \in progress' => f \in progress
      BY <2>1, <2>2, <2>5
    <3>2. QED  BY <3>1 DEF Sent, RequestMoves
  <2>6. QED  BY <2>4, <2>5
<1>7. ASSUME OnProgress \/ OnWsClosed \/ ReadEnds \/ Service \/ UNCHANGED vars
      PROVE  (Sent(f) => Sent(f)') /\ RequestMoves(f)
  <2>1. UNCHANGED <<pc, jobs, done, pending, progress>>
    BY <1>7 DEF OnProgress, OnWsClosed, Deliver, ReadEnds, Service, HandleMessage, ServiceDies,
                TaskEnds, ReportProgress, vars, clientVars
  <2>2. /\ pc'[f] = pc[f] /\ UNCHANGED pending /\ progress' \subseteq progress
        /\ jobs'[f] + done'[f] = jobs[f] + done[f]
    BY <2>1
  <2>3. QED  BY <2>2, RequestRests
<1>8. CASE OnNone
  <2>1. UNCHANGED pc /\ reader' # "run"
    BY <1>8 DEF OnNone, SetDisconnected, ClearProgress, DrainSockets, DrainPending, FailDrained
  <2>2. QED  BY <2>1 DEF Sent
<1>9. reader' = "run" => reader = "run"
  BY DEF Next, Fetch, CheckConnected, InsertPending, InsertProgress, SendFetch, Recheck, FailFetch,
         Abort, AbortProgress, AbortPending, RunCallback, WsOpen, WsCheck, WsInsert, WsSend, WsFail,
         WsClose, OnMessage, OnResponse, OnProgress, OnWsClosed, Deliver, ReadEnds, OnNone,
         SetDisconnected, ClearProgress, DrainSockets, DrainPending, FailDrained, Service,
         HandleMessage, ServiceDies, TaskEnds, ReportProgress, vars, clientVars
<1>10. QED
  BY <1>2, <1>3, <1>4, <1>5, <1>6, <1>7, <1>8, <1>9 DEF Next, OnMessage

(* At first the service knows no request. *)
LEMMA PInvInit == Init => PInv
  BY EmptySeq DEF Init, PInv, KnownAfterSend, UnsentFails, RegisteredUntilSent, AnsweredUnheard, Known

(* Every step keeps what ties the service's knowledge to the calls. *)
LEMMA PInvStep ==
  ASSUME IInv, PInv, [Next]_vars
  PROVE  PInv'
<1>1. TypeOK /\ KnownAfterSend /\ UnsentFails /\ RegisteredUntilSent /\ AnsweredUnheard
  BY DEF PInv, IInv
<1>2. KnownAfterSend'
  <2> SUFFICES ASSUME NEW f \in Fetches, Known(f)' PROVE Sent(f)'
    BY DEF KnownAfterSend, Sent
  <2>1. CASE Known(f)
    BY <1>1, <2>1, RequestStep DEF KnownAfterSend, Sent
  <2>2. CASE ~Known(f)
    BY <1>1, <2>2, KnownBySend DEF Sent
  <2>3. QED  BY <2>1, <2>2
<1>3. UnsentFails'
  <2> SUFFICES ASSUME reader' = "run", NEW f \in Fetches, pc'[f] = "failed", Known(f)' PROVE FALSE
    BY DEF UnsentFails
  <2>1. reader = "run" /\ RequestMoves(f)
    BY RequestStep
  <2>2. Known(f)
    BY <1>1, KnownBySend
  <2>3. pc[f] \in {"failed", "send"}
    BY <2>1 DEF RequestMoves
  <2>4. QED  BY <1>1, <2>1, <2>2, <2>3 DEF KnownAfterSend, UnsentFails
<1>4. RegisteredUntilSent'
  <2> SUFFICES ASSUME reader' = "run", NEW f \in Fetches, pc'[f] \in {"progress", "send"}
               PROVE  f \in pending'
    BY DEF RegisteredUntilSent
  <2>1. reader = "run" /\ RequestMoves(f)
    BY RequestStep
  <2>2. ~Known(f)
    BY <1>1, RequestStep DEF KnownAfterSend, Sent
  <2>3. QED  BY <1>1, <2>1, <2>2 DEF RequestMoves, RegisteredUntilSent
<1>5. AnsweredUnheard'
  <2> SUFFICES ASSUME reader' = "run", NEW f \in progress', jobs'[f] + done'[f] > 0, Known(f)' PROVE FALSE
    BY DEF AnsweredUnheard
  <2>1. f \in Fetches
    BY TypeStep DEF IInv, TypeOK
  <2>2. reader = "run" /\ RequestMoves(f)
    BY <2>1, RequestStep
  <2>3. CASE Known(f)
    <3>1. f \in progress
      BY <1>1, <2>1, <2>2, <2>3 DEF RequestMoves, KnownAfterSend
    <3>2. jobs[f] + done[f] > 0
      BY <1>1, <2>1, <2>2, <2>3 DEF RequestMoves, KnownAfterSend, UnsentFails
    <3>3. QED  BY <1>1, <2>2, <2>3, <3>1, <3>2 DEF AnsweredUnheard
  <2>4. CASE ~Known(f)
    <3>1. pc[f] = "send" /\ UNCHANGED <<jobs, done>>
      BY <1>1, <2>1, <2>4, KnownBySend DEF SendFetch, At
    <3>2. f \in pending /\ Holders(f) = 1
      BY <1>1, <2>1, <2>2, <3>1 DEF RegisteredUntilSent, IInv, OnePlace, Unregistered
    <3>3. jobs[f] \in Nat /\ done[f] \in Nat
      BY <1>1, <2>1 DEF TypeOK
    <3>4. QED  BY <3>1, <3>2, <3>3 DEF Holders
  <2>5. QED  BY <2>3, <2>4
<1>6. QED  BY <1>2, <1>3, <1>4, <1>5 DEF PInv

(* So both hold in every state of the specification. *)
LEMMA PInvAlways == Spec => [](IInv /\ PInv)
<1>1. Init => IInv /\ PInv
  BY IInvInit, PInvInit
<1>2. IInv /\ PInv /\ [Next]_vars => (IInv /\ PInv)'
  BY IInvStep, PInvStep
<1>3. QED  BY <1>1, <1>2, PTL DEF Spec

(* fetch_with_progress: on_progress is never called once on_done has been,
   whatever the service still sends after its response and however the sends,
   the disconnect and abort cross it. *)
THEOREM NoProgressAfterDone == Spec => ProgressBeforeDone
<1>1. ASSUME IInv, PInv, [Next]_vars, NEW f \in Fetches, reports'[f] # reports[f]
      PROVE  done[f] = 0
  <2>1. OnProgress
    BY <1>1 DEF Next, Fetch, CheckConnected, InsertPending, InsertProgress, SendFetch, Recheck, FailFetch,
         Abort, AbortProgress, AbortPending, RunCallback, WsOpen, WsCheck, WsInsert, WsSend, WsFail,
         WsClose, OnMessage, OnResponse, OnWsClosed, ReadEnds, OnNone,
         SetDisconnected, ClearProgress, DrainSockets, DrainPending, FailDrained, Service,
         HandleMessage, ServiceDies, TaskEnds, ReportProgress, vars, clientVars
  <2>2. /\ reader = "run" /\ fromS # <<>> /\ Head(fromS).id \in progress
        /\ reports' = [reports EXCEPT ![Head(fromS).id] = @ + 1]
    BY <1>1, <2>1 DEF OnProgress, Deliver
  <2>3. f = Head(fromS).id
    BY <1>1, <2>2 DEF IInv, TypeOK
  <2>4. Known(f)
    BY <1>1, <2>2, <2>3, ReadIsFirst DEF IInv, TypeOK, Known
  <2>5. ~(jobs[f] + done[f] > 0)
    BY <1>1, <2>2, <2>3, <2>4 DEF PInv, AnsweredUnheard
  <2>6. jobs[f] \in Nat /\ done[f] \in Nat
    BY <1>1 DEF IInv, TypeOK
  <2>7. QED  BY <2>5, <2>6
<1>2. IInv /\ PInv /\ [Next]_vars => [\A f \in Fetches : reports'[f] # reports[f] => done[f] = 0]_vars
  BY <1>1
<1>3. QED  BY <1>2, PInvAlways, PTL DEF Spec, ProgressBeforeDone

=============================================================================
