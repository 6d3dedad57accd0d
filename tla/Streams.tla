------------------------------- MODULE Streams -------------------------------
(***************************************************************************)
(* ReadableStream (crates/script/js/40_webapi.js): the stream "s" with an  *)
(* underlying source that numbers its chunks, and the branches "a" and "b" *)
(* that tee() or, for "a" alone, pipeThrough() make of it.  Promises are   *)
(* settled in the step that resolves them; who awaits one goes on later.   *)
(***************************************************************************)
EXTENDS Integers, Sequences, SequencesExt, FiniteSets

CONSTANTS
  HighWater,   \* the strategy's highWaterMark
  MaxChunks,   \* the source closes or fails after so many chunks
  MaxReads     \* bound on the reads of the page on each stream

Streams == {"s", "a", "b"}
(* What a read gives: the number of a chunk, or one of these.              *)
Waiting == 0
Ended == -1
Failed == -2
Off == -3
Ready == -4

VARIABLES
  mode,     \* what becomes of "s": "read", "tee" or "pipe"
  st,       \* the streams: [queue, state, waiting, pulling, owner]
  made,     \* chunks the source has made
  reads,    \* stream -> what its reads of the page gave, in order
  pump,     \* the loop of tee() and pipeTo(): Off, Ready, or what its read gave
  dropped   \* streams that were cancelled or have failed

streamVars == <<mode, st, made, reads, pump, dropped>>

NewStream == [queue |-> << >>, state |-> "readable", waiting |-> << >>, pulling |-> FALSE, owner |-> "none"]

Init ==
  /\ mode \in {"read", "tee", "pipe"}
  /\ st = [x \in Streams |-> NewStream]
  /\ made = 0 /\ dropped = {}
  /\ reads = [x \in Streams |-> << >>]
  /\ pump = IF mode = "read" THEN Off ELSE Ready

-----------------------------------------------------------------------------
(* w = [st, reads, pump]: resolving a waiting read gives its result to     *)
(* whoever asked, the page (its n-th read) or the pump (0).                *)
State == [st |-> st, reads |-> reads, pump |-> pump]
Becomes(w) == st' = w.st /\ reads' = w.reads /\ pump' = w.pump

Resolve(w, x, reader, v) == IF reader = 0 THEN [w EXCEPT !.pump = v] ELSE [w EXCEPT !.reads[x][reader] = v]
ResolveAll(w, x, v) ==
  LET Give(acc, reader) == Resolve(acc, x, reader, v)
  IN  [FoldLeft(Give, w, w.st[x].waiting) EXCEPT !.st[x].waiting = << >>]

RsEnqueue(w, x, chunk) ==
  IF w.st[x].state # "readable" THEN w
  ELSE IF w.st[x].waiting = << >> THEN [w EXCEPT !.st[x].queue = Append(@, chunk)]
  ELSE Resolve([w EXCEPT !.st[x].waiting = Tail(@)], x, Head(w.st[x].waiting), chunk)

\* mutant of RsClose
RsCloseLeavesReads(w, x) ==
  IF w.st[x].state = "readable" THEN [w EXCEPT !.st[x].state = "closed"] ELSE w

RsClose(w, x) ==
  IF w.st[x].state # "readable" THEN w
  ELSE LET closed == [w EXCEPT !.st[x].state = "closed"]
       IN  IF w.st[x].queue = << >> THEN ResolveAll(closed, x, Ended) ELSE closed

RsError(w, x) ==
  IF w.st[x].state # "readable" THEN w
  ELSE ResolveAll([w EXCEPT !.st[x].state = "errored", !.st[x].queue = << >>], x, Failed)

\* mutant of WantsPull
WantsPullAlways(q) == TRUE
WantsPull(q) == Len(q.queue) < HighWater \/ q.waiting # << >>

(* #pull(): the source is asked for more; only "s" has one that is.        *)
Pull(w, x) ==
  IF x = "s" /\ ~w.st[x].pulling /\ w.st[x].state = "readable" /\ WantsPull(w.st[x])
  THEN [w EXCEPT !.st[x].pulling = TRUE] ELSE w

\* mutant of HasChunk
HasChunkOpen(q) == q.queue # << >> /\ q.state = "readable"
HasChunk(q) == q.queue # << >>

RsRead(w, x, reader) ==
  LET q == w.st[x]
  IN  IF HasChunk(q)
      THEN Pull(Resolve([w EXCEPT !.st[x].queue = Tail(@)], x, reader, Head(q.queue)), x)
      ELSE CASE q.state = "closed" -> Resolve(w, x, reader, Ended)
             [] q.state = "errored" -> Resolve(w, x, reader, Failed)
             [] OTHER -> Pull([w EXCEPT !.st[x].waiting = Append(@, reader)], x)

-----------------------------------------------------------------------------
(* The page reads a stream that it holds the lock of, or takes the lock.   *)
Shown(x) == CASE mode = "read" -> x = "s" [] mode = "tee" -> x # "s" [] OTHER -> x = "a"

GetReader(x) ==
  /\ Shown(x) /\ st[x].owner = "none"
  /\ st' = [st EXCEPT ![x].owner = "page"]
  /\ UNCHANGED <<mode, made, reads, pump, dropped>>

ReleaseLock(x) ==
  /\ st[x].owner = "page"
  /\ st' = [st EXCEPT ![x].owner = "none"]
  /\ UNCHANGED <<mode, made, reads, pump, dropped>>

Read(x) ==
  /\ st[x].owner = "page" /\ Len(reads[x]) < MaxReads
  /\ Becomes(RsRead([State EXCEPT !.reads[x] = Append(@, Waiting)], x, Len(reads[x]) + 1))
  /\ UNCHANGED <<mode, made, dropped>>

Cancel(x) ==
  /\ Shown(x) /\ dropped' = dropped \union {x}
  /\ Becomes(RsClose([State EXCEPT !.st[x].queue = << >>], x))
  /\ UNCHANGED <<mode, made>>

-----------------------------------------------------------------------------
(* The source: start() is done; while it is pulled it makes a chunk,       *)
(* closes or fails, and then its promise is resolved.                      *)
Started ==
  /\ made = 0 /\ ~st["s"].pulling
  /\ Becomes(Pull(State, "s")) /\ UNCHANGED <<mode, made, dropped>>

\* mutant of PullAgain
PullAgainNever(w) == w
PullAgain(w) == Pull(w, "s")
Pulled(w) == [w EXCEPT !.st["s"].pulling = FALSE]

MakeChunk ==
  /\ st["s"].pulling /\ made < MaxChunks
  /\ made' = made + 1
  /\ Becomes(PullAgain(Pulled(RsEnqueue(State, "s", made + 1))))
  /\ UNCHANGED <<mode, dropped>>

SourceCloses ==
  /\ st["s"].pulling
  /\ Becomes(Pulled(RsClose(State, "s")))
  /\ UNCHANGED <<mode, made, dropped>>

SourceFails ==
  /\ st["s"].pulling
  /\ Becomes(Pulled(RsError(State, "s")))
  /\ dropped' = dropped \union {"s"}
  /\ UNCHANGED <<mode, made>>

-----------------------------------------------------------------------------
(* tee() and pipeTo(): read "s" again and again and hand the chunks on.    *)
Branches == IF mode = "tee" THEN {"a", "b"} ELSE {"a"}

PumpReads ==
  /\ pump = Ready
  /\ Becomes(RsRead([State EXCEPT !.pump = Waiting], "s", 0))
  /\ UNCHANGED <<mode, made, dropped>>

(* tee() goes on without a branch that no longer takes chunks; in pipeTo() *)
(* the write throws, and its loop ends.                                    *)
Each(x) == SetToSeq(x)
WriteThrows == mode = "pipe" /\ st["a"].state # "readable"
PumpChunk ==
  /\ pump > 0
  /\ LET Hand(w, x) == RsEnqueue(w, x, pump)
     IN  Becomes([FoldLeft(Hand, State, Each(Branches)) EXCEPT !.pump = IF WriteThrows THEN Off ELSE Ready])
  /\ UNCHANGED <<mode, made, dropped>>

PumpDone ==
  /\ pump = Ended
  /\ Becomes([FoldLeft(RsClose, State, Each(Branches)) EXCEPT !.pump = Off])
  /\ UNCHANGED <<mode, made, dropped>>

(* tee() passes an error on; pipeTo() only rejects its own promise.        *)
PumpFails ==
  /\ pump = Failed
  /\ Becomes([IF mode = "tee" THEN FoldLeft(RsError, State, Each(Branches)) ELSE State EXCEPT !.pump = Off])
  /\ dropped' = dropped \union Branches
  /\ UNCHANGED <<mode, made>>

Page == \E x \in Streams : GetReader(x) \/ ReleaseLock(x) \/ Read(x) \/ Cancel(x)
Source == Started \/ MakeChunk \/ SourceCloses \/ SourceFails
Pump == PumpReads \/ PumpChunk \/ PumpDone \/ PumpFails
Next == Page \/ Source \/ Pump

Spec == Init /\ [][Next]_streamVars
(* A source that is pulled makes a chunk, closes or fails; promises settle. *)
FairSpec == Spec /\ WF_streamVars(Source) /\ WF_streamVars(Pump)

-----------------------------------------------------------------------------
(* The chunks reach the reads in order, each once and with no gap, on "s"  *)
(* and on both branches, also when the lock changes hands between reads,   *)
(* and "done" comes only after the last one.                               *)
ChunksInOrder ==
  \A x \in Streams \ dropped :
    LET r == reads[x]
    IN  \A n \in 1..Len(r) : /\ r[n] > 0 => r[n] = n
                             /\ r[n] = Waiting => \A m \in n..Len(r) : r[m] = Waiting
                             /\ r[n] = Ended => n > made

(* The source is not asked for more than the queue should hold.            *)
Backpressure == Len(st["s"].queue) <= HighWater

(* Nobody waits for a chunk that is there, or for a stream that has ended. *)
NobodyWaitsInVain ==
  \A x \in Streams : st[x].waiting # << >> => st[x].queue = << >> /\ st[x].state = "readable"

(* Every read is answered; behind a pipe only if the source does not fail. *)
AllSettled ==
  \A x \in Streams : \A n \in 1..Len(reads[x]) : reads[x][n] # Waiting \/ (mode = "pipe" /\ "s" \in dropped)
=============================================================================
