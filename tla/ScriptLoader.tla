----------------------------- MODULE ScriptLoader -----------------------------
(***************************************************************************)
(* When the scripts of a page run (crates/script/js/90_bootstrap.js).  The *)
(* document is parsed as a whole; what a browser's parser would do between *)
(* scripts is done by queues: parser-blocking, deferred and async scripts, *)
(* scripts that others insert, and scripts of document.write(), which come *)
(* before everything that was parsed after their writer.  stack holds the  *)
(* scripts that run, the innermost last; while it is not empty nothing     *)
(* else happens.                                                           *)
(***************************************************************************)
EXTENDS Naturals, Sequences, SequencesExt, FiniteSets

CONSTANT
  Pages   \* records: scripts, the kinds of those in the markup; writes and
          \* inserts, the kinds of those that running code may add; more, how
          \* many; events, bound on event handlers and document.open()

VARIABLES
  page,        \* which of them
  kind,        \* of the scripts that exist, in the order they came
  fetch,       \* script -> "pending", "ready" or "error"
  parserQueue, deferQueue, endQueue, asyncWaiting, ordered,
  evaluating,  \* modules under evaluation
  stack,       \* the scripts and handlers that run: [id, why]
  arrived,     \* the script whose fetch has just ended, or 0
  tasks,       \* posted tasks: numbers of async scripts, 0 for the load event
  pumps, deferTimers, endTimers,   \* timers that are set
  parsed, deferredDone, deferRunning, dclFired, loadQueued, loaded, reopened,
  asyncPending, counted, writtenQueued,
  place,       \* parser-inserted scripts without async or defer, as written
  point,       \* how many of them are before the insertion point
  ran, dropped, events

queues == <<parserQueue, deferQueue, endQueue, asyncWaiting, ordered>>
flags == <<parsed, deferredDone, deferRunning, dclFired, reopened>>
counts == <<asyncPending, counted>>
order == <<place, point>>
loaderVars == <<page, kind, fetch, queues, evaluating, stack, arrived, tasks, pumps, deferTimers, endTimers, flags, loadQueued, loaded,
                counts, writtenQueued, order, ran, dropped, events>>

Scripts == DOMAIN kind
Fetched(k) == k \in {"blocking", "async", "defer", "dynamic async", "dynamic ordered"}
Deferring == {"defer", "module"}
Initially(k) == IF Fetched(k) THEN "pending" ELSE "ready"
OfKind(doc, ks) == SelectSeq([i \in 1..Len(doc) |-> i], LAMBDA i : doc[i] \in ks)
Parsed(s) == s <= Len(page.scripts)
Idle == stack = << >> /\ arrived = 0

(* onDocumentParsed(): every script gets its queue; the parser starts.  An *)
(* async module that comes before all that block it is evaluated at once.  *)
EarlyModule(doc, i) == doc[i] = "async module" /\ \A j \in 1..i : doc[j] \notin {"inline", "blocking"}
Init ==
  /\ page \in Pages /\ kind = page.scripts
  /\ fetch = [s \in DOMAIN kind |-> Initially(kind[s])]
  /\ parserQueue = OfKind(kind, {"inline", "blocking"})
  /\ deferQueue = OfKind(kind, Deferring)
  /\ asyncPending = Len(OfKind(kind, {"async", "async module"}))
  /\ ran = SelectSeq(OfKind(kind, {"async module"}), LAMBDA s : EarlyModule(kind, s))
  /\ evaluating = Range(ran)
  /\ asyncWaiting = SelectSeq(OfKind(kind, {"async module"}), LAMBDA s : ~EarlyModule(kind, s))
  /\ place = parserQueue /\ point = 0
  /\ endQueue = << >> /\ ordered = << >> /\ tasks = << >> /\ stack = << >>
  /\ counted = {} /\ dropped = {}
  /\ arrived = 0 /\ pumps = 1 /\ deferTimers = 0 /\ endTimers = 0 /\ writtenQueued = 0 /\ events = 0
  /\ parsed = FALSE /\ deferredDone = FALSE /\ deferRunning = FALSE /\ dclFired = FALSE
  /\ loadQueued = FALSE /\ loaded = FALSE /\ reopened = FALSE

-----------------------------------------------------------------------------
(* Pieces of the actions.                                                  *)
Entry(s, why) == [id |-> s, why |-> why]
BeginOn(below, s, why) == stack' = Append(below, Entry(s, why)) /\ ran' = Append(ran, s)
Begin(s, why) == BeginOn(stack, s, why)
Evaluate(s, others) == evaluating' = others \union {s} /\ ran' = Append(ran, s)

\* mutant of MayFireLoad
MayFireLoadAnyQueue(dcl, pending, queue) == ~loadQueued /\ dcl /\ pending = 0
MayFireLoad(dcl, pending, queue) == ~loadQueued /\ dcl /\ pending = 0 /\ queue = << >>
MaybeFireLoad(posted, dcl, pending, queue) ==
  IF MayFireLoad(dcl, pending, queue)
  THEN loadQueued' = TRUE /\ tasks' = Append(posted, 0)
  ELSE UNCHANGED loadQueued /\ tasks' = posted

AsyncMayRun(s, finished, queue) ==
  ~Parsed(s) \/ finished \/ queue = << >> \/ (Parsed(Head(queue)) /\ Head(queue) > s)
Release(finished, queue) ==
  /\ asyncWaiting' = SelectSeq(asyncWaiting, LAMBDA s : ~AsyncMayRun(s, finished, queue))
  /\ tasks' = tasks \o SelectSeq(asyncWaiting, LAMBDA s : AsyncMayRun(s, finished, queue))

DeferWaits(s) == kind[s] # "module" /\ fetch[s] = "pending"

(* runDeferred(): one deferred script, or the handlers of DOMContentLoaded, *)
(* after which maybeFireLoad() is called.                                  *)
DeferStep(posted, more) ==
  IF deferredDone \/ deferRunning \/ (deferQueue # << >> /\ DeferWaits(Head(deferQueue)))
  THEN /\ tasks' = posted /\ deferTimers' = more
       /\ UNCHANGED <<deferQueue, deferRunning, deferredDone, dclFired, loadQueued, stack, ran, evaluating>>
  ELSE IF deferQueue = << >>
  THEN /\ deferredDone' = TRUE /\ dclFired' = TRUE /\ deferTimers' = more /\ tasks' = posted
       /\ stack' = Append(stack, Entry(0, "DOMContentLoaded"))
       /\ UNCHANGED <<deferQueue, deferRunning, loadQueued, ran, evaluating>>
  ELSE LET s == Head(deferQueue)
       IN  /\ deferQueue' = Tail(deferQueue) /\ tasks' = posted
           /\ UNCHANGED <<deferredDone, dclFired, loadQueued>>
           /\ IF kind[s] = "module"
              THEN deferRunning' = TRUE /\ Evaluate(s, evaluating) /\ deferTimers' = more /\ UNCHANGED stack
              ELSE Begin(s, "defer") /\ deferTimers' = more + 1 /\ UNCHANGED <<deferRunning, evaluating>>

(* runEndQueue(), up to its next script; below is the stack without the    *)
(* last one, others the modules that are still under evaluation.           *)
EndStep(below, queue, open, others) ==
  LET busy == \E m \in others : kind[m] = "end module"
      s == Head(endQueue)
  IN  IF open \/ queue # << >> \/ endQueue = << >> \/ busy \/ fetch[s] = "pending"
      THEN stack' = below /\ evaluating' = others /\ UNCHANGED <<endQueue, ran>>
      ELSE /\ endQueue' = Tail(endQueue)
           /\ IF kind[s] = "end module" THEN Evaluate(s, others) /\ stack' = below
              ELSE BeginOn(below, s, "end") /\ evaluating' = others

-----------------------------------------------------------------------------
(* The parser: pumpParser() and finishParsing().                           *)
Behind == 0   \* what the next script writes comes before the rest

Pump ==
  /\ parserQueue # << >> /\ fetch[Head(parserQueue)] # "pending"
  /\ parserQueue' = Tail(parserQueue)
  /\ writtenQueued' = Behind
  /\ Release(parsed, Tail(parserQueue))
  /\ Begin(Head(parserQueue), "parser")
  /\ point' = SelectInSeq(place, LAMBDA x : x = Head(parserQueue))
  /\ UNCHANGED <<deferQueue, endQueue, evaluating, deferTimers, flags, loadQueued>>

PumpWaits ==
  /\ parserQueue # << >> /\ fetch[Head(parserQueue)] = "pending"
  /\ UNCHANGED <<parserQueue, deferQueue, endQueue, asyncWaiting, evaluating, stack, tasks, deferTimers, flags, loadQueued,
                 writtenQueued, point, ran>>

FinishParsing ==
  /\ parserQueue = << >> /\ ~parsed
  /\ parsed' = TRUE
  /\ asyncWaiting' = << >>
  /\ DeferStep(tasks \o asyncWaiting, deferTimers)
  /\ UNCHANGED <<parserQueue, endQueue, reopened, writtenQueued, point>>

ParserIdle ==
  /\ parserQueue = << >> /\ parsed
  /\ EndStep(stack, parserQueue, reopened, evaluating)
  /\ MaybeFireLoad(tasks, dclFired, asyncPending, parserQueue)
  /\ UNCHANGED <<parserQueue, deferQueue, asyncWaiting, deferTimers, flags, writtenQueued, point>>

PumpParser(more) ==
  /\ \/ Pump /\ pumps' = more + 1   \* the next parser step has a timer of its own
     \/ (PumpWaits \/ FinishParsing \/ ParserIdle) /\ pumps' = more
  /\ UNCHANGED <<kind, fetch, ordered, endTimers, loaded, counts, place, dropped, events>>

PumpTimer == Idle /\ pumps > 0 /\ PumpParser(pumps - 1) /\ UNCHANGED arrived

Deferred(more) ==
  /\ DeferStep(tasks, more)
  /\ UNCHANGED <<kind, fetch, parserQueue, endQueue, asyncWaiting, ordered, pumps, endTimers, parsed, reopened, loaded,
                 counts, writtenQueued, order, dropped, events>>
DeferTimer == Idle /\ deferTimers > 0 /\ Deferred(deferTimers - 1) /\ UNCHANGED arrived

Ending(below, open, others) ==
  /\ EndStep(below, parserQueue, open, others)
  /\ UNCHANGED <<kind, fetch, parserQueue, deferQueue, asyncWaiting, ordered, tasks, pumps, deferTimers, loadQueued, loaded,
                 parsed, deferredDone, deferRunning, dclFired, counts, writtenQueued, order, dropped, events>>
EndTimer == Idle /\ endTimers > 0 /\ endTimers' = endTimers - 1 /\ Ending(stack, reopened, evaluating) /\ UNCHANGED <<arrived, reopened>>

-----------------------------------------------------------------------------
(* A fetch ends, well or not; then its callback runs.                      *)
Arrive(s, result) ==
  /\ Idle /\ fetch[s] = "pending"
  /\ fetch' = [fetch EXCEPT ![s] = result]
  /\ arrived' = s
  /\ UNCHANGED <<kind, queues, evaluating, stack, tasks, pumps, deferTimers, endTimers, flags, loadQueued, loaded, counts,
                 writtenQueued, order, ran, dropped, events>>

Answered == stack = << >> /\ arrived # 0 /\ arrived' = 0
Rest == UNCHANGED <<kind, fetch, parserQueue, deferQueue, endQueue, evaluating, tasks, pumps, deferTimers, endTimers, flags,
                    loadQueued, loaded, counted, writtenQueued, order, dropped, events>>

AsyncFetched ==
  /\ Answered /\ kind[arrived] = "async"
  /\ IF AsyncMayRun(arrived, parsed, parserQueue)
     THEN Begin(arrived, "async") /\ asyncPending' = asyncPending - 1 /\ UNCHANGED asyncWaiting
     ELSE asyncWaiting' = Append(asyncWaiting, arrived) /\ UNCHANGED <<stack, ran, asyncPending>>
  /\ UNCHANGED ordered /\ Rest

DynamicFetched ==
  /\ Answered /\ kind[arrived] \in {"dynamic async", "dynamic ordered"}
  /\ IF kind[arrived] = "dynamic async" THEN Begin(arrived, "async") /\ UNCHANGED ordered
     ELSE IF Head(ordered) = arrived THEN Begin(arrived, "ordered") /\ ordered' = Tail(ordered)
     ELSE UNCHANGED <<stack, ran, ordered>>
  /\ UNCHANGED <<asyncWaiting, asyncPending>> /\ Rest

(* onScriptFetched()                                                       *)
QueueFetched ==
  /\ Answered /\ kind[arrived] \in {"blocking", "defer"}
  /\ IF parserQueue # << >> /\ Head(parserQueue) = arrived THEN PumpParser(pumps)
     ELSE IF parsed /\ deferQueue # << >> /\ Head(deferQueue) = arrived THEN Deferred(deferTimers) /\ UNCHANGED <<parsed, endTimers>>
     ELSE IF endQueue # << >> /\ Head(endQueue) = arrived THEN Ending(stack, reopened, evaluating) /\ UNCHANGED <<endTimers, reopened>>
     ELSE UNCHANGED <<asyncWaiting, ordered, stack, ran, asyncPending>> /\ Rest

(* A module has been evaluated: a deferred one, the last one of a written  *)
(* document, or one that delays the load event.                            *)
ModuleDone(s) ==
  /\ Idle /\ s \in evaluating
  /\ IF kind[s] = "end module" THEN EndStep(stack, parserQueue, reopened, evaluating \ {s})
     ELSE evaluating' = evaluating \ {s} /\ UNCHANGED <<stack, ran, endQueue>>
  /\ IF kind[s] = "module" THEN deferRunning' = FALSE /\ deferTimers' = deferTimers + 1
     ELSE UNCHANGED <<deferRunning, deferTimers>>
  /\ IF kind[s] = "async module" \/ s \in counted
     THEN asyncPending' = asyncPending - 1 /\ MaybeFireLoad(tasks, dclFired, asyncPending - 1, parserQueue)
     ELSE UNCHANGED <<asyncPending, loadQueued, tasks>>
  /\ UNCHANGED <<kind, fetch, parserQueue, deferQueue, asyncWaiting, ordered, arrived, pumps, endTimers, parsed, deferredDone,
                 dclFired, reopened, loaded, counted, writtenQueued, order, dropped, events>>

(* The load event, or an async script that had to wait.  The latter is no  *)
(* longer counted when it starts, a module when it has been evaluated.     *)
RunTask ==
  LET s == Head(tasks)
  IN  /\ Idle /\ tasks # << >> /\ tasks' = Tail(tasks)
      /\ CASE s = 0 -> loaded' = TRUE /\ UNCHANGED <<stack, ran, evaluating, asyncPending>>
           [] s # 0 /\ kind[s] = "async module" -> Evaluate(s, evaluating) /\ UNCHANGED <<stack, loaded, asyncPending>>
           [] OTHER -> Begin(s, "async") /\ asyncPending' = asyncPending - 1 /\ UNCHANGED <<evaluating, loaded>>
      /\ UNCHANGED <<kind, fetch, queues, arrived, pumps, deferTimers, endTimers, flags, loadQueued, counted, writtenQueued, order,
                     dropped, events>>

Event ==
  /\ Idle /\ events < page.events /\ events' = events + 1
  /\ stack' = <<[id |-> 0, why |-> "event"]>>
  /\ UNCHANGED <<kind, fetch, queues, evaluating, arrived, tasks, pumps, deferTimers, endTimers, flags, loadQueued, loaded, counts,
                 writtenQueued, order, ran, dropped>>

-----------------------------------------------------------------------------
(* What running code does.  A script that was not fetched only has its     *)
(* error event, whose handler runs as any other.                           *)
Top == Last(stack)
Why(entry) == IF entry.id # 0 /\ fetch[entry.id] = "error" THEN "event" ELSE entry.why
InParserScript == \E i \in DOMAIN stack : Why(stack[i]) \in {"parser", "nested"}
InNonBlockingScript == \E i \in DOMAIN stack : Why(stack[i]) \in {"async", "defer", "end", "ordered"}
Exists(k) == /\ stack # << >> /\ Len(kind) < Len(page.scripts) + page.more
             /\ kind' = Append(kind, IF k = "module" /\ parsed THEN "end module" ELSE k)
             /\ fetch' = Append(fetch, Initially(k))
New == Len(kind) + 1

\* mutant of Blocked
BlockedNever(atEnd, queue) == FALSE
(* An earlier script of the same parser step has yet to run.               *)
Blocked(atEnd, queue) == IF atEnd THEN queue # << >> ELSE writtenQueued # 0

(* runWrittenScripts() of one script; queue and written are what            *)
(* document.open() left.                                                   *)
RunWritten(k, atEnd, queue, written) ==
  LET at == IF atEnd THEN Len(queue) ELSE IF written < Len(queue) THEN written ELSE Len(queue)
      spot == IF atEnd THEN Len(place) ELSE point
      blocking == k = "blocking" \/ (k = "inline" /\ Blocked(atEnd, queue))
  IN  /\ IF k = "inline" /\ ~blocking THEN Begin(New, "nested") /\ UNCHANGED evaluating
         ELSE /\ UNCHANGED stack
              /\ IF k = "async module" THEN Evaluate(New, evaluating) ELSE UNCHANGED <<evaluating, ran>>
      /\ parserQueue' = IF blocking THEN SubSeq(queue, 1, at) \o <<New>> \o SubSeq(queue, at + 1, Len(queue)) ELSE queue
      /\ writtenQueued' = IF blocking /\ ~atEnd THEN written + 1 ELSE written
      /\ IF k \in {"inline", "blocking"}
         THEN place' = SubSeq(place, 1, spot) \o <<New>> \o SubSeq(place, spot + 1, Len(place)) /\ point' = spot + 1
         ELSE UNCHANGED order
      /\ asyncPending' = IF k \in {"async", "async module"} THEN asyncPending + 1 ELSE asyncPending
      /\ deferQueue' = IF k \in Deferring /\ ~parsed THEN Append(deferQueue, New) ELSE deferQueue

WriteInParser(k) ==
  /\ Exists(k) /\ (InParserScript \/ (~InNonBlockingScript /\ ~parsed))
  /\ RunWritten(k, FALSE, parserQueue, writtenQueued)
  /\ endQueue' = IF k \in Deferring /\ parsed THEN Append(endQueue, New) ELSE endQueue
  /\ UNCHANGED <<asyncWaiting, ordered, arrived, tasks, pumps, deferTimers, endTimers, flags, loadQueued, loaded,
                 counted, dropped, events>>

(* openWrittenParser(): written scripts that have not run are dropped.      *)
Reopen ==
  LET kept == SelectSeq(parserQueue, Parsed)
  IN  /\ reopened' = TRUE
      /\ dropped' = dropped \union (Range(parserQueue) \ Range(kept)) \union Range(endQueue)
      /\ MaybeFireLoad(tasks, dclFired, asyncPending, kept)

(* A write after parsing opens the document anew if nobody has.            *)
WriteAfterParsing(k) ==
  LET queue == IF reopened THEN parserQueue ELSE SelectSeq(parserQueue, Parsed)
      ended == IF reopened THEN endQueue ELSE << >>
  IN  /\ Exists(k) /\ ~InParserScript /\ ~InNonBlockingScript /\ parsed
      /\ IF reopened THEN UNCHANGED <<reopened, dropped, loadQueued, tasks>> ELSE Reopen
      /\ RunWritten(k, TRUE, queue, IF reopened THEN writtenQueued ELSE 0)
      /\ endQueue' = IF k \in Deferring THEN Append(ended, New) ELSE ended
      /\ UNCHANGED <<asyncWaiting, ordered, arrived, pumps, deferTimers, endTimers, parsed, deferredDone, deferRunning,
                     dclFired, loaded, counted, events>>

(* document.open(), also from an async script.                             *)
Open ==
  /\ stack # << >> /\ ~InParserScript /\ parsed /\ events < page.events /\ events' = events + 1
  /\ Reopen
  /\ parserQueue' = SelectSeq(parserQueue, Parsed) /\ writtenQueued' = 0 /\ endQueue' = << >>
  /\ UNCHANGED <<kind, fetch, deferQueue, asyncWaiting, ordered, evaluating, stack, arrived, pumps, deferTimers, endTimers, parsed,
                 deferredDone, deferRunning, dclFired, loaded, counts, order, ran>>

EndLater == endTimers + 1
(* document.close(): the script-created parser ends, after its script.     *)
Close ==
  /\ stack # << >> /\ reopened /\ reopened' = FALSE
  /\ IF InParserScript \/ InNonBlockingScript
     THEN endTimers' = EndLater /\ Ending(stack, TRUE, evaluating)
     ELSE Ending(stack, FALSE, evaluating) /\ UNCHANGED endTimers
  /\ UNCHANGED arrived

(* prepareDynamicScript()                                                  *)
InsertScript(k) ==
  /\ Exists(k)
  /\ IF k = "dynamic inline" THEN Begin(New, "dynamic inline") ELSE ran' = IF k = "dynamic module" THEN Append(ran, New) ELSE ran
  /\ k # "dynamic inline" => UNCHANGED stack
  /\ evaluating' = IF k = "dynamic module" THEN evaluating \union {New} ELSE evaluating
  /\ ordered' = IF k = "dynamic ordered" THEN Append(ordered, New) ELSE ordered
  /\ LET counts1 == k = "dynamic ordered" \/ (k # "dynamic inline" /\ ~loadQueued)
     IN  /\ asyncPending' = IF counts1 THEN asyncPending + 1 ELSE asyncPending
         /\ counted' = IF counts1 THEN counted \union {New} ELSE counted
  /\ UNCHANGED <<parserQueue, deferQueue, endQueue, asyncWaiting, arrived, tasks, pumps, deferTimers, endTimers, flags, loadQueued, loaded,
                 writtenQueued, order, dropped, events>>

\* mutant of Uncounts
UncountsReady(entry) == entry.why \in {"async", "ordered"} /\ entry.id \in counted /\ fetch[entry.id] = "ready"
(* An inserted script that delayed the load event delays it no more when   *)
(* it has run.                                                             *)
Uncounts(entry) == entry.why \in {"async", "ordered"} /\ entry.id \in counted
LetsLoad(entry) == \/ Uncounts(entry) \/ entry.why = "DOMContentLoaded"
                   \/ (entry.why = "async" /\ kind[entry.id] = "async")
Return ==
  LET pending == IF Uncounts(Top) THEN asyncPending - 1 ELSE asyncPending
      again == Top.why = "ordered" /\ ordered # << >> /\ fetch[Head(ordered)] # "pending"
  IN  /\ stack # << >> /\ Top.why # "end"
      /\ asyncPending' = pending
      /\ IF again THEN BeginOn(Front(stack), Head(ordered), "ordered") /\ ordered' = Tail(ordered)
         ELSE stack' = Front(stack) /\ UNCHANGED <<ran, ordered>>
      /\ IF LetsLoad(Top) /\ ~again THEN MaybeFireLoad(tasks, dclFired, pending, parserQueue) ELSE UNCHANGED <<loadQueued, tasks>>
      /\ UNCHANGED <<kind, fetch, parserQueue, deferQueue, endQueue, asyncWaiting, evaluating, arrived, pumps, deferTimers, endTimers, flags,
                     loaded, counted, writtenQueued, order, dropped, events>>
EndReturns == /\ stack # << >> /\ Top.why = "end"
              /\ Ending(Front(stack), reopened, evaluating) /\ UNCHANGED <<arrived, endTimers, reopened>>

Code == /\ \/ \E k \in page.writes : WriteInParser(k) \/ WriteAfterParsing(k)
           \/ \E k \in page.inserts : InsertScript(k)
           \/ Open \/ Close \/ Event
        /\ UNCHANGED page
Engine == /\ \/ Return \/ EndReturns \/ RunTask
             \/ AsyncFetched \/ DynamicFetched \/ QueueFetched
             \/ PumpTimer \/ DeferTimer \/ EndTimer
             \/ \E s \in Scripts : ModuleDone(s)
          /\ UNCHANGED page
Network == (\E s \in Scripts, result \in {"ready", "error"} : Arrive(s, result)) /\ UNCHANGED page
Next == Code \/ Engine \/ Network

Spec == Init /\ [][Next]_loaderVars
(* Scripts return, timers and tasks run, fetches end.                      *)
FairSpec == Spec /\ WF_loaderVars(Engine) /\ WF_loaderVars(Network)

-----------------------------------------------------------------------------
Done(s) == s \in Range(ran)
Before(s, t) == Done(t) => Done(s) /\ SelectInSeq(ran, LAMBDA x : x = s) < SelectInSeq(ran, LAMBDA x : x = t)
Blocking(s) == Parsed(s) /\ kind[s] \in {"inline", "blocking"}

(* Parser-blocking and inline scripts run in the order of the markup,      *)
(* those of document.write() right behind what was there when they were    *)
(* written (pumpParser, runWrittenScripts).                                *)
ParserOrder == \A i, j \in 1..Len(place) : i < j /\ place[i] \notin dropped => Before(place[i], place[j])

(* Deferred scripts and modules run in order after all that block the      *)
(* parser; an async script not before the parser has reached it.           *)
DeferAndAsync ==
  \A s, t \in Scripts :
    /\ Blocking(s) /\ Parsed(t) /\ kind[t] \in Deferring => Before(s, t)
    /\ Blocking(s) /\ Parsed(t) /\ kind[t] \in {"async", "async module"} /\ s < t => Before(s, t)
    /\ {kind[s], kind[t]} \subseteq Deferring /\ s < t /\ Parsed(t) => Before(s, t)

(* When the load event is posted, DOMContentLoaded has been fired, every   *)
(* script that there was has been started and every module evaluated       *)
(* (maybeFireLoad), but for those that a written document defers to its    *)
(* own end.  The script of a write that opens the document anew comes too  *)
(* late for this: openWrittenParser() calls maybeFireLoad() before it.     *)
LoadIsLast ==
  [][loadQueued' # loadQueued =>
       /\ dclFired'
       /\ Scripts \subseteq Range(ran') \union dropped' \union Range(endQueue')
       /\ \A s \in Scripts \intersect evaluating' : kind[s] = "end module"]_loaderVars

(* The page gets its load event, and every script runs or fails, unless    *)
(* document.open() drops it or document.close() is missing.                *)
LoadFires == loaded
AllRan == Scripts \subseteq Range(ran) \union dropped \/ reopened
=============================================================================
