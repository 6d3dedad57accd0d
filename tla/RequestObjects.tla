--------------------------- MODULE RequestObjects ----------------------------
(***************************************************************************)
(* One XMLHttpRequest (crates/script/js/40_webapi.js) on top of the fetch  *)
(* bookkeeping of the same file.  Its events run page code in the middle   *)
(* of send(), abort() and the completion of the request, and that code may *)
(* call open(), send() and abort() again: calls is the stack of functions  *)
(* that have begun, each with the steps it still has to do.  Requests are  *)
(* told apart by the generation that open() and abort() count.             *)
(***************************************************************************)
EXTENDS Integers, Sequences, SequencesExt, FiniteSets

CONSTANTS MaxCalls   \* bound on the calls the page makes

VARIABLES
  xState, send, gen,      \* s.state (0 UNSENT .. 4 DONE), s.send, s.gen
  async, local, listens, timed,  \* open()'s flag; data: URL; upload listeners; a timeout is set
  net,      \* pendingFetches: generations whose fetch is under way
  xTasks,    \* posted tasks that answer a data: or blob: URL
  timers,   \* armed timeout timers
  xCalls,    \* the stack of functions, the running one last
  handler,  \* an event handler of the last function's event runs
  xMade, ended, limbo

xhrVars == <<xState, send, gen, async, local, listens, timed, net, xTasks, timers, xCalls, handler, xMade, ended, limbo>>

Gens == 0..MaxCalls
Outcomes == {"load", "error", "timeout", "abort"}

XhrInit ==
  /\ xState = 0 /\ send = FALSE /\ gen = 0 /\ async = TRUE
  /\ local \in BOOLEAN /\ listens \in BOOLEAN /\ timed \in BOOLEAN
  /\ net = {} /\ xTasks = {} /\ timers = {} /\ xCalls = << >> /\ handler = FALSE
  /\ xMade = 0 /\ ended = [g \in Gens |-> << >>] /\ limbo = FALSE

config == <<local, listens, timed>>
Upload(events) == IF listens THEN events ELSE << >>
XhrFrame(g, todo) == [gen |-> g, todo |-> todo]
SendSteps == <<"loadstart">> \o Upload(<<"up loadstart">>) \o <<"fetch">>
CompleteSteps == Upload(<<"up progress", "up load", "up loadend">>)
                 \o <<"headers", "loading", "progress", "done", "load", "loadend">>
\* mutant of ErrorSteps
ErrorStepsQuiet(kind) == <<"readystatechange">> \o Upload(<<"up error", "up loadend">>) \o <<"loadend">>
ErrorSteps(kind) == <<"readystatechange">> \o Upload(<<"up error", "up loadend">>) \o <<kind, "loadend">>
AbortSteps == <<"readystatechange", "abort", "loadend", "reset">>

-----------------------------------------------------------------------------
(* Calls of the page, from its own tasks or from an event handler.         *)
Free == xCalls = << >> \/ handler
Calls(n) == Free /\ xMade < MaxCalls /\ xMade' = xMade + n
Enter(g, todo) == xCalls' = Append(xCalls, XhrFrame(g, todo)) /\ handler' = FALSE

\* mutant of Terminated
TerminatedFetchOnly == timers
(* #terminate(): the fetch is cancelled and the timer cleared; a task that *)
(* was posted for a data: URL stays.                                       *)
Terminated == {}

Open(isAsync) ==
  /\ Calls(1)
  /\ net' = {} /\ timers' = Terminated
  /\ gen' = gen + 1
  /\ async' = isAsync
  /\ send' = FALSE
  /\ xState' = 1
  /\ IF xState = 1 THEN UNCHANGED <<xCalls, handler>> ELSE Enter(gen + 1, <<"readystatechange">>)
  /\ UNCHANGED <<config, xTasks, ended, limbo>>

XhrSend ==
  /\ Calls(1) /\ xState = 1 /\ ~send /\ async
  /\ send' = TRUE
  /\ Enter(gen, SendSteps)
  /\ UNCHANGED <<xState, gen, async, config, net, xTasks, timers, ended, limbo>>

SendSync(fails) ==
  /\ Calls(1) /\ xState = 1 /\ ~send /\ ~async
  /\ xState' = 4
  /\ Enter(gen, IF fails THEN <<"readystatechange">> ELSE <<"readystatechange", "sync load", "loadend">>)
  /\ UNCHANGED <<send, gen, async, config, net, xTasks, timers, ended, limbo>>

Active == (xState = 1 /\ send) \/ xState \in {2, 3}

XhrAbort ==
  /\ Calls(1)
  /\ net' = {} /\ timers' = Terminated
  /\ gen' = gen + 1
  /\ IF Active THEN /\ xState' = 4 /\ send' = FALSE
                    /\ Enter(gen, AbortSteps)
               ELSE /\ xState' = IF xState = 4 THEN 0 ELSE xState
                    /\ UNCHANGED <<send, xCalls, handler>>
  /\ UNCHANGED <<async, config, xTasks, ended, limbo>>

-----------------------------------------------------------------------------
(* The next step of the function that runs last.                           *)
Top == Last(xCalls)
Rest == [xCalls EXCEPT ![Len(xCalls)].todo = Tail(@)]
XhrStep(s) == xCalls # << >> /\ Top.todo # << >> /\ Head(Top.todo) = s
Fire == xCalls' = Rest /\ handler' = TRUE

Return ==
  /\ xCalls # << >> /\ Top.todo = << >>
  /\ xCalls' = Front(xCalls)
  /\ handler' = (Len(xCalls) > 1)
  /\ UNCHANGED <<xState, send, gen, async, config, net, xTasks, timers, xMade, ended, limbo>>

GiveUp == xCalls' = [xCalls EXCEPT ![Len(xCalls)].todo = << >>] /\ handler' = FALSE

FireEvent ==
  /\ \E s \in {"readystatechange", "loadstart", "loadend", "net progress", "up loadstart",
               "up progress", "up load", "up loadend", "up error"} : XhrStep(s)
  /\ Fire
  /\ UNCHANGED <<xState, send, gen, async, config, net, xTasks, timers, xMade, ended, limbo>>

\* mutant of XhrCurrent
XhrCurrentAlways == TRUE
XhrCurrent == Top.gen = gen

(* After loadstart: the request begins unless a handler changed its mind.  *)
StartFetch ==
  /\ XhrStep("fetch")
  /\ IF xState = 1 /\ send /\ Top.gen = gen
     THEN /\ IF local THEN xTasks' = xTasks \union {gen} /\ UNCHANGED net
                      ELSE net' = net \union {gen} /\ UNCHANGED xTasks
          /\ timers' = IF timed THEN timers \union {gen} ELSE timers
     ELSE UNCHANGED <<net, xTasks, timers>>
  /\ GiveUp
  /\ UNCHANGED <<xState, send, gen, async, config, xMade, ended, limbo>>

(* #complete() does not look at the generation after the upload events.    *)
Headers ==
  /\ XhrStep("headers")
  /\ xState' = 2
  /\ limbo' = (limbo \/ Top.gen # gen)
  /\ Fire
  /\ UNCHANGED <<send, gen, async, config, net, xTasks, timers, xMade, ended>>

Loading ==
  /\ XhrStep("loading")
  /\ IF XhrCurrent THEN xState' = 3 /\ Fire ELSE GiveUp /\ UNCHANGED xState
  /\ UNCHANGED <<send, gen, async, config, net, xTasks, timers, xMade, ended, limbo>>

Progress ==
  /\ XhrStep("progress")
  /\ IF XhrCurrent THEN Fire ELSE GiveUp
  /\ UNCHANGED <<xState, send, gen, async, config, net, xTasks, timers, xMade, ended, limbo>>

Done ==
  /\ XhrStep("done")
  /\ IF XhrCurrent THEN xState' = 4 /\ send' = FALSE /\ Fire ELSE GiveUp /\ UNCHANGED <<xState, send>>
  /\ UNCHANGED <<gen, async, config, net, xTasks, timers, xMade, ended, limbo>>

(* #complete() looks at the generation once more before load.              *)
FireOutcome(kind) ==
  /\ XhrStep(kind)
  /\ IF kind = "load" /\ ~XhrCurrent THEN GiveUp /\ UNCHANGED ended
     ELSE Fire /\ ended' = [ended EXCEPT ![Top.gen] = Append(@, kind)]
  /\ UNCHANGED <<xState, send, gen, async, config, net, xTasks, timers, xMade, limbo>>

(* #sendSync() never looks at it, whatever the listeners did meanwhile.    *)
SyncLoad ==
  /\ XhrStep("sync load")
  /\ Fire /\ ended' = [ended EXCEPT ![Top.gen] = Append(@, "load")]
  /\ UNCHANGED <<xState, send, gen, async, config, net, xTasks, timers, xMade, limbo>>

ResetAborted ==
  /\ XhrStep("reset")
  /\ xState' = IF xState = 4 THEN 0 ELSE xState
  /\ GiveUp
  /\ UNCHANGED <<send, gen, async, config, net, xTasks, timers, xMade, ended, limbo>>

XhrRunning == \/ Return \/ FireEvent \/ StartFetch \/ Headers \/ Loading \/ Progress \/ Done \/ SyncLoad
              \/ ResetAborted
              \/ \E kind \in Outcomes : FireOutcome(kind)

-----------------------------------------------------------------------------
(* What arrives while no page code runs.                                   *)

\* mutant of Wanted
WantedByGen(g) == g = gen
Wanted(g) == g = gen /\ send

Fails(kind) == xState' = 4 /\ send' = FALSE /\ Enter(gen, ErrorSteps(kind))

(* #complete() for a response or an error, of the network or of a task.    *)
Answer(g, error) ==
  /\ xCalls = << >> /\ g \in net \union xTasks
  /\ net' = net \ {g} /\ xTasks' = xTasks \ {g}
  /\ IF Wanted(g)
     THEN /\ timers' = timers \ {g}
          /\ IF error THEN Fails("error") ELSE Enter(g, CompleteSteps) /\ UNCHANGED <<xState, send>>
     ELSE UNCHANGED <<timers, xState, send, xCalls, handler>>
  /\ UNCHANGED <<gen, async, config, xMade, ended, limbo>>

NetProgress(g) ==
  /\ xCalls = << >> /\ g \in net /\ Wanted(g) /\ xMade < MaxCalls
  /\ Enter(g, <<"net progress">>)
  /\ UNCHANGED <<xState, send, gen, async, config, net, xTasks, timers, xMade, ended, limbo>>

Timeout(g) ==
  /\ xCalls = << >> /\ g \in timers
  /\ IF Wanted(g) THEN net' = {} /\ timers' = Terminated \ {g} /\ Fails("timeout")
                  ELSE timers' = timers \ {g} /\ UNCHANGED <<net, xState, send, xCalls, handler>>
  /\ UNCHANGED <<gen, async, config, xTasks, xMade, ended, limbo>>

Page == \/ \E isAsync \in BOOLEAN : Open(isAsync)
        \/ XhrSend \/ XhrAbort \/ \E fails \in BOOLEAN : SendSync(fails)
Arrival == \E g \in Gens : (\E error \in BOOLEAN : Answer(g, error)) \/ Timeout(g)
XhrNext == Page \/ XhrRunning \/ Arrival \/ \E g \in Gens : NetProgress(g)

XhrSpec == XhrInit /\ [][XhrNext]_xhrVars
XhrFairSpec == XhrSpec /\ WF_xhrVars(XhrRunning) /\ SF_xhrVars(Arrival)

-----------------------------------------------------------------------------
(* A request has one outcome at most, whatever its handlers call: load,    *)
(* error, timeout and abort exclude each other (#complete, #requestError,  *)
(* abort).  limbo: an upload listener aborted or reopened the request      *)
(* while its response was handed over, and #complete() went on regardless. *)
OneOutcome == ~limbo => \A g \in Gens : Len(ended[g]) <= 1

(* Between tasks nothing is left half done: a fetch or a timer that is     *)
(* under way belongs to the request that was sent last, and the state is   *)
(* not one of a response that is being received.  An upload listener that  *)
(* aborts or reopens is the exception (limbo).                             *)
NothingDangling ==
  xCalls = << >> => /\ net \union timers # {} => send /\ net \union timers = {gen}
                    /\ xState \in {0, 1, 4} \/ limbo
                    /\ send => gen \in net \union xTasks

(* Within one generation the state only goes up, until abort() resets it.  *)
StateGoesUp == [][gen' = gen /\ ~limbo' => xState' >= xState \/ (xState = 4 /\ xState' = 0)]_xhrVars

(* Every request that was sent ends: with an outcome, or because a later   *)
(* open() or abort() took its place.                                       *)
XhrAllEnded == send \/ (xState = 4 /\ async /\ ~limbo) => ended[gen] # << >>

-----------------------------------------------------------------------------
(***************************************************************************)
(* A WebSocket object of a page (crates/script/js/40_webapi.js) and the    *)
(* connection behind it, which lives in the network process: calls go to   *)
(* it at once, its events come back in order, later.                       *)
(***************************************************************************)

CONSTANTS
  SocketMaxOps,     \* bound on send() and close()
  MaxNews     \* bound on the messages from the network

VARIABLES
  sState,      \* readyState: 0 connecting, 1 open, 2 closing, 3 closed
  failed,     \* #failed
  live,       \* in liveSockets
  buffered,   \* bufferedAmount, in messages
  conn,       \* the connection: "connecting", "open", "closing", "gone"; "refused" was never made
  inbox,      \* its events on the way to the page
  unsent,     \* messages the connection took and has not reported
  sHeard,      \* the events the page got
  closed,     \* how much the page had heard when it called close(), or Never
  lost,       \* messages counted after the connection was being closed
  sOps, news

socketVars == <<sState, failed, live, buffered, conn, inbox, unsent, sHeard, closed, lost, sOps, news>>

Never == 99   \* close() was not called
SocketInit ==
  /\ sState = 0 /\ failed = FALSE /\ live = TRUE /\ buffered = 0 /\ unsent = 0
  /\ \/ conn = "connecting" /\ inbox = << >>
     \/ conn = "refused" /\ inbox = <<"error", "close 1006">>   \* the task of the constructor
  /\ sHeard = << >> /\ closed = Never /\ lost = 0 /\ sOps = 0 /\ news = 0

Posts(event) == inbox' = Append(inbox, event)
Heard(events) == sHeard' = sHeard \o events

-----------------------------------------------------------------------------
(* send(): counted even when it is too late.                               *)
\* mutant of Counted
CountedIfOpen == IF sState = 1 THEN buffered + 1 ELSE buffered
Counted == buffered + 1
SocketSend ==
  /\ sState # 0 /\ sOps < SocketMaxOps /\ sOps' = sOps + 1
  /\ buffered' = Counted
  /\ IF sState = 1 THEN unsent' = unsent + 1 /\ UNCHANGED lost ELSE lost' = lost + 1 /\ UNCHANGED unsent
  /\ UNCHANGED <<sState, failed, live, conn, inbox, sHeard, closed, news>>

Close ==
  /\ sOps < SocketMaxOps /\ sOps' = sOps + 1 /\ sState < 2
  /\ failed' = (failed \/ sState = 0) /\ sState' = 2
  /\ conn' = IF conn \in {"connecting", "open"} THEN "closing" ELSE conn
  /\ closed' = Len(sHeard)
  /\ UNCHANGED <<live, buffered, inbox, unsent, sHeard, lost, news>>

-----------------------------------------------------------------------------
(* onWebSocket(), with the next event.                                     *)
\* mutant of Known
KnownTillClose == live /\ sState # 2
Known == live
\* mutant of WhenOpen
WhenOpenNow == sState # 3
WhenOpen == sState = 1
OnWebSocket ==
  /\ inbox # << >> /\ inbox' = Tail(inbox)
  /\ LET event == Head(inbox)
     IN  CASE ~Known -> UNCHANGED <<sState, failed, live, buffered, sHeard>>
           [] Known /\ event = "open" ->
                /\ IF sState = 0 THEN sState' = 1 /\ Heard(<<"open">>) ELSE UNCHANGED <<sState, sHeard>>
                /\ UNCHANGED <<failed, live, buffered>>
           [] Known /\ event = "message" ->
                /\ IF WhenOpen THEN Heard(<<"message">>) ELSE UNCHANGED sHeard
                /\ UNCHANGED <<sState, failed, live, buffered>>
           [] Known /\ event = "sent" ->
                /\ buffered' = IF buffered = 0 THEN 0 ELSE buffered - 1
                /\ UNCHANGED <<sState, failed, live, sHeard>>
           [] Known /\ event = "error" -> failed' = TRUE /\ UNCHANGED <<sState, live, buffered, sHeard>>
           [] OTHER ->
                /\ live' = FALSE /\ sState' = 3
                /\ Heard(IF failed \/ event = "close 1006" THEN <<"error", "close">> ELSE <<"close">>)
                /\ UNCHANGED <<failed, buffered>>
  /\ UNCHANGED <<conn, unsent, closed, lost, sOps, news>>

-----------------------------------------------------------------------------
(* The connection.                                                         *)
Connects == conn = "connecting" /\ conn' = "open" /\ Posts("open") /\ UNCHANGED <<sState, failed, live, buffered, unsent, sHeard, closed, lost, sOps, news>>
Receives ==
  /\ conn = "open" /\ news < MaxNews /\ news' = news + 1 /\ Posts("message")
  /\ UNCHANGED <<sState, failed, live, buffered, conn, unsent, sHeard, closed, lost, sOps>>
Sends ==
  /\ conn \in {"open", "closing"} /\ unsent > 0 /\ unsent' = unsent - 1 /\ Posts("sent")
  /\ UNCHANGED <<sState, failed, live, buffered, conn, sHeard, closed, lost, sOps, news>>
(* It ends by a handshake or a failure, on its own or when told to.        *)
Ends(clean) ==
  /\ conn \in {"connecting", "open", "closing"} /\ conn' = "gone"
  /\ clean => conn # "connecting" /\ unsent = 0
  /\ inbox' = inbox \o (IF clean THEN <<"close 1000">> ELSE <<"error", "close 1006">>)
  /\ UNCHANGED <<sState, failed, live, buffered, unsent, sHeard, closed, lost, sOps, news>>

SocketNext == SocketSend \/ Close \/ OnWebSocket \/ Connects \/ Receives \/ Sends \/ \E clean \in BOOLEAN : Ends(clean)
SocketSpec == SocketInit /\ [][SocketNext]_socketVars
(* The network ends what was asked to end.                                 *)
Closing == conn = "closing" /\ \E clean \in BOOLEAN : Ends(clean)
SocketFairSpec == SocketSpec /\ WF_socketVars(OnWebSocket \/ Closing)

-----------------------------------------------------------------------------
(* A page hears one story: open at most once and first, then messages, an  *)
(* error only right before the close, nothing after it, and neither open   *)
(* nor messages once it has called close().                                *)
OneStory ==
  \A i \in DOMAIN sHeard :
    /\ sHeard[i] = "open" => i = 1
    /\ sHeard[i] = "message" => sHeard[1] = "open"
    /\ sHeard[i] = "error" => i + 1 = Len(sHeard)
    /\ sHeard[i] = "close" => i = Len(sHeard)
    /\ sHeard[i] \in {"open", "message"} => i <= closed

(* bufferedAmount is what has not been reported as sent; what was sent     *)
(* after the close stays in it.                                            *)
SentOnTheWay == Len(SelectSeq(inbox, LAMBDA e : e = "sent"))
BufferedHonest == live => buffered = unsent + SentOnTheWay + lost

(* A close() is answered with a close event.                               *)
CloseAnswered == closed = Never \/ sState = 3

-----------------------------------------------------------------------------
(***************************************************************************)
(* A FileReader (crates/script/js/40_webapi.js): a read is two tasks, the  *)
(* second of which has the result and fires three events.  Handlers read   *)
(* again and abort, in the middle of the events of another read; each call *)
(* that fires events is a frame of a stack.                                *)
(***************************************************************************)

CONSTANTS ReaderMaxOps   \* bound on the calls of the page

VARIABLES
  rState,     \* #state: 0 empty, 1 loading, 2 done
  token,     \* #token
  result,    \* the read whose result is there, 0 without one
  rTasks,     \* <<what, token>>
  rStack,     \* frames: the read they are about, the events they have yet to fire, and whether a handler runs
  rHeard,     \* the events, <<event, read>>
  rReads,     \* token -> read, the number of the call
  rOps

readerVars == <<rState, token, result, rTasks, rStack, rHeard, rReads, rOps>>

ReaderInit ==
  /\ rState = 0 /\ token = 0 /\ result = 0 /\ rTasks = << >> /\ rStack = << >> /\ rHeard = << >> /\ rReads = << >> /\ rOps = 0

(* Scripts run on their own and in handlers.                               *)
ReaderRunning == rStack # << >> /\ rStack[1].handler
Acts == (rStack = << >> \/ ReaderRunning) /\ rOps < ReaderMaxOps /\ rOps' = rOps + 1
ReaderFrame(read, events) == [read |-> read, events |-> events, handler |-> FALSE]
Post(task) == rTasks' = Append(rTasks, task)

Read ==
  /\ Acts /\ rState # 1
  /\ rState' = 1 /\ result' = 0 /\ token' = token + 1
  /\ rReads' = Append(rReads, IF token' \in DOMAIN rReads THEN 0 ELSE token')
  /\ Post(<<"start", token'>>)
  /\ UNCHANGED <<rStack, rHeard>>

\* mutant of Bumped
BumpedNot == token
Bumped == token + 1
ReaderAbort ==
  /\ Acts /\ result' = 0
  /\ IF rState = 1
     THEN /\ token' = Bumped /\ rState' = 2
          /\ rReads' = IF token' \in DOMAIN rReads THEN rReads ELSE Append(rReads, 0)
          /\ rStack' = <<ReaderFrame(token, <<"abort", "loadend">>)>> \o rStack
     ELSE UNCHANGED <<token, rState, rReads, rStack>>
  /\ UNCHANGED <<rTasks, rHeard>>

-----------------------------------------------------------------------------
(* The tasks of a read that was aborted, or replaced, do nothing.          *)
\* mutant of ReaderCurrent
ReaderCurrentAlways(t) == TRUE
ReaderCurrent(t) == t = token
RunTask ==
  /\ rStack = << >> /\ rTasks # << >>
  /\ LET what == Head(rTasks)[1]
         t == Head(rTasks)[2]
     IN  IF ~ReaderCurrent(t) THEN rTasks' = Tail(rTasks) /\ UNCHANGED <<rState, result, rStack>>
         ELSE IF what = "start"
         THEN rStack' = <<ReaderFrame(t, <<"loadstart", "post">>)>> /\ rTasks' = Tail(rTasks) /\ UNCHANGED <<rState, result>>
         ELSE /\ rState' = 2 /\ result' = t
              /\ rStack' = <<ReaderFrame(t, <<"progress", "load", "loadend">>)>>
              /\ rTasks' = Tail(rTasks)
  /\ UNCHANGED <<token, rHeard, rReads, rOps>>

(* The next step of the innermost frame; loadend is left out when another  *)
(* read was started meanwhile.                                             *)
LoadEnds == rState # 1
\* mutant of Finish
FinishNot(r) == rTasks
Finish(r) == Append(rTasks, <<"finish", r>>)
ReaderStep ==
  /\ rStack # << >> /\ ~ReaderRunning
  /\ LET top == rStack[1]
     IN  IF top.events = << >> THEN rStack' = Tail(rStack) /\ UNCHANGED <<rTasks, rHeard>>
         ELSE LET event == Head(top.events)
                  fires == event # "post" /\ (event = "loadend" => LoadEnds)
              IN  /\ rStack' = <<[top EXCEPT !.events = Tail(@), !.handler = fires]>> \o Tail(rStack)
                  /\ rTasks' = IF event = "post" THEN Finish(top.read) ELSE rTasks
                  /\ rHeard' = IF fires THEN Append(rHeard, <<event, top.read>>) ELSE rHeard
  /\ UNCHANGED <<rState, token, result, rReads, rOps>>
HandlerReturns ==
  /\ ReaderRunning /\ rStack' = <<[rStack[1] EXCEPT !.handler = FALSE]>> \o Tail(rStack)
  /\ UNCHANGED <<rState, token, result, rTasks, rHeard, rReads, rOps>>

Engine == RunTask \/ ReaderStep \/ HandlerReturns
ReaderNext == Read \/ ReaderAbort \/ Engine
ReaderSpec == ReaderInit /\ [][ReaderNext]_readerVars
ReaderFairSpec == ReaderSpec /\ WF_readerVars(Engine)

-----------------------------------------------------------------------------
(* Each read has its events once and in their order, and ends with load or *)
(* with abort, never with both.                                            *)
Rank(e) == CASE e = "loadstart" -> 1 [] e = "progress" -> 2 [] e \in {"load", "abort"} -> 3 [] OTHER -> 4
EventsOnce == \A i, j \in DOMAIN rHeard : i < j /\ rHeard[i][2] = rHeard[j][2] => Rank(rHeard[i][1]) < Rank(rHeard[j][1])

(* Once a read has started to be heard, no earlier one is.                 *)
NoEcho == \A i, j \in DOMAIN rHeard : i < j /\ rHeard[i][1] = "loadstart" => rHeard[j][2] >= rHeard[i][2]

(* Every read ends with load or abort.                                     *)
Ended(r) == \E i \in DOMAIN rHeard : rHeard[i] \in {<<"load", r>>, <<"abort", r>>}
ReaderAllEnded == \A i \in DOMAIN rReads : rReads[i] = i => Ended(i)

-----------------------------------------------------------------------------
(***************************************************************************)
(* A URL and the URLSearchParams of its query.  A text is a sequence of    *)
(* tokens: letters, and escapes of one.  The rest of the URL is one value. *)
(***************************************************************************)

CONSTANTS
  ParamTexts,     \* names and values
  SearchTexts,    \* texts given to search and href
  MaxUrlOps

VARIABLES
  query, urlRest,  \* of the URL
  params,          \* << >> or <<list>>: url.searchParams, made when it is asked for
  urlOps

urlVars == <<query, urlRest, params, urlOps>>

Escapes == [c \in {"&", "=", "%", "+", "u", " "} |->
              CASE c = "&" -> "%26" [] c = "=" -> "%3D" [] c = "%" -> "%25" [] c = "+" -> "%2B" [] c = "u" -> "%C3%BC" [] OTHER -> "+"]
\* mutant of FormEncode
FormEncodeNoPlus(text) == [i \in 1 .. Len(text) |-> IF text[i] = "+" THEN "+" ELSE IF text[i] \in DOMAIN Escapes THEN Escapes[text[i]] ELSE text[i]]
FormEncode(text) == [i \in 1 .. Len(text) |-> IF text[i] \in DOMAIN Escapes THEN Escapes[text[i]] ELSE text[i]]
Letter(e) ==
  IF e = "%20" THEN " " ELSE IF \E c \in DOMAIN Escapes : Escapes[c] = e THEN CHOOSE c \in DOMAIN Escapes : Escapes[c] = e ELSE e
FormDecode(text) == [i \in 1 .. Len(text) |-> Letter(text[i])]
SerializeQuery(list) ==
  FlattenSeq([i \in 1 .. Len(list) |-> (IF i = 1 THEN << >> ELSE <<"&">>) \o FormEncode(list[i][1]) \o <<"=">> \o FormEncode(list[i][2])])

(* The parts of a text between the separators.                             *)
Parts(text, c) ==
  LET cuts == <<0>> \o SelectSeq([i \in 1 .. Len(text) + 1 |-> i], LAMBDA i : i > Len(text) \/ text[i] = c)
  IN [i \in 1 .. Len(cuts) - 1 |-> SubSeq(text, cuts[i] + 1, cuts[i + 1] - 1)]
ParseQuery(text) ==
  LET pair(part) == LET at == SelectInSeq(part, LAMBDA c : c = "=")
                    IN IF at = 0 THEN <<FormDecode(part), << >> >>
                       ELSE <<FormDecode(SubSeq(part, 1, at - 1)), FormDecode(SubSeq(part, at + 1, Len(part)))>>
      parts == SelectSeq(Parts(text, "&"), LAMBDA p : p # << >>)
  IN [i \in 1 .. Len(parts) |-> pair(parts[i])]

(* What the parser of URLs makes of a query.                               *)
Normalized(text) == [i \in 1 .. Len(text) |-> CASE text[i] = " " -> "%20" [] text[i] = "u" -> "%C3%BC" [] OTHER -> text[i]]
UrlInit == \E t \in SearchTexts : query = Normalized(t) /\ urlRest = "r" /\ params = << >> /\ urlOps = 0
UrlAct == urlOps < MaxUrlOps /\ urlOps' = urlOps + 1
SearchParams == UrlAct /\ params = << >> /\ params' = <<ParseQuery(query)>> /\ UNCHANGED <<query, urlRest>>
(* Every change of the list is one of the query: #update().                *)
ListBecomes(list) == UrlAct /\ params' = <<list>> /\ query' = Normalized(SerializeQuery(list)) /\ UNCHANGED urlRest
AppendParam(n, v) == params # << >> /\ ListBecomes(Append(params[1], <<n, v>>))
DeleteParam(n) == params # << >> /\ ListBecomes(SelectSeq(params[1], LAMBDA p : p[1] # n))
DeletePair(n, v) == params # << >> /\ ListBecomes(SelectSeq(params[1], LAMBDA p : p # <<n, v>>))
SetParam(n, v) ==
  /\ params # << >>
  /\ LET list == params[1]
         at == SelectInSeq(list, LAMBDA p : p[1] = n)
     IN IF at = 0 THEN ListBecomes(Append(list, <<n, v>>))
        ELSE ListBecomes(SubSeq(list, 1, at - 1) \o << <<n, v>> >> \o SelectSeq(SubSeq(list, at + 1, Len(list)), LAMBDA p : p[1] # n))
Reparsed(text) == IF params = << >> THEN << >> ELSE <<ParseQuery(text)>>
SetSearch(t) == UrlAct /\ query' = Normalized(t) /\ params' = Reparsed(query') /\ UNCHANGED urlRest
SetHref(t) == UrlAct /\ query' = Normalized(t) /\ params' = Reparsed(query') /\ urlRest' = "other"
SetAnother == UrlAct /\ urlRest' = "other" /\ UNCHANGED <<query, params>>

UrlNext ==
  \/ SearchParams \/ SetAnother
  \/ \E n \in ParamTexts : DeleteParam(n) \/ \E v \in ParamTexts : AppendParam(n, v) \/ DeletePair(n, v) \/ SetParam(n, v)
  \/ \E t \in SearchTexts : SetSearch(t) \/ SetHref(t)

(* The parameters a page reads are those of the query of the URL, whichever*)
(* of the two it changed, and whatever is escaped in it.                   *)
QueryFollows == params # << >> => ParseQuery(query) = params[1]

-----------------------------------------------------------------------------
(***************************************************************************)
(* TextDecoder over chunks of UTF-8, and TextEncoder into a small buffer.  *)
(* A byte is one of its class: "1" of ASCII, "C", "E", "F" leading two to  *)
(* four, "c" that continues, "X" that is never valid, and "B", all three   *)
(* of a byte order mark, which are not cut here.  A character decoded is   *)
(* the sequence of its bytes, and << >> the replacement character.         *)
(***************************************************************************)

CONSTANTS Bytes, MaxBytes

VARIABLES
  fed,            \* all bytes of the stream
  undecoded,        \* #pending
  decoded,        \* all that came out
  bomSeen, fatalDecoder, decodeFailed,
  streamOver

decoderVars == <<fed, undecoded, decoded, bomSeen, fatalDecoder, decodeFailed, streamOver>>

Width(b) == CASE b = "C" -> 2 [] b = "E" -> 3 [] b = "F" -> 4 [] OTHER -> 1
Mark == <<"B">>
(* The character at the front: a sequence that is cut off or goes on with  *)
(* something else is one replacement character.                            *)
FrontLen(bytes) ==
  LET conts == {n \in 1 .. Width(bytes[1]) : n <= Len(bytes) /\ \A i \in 2 .. n : bytes[i] = "c"} IN CHOOSE n \in conts : \A m \in conts : m <= n
FrontChar(bytes) ==
  IF bytes[1] \in {"c", "X"} \/ FrontLen(bytes) < Width(bytes[1]) THEN << >> ELSE SubSeq(bytes, 1, FrontLen(bytes))
RECURSIVE Decode(_)
Decode(bytes) == IF bytes = << >> THEN << >> ELSE <<FrontChar(bytes)>> \o Decode(SubSeq(bytes, FrontLen(bytes) + 1, Len(bytes)))
(* decode_text() of the host takes a mark off every piece it is given.     *)
NativeDecode(bytes) == IF bytes # << >> /\ bytes[1] = "B" THEN Decode(Tail(bytes)) ELSE Decode(bytes)

\* mutant of IncompleteTail
IncompleteTailShort(bytes) ==
  LET n == Len(bytes)
      leads == {k \in 1 .. 2 : k <= n /\ bytes[n - k + 1] # "c" /\ \A j \in 1 .. k - 1 : bytes[n - j + 1] = "c"}
      k == CHOOSE k \in leads : TRUE
  IN IF leads = {} THEN 0 ELSE IF Width(bytes[n - k + 1]) > k THEN k ELSE 0
IncompleteTail(bytes) ==
  LET n == Len(bytes)
      leads == {k \in 1 .. 3 : k <= n /\ bytes[n - k + 1] # "c" /\ \A j \in 1 .. k - 1 : bytes[n - j + 1] = "c"}
      k == CHOOSE k \in leads : TRUE
      need == IF bytes[n - k + 1] = "X" THEN 4 ELSE Width(bytes[n - k + 1])
  IN IF leads = {} THEN 0 ELSE IF need > k THEN k ELSE 0

DecoderInit ==
  fed = << >> /\ undecoded = << >> /\ decoded = << >> /\ bomSeen = FALSE /\ fatalDecoder \in BOOLEAN /\ decodeFailed = FALSE /\ streamOver = FALSE
DecodeChunk(chunk, stream) ==
  LET bytes == undecoded \o chunk
      keep == IF stream THEN IncompleteTail(bytes) ELSE 0
      now == SubSeq(bytes, 1, Len(bytes) - keep)
      out == NativeDecode(now)
      bad == fatalDecoder /\ << >> \in Range(out)
      rest == IF ~bomSeen /\ out # << >> /\ out[1] = Mark THEN Tail(out) ELSE out
  IN /\ ~streamOver /\ ~decodeFailed /\ Len(fed) + Len(chunk) <= MaxBytes
     /\ fed' = fed \o chunk
     /\ undecoded' = (IF bad THEN << >> ELSE SubSeq(bytes, Len(bytes) - keep + 1, Len(bytes)))
     /\ decodeFailed' = bad
     /\ decoded' = (IF bad THEN decoded ELSE decoded \o rest)
     /\ bomSeen' = (IF bad THEN bomSeen ELSE stream /\ (bomSeen \/ out # << >>))
     /\ streamOver' = (~bad /\ ~stream)
     /\ UNCHANGED fatalDecoder
DecoderNext == \E chunk \in {<<b>> : b \in Bytes} \union {<<b, c>> : b \in Bytes, c \in Bytes}, stream \in BOOLEAN : DecodeChunk(chunk, stream)

(* What chunks decode to is what all of them do at once, wherever they are *)
(* cut, byte order marks apart; and a fatal decoder fails only on what is  *)
(* not valid as a whole, with what is left over at the end.                *)
Unmarked(chars) == SelectSeq(chars, LAMBDA c : c # Mark)
ChunksAsWhole ==
  /\ ~decodeFailed => Unmarked(decoded \o Decode(undecoded)) = Unmarked(Decode(fed)) /\ (streamOver => undecoded = << >>)
  /\ decodeFailed => << >> \in Range(Decode(fed))

CONSTANTS Units, MaxUnits, BufferSizes  \* UTF-16 code units "1" "2" "3" of so many bytes, "H" and "L" of a pair

VARIABLES sourceText, remains, encoded, bufferSize
encoderVars == <<sourceText, remains, encoded, bufferSize>>

(* What stands at a place: a pair, a lone half (which becomes U+FFFD), or  *)
(* one unit; with its bytes and units.                                     *)
CharAt(text, i) ==
  IF text[i] = "H" /\ i < Len(text) /\ text[i + 1] = "L" THEN [char |-> "pair", len |-> 4, units |-> 2]
  ELSE IF text[i] \in {"H", "L"} THEN [char |-> "fffd", len |-> 3, units |-> 1]
  ELSE [char |-> text[i], len |-> CASE text[i] = "1" -> 1 [] text[i] = "2" -> 2 [] OTHER -> 3, units |-> 1]
\* mutant of Into
RECURSIVE IntoHalf(_, _, _)
IntoHalf(text, read, space) ==
  IF read >= Len(text) \/ CharAt(text, read + 1).len > space THEN [read |-> read, chars |-> << >>]
  ELSE LET c == CharAt(text, read + 1)
           more == IntoHalf(text, read + 1, space - c.len)
       IN [read |-> more.read, chars |-> <<c.char>> \o more.chars]
RECURSIVE Into(_, _, _)
Into(text, read, space) ==
  IF read >= Len(text) \/ CharAt(text, read + 1).len > space THEN [read |-> read, chars |-> << >>]
  ELSE LET c == CharAt(text, read + 1)
           more == Into(text, read + c.units, space - c.len)
       IN [read |-> more.read, chars |-> <<c.char>> \o more.chars]
Begins(text) == SelectSeq([i \in 1 .. Len(text) |-> i], LAMBDA i : i = 1 \/ text[i] # "L" \/ text[i - 1] # "H")
EncodeAll(text) == [i \in 1 .. Len(Begins(text)) |-> CharAt(text, Begins(text)[i]).char]

EncoderInit == \E n \in 0 .. MaxUnits : sourceText \in [1 .. n -> Units] /\ remains = sourceText /\ encoded = << >> /\ bufferSize \in BufferSizes
(* The page encodes what remains into its buffer, as often as it takes.    *)
EncodeInto ==
  LET r == Into(remains, 0, bufferSize) IN
  /\ r.read > 0 /\ remains' = SubSeq(remains, r.read + 1, Len(remains)) /\ encoded' = encoded \o r.chars /\ UNCHANGED <<sourceText, bufferSize>>

(* Buffer by buffer a text is encoded as it is at once: no pair is torn,   *)
(* nothing is left out, and a buffer of four bytes always gets on.         *)
BuffersAsWhole ==
  /\ encoded \o EncodeAll(remains) = EncodeAll(sourceText)
  /\ remains # << >> /\ bufferSize >= 4 => Into(remains, 0, bufferSize).read > 0

-----------------------------------------------------------------------------
(***************************************************************************)
(* FormData, as a body and back, Blob.slice() and base 64: what is done to *)
(* one value, a step at a time.                                            *)
(***************************************************************************)

CONSTANTS EntryNames, EntryValues, MaxFormOps, BlobSize, Octets

VARIABLES
  formEntries,        \* of the FormData: <<name, file, value>>
  bodyEntries,    \* << >> or <<list>>: read back from the last multipart body of it
  formDataOps,
  octets          \* given to btoa()

dataVars == <<formEntries, bodyEntries, formDataOps, octets>>

(* A carriage return or line feed that stands alone becomes both in the    *)
(* body of a text, and each of them, and a quote, is escaped in a name.    *)
Alone(text, i) ==
  \/ text[i] = "cr" /\ (i = Len(text) \/ text[i + 1] # "lf")
  \/ text[i] = "lf" /\ (i = 1 \/ text[i - 1] # "cr")
Newlines(text) == FlattenSeq([i \in 1 .. Len(text) |-> IF Alone(text, i) THEN <<"cr", "lf">> ELSE <<text[i]>>])
NameEscaped(text) == [i \in 1 .. Len(text) |-> CASE text[i] = "cr" -> "%0D" [] text[i] = "lf" -> "%0A" [] text[i] = "quote" -> "%22" [] OTHER -> text[i]]
CrLf == <<"cr", "lf">>
MultipartEncode(list) ==
  FlattenSeq([i \in 1 .. Len(list) |->
     <<"boundary">> \o CrLf \o (IF list[i][2] THEN <<"file">> ELSE << >>) \o <<"name">> \o NameEscaped(list[i][1]) \o CrLf \o CrLf
     \o (IF list[i][2] THEN list[i][3] ELSE Newlines(list[i][3])) \o CrLf]) \o <<"boundary", "--">> \o CrLf
IsAt(text, i, what) == SubSeq(text, i, i + Len(what) - 1) = what
\* mutant of Trimmed
TrimmedFeed(section) == SubSeq(section, IF IsAt(section, 1, CrLf) THEN 3 ELSE 1, Len(section) - (IF IsAt(section, Len(section), <<"lf">>) THEN 1 ELSE 0))
Trimmed(section) ==
  SubSeq(section, IF IsAt(section, 1, CrLf) THEN 3 ELSE 1, Len(section) - (IF IsAt(section, Len(section) - 1, CrLf) THEN 2 ELSE 0))
MultipartDecode(body) ==
  LET sections == Tail(Parts(body, "boundary"))
      upTo == SelectInSeq(sections, LAMBDA x : x # << >> /\ x[1] = "--") - 1
      entry(x) == LET t == Trimmed(x)
                      sep == CHOOSE i \in 1 .. Len(t) : IsAt(t, i, CrLf \o CrLf) /\ \A j \in 1 .. i - 1 : ~IsAt(t, j, CrLf \o CrLf)
                      head == SubSeq(t, 1, sep - 1)
                      name == SelectInSeq(head, LAMBDA c : c = "name")
                  IN <<SubSeq(head, name + 1, Len(head)), "file" \in Range(head), SubSeq(t, sep + 4, Len(t))>>
  IN [i \in 1 .. upTo |-> entry(sections[i])]

DataInit == formEntries = << >> /\ bodyEntries = << >> /\ formDataOps = 0 /\ octets = << >>
DataAct == octets = << >> /\ formDataOps < MaxFormOps /\ formDataOps' = formDataOps + 1 /\ bodyEntries' = << >> /\ UNCHANGED octets
FormAppend(e) == DataAct /\ formEntries' = Append(formEntries, e)
FormDelete(n) == DataAct /\ formEntries' = SelectSeq(formEntries, LAMBDA x : x[1] # n)
FormSet(e) ==
  LET at == SelectInSeq(formEntries, LAMBDA x : x[1] = e[1]) IN
  /\ DataAct
  /\ formEntries' = IF at = 0 THEN Append(formEntries, e)
                ELSE SubSeq(formEntries, 1, at - 1) \o <<e>> \o SelectSeq(SubSeq(formEntries, at + 1, Len(formEntries)), LAMBDA x : x[1] # e[1])
SendBody ==
  /\ octets = << >> /\ formEntries # << >> /\ bodyEntries = << >>
  /\ bodyEntries' = <<MultipartDecode(MultipartEncode(formEntries))>> /\ UNCHANGED <<formEntries, formDataOps, octets>>
AddOctet(b) == formEntries = << >> /\ formDataOps = 0 /\ Len(octets) < 4 /\ octets' = Append(octets, b) /\ UNCHANGED <<formEntries, bodyEntries, formDataOps>>
DataNext ==
  \/ \E e \in EntryNames \X BOOLEAN \X EntryValues : FormAppend(e) \/ FormSet(e)
  \/ \E n \in EntryNames : FormDelete(n)
  \/ SendBody \/ \E b \in Octets : AddOctet(b)

(* Every entry of a form arrives, in order: a file as it is, a text with   *)
(* its newlines as a form has them, whatever ends it (multipartEncode,     *)
(* multipartDecode).                                                       *)
BodyReadsBack ==
  bodyEntries # << >> =>
    bodyEntries[1] = [i \in 1 .. Len(formEntries) |-> LET e == formEntries[i] IN <<NameEscaped(e[1]), e[2], IF e[2] THEN e[3] ELSE Newlines(e[3])>>]

(* Blob.slice(): where it begins and ends.                                 *)
SlicePlace(n) == IF n < 0 THEN (IF BlobSize + n > 0 THEN BlobSize + n ELSE 0) ELSE IF n > BlobSize THEN BlobSize ELSE n
BlobSlice(from, to) == SubSeq([i \in 1 .. BlobSize |-> i], SlicePlace(from) + 1, IF SlicePlace(to) < SlicePlace(from) THEN SlicePlace(from) ELSE SlicePlace(to))
(* btoa() and atob(): digits of six bits, 64 standing for =.               *)
Group(a, b, c) == <<a \div 4, (a % 4) * 16 + (b \div 16), (b % 16) * 4 + (c \div 64), c % 64>>
Btoa(bytes) ==
  LET at(i) == IF i > Len(bytes) THEN 0 ELSE bytes[i]
      padded(k) == LET g == Group(at(3 * k - 2), at(3 * k - 1), at(3 * k))
                   IN <<g[1], g[2], IF 3 * k - 1 <= Len(bytes) THEN g[3] ELSE 64, IF 3 * k <= Len(bytes) THEN g[4] ELSE 64>>
  IN FlattenSeq([k \in 1 .. (Len(bytes) + 2) \div 3 |-> padded(k)])
Atob(digits) ==
  LET s == IF Len(digits) % 4 # 0 THEN digits
           ELSE LET n == Len(digits) IN SubSeq(digits, 1, n - (IF n > 1 /\ digits[n] = 64 THEN IF digits[n - 1] = 64 THEN 2 ELSE 1 ELSE 0))
      step(acc, d) ==
        LET buf == (acc.buf * 64 + d) % 65536
            bits == acc.bits + 6
        IN IF bits >= 8 THEN [buf |-> buf, bits |-> bits - 8, out |-> Append(acc.out, (buf \div (2 ^ (bits - 8))) % 256)] ELSE [acc EXCEPT !.buf = buf, !.bits = bits]
  IN IF Len(s) % 4 = 1 \/ 64 \in Range(s) THEN <<"InvalidCharacterError">> ELSE FoldLeft(step, [buf |-> 0, bits |-> 0, out |-> << >>], s).out

(* The form a JSON Web Key has, without padding and with two other digits, *)
(* which is read with as much padding as its length calls for.             *)
\* mutant of FromUrlForm
FromUrlFormShort(digits) == Atob(digits \o SubSeq(<<64, 64, 64>>, (Len(digits) % 4) + 1, 3))
UrlForm(bytes) == SelectSeq(Btoa(bytes), LAMBDA d : d # 64)
FromUrlForm(digits) == Atob(digits \o SubSeq(<<64, 64, 64>>, ((Len(digits) + 3) % 4) + 1, 3))

(* Base 64 is read back as what it was made of, with and without padding;  *)
(* and a blob cut anywhere, counted from either end, is whole again.       *)
BytesReadBack ==
  /\ Atob(Btoa(octets)) = octets /\ Atob(UrlForm(octets)) = octets /\ FromUrlForm(UrlForm(octets)) = octets
  /\ \A n \in -(BlobSize + 2) .. BlobSize + 2 : BlobSlice(0, n) \o BlobSlice(n, BlobSize) = [i \in 1 .. BlobSize |-> i]
=============================================================================
