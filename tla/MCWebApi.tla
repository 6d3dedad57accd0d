------------------------------- MODULE MCWebApi -------------------------------
(***************************************************************************)
(* Instances of the modules of the web API layer for TLC: tasks, messages, *)
(* requests, streams and observers.  They share no state here: a behaviour *)
(* is one of them, picked in the initial state, so one run explores the    *)
(* sum of them.                                                            *)
(***************************************************************************)
EXTENDS EventLoop, TLC

CONSTANT None

VARIABLES
  part,
  port, home, now, registry, wire, sent, got,
  xState, send, gen, async, local, listens, timed, net, xTasks, timers, xCalls, handler, xMade, ended, limbo,
  mode, st, made, reads, pump, dropped,
  phase, terminated, closing, queue, wTasks, wArmed, nextTimer, running, wPosted, wGot, wSent, pageGot, late,
  body, streamOf, pageReader, fAborted, fetch, pending, host, fRead, fOps,
  sState, failed, live, buffered, conn, inbox, unsent, sHeard, closed, lost, sOps, news,
  rState, token, result, rTasks, rStack, rHeard, rReads, rOps,
  size, inView, scrolled, sizing, watching, records, task, oHeard, order, dirty, oWanted, checked, scrollEvents, oPhase, checking, left, oOps,
  batch, nextTest, testWorker, browser, testResult, expected, verdict, truth, crossed,
  query, urlRest, params, urlOps, fed, undecoded, decoded, bomSeen, fatalDecoder, decodeFailed, streamOver,
  sourceText, remains, encoded, bufferSize, formEntries, bodyEntries, formDataOps, octets,
  lockCount, lockMode, lockStage, lockHeld, lockQueue, lockTasks,
  perfMade, perfEntries, perfTypes, perfBuffer, perfQueued, perfTold, perfSince, perfOnce, fullFired, fullTasks, bufferMaximum, perfOps,
  cryptoKeys, seenBytes

ports == <<port, home, now, registry, wire, sent, got>>
xhr == <<xState, send, gen, async, local, listens, timed, net, xTasks, timers, xCalls, handler, xMade, ended, limbo>>
streams == <<mode, st, made, reads, pump, dropped>>
worker == <<phase, terminated, closing, queue, wTasks, wArmed, nextTimer, running, wPosted, wGot, wSent, pageGot, late>>
fetches == <<body, streamOf, pageReader, fAborted, fetch, pending, host, fRead, fOps>>
socket == <<sState, failed, live, buffered, conn, inbox, unsent, sHeard, closed, lost, sOps, news>>
fileReader == <<rState, token, result, rTasks, rStack, rHeard, rReads, rOps>>
observers == <<size, inView, scrolled, sizing, watching, records, task, oHeard, order, dirty, oWanted, checked, scrollEvents, oPhase, checking, left, oOps>>
tester == <<batch, nextTest, testWorker, browser, testResult, expected, verdict, truth, crossed>>
urls == <<query, urlRest, params, urlOps>>
decoder == <<fed, undecoded, decoded, bomSeen, fatalDecoder, decodeFailed, streamOver>>
encoder == <<sourceText, remains, encoded, bufferSize>>
formData == <<formEntries, bodyEntries, formDataOps, octets>>
locks == <<lockCount, lockMode, lockStage, lockHeld, lockQueue, lockTasks>>
timeline == <<perfMade, perfEntries, perfTypes, perfBuffer, perfQueued, perfTold, perfSince, perfOnce, fullFired, fullTasks, bufferMaximum, perfOps>>
keyStore == <<cryptoKeys, seenBytes>>
allVars == <<part, loopVars, ports, xhr, streams, worker, fetches, socket, fileReader, observers, tester, urls, decoder, encoder, formData, locks, timeline, keyStore>>

-----------------------------------------------------------------------------
(* One end of a channel moves once, the other twice.                       *)
S == INSTANCE Streams WITH HighWater <- 1, MaxChunks <- 2, MaxReads <- 2
MS == INSTANCE Messaging WITH
        Frames <- {"f1", "f2"}, Top <- "f1", MaxMoves <- [e \in {"x", "y"} |-> IF e = "x" THEN 1 ELSE 2],
        MaxSends <- [e \in {"x", "y"} |-> IF e = "x" THEN 2 ELSE 0], MaxPosts <- 2, MaxTimers <- 2

F == INSTANCE Fetch WITH
       Fetches <- {"f1", "f2"}, MaxOps <- 5,
       stream <- streamOf, reader <- pageReader, aborted <- fAborted, read <- fRead, ops <- fOps
RQ == INSTANCE RequestObjects WITH
        MaxCalls <- 4, SocketMaxOps <- 3, MaxNews <- 2, ReaderMaxOps <- 5,
        ParamTexts <- {<< >>, <<"x">>, <<"+", " ">>, <<"&">>, <<"=", "u">>}, MaxUrlOps <- 3,
        SearchTexts <- {<< >>, <<"x", "=", "y", "&", "&", "x">>, <<"=", "+", "%20", "%2B", "=">>, <<"u", "&", "%">>},
        Bytes <- {"1", "C", "E", "F", "c", "X", "B"}, MaxBytes <- 4, Units <- {"1", "2", "H", "L"}, MaxUnits <- 4, BufferSizes <- {3, 4, 5},
        EntryNames <- {<<"n">>, <<"quote", "lf">>}, EntryValues <- {<< >>, <<"x", "lf">>, <<"cr", "lf", "cr", "lf", "y">>, <<"cr">>},
        MaxFormOps <- 2, BlobSize <- 3, Octets <- {0, 77, 128, 255}
O == INSTANCE FrameObservers WITH
       Elements <- {"e"}, Sizers <- {"s1", "s2"}, Watchers <- {"w"}, Sizes <- {0, 1}, MaxOps <- 4,
       heard <- oHeard, wanted <- oWanted, events <- scrollEvents, phase <- oPhase, ops <- oOps
(* The runner of the web platform tests: two paths, three tests.           *)
TFile(name, kind, skipped, globals) ==
  [name |-> name, kind |-> kind, skipped |-> skipped, globals |-> globals, long |-> FALSE, variants |-> << >>]
TPaths == << <<TFile("a", "any", FALSE, {"window", "dedicatedworker"}), TFile("r", "page", TRUE, {})>>, <<TFile("b", "page", FALSE, {})>> >>
TOutcomes == << {"ok", "crash", "dies", "hangs"}, {"fail", "dies", "hangs"}, {"fewer", "crash"} >>
WR == INSTANCE WptRunner WITH
        Paths <- TPaths, WithWorkers <- TRUE, Jobs <- 2, Outcomes <- TOutcomes, next <- nextTest, worker <- testWorker, result <- testResult
(* Keys: two octets, and a JSON Web Key that is not to be extracted.       *)
Key(name, hash, length) == [name |-> name, hash |-> hash, length |-> length]
Page(id, bits) == [kind |-> "page", id |-> id, bits |-> bits, of |-> << >>]
PS == INSTANCE PageServices WITH
        MaxLockCalls <- 4, EntryTypes <- {"mark", "measure", "resource"}, MaxPerfOps <- 4, MaxMade <- 3, BufferMaxima <- {1, 2},
        KeyData <- {Page(1, 16), [kind |-> "jwk", id |-> 1, bits |-> 0, of |-> <<Page(2, 128)>>]},
        KeyAlgs <- {Key("HMAC", "SHA-256", -1), Key("HMAC", "SHA-256", 12), Key("AES-GCM", "", 128), Key("AES-KW", "", 256), Key("HKDF", "", -1)},
        UsageSets <- {{"encrypt", "unwrapKey"}, {"wrapKey", "decrypt"}, {"wrapKey", "unwrapKey"}, {"sign"}, {"deriveKey", "deriveBits"}, {"deriveKey"}},
        SealAlgs <- {[name |-> "AES-KW", iv |-> 0, tag |-> 0], [name |-> "AES-GCM", iv |-> 12, tag |-> 128], [name |-> "AES-GCM", iv |-> 0, tag |-> 128]},
        MaxKeys <- 2, MaxSeen <- 2

-----------------------------------------------------------------------------
MCInit ==
  /\ part \in {"loop", "ports", "xhr", "streams", "worker", "fetch", "socket", "file", "observers", "tester", "url", "decoder", "encoder", "form data", "locks", "entries", "keys"}
  /\ Init /\ MS!PortInit
  /\ RQ!XhrInit /\ (part # "xhr" => local /\ listens /\ timed)
  /\ S!Init /\ (part # "streams" => mode = "read")
  /\ MS!WorkerInit
  /\ F!Init /\ (part # "fetch" => body.request.bytes)
  /\ RQ!SocketInit /\ (part # "socket" => conn = "connecting")
  /\ RQ!ReaderInit /\ O!Init
  /\ WR!WptInit /\ (part # "tester" => batch)
  /\ RQ!UrlInit /\ (part # "url" => query = << >>)
  /\ RQ!DecoderInit /\ (part # "decoder" => fatalDecoder)
  /\ RQ!EncoderInit /\ (part # "encoder" => sourceText = << >> /\ bufferSize = 4)
  /\ RQ!DataInit
  /\ PS!LockInit
  /\ PS!PerfInit /\ (part # "entries" => bufferMaximum = 1)
  /\ PS!KeyInit

(* What the other parts keep.                                              *)
Others ==
  /\ IF part = "loop" THEN TRUE ELSE UNCHANGED loopVars
  /\ IF part = "ports" THEN TRUE ELSE UNCHANGED ports
  /\ IF part = "xhr" THEN TRUE ELSE UNCHANGED xhr
  /\ IF part = "streams" THEN TRUE ELSE UNCHANGED streams
  /\ IF part = "worker" THEN TRUE ELSE UNCHANGED worker
  /\ IF part = "fetch" THEN TRUE ELSE UNCHANGED fetches
  /\ IF part = "socket" THEN TRUE ELSE UNCHANGED socket
  /\ IF part = "file" THEN TRUE ELSE UNCHANGED fileReader
  /\ IF part = "observers" THEN TRUE ELSE UNCHANGED observers
  /\ IF part = "tester" THEN TRUE ELSE UNCHANGED tester
  /\ IF part = "url" THEN TRUE ELSE UNCHANGED urls
  /\ IF part = "decoder" THEN TRUE ELSE UNCHANGED decoder
  /\ IF part = "encoder" THEN TRUE ELSE UNCHANGED encoder
  /\ IF part = "form data" THEN TRUE ELSE UNCHANGED formData
  /\ IF part = "locks" THEN TRUE ELSE UNCHANGED locks
  /\ IF part = "entries" THEN TRUE ELSE UNCHANGED timeline
  /\ IF part = "keys" THEN TRUE ELSE UNCHANGED keyStore
In(name, act) == part = name /\ act /\ UNCHANGED part /\ Others

MCNext ==
  \/ In("loop", Next)
  \/ In("ports", MS!PortNext)
  \/ In("xhr", RQ!XhrNext)
  \/ In("streams", S!Next)
  \/ In("worker", MS!WorkerNext)
  \/ In("fetch", F!Next)
  \/ In("socket", RQ!SocketNext)
  \/ In("file", RQ!ReaderNext)
  \/ In("observers", O!Next)
  \/ In("tester", WR!WptNext)
  \/ In("url", RQ!UrlNext)
  \/ In("decoder", RQ!DecoderNext)
  \/ In("encoder", RQ!EncodeInto)
  \/ In("form data", RQ!DataNext)
  \/ In("locks", PS!LockNext)
  \/ In("entries", PS!PerfNext)
  \/ In("keys", PS!KeyNext)

MCSpec == MCInit /\ [][MCNext]_allVars

(* Code that has been started goes on, and what has a task of its own gets *)
(* its turn, however often timers and progress events come in between.     *)
(* The parts being apart, one condition stands for each of them.           *)
MCFairSpec ==
  /\ MCSpec
  /\ WF_allVars(In("loop", Handlers) \/ In("ports", MS!Engine) \/ In("xhr", RQ!XhrRunning) \/ In("streams", S!Source \/ S!Pump) \/ In("worker", MS!Return)
                \/ In("fetch", F!Engine \/ F!Source \/ F!Host) \/ In("socket", RQ!OnWebSocket \/ RQ!Closing) \/ In("file", RQ!Engine) \/ In("observers", O!Engine)
                \/ In("tester", WR!WptRunning \/ WR!WptPages)
                \/ In("locks", PS!LockMicrotask) \/ In("entries", PS!ObserverTask))
  /\ SF_allVars(In("loop", Turn) \/ In("xhr", RQ!Arrival) \/ In("worker", MS!RunTask \/ MS!Start \/ MS!LoadFails))

(* What was sent or queued arrives in that order.                          *)
OrderKept ==
  /\ part = "ports" => MS!ChannelFifo
  /\ part = "streams" => S!ChunksInOrder
  /\ part = "worker" => MS!MessagesInOrder
  /\ part = "observers" => O!LastHeard
  /\ part = "decoder" => RQ!ChunksAsWhole
  /\ part = "encoder" => RQ!BuffersAsWhole
  /\ part = "locks" => PS!LockOrder
  /\ part = "entries" => PS!EntriesObserved

(* Each request, read, body and test has one outcome, its own.             *)
OneOutcome ==
  /\ part = "xhr" => RQ!OneOutcome
  /\ part = "fetch" => F!BodyOnce
  /\ part = "socket" => RQ!OneStory
  /\ part = "file" => RQ!EventsOnce
  /\ part = "tester" => WR!OwnResult

(* What waits is in somebody's books, and only what waits; NothingForgotten *)
(* of EventLoop says it of timers, tasks, frames and idle callbacks.       *)
WaitersServed ==
  /\ part = "ports" => MS!QueuesWatched
  /\ part = "xhr" => RQ!NothingDangling
  /\ part = "streams" => S!NobodyWaitsInVain
  /\ part = "fetch" => F!AbortEnds /\ F!NothingLeft
  /\ part = "observers" => O!NothingOverlooked
  /\ part = "entries" => PS!EntriesOnTheirWay

(* What a part says of itself is so: waiters are in its books, timers nest *)
(* only so deep, streams pull only so far, and bufferedAmount counts what  *)
(* is on its way.                                                          *)
StateAgrees ==
  /\ WaitersServed
  /\ DeepTimersWait
  /\ part = "streams" => S!Backpressure
  /\ part = "socket" => RQ!BufferedHonest
  /\ part = "tester" => WR!UpdateSettles
  /\ part = "url" => RQ!QueryFollows
  /\ part = "form data" => RQ!BodyReadsBack /\ RQ!BytesReadBack
  /\ part = "locks" => PS!LockExclusion
  /\ part = "keys" => PS!KeysProper /\ PS!ExtractableOnly /\ PS!ExportReadsBack

(* What was cancelled, aborted or terminated does nothing any more,        *)
(* nothing comes before its turn, and nothing is changed that is not meant.*)
StepsRight ==
  /\ CancelledStaysQuiet /\ InOrder
  /\ RQ!StateGoesUp
  /\ MS!SilentAfterTerminate /\ [](part = "worker" => MS!TimersStop)
  /\ F!NeverAfterAbort
  /\ [](part = "file" => RQ!NoEcho)

(* Nothing waits for ever: what each part calls outstanding ends.          *)
EverythingEnds ==
  /\ []<>(part = "loop" => AllRun)
  /\ []<>(part = "ports" => MS!PortAllArrived /\ MS!NoStrayRelay)
  /\ []<>(part = "xhr" => RQ!XhrAllEnded)
  /\ []<>(part = "streams" => S!AllSettled)
  /\ []<>(part = "worker" => MS!WorkerAllArrived)
  /\ []<>(part = "fetch" => F!AllSettled)
  /\ []<>(part = "socket" => RQ!CloseAnswered)
  /\ []<>(part = "file" => RQ!ReaderAllEnded)
  /\ []<>(part = "observers" => O!AllReported)
  /\ []<>(part = "tester" => WR!AllResults)
  /\ []<>(part = "locks" => PS!LocksSettle)
  /\ []<>(part = "entries" => PS!EntriesTold)
=============================================================================
