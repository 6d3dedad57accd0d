# Specifications of Sharko Browser

TLA+ models of the parts of the browser whose correctness depends on the order
in which threads, processes, messages and callbacks act, or on books that must
agree with one another; the TLC configurations that check them; and theorems
about seven of them with proofs for TLAPS. Paths are relative to the repository
root (`src/`); `js/` stands for `crates/script/js/`.

| Module | Models |
|---|---|
| `HttpCache` | the HTTP cache of the network process with its writer thread |
| `TabNav` | navigation of one tab: browser process, renderer, page script, shell |
| `NetClient` | `NetClient` over IPC and the service's per-client handling |
| `ResourceCount` | the renderer's pending-subresource counter |
| `IndexedDB`, `AtomicStore`, `IdbRequests` | transactions, requests, upgrades and cursors of IndexedDB; what a database promises |
| `EventLoop`, `Messaging`, `RequestObjects`, `Streams`, `Fetch`, `FrameObservers`, `PageServices` | the web API layer: timers and tasks; ports and workers; XMLHttpRequest, WebSocket, FileReader, URLs, text coding and form data; streams; fetch(); resize and intersection observers; Web Locks, performance observers and the keys of SubtleCrypto |
| `DomTree`, `ScriptLoader`, `EventDispatch`, `Animations`, `CustomElements`, `TreeObservers`, `Forms`, `TextTracks` | the page: tree, ranges and the selection; scripts; events and signals; animations and their effects; custom elements; mutation observers and tree walks; form controls; text tracks |
| `NodeViews`, `ShadowSlots`, `StyleSheets`, `XmlParse`, `Matrices`, `XPath` | books of the document: attribute objects and live collections; shadow roots; rules of style sheets; XML; DOMMatrix; XPath |
| `Canvas2D` | 2D drawing: paths, the text of a path, the context's state beside its surface |
| `GLObjects`, `GLImages`, `GLContext`, `AudioContexts`, `AudioNodes` | WebGL objects, images, contexts and the rasteriser's rules; audio clocks, parameters and graphs |
| `WptRunner` | the runner of the web platform tests |
| `NetClientProofs`, `HttpCacheProofs`, `TabNavProofs`, `IdbRequestsProofs`, `EventLoopProofs` | theorems and their proofs; those of `ResourceCount`, `GLContext` and `PageServices` are in the modules themselves |
| `MCHttpCache`, `MCTabNav`, `MCIndexedDB`, `MCWebApi`, `MCPage`, `MCDocument` | instances for the configurations |

To check: `tlc -config <run>.cfg <module>` for a run, `tlapm <module>.tla` for
the proofs. `PROJECT.json` lists the runs, the code lines each definition
stands for, and for each property mutations of the model that violate it. Its
map names each piece of code once: helpers whose lines lie within those of the
definition that uses them are not listed beside it.

Modules that share no state are checked in one run: the MC module instantiates
them all, its variable `part` says which of them a behaviour is, and the others
keep their initial state. A run then explores the sum of its parts, not their
product, and one property of the run is a conjunction with a named part per
module. The tables below give those parts.

## 1. The system

Three kinds of process:

* the **browser process** (shell and `crates/browser`): windows, tabs, session
  history;
* one **renderer** per tab (`crates/engine`, `crates/script`): document,
  layout, JavaScript;
* one **network process** (`crates/netstack`): requests, cache, cookies,
  WebSockets, for all renderers and the browser.

They are connected by framed, ordered, bidirectional links
(`crates/common/src/ipc.rs`). Each end of a link has a reader thread that hands
messages to a callback and, once, `None` when the peer is gone. A launcher
starts the installed version; an updater in the browser process installs new
ones.

| Component | State | Operations and interactions | What is hard | What makes it correct | Modelled |
|---|---|---|---|---|---|
| HTTP cache (`cache/mod.rs`, `cache/disk.rs`) | index under a mutex: entries, primaries, two LRU maps, byte counters, generation, dirty flag; files; `index.bin` | `lookup`, `store`, `invalidate`, `save_index`, `persist_blocking`, `open`; jobs to one writer thread, which calls back `on_write_done` | disk I/O outside the mutex; writes that fail or come late; crash between file, index and snapshot | counters and LRU maps match the entries; a slot's file is its version; nothing older than the last store is served; no leaked files | `HttpCache` |
| Session history (`browser/src/lib.rs`) | per tab: history, index, URL, loading, crashed; `next_doc_seq` | `open`, `go`, `reload`, `stop`, `process_event`; sends `ToRenderer`, receives `FromRenderer` | two processes decide separately whether a navigation stays in the document; messages cross | address bar, entry and document agree; last navigation wins; loading ends | `TabNav` |
| Renderer navigation (`engine/src/renderer.rs`) | generation, pending navigation, page (URL, load sent) | `navigate`, `reload`, `stop`, `LoadHtml`, `HistoryTraverse`, commit, `tick` | answers of aborted requests already queued | a newer document is never replaced by an older response | `TabNav` |
| Script history (`script/src/state.rs`, `activation.rs`, `js/40_webapi.js`) | document URL, history index | `pushState`, `replaceState`, fragment, `location.*`, `history.go` | a third copy of the URL | as above | `TabNav` |
| Shell (`shell/src/lib.rs`) | tabs, respawn history, chrome | opens tabs, navigates, answers `TabCrashed` | renderer dies at any time | a crashed tab gets a renderer or is marked | crash handling in `TabNav` |
| Network client (`netstack/src/client.rs`) | maps of pending callbacks, progress callbacks, sockets; `connected` | `fetch`, `abort`, `ws_open`, `ws_close`; reader thread; callback pool | disconnect overlapping a registration; abort overlapping a response | each callback called exactly once or dropped by abort; one `Closed` per socket | `NetClient` |
| Network service (`netstack/src/service.rs`) | per client: in-flight tasks, sockets | message handler, fetch and socket tasks, writer thread; accept loop, idle exit | tasks end while aborted; client connects during the idle grace | every request is answered while the client lives | per-client part in `NetClient` |
| IPC link (`common/src/ipc.rs`) | send state, queue until connected | `send`, `connect_in_background`, reader thread | frames queued before the peer connects | FIFO, one `None`, nothing after it | as seen by `NetClient` and `TabNav` |
| Pending resources (`engine/src/host.rs`, `renderer.rs`) | two atomics: generation, counter | `fetch` (main thread; `@import`s on pool threads), handler drop, `load_html`, `tick` | two atomics are not one | `load` is neither blocked nor early, but for what is half done at a navigation | `ResourceCount` |
| Fetch pipeline (`fetch.rs`, `cache/policy.rs`) | per request | redirects, revalidation, stale-while-revalidate, retries | revalidation racing `invalidate` | what is stored matches what was validated | planned |
| Debouncer, host limiter (`core.rs`) | dirty flag, timers; semaphores per host | periodic saves, permits | overlapping runs; a semaphore closed under its waiters | newest state is saved last; limit respected | planned |
| WebSocket task (`websocket.rs`) | handshake, closing state | open, frames, close with a deadline | close by both sides, deadline | one `Closed` | planned |
| Updater, launcher (`browser/src/update.rs`, `launcher/src/main.rs`) | version folders, version file | stage, rename, switch, roll back | crash between two renames | a runnable version is always selected | planned |
| Cookies, Alt-Svc, wire types, schemes | maps; none | parsing, matching, expiry | parsing | RFC conformance | no: data transformation |
| IndexedDB (`js/45_indexeddb.js`) | per database: stores, indexes, generators, connections, request queues, undo logs | transactions, requests, cursors, open, upgrade, delete; one timer turn per request | failing requests and commits, overlapping scopes, connections that close in an upgrade | committed transactions are serialisable; indexes agree with stores; everything ends | `IndexedDB`, `IdbRequests` |
| Web API layer (`js/40_webapi.js`) | timers, tasks, ports, requests, streams, workers, observers, locks, keys | calls of the page, answers of the natives, handlers that call again | re-entrance; abort and close crossing answers; ports that move | each request has one outcome, messages keep their order, nobody waits for ever | section 7 |
| Page (`js/10_events.js`, `20_dom.js`, `30_html.js`, `90_bootstrap.js`) | listeners, ranges, the selection, observers, script queues, forms, tracks | the page's calls and the parser's steps; handlers in the middle of both | handlers change the list that is walked; scripts write scripts | order of scripts and calls; what the page sees follows the tree | section 8 |
| Attribute objects, collections, shadow roots, style sheets, XML, XPath, DOMMatrix, 2D canvas (`20_dom.js`, `25_xpath.js`, `30_html.js`, `40_webapi.js`) | caches beside the tree | lookups after changes | stale caches, short cuts of an evaluator | the answer is that of the definition | section 9 |
| WebGL, Web Audio (`js/36` to `3d`, `46`, `47`) | object tables, bindings, clocks, graphs | the page's calls, draws, ticks, lost contexts | deleting what is bound; answers after a loss; short cuts | a draw reads inside its buffers; time and order kept | section 9 |
| Test runner (`tools/wpt/run.js`) | list of tests, workers, expected results | starts browsers, feeds tests, judges, rewrites expectations | a browser that dies or hangs in the middle of a batch | each test is judged by its own result | section 7 |
| Script bindings in Rust, layout, decoding, i18n, build tasks | DOM, V8 | glue, data transformation | the Web platform | conformance tests | no: see section 12 |

`PROJECT.json` lists every hazard of this code that is hard to reach with a
test, at its line, with the properties that cover it.

## 2. `HttpCache`

One action per critical section of the index mutex. What a thread does after it
unlocks (sending jobs, reading a file) is a later step of the same thread,
recorded in `th[t]`; the writer thread has its own `writer` state, because
`write_entry`, `on_write_done` and each `remove_file` are separate steps. With
`DeletesFail` a `remove_file` may leave the file where it is, and the code goes on
(`disk.rs:192`, `233`).

| Model | Code |
|---|---|
| `idx` | `Index` (entries, primaries, `mem_lru`, `disk_lru`, byte counters, `generation`, `dirty`) |
| `files`, `saved` | entry files, `index.bin` |
| `queue`, `writer` | the channel to the writer thread and its current job |
| `Lookup`, `ReadSucceeds`, `ReadFails` | `lookup`, its disk read and `promote` |
| `Store`, `Invalidate`, `Enqueue`, `Return` | `store`, `invalidate` and the jobs they send after unlocking |
| `SaveIndex`, `PersistBegin` … `FlushTimeout` | `save_index`, `persist_blocking` |
| `WriteEntry`, `WriteDone`, `DeleteJob`, `CleanupJob`, `DeleteFile`, `SaveIndexJob`, `FlushJob` | the writer thread, `on_write_done` |
| `Restart` | the process dies and `HttpCache::open` runs again |

Abstractions. A response is a version number and a kind (weight in memory, body
length, size on disk, whether it varies by language). The 128-bit keys are
injective. A BTreeMap from sequence number to key is the sequence of its values.
`pending_write` and `pending_value` are one field, because the code sets and
clears them together. `MemEntryMax` and `DiskEntryMax` are parameters of their
own (in the code an eighth of the budget). A freshness rule never changes what
the index holds, so there is none. `latest` is a history variable: the version
stored last per variant; after a restart, what `index.bin` describes.

| Run | Shows |
|---|---|
| `HttpCache_faults`, part `tasks` | Two tasks, one URL whose responses start and stop varying between two languages (three variants), room for one response in memory and two on disk, failing reads and writes, three stores. LRU maps and byte counters match the entries and stay within budget (`TiersAccounted`); every entry is listed under its URL (`EntriesReachable`); no slot loses its file (`SlotsReadable`). Every eviction path is taken: a store over the memory budget, a write over the disk budget, a response too big for memory (weight 9 of 1) and one that is also too big for the disk (a body of 4, `DiskEntryMax` 3). |
| `HttpCache_faults`, part `shutdown` | One task and `persist_blocking` with flushes that time out and an index save that fails, failing writes, then a restart. No file is left behind once the queue has drained (`NoOrphanFiles`), and every write is settled (`WritesSettle`). |
| `HttpCache_crash`, part `all` | One task, the periodic saver, two URLs, a disk that holds one file, two crashes at any point. A slot never names another version's file, although generations restart from what `index.bin` knows (`SlotsNameTheirFile`); `index.bin` describes the disk tier whenever the index is not dirty (`IndexPersisted`); the last stored version or nothing is served (`ServesLatest`). Three stores and two crashes are what it takes to reuse a generation for a file that survived. |
| `HttpCache_crash`, part `url` | The same for one URL, with deletes that fail: files that stay behind are never read as those of a later version. |
| `HttpCache_promote_race` | A disagreement, see section 10. |

`NoOrphanFiles` claims nothing with `DeletesFail`: section 10 says why.

Fairness for `WritesSettle`: the writer thread runs, and a thread that owes it
a job sends it. Nobody has to store, look up, save or crash. One weakly fair
disjunction for them all is enough: none of these steps is disabled by the
others, and with bounded stores each of them runs out of steps.

## 3. `TabNav`

Browser process and renderer with the two FIFO links between them (`toR`,
`fromR`), document fetches (`fetches`), and the page's own view of the history
(`page.jsUrl`, `page.jsIx`). Each handler of a message is one action. An
operation of the browser is an operator that returns the new tab, the next
`doc_seq` and the messages sent, used by the user's action and by the handler of
the message with which script asks for the same.

| Model | Code |
|---|---|
| `Open`, `Go`, `HistoryPushed`, `UrlChanged` | `Browser::open`, `go`, `process_event` |
| `ShellNavigate`, `HandleNone` | the shell's `navigate` with the built-in new-tab page; `TabCrashed` |
| `NavigateTo`, `OnReload`, `OnLoadHtml`, `OnStop`, `OnTraverse`, `OnDocument`, `LoadComplete` | the renderer's handlers, `commit_navigation`, `tick` |
| `SameDocumentNavigation`, `ScriptPush`, `ScriptReplace`, `ScriptFragment`, `ScriptAssign`, `ScriptReload`, `ScriptGo` | `state.rs`, `activation.rs`, `40_webapi.js` |

Abstractions. A URL is a document and a fragment; all documents but the
new-tab page have one origin. `OnTraverse` reports the URL once where the code
reports it twice in a row, with the same effect. Titles, frames, metrics and
subframes are left out. A response is in the network or queued; aborting takes
back the first kind only, as in the code. `wanted` (the last command sent) and
`docOf` (the document first seen per `doc_seq`) are history variables.

| Run | Shows |
|---|---|
| `Document`, part `tabs` | Six operations of user and script (open, back and forward, pushState, replaceState, assign, history.go), each when nothing is in flight. Address bar, history entry, document and script agree on the URL and the entry's position (`AddressBarHonest`, `HistoryConsistent`), and entries with one `doc_seq` show one document. Six operations suffice to push, leave a document, return to it, go back inside it, and push over forward entries. |
| `TabNav_races` | A first navigation and two more operations that may overlap it and one another (open, home, back and forward, reload, stop, pushState, fragment, assign, location.reload; URLs with and without fragments), network errors, one crash at any point. The document asked for last is shown, no older response replaces a newer document, loading ends, a dead renderer is replaced or the tab marked crashed. Three navigations give every order of two responses around a third command. |
| `TabNav_loading_stuck` | A disagreement, see section 10. |

`LastNavigationWins` and `LoadingEnds` claim nothing once the last command was
Reload, Stop or a URL with a fragment; section 10 says why. `TabNav_races`
reaches a second load of a document and its fragments, but not the way back to
one of them: that takes three operations after the first navigation, and is
`TabNav_loading_stuck`. `Document`, with six operations, has no fragments.

Fairness: each event loop handles what is queued, every request is answered
(netstack has timeouts), and every page's load completes (`ResourceCount` is
about that step, and section 10 about when it does not). Users and scripts need not act, and nothing has to crash.

## 4. `NetClient`

Every access to one of the three maps or to `connected` is a separate step, so
that `fetch`, `abort`, `ws_open`, the reader thread and the disconnect interleave
at each point where the code holds no lock. `toS` and `fromS` are the link; the
service's tasks end in any order. `Background` tells the two constructors
apart: with `connect_in_background` the sender is closed before `None` is
delivered, with a plain connection it is not.

| Model | Code |
|---|---|
| `CheckConnected` … `FailFetch` | `fetch_inner` |
| `AbortProgress`, `AbortPending` | `abort` |
| `WsCheck` … `WsFail`, `WsClose` | `ws_open`, `ws_close` |
| `OnResponse`, `OnProgress`, `OnWsClosed`; `SetDisconnected` … `FailDrained` | `IpcShared::on_message`, with a message and with `None` |
| `RunCallback` | a thread of the callback pool |
| `HandleMessage`, `TaskEnds`, `ReportProgress`, `ServiceDies` | the service |

Abstractions. An id is the request itself (`next_id` never repeats).
`OnResponse` and `FailFetch` remove the progress callback and the pending one in
one step where the code uses two critical sections: both removals are
idempotent, and nobody reads one map to decide about the other. Waiters for
cookies and the in-process backend are left out. `MaxProgress` bounds the
reports per request; two are needed for one to come after the response.

| Run | Shows |
|---|---|
| `NetClient_requests` | Two requests, one too big for a frame, over the plain connection, with aborts, a service that dies or sends garbage. Each callback is in one place and called once unless aborted; no progress after completion; none is lost in the disconnect. |
| `NetClient_sockets` | A request and two WebSockets over the background connection: each socket that is closed or loses the service gets exactly one `Closed`. |

Fairness: threads that are inside a call finish it, the pool runs what is
queued, the reader delivers, the service handles what it received, a fetch ends
(timeouts), a socket told to close closes (its closing deadline), and the end of
the stream is noticed. Nobody has to call, abort or close; a service need not
die.

## 5. `ResourceCount`

The renderer's main thread requests resources, navigates and ticks. A request
ends on a thread of the callback pool, which runs the handler and drops the
`CountingHandler`; the handler of a style sheet requests its `@import`s on that
thread through the same provider (`vendor/blitz-dom/src/net.rs:174`). The
generation and the counter are two atomics, and what reads or writes one of them
is one step.

| Model | Code |
|---|---|
| `FetchBegin`, `FetchCount` | `CountingNetProvider::fetch` on the main thread or in a handler: the generation is read, then one is added (`host.rs:92`, `93`) |
| `DropCompare`, `DropSubtract` | `CountingHandler::drop`: the generations are compared, then one is subtracted (`host.rs:74`, `75`) |
| `NewGeneration`, `ResetCount` | `load_html`; a pool thread may do any of its steps between the two |
| `ReadPending`, `SendLoad` | `tick`: `load` is sent on what was read before its last fetches |

`DropSubtract` reads and writes the counter in one step, as `fetch_update` does.
Requests are numbered in the order they are made, so that a behaviour is not
explored again under other names. Three history variables name what was half done
at a navigation: `strayed` (a fetch read the generation before it and counts
after), `overdue` (a drop compared before it and subtracts after) and `forgotten`
(counted for the new document before its counter is reset).

The run `Page`, part `count`, has three requests and two navigations.
`LoadCounted` says that outside of `load_html` the counter is the number of the
document's requests that will still subtract from it, but for these: too high
only by what has strayed, too low only by what is overdue or forgotten, and that
a request of the main thread is never miscounted. `LoadFires` says that `load` is
sent although requests of earlier documents finish at any time, unless one has
strayed. `OwnRequestsCount`, what the comment of `drop` says, is refuted by
`ResourceCount_strayed` (section 10). Three requests are a style sheet, its
`@import` and one of the next document; two navigations let what crosses the
first one meet a second. Fairness: requests finish, pool threads and the main
thread go on; nobody has to request or to navigate.

## 6. `IndexedDB`, `AtomicStore`, `IdbRequests`

The page is single threaded: an action is one timer turn of the engine or one
call the page makes between two turns. `IndexedDB` has the transactions of one
database: `CanStart`, `PumpDb` and the queues (`canStart`, `pumpDb`,
`stepTx`), the requests (`put`, `add`, `clear`, lookups through an index), the
undo log, key generators, and commits that throw. The contents are cells
(record, index entry, generator, flag of an index); every change of a cell puts
its old value on the log. `IdbRequests` has opening, upgrading, closing and
deleting (`OpenNext`) and key ranges and cursors over a store or an index that
changes under them (`CursorNext`). A key or value is a member of a small set;
key conversion and key paths are left out. `storeDelete` removes few rows one by one
and rebuilds the store for more; the limit is `MaxOneByOne`, 1 in the run where the
code has 8, so that ranges of two keys take both ways.

`AtomicStore` is what a database promises: records change only when a
transaction commits, and a committed transaction could have run at that moment
in one go, with the answers it got. `Serialisable` in the run says that
`IndexedDB` implements it (`INSTANCE AtomicStore` with the committed records and
the logs of the requests).

| Run `IndexedDB`, part | Shows |
|---|---|
| `transactions` | An upgrade or writer and a reader or writer, over one store or two, with requests that fail half way, aborts from handlers and by exceptions, indexes created and deleted, a commit that throws. `TransactionsConsistent` (`IndexAgrees`, `GeneratorFresh`, `TimersMeetInactive`, `RequestsAnswered`), `Serialisable`, `TransactionsEnd`. |
| `open` | Three open requests (version 1, the present one, version 2) and a deletion, with connections that have a transaction while they close. `ConnectionsConsistent` (`UpgradeAlone`, `ConnectionVersion`, `EventOrder`), `RequestEnds`. |
| `cursor` | A cursor in four directions and three ranges over two keys, with two changes of the store between its moves. `CursorsConsistent` (rows mirror values, a range is what its bounds say, the cursor moves on and misses nothing). |

Two transactions are what it takes for one to read what another has not
committed; four requests for an upgrade and a deletion to wait for connections
of one another. Fairness: due timers run, transactions of other connections
end, a page closes a connection that was told of a version change.

## 7. The web API layer

Run `WebApi`; the parts are picked by `part`. Where handlers run in the middle
of the code, the model has a stack of what has begun (`xCalls`, `run`), and any
call the page may make is an action while a handler runs.

| Module, part | Models | Properties |
|---|---|---|
| `EventLoop`, `loop` | `addTimer`, `onTimer`, `clearTimer`, `postTask`, `runOneTask`, frames, idle callbacks (`40_webapi.js:13`) | `NothingForgotten`; `DeepTimersWait` (nesting); `CancelledStaysQuiet`; `InOrder`; every task runs |
| `Messaging`, `ports` | MessagePorts of one channel that move between two frames, stubs, relays, envelopes | `ChannelFifo`, `QueuesWatched`; everything arrives and no relay is left registered |
| `Messaging`, `worker` | a dedicated worker: start, messages both ways, timers, `terminate`, `close` | `MessagesInOrder`, `SilentAfterTerminate`, `TimersStop` |
| `RequestObjects`, `xhr` | `open`, `send`, `abort`, timeouts, answers, with events whose handlers call again | `OneOutcome`, `NothingDangling`, `StateGoesUp`; every request ends |
| `RequestObjects`, `socket` | a WebSocket object: connecting, `send`, `close`, the registry of live ones | `OneStory`, `BufferedHonest`; a close is answered |
| `RequestObjects`, `file` | a FileReader: reads and aborts from its own events | `EventsOnce`, `NoEcho`; every read ends |
| `Streams`, `streams` | a ReadableStream, `tee()`, `pipeThrough()`: reads, pulls, cancel, close, error | `ChunksInOrder`, `NobodyWaitsInVain`, `Backpressure`; every read is answered |
| `Fetch`, `fetch` | bodies of Request objects and their clones, streams as bodies, two signals, the host's answers | `BodyOnce`, `AbortEnds`, `NothingLeft`, `NeverAfterAbort`; every fetch settles |
| `FrameObservers`, `observers` | ResizeObserver and IntersectionObserver through the passes of a frame | `LastHeard`, `NothingOverlooked`; once the layout rests everybody knows it |
| `RequestObjects`, `url` | URLSearchParams of a URL and of their own; the text of a query | `QueryFollows` |
| `RequestObjects`, `decoder`, `encoder` | TextDecoder over chunks of bytes cut anywhere; `encodeInto` over small buffers | `ChunksAsWhole`, `BuffersAsWhole` |
| `RequestObjects`, `form data` | FormData as a multipart body and back; Blob slices; base64 in both alphabets | `BodyReadsBack`, `BytesReadBack` |
| `PageServices`, `locks` | Web Locks: requests, `ifAvailable`, aborted signals, callbacks and promises | `LockExclusion`, `LockOrder`; everybody is served who does not wait for the page |
| `PageServices`, `entries` | the performance timeline, its resource buffer and one observer | `EntriesObserved`, `EntriesOnTheirWay`; the observer is told |
| `PageServices`, `keys` | SubtleCrypto: generating, importing, deriving, wrapping, exporting and using keys | `KeysProper`, `ExtractableOnly`, `ExportReadsBack` |
| `WptRunner`, `tester` | workers of the test runner in both modes, browsers that die or hang, `--update` | `OwnResult`, `UpdateSettles`; every test has a result |

Bounds are on the calls a page makes (three to five per part, named `MaxCalls`,
`MaxOps`, `MaxMoves`, `MaxSends`, `MaxReads`), with two frames, two fetches, one
clone and two signals: enough for each call to come in the middle of each
other one. Three calls on a URL; four octets cut into chunks at any place, which
holds the longest sequence of UTF-8; four code units into buffers of three to
five octets; two entries of a form. Four requests of one lock, so that a shared
and an exclusive one wait behind one that holds while another is made; three
entries in a buffer of one or two; two keys and two answers, enough to wrap one
key with another and to read it back. Two paths with three tests for two workers. Fairness: code that was started goes on and what has a task gets its
turn (weak fairness of the engine, strong fairness where turns of timers and
progress events may come in between); nobody has to call anything.
Abstractions: payloads are numbers, headers and response types are left out, a
native answer comes at any time in any of its kinds. Bytes that a call of
SubtleCrypto makes are named by what they were made from, so that ciphers and
derivations are injective; a key in JSON is not read as raw bytes.

## 8. The page

Run `Page`.

| Module, part | Models | Properties |
|---|---|---|
| `ResourceCount`, `count` | section 5 | `LoadCounted`, `LoadFires` |
| `DomTree`, `dom` (and section 9) | insertion, removal, replacement, `splitText`, `normalize`, character data, range operations, each put together from the code's steps in their order | `RangeValid`, `RangeFollows`, `RecordsReplay`, `DeletesSelection` |
| `ScriptLoader`, `scripts` | parser-blocking, deferred, async, module, inserted and written scripts (modules also async, or written after parsing), `document.open()` and `close()`, DOMContentLoaded with its handlers, and load | `ParserOrder`, `DeferAndAsync`, `LoadIsLast`; load fires and every script runs or fails |
| `EventDispatch`, `events` | listeners with `once` and `signal`, markup handlers, nested dispatches, `AbortSignal.any()` | `CalledInOrder`, `OnceIsOnce`, `AbortIsFinal`, `EveryListenerCalled`, `RemovedIsQuiet` |
| `Animations`, `animation` | play, pause, finish, cancel, reverse, seeks and rates against the frames that start, move and end the animation | `StyleFollows`, `FrameComes`, `ReadySettles`, `TimeKeeps`; it comes to its end and says so |
| `CustomElements`, `elements` | definitions, upgrades, constructors and callbacks that run in the middle of a mutation | `EachUpgraded`, `ConstructedOnce`, `StacksBalanced`, `ToldRight` |
| `TreeObservers`, `observers`, `walk` | mutation observers; TreeWalker and NodeIterator with filters | `HeardInOrder`, `RecordsHaveTurn`; `WalksRight`, `IteratesRight` against definitions by document order and ancestors |
| `Forms`, `forms`, `selects` | clicks, labels, radio groups, submit and reset; a select with options that come and go | `OneOfGroup`, `ChangesAnnounced`, `NoReentry`, `SubmitsValid`; `ShowsChosen`, `ResetRestores` |
| `Forms`, `texts`, `numbers` | the selection of text controls against their value; `valueAsNumber`, steps and limits of number, range, date, month and time inputs | `SelectionInside`, `KeepsSelected`; `FieldsReadBack` |
| `Animations`, `effect` | `getComputedTiming()`, the values between keyframes, lists of keyframes, `steps()` and `linear()` | `TimingAddsUp`, `FramesMet`, `ListsEven`, `EasingsMeet` |
| `TextTracks`, `tracks` | tracks of media elements, cues, change events | `CuesInPlace`, `TracksAnnounced`, `OneChange` |

Bounds: two operations on the tree from six trees with ranges; six documents
with up to four scripts; three calls in nested dispatches up to depth three;
five calls on an animation; four calls around three elements of two names; two
operations on a text control and three on a number, with a range of 4 where the
code has 100; timings in quarters and halves of an iteration, up to four
keyframes with offsets in twelfths (so that thirds and quarters are exact). Page
code runs at every place the code calls it, and may do any of the operations
there, so two operations already interleave in every order; the properties that
need more (`once` in a nested dispatch, a written script that writes) are
reached with the mutants in `PROJECT.json`. Fairness: scripts return, timers,
tasks and frames that were asked for come, fetches end.

A variable such as `astray`, `late`, `limbo`, `crossed`, `slipped` or `lost`
remembers that a disagreement of section 10 was met; the properties say what
holds without it, and the section what happens with it.

## 9. Books of documents, drawings and sounds

Run `Document`: parts that run to their end in one call and must keep several
pieces of state in agreement, or give the answer of a definition.

| Module, part | Models | Properties |
|---|---|---|
| `TabNav`, `tabs` | section 3, one operation at a time | `AddressBarHonest`, `HistoryConsistent` |
| `NodeViews`, `attributes`, `collections` | Attr objects and token lists; live collections with their epochs | `OneObject`, `LeavesWithValue`, `ListsFollow`; `CollectionsLive` |
| `ShadowSlots`, `shadows` | shadow roots kept in the light tree | `ChildrenSeen`, `SlottedRight` |
| `DomTree`, `selection` | a Range's contents cloned, extracted, deleted and surrounded; the document's Selection and its event | `ClonesSelected`, `ExtractsAndDeletes`, `TextAsCloned`, `SurroundKeepsText`; `AsAsked`, `SelectionTold`, `MeetsTouched` |
| `StyleSheets`, `sheets` | rules of a `<style>` element as text and as objects; constructed sheets and who adopted them | `RulesApplied`, `FlushComes`, `LayoutSeesRules`, `ObjectsKept` |
| `Canvas2D`, `path`, `svg`, `canvas` | paths under a transform and the test for a point; the text of a path; state, clip and size of a context beside its surface | `SamePath`, `InsideFollows`; `SvgDraws`; `ClipHolds`, `PaintsOnCurrent`, `PaintsAsSet` |
| `XmlParse`, `xml` | `parseXML` and the serializer | `ParsesXml`, `SerializesBack` |
| `Matrices`, `matrix` | DOMMatrix | `FlagHonest`, `EffectsRight` |
| `XPath`, `xpath`, `xparse` | evaluation with merged steps and dropped inputs; the parser's operators | `PathSelects` against the recommendation's sets; `ParsesAsDerived`, `OperatorsApply` against the grammar |
| `GLObjects`, `buffers`, `programs` | buffers, vertex arrays, draws; shaders, programs, locations | `ReadsInside`, `DeletedUnbound`, `IndicesApart`; `AttachedAlive`, `AttributesApart`, `UniformsOfLink` |
| `GLImages`, `images` | textures, renderbuffers, framebuffers | `NoneDeleted`, `RendersApart`, `ImmutableKept`, `MipmapsComplete` |
| `GLContext`, `context` | contexts of a canvas, losses, frames, bitmaps | `OneKind`, `SizeFollows`, `MovedOnce`, `RestoredOnce`, `FrameOnItsWay` |
| `GLContext`, `mesh`, `strips`, `fragments` | which pixels triangles and points cover; strips, fans and restarts; scissor, depth, stencil and blending of a pixel | `CoveredOnce`, `PointIsSquare`; `RestartCuts`, `StripFaces`; `EarlyIsLate`, `NearestShown` |
| `AudioContexts`, `audio`, `offline` | the clock of a realtime context, a script processor; an offline rendering with suspends | `ClockHonest`, `LastCallWins`, `PlayedInOrder`; `SuspendedThere`, `OneRendering` |
| `AudioNodes`, `timeline`, `graph` | the events of an AudioParam and its short cuts; a graph with delays and cycles | `EventsMet`, `ShortCutsExact`, `HoldsValue`; `BothEnds`, `EachOnce`, `AllWaysHeard`, `HeardInTime` |

Bounds: two calls on a selection over a tree of three elements and two texts in
two of them; three calls on the curve of a parameter and on a graph of nodes;
three changes of a sheet; three steps of a path, four segments of its text, five
calls on a canvas, curves cut into 4 pieces where the code takes 16; triangles
on 3 by 3 pixels with corners at halves (the code has 256ths), strips of seven
indices, three fragments with two bits of stencil. Otherwise two to six calls per
part over two objects of each kind; paths of two
steps over three trees of four nodes, expressions of five symbols, XML of five
pieces. Sizes, levels and times are small numbers on both sides of each limit
the code checks (a draw of two vertices in a buffer of none, one or two). There
is no liveness here but in what a call leaves to a task.

## 10. Where code and comments disagree

Three runs are expected to find a violation:

* `HttpCache_promote_race`: a disk read that began before a `store` and ends
  after it is promoted to memory over the newer pending version, if that had
  already left memory. The old response is then served again.
* `TabNav_loading_stuck`: going back to a fragment of the document shown, which
  belongs to another `doc_seq`, makes the browser wait for a load where the
  renderer only scrolls. The tab stays loading.
* `ResourceCount_strayed`: a style sheet's handler on a pool thread reads the
  generation for an `@import` (`host.rs:92`), the page navigates and resets the
  counter, and the handler adds one (`host.rs:93`). The new document counts a
  request that is not its own, whose drop finds another generation and does not
  subtract: `load` is not sent. `host.rs:72` says that a request of the previous
  document "must not count against the new one". The same property is violated
  the other way round when a drop has compared (`host.rs:74`) before the
  navigation and subtracts (`host.rs:75`) after it, or when a handler of the
  old document requests something between the two stores of `load_html` and counts
  it before the second: `load` is then early.

Others appeared while modelling and are reached by changing constants of a run,
or are remembered by a variable that the properties mention.

Network and cache:

* With `WritesFail` in `HttpCache_crash`, `ServesLatest` fails: a failed write
  clears the pending version and keeps the older disk slot.
* With a saver and a closer together, or with `IndexSavesFail`,
  `IndexPersisted` fails: snapshots are taken under the lock and sent after it,
  and `dirty` is cleared before the save succeeded.
* With `Background = FALSE` in `NetClient_sockets`, `EventuallyClosed` fails:
  over the plain connection, `ws_open` that overlaps the disconnect may register
  a socket after the sockets were drained, while `send` still succeeds
  (`client.rs:454`). It never gets `Closed`.
* With `DeletesFail`, `NoOrphanFiles` fails: nobody looks at what `remove_file`
  returned (`disk.rs:192`, `233`), and the file stays until the next start finds
  it unknown to `index.bin`.
* An abort that comes after the response was queued for the pool does not
  prevent the callback.

Navigation:

* A URL that differs from the page's only in its fragment just scrolls
  (`renderer.rs:739`): a navigation in flight is not aborted, commits later and
  replaces the page, and the browser writes its URL into the newer history
  entry. `protocol.rs:276` says of `Navigate` that it is to "Load a new document
  into this renderer (replaces the current one)".
* Reload during a pending navigation reloads the old document. Stop crossing
  `Started` on the link leaves the loading flag set, and so does Reload when the
  first document was stopped before it arrived. The old document's `Load` sent
  during a new navigation clears the flag early.
* With typed fragments after pushState, `DocSeqOneDocument` fails: the
  renderer's URL is not the pushed one, so it loads where the browser expects a
  scroll.
* After `go` to another document with several entries, two of them have the same
  `doc_index`: all are relabelled and only the target's position is reset.

Web API layer:

* XMLHttpRequest: `#complete()` goes on after an upload listener aborted or
  reopened the request (`limbo`).
* Streams: a `pull()` that enqueues nothing is called again and again in
  microtasks; `pipeThrough()` never errors its readable side; a partly read and
  released byte body is read again in full by `text()`.
* fetch(): an abort while a stream body is read rejects only when the body ends;
  a `data:` or `blob:` GET has an id that cannot be cancelled.
* FileReader: a progress handler that reads again or aborts makes `load` fire
  with a null result. WebSocket: bytes sent after `close()` stay in
  `bufferedAmount`.
* Web Locks: `steal` is ignored; a signal is looked at only when the request is
  made, and after `ifAvailable`, so that an aborted request of a lock that is not
  there gets its callback with null; locks are shared within a realm only.
* TextDecoder: sequences of UTF-16 and multi-byte encodings cut between chunks
  are torn, and a byte order mark is taken from every chunk even with
  `ignoreBOM`. `append()` on the parameters of `web+demo:/.//x` turns its path
  into a host.
* Performance: an entry that no longer fits in the resource buffer is observed
  all the same.
* SubtleCrypto: `alg`, `use` and `key_ops` of a JSON Web Key are not checked on
  import; wrapping one with AES-KW fails unless its text is a multiple of 8 long.
* Test runner: a browser of a batch that dies is reported as a timeout, and
  writing to one that is gone ends the runner.
* A worker's module with static imports fires an error and never becomes ready.
* IntersectionObserver delivers records of an earlier observation after
  unobserve and observe.

Page:

* `replaceChild()` and `append()` of several nodes do not do the steps for live
  ranges although `20_dom.js:686` says every Range follows (`astray`); `append()`
  of several also skips disconnectedCallback. NodeIterators have no pre-removal
  steps; there are no transient observers.
* Ranges: `toString()` and the rectangles of a range stop at an end container
  that is an element beside the start (`20_dom.js:4811`, `4879`);
  `surroundContents()` looks at the two containers only. Changes of the
  selection by `deleteFromDocument()`, by its Range or by the tree queue no
  `selectionchange`, and `setBaseAndExtent()` over two trees goes by the order in
  which the nodes were made.
* Custom elements: reactions run at once, `ceState` is set before the
  constructor, and `ceConnected` does not look again (`crossed`).
* `document.write()` nested, from handlers, or in modules puts scripts in another
  order than a parser would; an async script that calls `document.open()` cannot
  write. A `document.write()` in a DOMContentLoaded handler that opens the document
  anew asks for `load` before it looks at what it writes (`90_bootstrap.js:895`), so
  that `load` may come before the written scripts.
* AbortSignal.any(): followers fire their event before the source does.
* Animations: `play()` while pending, `cancel()` and `startTime =` leave `ready`
  pending for ever; seeking a finished animation back leaves it running without
  a start time (`late`).
* Forms: `submittingForms` is set after the validation; a nested click that is
  cancelled takes back announced changes; a radio that comes into a group
  checked stays so; a reset selects option 0 even if it is disabled; `valueAsDate`
  of a month before 1970 is a year off; `stepBy` does not know the default
  maximum of a range.
* Effects: with two keyframes at offset 0 (or 1) the first (the last but one) is
  shown at progress 0 (1); `linear()` with two points at one place takes the
  first; no duration with infinite iterations never finishes.
* Text tracks: a moved track is not announced as removed (`slipped`).

Documents, drawings, sounds:

* An Attr whose attribute went with `removeAttribute()` keeps its owner. XPath
  iterators kept across tasks are invalid although nothing changed.
* Shadow roots: a slot that is removed takes its light children along; changing
  `slot` or `name` redistributes nothing; manual assignment is ignored.
* XML: a doctype or a processing instruction is skipped anywhere, duplicate
  attributes are accepted, the serializer leaves prefixes undeclared.
* DOMMatrix: the methods that make a new matrix lose `is2D`.
* WebGL: a program deleted in use is never completed, one deleted twice breaks
  its shaders' count; a failed relink breaks draws; mipmaps from another base
  level may be incomplete; a context lost by a resize is not restored;
  `transferControlToOffscreen()` refuses only WebGL; the restart index cuts
  strips in WebGL 1 as well, but not lists.
* Style sheets: an `@layer` or `@container` group that has lost its last rule
  keeps it in its text; a layout read writes rules back only when the text of
  some element waits.
* 2D canvas: after `setAttribute("width")` what is set before the next painting is
  lost.
* Web Audio: `setValueAtTime()` inside a curve and `cancelAndHoldAtTime()` in one;
  an offline `suspend()` at the end never settles; sources that are not connected
  never fire `ended`; feedback through a DelayNode is silent.

## 11. Proofs

For all values of the constants:

| Theorem | Statement |
|---|---|
| `HttpCacheProofs!CacheAccounted` | `Spec => []TiersAccounted` |
| `HttpCacheProofs!CacheReachable` | `Spec => []EntriesReachable` |
| `HttpCacheProofs!CacheFilesNamed` | `Spec => []SlotsNameTheirFile` |
| `HttpCacheProofs!CacheFilesReadable` | `Spec => []SlotsReadable` |
| `HttpCacheProofs!CacheFilesOwned` | `Spec => []NoOrphanFiles` (without `DeletesFail`) |
| `TabNavProofs!NavigationAlwaysFollowed` | `Spec => []NavigationInvariant` |
| `TabNavProofs!TabAlwaysWellFormed` | `Spec => []TypeOK` |
| `TabNavProofs!LastAskedIsShown` | `Spec => []LastNavigationWins` |
| `TabNavProofs!NoOlderDocument` | `Spec => NewestDocument` |
| `NetClientProofs!TypeCorrect` | `Spec => []TypeOK` |
| `NetClientProofs!CallbackNeverLost` | `Spec => []CallbackAccounted` |
| `NetClientProofs!CallbackOnce` | `Spec => []DoneAtMostOnce` |
| `NetClientProofs!DisconnectFailsAll` | `Spec => []NoRequestLost` |
| `NetClientProofs!OneClosedEvent` | `Spec => []ClosedAtMostOnce` |
| `NetClientProofs!NoProgressAfterDone` | `Spec => ProgressBeforeDone` |
| `ResourceCount!CountAccounted` | `Spec => []LoadCounted` |
| `IdbRequestsProofs!DatabaseOpenedSafely` | `OpenSpec => []ConnectionsConsistent` |
| `EventLoopProofs!LoopKeepsItsBooks` | `Spec => []LoopInvariant` |
| `EventLoopProofs!LoopForgetsNothing` | `Spec => []NothingForgotten` |
| `EventLoopProofs!DeepTimersAlwaysWait` | `Spec => []DeepTimersWait` |
| `EventLoopProofs!CancelledNeverRuns` | `Spec => CancelledStaysQuiet` |
| `EventLoopProofs!TasksRunInOrder` | `Spec => InOrder` |
| `PageServices!ExclusiveHeldAlone` | `LockSpec => [](LockTypeOK /\ LockExclusion)` |
| `PageServices!GrantedInOrder` | `LockSpec => []LockOrder` |
| `GLContext!OneSideTakes` | of the two sides of an edge one takes a sample, never both |
| `GLContext!SharedEdgeDrawnOnce` | two triangles beside an edge have no pixel in common |

Assumptions, each named in the module that declares the constants:
`CacheAssumption` (requests and kinds are of their types, budgets, limits and
bounds naturals, the faults Booleans; nothing is said of their sizes),
`NoneAssumption` (`None` is none of the records it stands in for),
`TabAssumption` (`Home` and `None` are no documents, the URLs a user opens first
have no fragment, links lead to documents), `ClientAssumption` (requests and
sockets are disjoint, flags are Booleans), `CountAssumption` (finitely many
requests, numbered by naturals), `LoopBounds` (the bounds and
the nesting limit are naturals). Three results carry their
hypotheses themselves, their modules being instantiated by the runs: that of
IndexedDB assumes `OpenAssumption` (finitely many requests, versions asked for
are naturals, `None` is no number, request or set of requests; `MCIndexedDB`
extends the module and evaluates it), those of the Web Locks assume `LockAssumption`,
that requests are counted by a natural number, and `SharedEdgeDrawnOnce` is about
any integer corners of which the two that are not shared lie on different sides,
any set of integer pixels and any positive number of sub-pixels.

### The cache

The first part of `HttpCacheProofs` has what the code's helpers do to an index:
what the two LRU maps list and the byte counters sum up after an insertion, a removal or a
touch, and that eviction, which pops records until the budget is kept, ends
within it with every record that left the map gone from its entry. Eviction is a
recursive function over the map's length; what it returns is shown by a least
counterexample (`LeastNatural`), since the induction theorems of the library
cannot be instantiated by the provers.

`IndexInvariant` is `TypeOK /\ Settled(idx)`: `Settled` says that records of a
map and entries of a tier correspond one to one, that the counters are their
sums, that neither tier is over its budget, and that every entry holds something
and is listed under its primary. Accounting alone is not inductive: an eviction
keeps the primaries right only if the entry it empties is the one its record
names. Every critical section of the code is shown to take a settled index to a
settled one; the steps outside the mutex leave it alone.

`FilesInvariant` is about files, jobs, the writer and the saved index together:
`OneDebt` (a thread owes the writer at most the jobs of one critical section),
`GenerationsDistinct` (no generation is in use twice among slots, writes under
way and the saved index), `WritesKnown`, `ReferencesName`, `WrittenThere`,
`DeletesSpent` (a delete is about a file no slot names), `CleanupFirst` (the
files a crash left are listed before anything is written), `SlotsReadable` and
`FilesKnown` (each file belongs to a slot, or a job that will remove it is still
to come). The argument: a generation is handed out once, so an outstanding write
is about a file that no slot, saved index or delete is about; after a restart the
generation goes on behind the largest one that `index.bin` knows, and files it
does not know are removed before new ones are written. TLC checked the invariant
on the configurations of the runs before it was proved. Where a delete may fail
without the file going, a file can be left that nobody will remove; `FilesKnown` and
`NoOrphanFiles` therefore claim nothing with `DeletesFail`, while the rest of the
invariant does not need deletes to succeed. Actions are proved through
three kinds of steps (`Spends`, `Sends`, `Works`: generations are handed out, jobs
go to the queue, the writer takes one), each with a lemma of its own. The
generation is a natural in the model; the code's is 32 bits wide and skips 0 when
it wraps (`mod.rs:163`), so the theorems are about runs of fewer than 2^32 stores.

### The tab

`LastNavigationWins` speaks of states in which nothing is in flight; to get there
one must follow the last command. `NavigationInvariant` does: while the last
load command is on the link (`LastSentIsWanted`) it is the last one there and is
`wanted`; once the renderer took it (`TakenIsHeadedFor`) the one fetch of the
current generation, the queued response of it or the page shown is for that
document. `GenerationsReached` says that no fetch is ahead of the renderer's
generation and that a superseded one is told by its number, `DeathIsLast` that
nothing follows the end of a stream, and `WellFormed` types the tab, the links
and the renderer, with the history position inside the history. The proof has a
generic lemma per kind of step (`BrowserDoesKeeps` for what the browser sends,
`CommandTaken` and `WorksKeeps` for the renderer, `TabChangeKeeps` for what only
changes the tab), and per action the reason why it is of that kind.
`NoOlderDocument` follows from `GenerationsReached`: what is committed is of the
current generation.

Two things came out of the proof. The type invariant had been bounded by the
number of operations of a run, and `LastNavigationWins` held only because two
operations do not reach a fragment during a navigation: the disagreement of
section 10. Both are now stated as they are.

### The network client and the counter

The properties of `NetClient` are not inductive: that a callback is called at
most once says nothing about a second copy that still waits in the map. `IInv`
adds where it can be. `OnePlace` counts all places of a callback (map, drained
list, queue, calls made, dropped by abort), zero before it is registered and one
ever after; `SocketPlace` does the same for `Closed`. `DrainIsFinal` says that
after the disconnect took the map's content, every callback still in the map
belongs to a call that has yet to look at `connected`; it needs
`ConnectedFollowsReader`, which ties `connected` to the reader's position.
`AbortAfterReturn` and `DrainedBriefly` exclude aborts of calls in progress and
a drained list outside its two steps. The proof has a lemma per actor (fetch,
abort, socket, reader, pool) and one for everything that leaves the client
alone.

`ProgressBeforeDone` is about both ends of the link: `on_progress` stays
registered until the response is handled, so what matters is what the service
may still send. `PInv` says that it knows a request (as a task, or in a message
either way) only after the fetch message was sent (`KnownAfterSend`); that while
the reader runs, a request whose send failed is unknown to the service
(`UnsentFails`) and one before its send is registered (`RegisteredUntilSent`);
and that a known request whose callback is queued or called has lost its
`on_progress` (`AnsweredUnheard`). `RequestStep` collects what any step of
another actor does to one request, so that each part is one short argument.

`LoadCounted` compares the counter with sets of requests that change with every
navigation. `CountInv` carries it: `CountBounded` puts the counter between the
outstanding requests less those it is short of (`Deficit`: what is forgotten, and
what is overdue and has subtracted by now) and the outstanding and strayed ones
together; `CrossingKnown` and `HistoryRight` say of each request in a history
variable how far it has got and that what strayed or is forgotten came from a
handler; `MainThreadAsks` that the main thread has no fetch half done when it
navigates, which is why its own requests are never miscounted. A step moves one
request, so each cardinality changes by at most one.

### Opening a database

The code keeps a request that is being processed in no state of its own: what
comes next is whatever zero-delay timer was set last. `OpenInvariant(p)` names it:
the phase `p` is the kind of the one timer that carries the request on, or
`waiting` (for connections to close), `running` (the upgrade transaction) or
`free`; the invariant is that there is such a phase. `Block` says that the
carrying timers are the versionchange events of one list, in a row, or a single
timer, and none in the three phases without; `Phased` and `Processed` what each
phase says of the books and of the request's connection (until it is alone, it is
not shown, not closing and without transactions; from then on it is the only one
open); `Queued` that requests not begun have no connection; `Answers` and
`InOrder` that a request has at most one answer under way, after which nothing
refers to it, and that the blocked event is ahead of what follows it; `Told` which
events were fired by then. `UpgradeAlone` needs all of this: that the others are
closed is decided by `checkWaiters` at one moment and relied on some timers later,
and only because no second request has begun can nothing have been opened in
between. TLC checked the invariant on four requests before it was proved. There is
a lemma per action; the four that end a request (`Finished`), the two that close
connections (`Settled`, `SettleStep`) and the two that announce an upgrade
(`Announcing`) share theirs. Nothing bounds the number of transactions or versions.

### The event loop

The properties of `EventLoop` speak of what waits; they hold because of who has an
id. `LoopInvariant` says it: a timer's id is handed out once and then armed, due
or that of the handler that runs, and belongs to a page timer or an internal one,
never to both (`IdsInPlace`, `TimersKept`). `TasksQueued`: the queue holds the
tasks posted last, in a row, and has one timer while it is not empty and none when
it is empty, so every turn of `runOneTask` finds a task to run.
`FramesAsked`: callbacks are in the order of their ids, and `frameRequested` is set
only while the host knows, so a callback added during a frame is not lost with
the request that frame answered; `CancelledGone`: what was cancelled was handed
out before, so no later id can meet it; `NestingCounts`: the level in the books of
the code is the length of the chain that set the timer, a history variable. Each
part has a lemma per action, and the whole is kept by every handler that calls
`clearTimeout` on its own id, on its neighbours in the batch or on nothing at all.

### Web Locks

`LockInvariant` says of a name's requests that those held are the ones in a stage
between granting and release, that they go with one another, that the queue is in
the order of the calls, behind all that are held, that its head does not go with
what is held, and that a number not yet given out belongs to nobody. Exclusion
alone is not inductive: granting several at once is right only because whatever
is granted before a request counts as held for it. `GrantedUpToBlocked` shows that
the loop of `processLocks()` stops (a least number, `LeastNumber`),
`GrantingKeepsOrder` that granting from any state in order leads to one in order,
whose head waits; a request and a release are then the same step from two
different states.

### The rasteriser

Whether a pixel on an edge belongs to a triangle is decided by the direction of
the edge. `OneSideTakes` says that of an edge and its reverse exactly one takes it;
`DrawnPasses` that a pixel drawn for a triangle, given either way round, passes its
edge from the triangle's side; `SharedEdgeDrawnOnce` follows. The part `mesh`
checks the same, and that no pixel of a mesh is left out, on a few pixels.

### What is only model-checked

* All liveness (`LoadingEnds`, `CrashHandled`, `WritesSettle`, `DoneUnlessAborted`,
  `EventuallyClosed`, `EverythingEnds`, `LoadFires`): the prover has no rule for
  fairness and ENABLED that reaches it.
* `IndexPersisted` and `ServesLatest`: they hold on their configurations only (one
  saver; one task and no failing write); section 10 has the runs in which they
  do not.
* `AddressBarHonest` and `HistoryConsistent`: they need `Patient`, one operation
  at a time, which makes them properties of a configuration.
* The other parts of `IndexedDB` (transactions, cursors), `WebApi`, `Page` and
  `Document`, and that every request to open or delete is answered (`RequestEnds`).
  `TreeObservers`, `DomTree`, `StyleSheets`, `Canvas2D`, `RequestObjects`, `XPath`,
  `XmlParse`, `Matrices` and `AudioNodes` use RECURSIVE operators, which the prover
  does not take; undo and cursors of `IndexedDB` are folds over logs and records,
  whose results only induction over data would give; the run properties
  `StateAgrees`, `OrderKept`, `OneOutcome`, `StepsRight`, `ScriptsInOrder`,
  `CalledRight` and `AnswersRight` are conjunctions over parts that only the MC
  modules put together.

## 12. What is not modelled

`PROJECT.json` lists every component with the part that is left out. In short:
layout, text painting, texture sampling, decoding, GLSL and signal processing (data
transformation); the Rust bindings of V8 (their semantics is V8's and the Web
platform's); the fetch pipeline, cookies, Alt-Svc, cache freshness, wire types
(planned, or parsing and matching without interaction); headless driver, build
and packaging (sequential tools); WebSocket task, debouncer, host limiter,
service life cycle, IPC queueing, updater and launcher (planned).

Where the JavaScript layer calls a native of the host, the model has what the
native does: for form controls that is `crates/script/src/forms.rs`. V8's
microtasks, the network and the operating system are not in the repository; the
modules have what the code relies on.

## 13. Plan

1. More theorems for the JavaScript layer, in modules without RECURSIVE
   operators: `IndexedDB` (`IndexAgrees`, `GeneratorFresh`, then the steps of the
   refinement of `AtomicStore`), `Messaging` (`ChannelFifo`), `Streams`
   (`Backpressure`).
2. `IpcLink`: the send state of `ipc.rs` refining an abstract ordered channel;
   `NetClient` and `TabNav` use that channel.
3. `Update`: updater and launcher with a crash between any two file operations.
4. The fetch pipeline against an abstract cache that `HttpCache` implements.
5. `NetService`: accept loop, idle grace, exit; debouncer and host limiter.

Runs are few and shared: a disagreement keeps its run while it is the most
telling one of its module, new modules become parts of the runs there are.
