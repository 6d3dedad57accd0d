------------------------------- MODULE TabNav -------------------------------
(***************************************************************************)
(* Navigation of one tab: the browser process's session history and        *)
(* loading state (crates/browser/src/lib.rs), the renderer's navigation    *)
(* and document life cycle (crates/engine/src/renderer.rs), the part of    *)
(* the page's script that drives the session history                       *)
(* (crates/script/src/state.rs, runtime.rs, activation.rs and              *)
(* js/40_webapi.js), and the shell's crash handling                        *)
(* (crates/shell/src/lib.rs).  The two processes talk over two FIFO links. *)
(*                                                                         *)
(* A URL is a document and a fragment (0: none).  All documents but Home   *)
(* are of one origin.  Titles, frames and metrics are left out.            *)
(***************************************************************************)
EXTENDS Integers, Sequences, FiniteSets

CONSTANTS
  Docs,        \* URLs without fragment that are fetched from the network
  Home,        \* the page the shell supplies itself (about:newtab)
  MaxFrag,     \* fragments are 1..MaxFrag
  FirstUrls,   \* what a new tab is opened with
  LinkUrls,    \* URLs the user types or a link or script opens
  UserOps,     \* subset of {"open", "go", "reload", "stop", "home"}
  ScriptOps,   \* subset of {"push", "replace", "fragment", "assign", "go", "reload"}
  Patient,     \* the user and the script act only when nothing is in flight
  FetchesFail, \* network errors happen
  MaxOps,      \* bound on user and script operations
  MaxCrashes,  \* bound on renderer crashes
  None

ASSUME TabAssumption ==
  /\ Home \notin Docs
  /\ None \notin Docs \cup {Home}
  /\ MaxFrag \in Nat /\ MaxOps \in Nat /\ MaxCrashes \in Nat
  /\ LinkUrls \subseteq [doc : Docs, frag : 0..MaxFrag]
  /\ FirstUrls \subseteq [doc : Docs \cup {Home}, frag : {0}]
  /\ Patient \in BOOLEAN /\ FetchesFail \in BOOLEAN

Urls == [doc : Docs \cup {Home}, frag : 0..MaxFrag]
HomeUrl == [doc |-> Home, frag |-> 0]

VARIABLES
  tab,      \* Tab of the browser process
  nextSeq,  \* Browser::next_doc_seq
  toR,      \* messages to the renderer, oldest first
  fromR,    \* messages to the browser, oldest first
  rend,     \* Renderer: generation, nav_request, page
  fetches,  \* document fetches: in the network, or answered and queued
  ops,      \* operations so far
  crashes,  \* renderer crashes so far
  wanted,   \* history: the last command sent that starts, repeats or stops a load
  docOf     \* history: the document first seen at an entry of each doc_seq

vars == <<tab, nextSeq, toR, fromR, rend, fetches, ops, crashes, wanted, docOf>>

(***************************************************************************)
(* Browser process.  An operation returns the tab, the next doc_seq and    *)
(* the messages it sends.                                                  *)
(***************************************************************************)
Entry(url, seq, ix) == [url |-> url, seq |-> seq, ix |-> ix]
Current(t) == t.history[t.index]
Navigate(url) == [m |-> "navigate", url |-> url]

(* doc_index of an entry added to, or put in place of, the current one *)
PushedIndexAlways(c, replace) == c.ix + 1
PushedIndex(c, replace) == IF replace THEN c.ix ELSE c.ix + 1

(* same_document: never for about: pages *)
SameDocument(a, b) == a.doc = b.doc /\ a.doc # Home

(* Browser::open *)
Open(t, seq, url, replace) ==
  LET sameDoc == url.frag # 0 /\ t.history # <<>> /\ SameDocument(Current(t).url, url)
      entry == IF sameDoc
               THEN Entry(url, Current(t).seq, PushedIndex(Current(t), replace))
               ELSE Entry(url, seq, 0)
      history == IF t.history = <<>> THEN <<entry>>
                 ELSE IF replace THEN [t.history EXCEPT ![t.index] = entry]
                 ELSE Append(SubSeq(t.history, 1, t.index), entry)
  IN [tab |-> [t EXCEPT !.history = history,
                        !.index = IF replace THEN @ ELSE Len(history),
                        !.url = url,
                        !.loading = @ \/ ~sameDoc],
      seq |-> IF sameDoc THEN seq ELSE seq + 1,
      msgs |-> <<Navigate(url)>>]

(* The shell's navigate: after about:newtab it supplies the page itself. *)
ShellNavigate(t, seq, url) ==
  LET r == Open(t, seq, url, FALSE)
  IN IF url = HomeUrl
     THEN [r EXCEPT !.msgs = Append(@, [m |-> "html", url |-> url])]
     ELSE r

(* "its old same-document entries become a new one" *)
RelabelledTarget(t, target, seq) == [t.history EXCEPT ![target].ix = 0]
Relabelled(t, target, seq) ==
  [n \in 1..Len(t.history) |->
    [t.history[n] EXCEPT !.seq = IF @ = t.history[target].seq THEN seq ELSE @,
                         !.ix = IF n = target THEN 0 ELSE @]]

(* Browser::go *)
Go(t, delta) ==
  LET target == t.index + delta
      e == t.history[target]
      moved == [t EXCEPT !.index = target, !.url = e.url]
  IN IF delta = 0 THEN [tab |-> t, seq |-> nextSeq, msgs |-> <<[m |-> "reload"]>>]
     ELSE IF target \notin 1..Len(t.history) THEN [tab |-> t, seq |-> nextSeq, msgs |-> <<>>]
     ELSE IF e.seq = Current(t).seq
     THEN [tab |-> moved, seq |-> nextSeq,
           msgs |-> <<[m |-> "traverse", url |-> e.url, ix |-> e.ix]>>]
     ELSE [tab |-> [moved EXCEPT !.history = Relabelled(t, target, nextSeq), !.loading = TRUE],
           seq |-> nextSeq + 1,
           msgs |-> <<Navigate(e.url)>>]

HistoryPushedTooFar(t, url, replace) ==
  [t EXCEPT !.history = Append(SubSeq(@, 1, t.index), Entry(url, Current(t).seq, 0)),
            !.index = @ + 2, !.url = url]

(* FromRenderer::HistoryPush *)
HistoryPushed(t, url, replace) ==
  LET entry == Entry(url, Current(t).seq, PushedIndex(Current(t), replace))
      history == IF replace THEN [t.history EXCEPT ![t.index] = entry]
                 ELSE Append(SubSeq(t.history, 1, t.index), entry)
  IN [t EXCEPT !.history = history,
               !.index = IF replace THEN @ ELSE Len(history),
               !.url = url]

(* FromRenderer::UrlChanged: the current entry takes the URL *)
UrlChanged(t, url) ==
  [t EXCEPT !.url = url, !.history[t.index].url = url]

Sent(msgs) == IF rend.alive THEN toR \o msgs ELSE toR

WantedAfter(msgs) ==
  LET loads == {n \in 1..Len(msgs) : msgs[n].m # "traverse"}
  IN IF loads = {} THEN wanted ELSE msgs[CHOOSE n \in loads : \A k \in loads : k <= n]

BrowserDoes(r) ==
  /\ tab' = r.tab
  /\ nextSeq' = r.seq
  /\ toR' = Sent(r.msgs)
  /\ wanted' = WantedAfter(r.msgs)

InFlight == toR # <<>> \/ fromR # <<>> \/ fetches # {}
         \/ (rend.alive /\ rend.page # None /\ ~rend.page.loadSent)

MayAct == ops < MaxOps /\ (Patient => ~InFlight)

(***************************************************************************)
(* The user, through the shell.                                            *)
(***************************************************************************)
UserStep(op) ==
  /\ op \in UserOps
  /\ MayAct
  /\ ops' = ops + 1
  /\ UNCHANGED <<fromR, rend, fetches, crashes, docOf>>

UserOpen(url) == UserStep("open") /\ BrowserDoes(ShellNavigate(tab, nextSeq, url))

UserHome == UserStep("home") /\ BrowserDoes(ShellNavigate(tab, nextSeq, HomeUrl))

UserGo(delta) ==
  /\ tab.index + delta \in 1..Len(tab.history)
  /\ UserStep("go")
  /\ BrowserDoes(Go(tab, delta))

UserReload ==
  /\ UserStep("reload")
  /\ BrowserDoes(IF tab.url = HomeUrl THEN ShellNavigate(tab, nextSeq, HomeUrl)
                 ELSE [tab |-> [tab EXCEPT !.loading = TRUE], seq |-> nextSeq,
                       msgs |-> <<[m |-> "reload"]>>])

UserStop ==
  /\ UserStep("stop")
  /\ BrowserDoes([tab |-> [tab EXCEPT !.loading = FALSE], seq |-> nextSeq,
                  msgs |-> <<[m |-> "stop"]>>])

(***************************************************************************)
(* Renderer.  A document is identified by (crashes, generation).           *)
(***************************************************************************)
Receive(kind) ==
  /\ rend.alive
  /\ toR # <<>>
  /\ Head(toR).m = kind
  /\ toR' = Tail(toR)
  /\ UNCHANGED <<tab, nextSeq, ops, crashes, wanted, docOf>>

Report(msgs) == fromR' = fromR \o msgs
UrlMsg(url, by) == [m |-> "url", url |-> url, by |-> by]
LoadMsg(event) == [m |-> "load", event |-> event]

(* load_html *)
Loaded(url, gen, script) ==
  [url |-> url, from |-> url.doc, by |-> <<crashes, gen>>, script |-> script, loadSent |-> FALSE,
   jsUrl |-> url, jsIx |-> 0]

(* abort: a response that is already queued is not taken back *)
Aborted(gen) == {f \in fetches : f.gen # gen \/ f.at = "queued"}

NavigateTo(url) ==
  LET page == rend.page
      gen == rend.gen + 1
  IN IF page # None /\ page.url.doc = url.doc /\ url.frag # 0 /\ page.url # url
     THEN \* a fragment of the current document: just scroll
          /\ rend' = [rend EXCEPT !.page.url = url]
          /\ Report(<<UrlMsg(url, page.by)>>)
          /\ UNCHANGED fetches
     ELSE /\ rend' = [rend EXCEPT !.gen = gen, !.nav = gen]
          /\ Report(<<LoadMsg("started")>>)
          /\ fetches' = Aborted(rend.nav) \cup {[gen |-> gen, url |-> url, at |-> "net", ok |-> TRUE]}

OnNavigate == Receive("navigate") /\ NavigateTo(Head(toR).url)

OnReload ==
  /\ Receive("reload")
  /\ IF rend.page = None THEN UNCHANGED <<rend, fromR, fetches>>
     ELSE NavigateTo(rend.page.url)

OnLoadHtml ==
  LET page == Loaded(Head(toR).url, rend.gen + 1, FALSE)
  IN /\ Receive("html")
     /\ rend' = [rend EXCEPT !.gen = @ + 1, !.page = page]
     /\ Report(<<UrlMsg(page.url, page.by)>>)
     /\ UNCHANGED fetches

OnStop ==
  /\ Receive("stop")
  /\ rend' = IF rend.nav = 0 THEN rend ELSE [rend EXCEPT !.nav = 0, !.gen = @ + 1]
  /\ fetches' = IF rend.nav = 0 THEN fetches ELSE Aborted(rend.nav)
  /\ UNCHANGED fromR

OnTraverseScriptUntold ==
  /\ Receive("traverse")
  /\ UNCHANGED fetches
  /\ IF rend.page = None THEN UNCHANGED <<rend, fromR>>
     ELSE /\ rend' = [rend EXCEPT !.page.url = Head(toR).url]
          /\ Report(<<UrlMsg(Head(toR).url, rend.page.by)>>)

(* HistoryTraverse and ScriptRuntime::history_traversed; both report the
   URL, one after the other: one report stands for the two. *)
OnTraverse ==
  LET url == Head(toR).url
  IN /\ Receive("traverse")
     /\ UNCHANGED fetches
     /\ IF rend.page = None THEN UNCHANGED <<rend, fromR>>
        ELSE /\ rend' = [rend EXCEPT !.page.url = url,
                                     !.page.jsUrl = url,
                                     !.page.jsIx = Head(toR).ix]
             /\ Report(<<UrlMsg(url, rend.page.by)>>)

(* The network service answers; it knows no about:newtab. *)
FetchAnswered(f, ok) ==
  /\ f \in fetches
  /\ f.at = "net"
  /\ IF ok THEN f.url.doc # Home ELSE FetchesFail \/ f.url.doc = Home
  /\ fetches' = (fetches \ {f}) \cup {[f EXCEPT !.at = "queued", !.ok = ok]}
  /\ UNCHANGED <<tab, nextSeq, toR, fromR, rend, ops, crashes, wanted, docOf>>

(* The response is not that of the newest navigation. *)
NeverSuperseded(f) == FALSE
Superseded(f) == f.gen # rend.gen

(* LoopMsg::Document and commit_navigation *)
OnDocument(f) ==
  LET page == Loaded(f.url, f.gen, f.ok)
  IN /\ rend.alive
     /\ f \in fetches
     /\ f.at = "queued"
     /\ fetches' = fetches \ {f}
     /\ IF Superseded(f) THEN UNCHANGED <<rend, fromR>>
        ELSE /\ rend' = [rend EXCEPT !.nav = 0, !.page = page]
             /\ Report(<<UrlMsg(page.url, page.by)>>
                       \o IF f.ok THEN <<>> ELSE <<LoadMsg("failed")>>)
     /\ UNCHANGED <<tab, nextSeq, toR, ops, crashes, wanted, docOf>>

(* tick: everything the page needs has arrived *)
LoadComplete ==
  /\ rend.alive
  /\ rend.page # None
  /\ ~rend.page.loadSent
  /\ rend' = [rend EXCEPT !.page.loadSent = TRUE]
  /\ Report(<<LoadMsg("load")>>)
  /\ UNCHANGED <<tab, nextSeq, toR, fetches, ops, crashes, wanted, docOf>>

(***************************************************************************)
(* Script of the page.  Its URL and history index (RuntimeState::url and   *)
(* history) are page.jsUrl and page.jsIx; the renderer's page.url is not   *)
(* touched.                                                                *)
(***************************************************************************)
ScriptStep(op) ==
  /\ op \in ScriptOps
  /\ rend.alive
  /\ rend.page # None
  /\ rend.page.script
  /\ MayAct
  /\ ops' = ops + 1
  /\ UNCHANGED <<tab, nextSeq, toR, fetches, crashes, wanted, docOf>>

(* same_document_navigation *)
SameDocumentNavigation(url, replace) ==
  LET by == rend.page.by
  IN /\ rend' = [rend EXCEPT !.page.jsUrl = url,
                             !.page.jsIx = @ + IF replace THEN 0 ELSE 1]
     /\ Report(<<[m |-> "push", url |-> url, replace |-> replace, by |-> by], UrlMsg(url, by)>>)

ScriptPush(doc) ==
  ScriptStep("push") /\ SameDocumentNavigation([doc |-> doc, frag |-> 0], FALSE)

ScriptReplace(doc) ==
  ScriptStep("replace") /\ SameDocumentNavigation([doc |-> doc, frag |-> 0], TRUE)

(* location.hash = ..., a click on a link to a fragment *)
ScriptFragment(frag) ==
  /\ ScriptStep("fragment")
  /\ frag # rend.page.jsUrl.frag
  /\ SameDocumentNavigation([rend.page.jsUrl EXCEPT !.frag = frag], FALSE)

(* navigate_to a URL that is not a fragment of the document *)
ScriptAssign(url) ==
  /\ ScriptStep("assign")
  /\ url.frag = 0 \/ url.doc # rend.page.jsUrl.doc
  /\ Report(<<[m |-> "open", url |-> url, replace |-> FALSE]>>)
  /\ UNCHANGED rend

ScriptReload ==
  /\ ScriptStep("reload")
  /\ Report(<<[m |-> "open", url |-> rend.page.jsUrl, replace |-> TRUE]>>)
  /\ UNCHANGED rend

ScriptGo(delta) ==
  /\ ScriptStep("go")
  /\ Report(<<[m |-> "go", delta |-> delta]>>)
  /\ UNCHANGED rend

(***************************************************************************)
(* process_event: the browser handles a message of the renderer.           *)
(***************************************************************************)
Handle(kind) ==
  /\ fromR # <<>>
  /\ Head(fromR).m = kind
  /\ fromR' = Tail(fromR)
  /\ UNCHANGED <<fetches, ops, crashes>>

(* The first document reported at the current entry is its doc_seq's. *)
Attributed(t, by) ==
  [docOf EXCEPT ![Current(t).seq] = IF @ = None THEN by ELSE @]

HandleUrl ==
  /\ Handle("url")
  /\ tab' = UrlChanged(tab, Head(fromR).url)
  /\ docOf' = Attributed(tab, Head(fromR).by)
  /\ UNCHANGED <<nextSeq, toR, rend, wanted>>

HandlePush ==
  /\ Handle("push")
  /\ tab' = HistoryPushed(tab, Head(fromR).url, Head(fromR).replace)
  /\ docOf' = Attributed(tab, Head(fromR).by)
  /\ UNCHANGED <<nextSeq, toR, rend, wanted>>

HandleLoadFailuresOnly ==
  /\ Handle("load")
  /\ tab' = [tab EXCEPT !.loading = (Head(fromR).event # "failed")]
  /\ UNCHANGED <<nextSeq, toR, rend, wanted, docOf>>

HandleLoad ==
  /\ Handle("load")
  /\ tab' = [tab EXCEPT !.loading = (Head(fromR).event = "started")]
  /\ UNCHANGED <<nextSeq, toR, rend, wanted, docOf>>

HandleOpen ==
  /\ Handle("open")
  /\ BrowserDoes(Open(tab, nextSeq, Head(fromR).url, Head(fromR).replace))
  /\ UNCHANGED <<rend, docOf>>

HandleGo ==
  /\ Handle("go")
  /\ BrowserDoes(Go(tab, Head(fromR).delta))
  /\ UNCHANGED <<rend, docOf>>

NewRenderer == [alive |-> TRUE, gen |-> 0, nav |-> 0, page |-> None]

HandleNoneBlank(respawned) ==
  /\ Handle("none")
  /\ tab' = [tab EXCEPT !.loading = FALSE, !.crashed = ~respawned]
  /\ rend' = IF respawned THEN NewRenderer ELSE rend
  /\ UNCHANGED <<nextSeq, toR, wanted, docOf>>

(* TabCrashed and the shell's answer: a new renderer with an error page,
   unless three were started within 30 s or the process cannot be started.
   The link's None is the last message of a renderer, so the epoch check of
   process_event never has anything to drop here. *)
HandleNone(respawned) ==
  LET html == [m |-> "html", url |-> tab.url]
  IN /\ Handle("none")
     /\ tab' = [tab EXCEPT !.loading = FALSE, !.crashed = ~respawned]
     /\ rend' = IF respawned THEN NewRenderer ELSE rend
     /\ toR' = IF respawned THEN <<html>> ELSE toR
     /\ wanted' = IF respawned THEN html ELSE wanted
     /\ UNCHANGED <<nextSeq, docOf>>

(* The renderer process dies: what it has not read is lost. *)
Crash ==
  /\ rend.alive
  /\ crashes < MaxCrashes
  /\ crashes' = crashes + 1
  /\ rend' = [rend EXCEPT !.alive = FALSE, !.nav = 0, !.page = None]
  /\ toR' = <<>>
  /\ fetches' = {}
  /\ Report(<<[m |-> "none"]>>)
  /\ UNCHANGED <<tab, nextSeq, ops, wanted, docOf>>

(***************************************************************************)
(* A tab just opened: new_tab, open_tab.                                   *)
(***************************************************************************)
NewTab == [url |-> HomeUrl, history |-> <<>>, index |-> 1, loading |-> FALSE, crashed |-> FALSE]

Init ==
  /\ \E url \in FirstUrls :
       LET opened == ShellNavigate(NewTab, 0, url)
       IN /\ tab = opened.tab
          /\ nextSeq = opened.seq
          /\ toR = opened.msgs
          /\ wanted = opened.msgs[Len(opened.msgs)]
  /\ fromR = <<>>
  /\ rend = NewRenderer
  /\ fetches = {}
  /\ ops = 0 /\ crashes = 0
  /\ docOf = [seq \in 0..MaxOps |-> None]

Deltas == {-1, 1}

UserNext ==
  \/ \E url \in LinkUrls : UserOpen(url)
  \/ \E delta \in Deltas : UserGo(delta)
  \/ UserHome \/ UserReload \/ UserStop

ScriptNext ==
  \/ \E doc \in Docs : ScriptPush(doc)
  \/ \E doc \in Docs : ScriptReplace(doc)
  \/ \E frag \in 1..MaxFrag : ScriptFragment(frag)
  \/ \E url \in LinkUrls : ScriptAssign(url)
  \/ \E delta \in Deltas : ScriptGo(delta)
  \/ ScriptReload

BrowserNext ==
  \/ HandleUrl \/ HandlePush \/ HandleLoad \/ HandleOpen \/ HandleGo
  \/ \E respawned \in BOOLEAN : HandleNone(respawned)

RendererNext == OnNavigate \/ OnReload \/ OnLoadHtml \/ OnStop \/ OnTraverse

Answers == \E f \in fetches, ok \in BOOLEAN : FetchAnswered(f, ok)
Commits == \E f \in fetches : OnDocument(f)

Next == UserNext \/ ScriptNext \/ BrowserNext \/ RendererNext
     \/ Answers \/ Commits \/ LoadComplete \/ Crash

Spec == Init /\ [][Next]_vars

(* The event loops handle what is queued, every request is answered (or
   times out) and every page's subresources arrive (or fail). *)
Fairness ==
  /\ WF_vars(BrowserNext)
  /\ WF_vars(RendererNext)
  /\ WF_vars(Answers)
  /\ WF_vars(Commits)
  /\ WF_vars(LoadComplete)

FairSpec == Spec /\ Fairness

-----------------------------------------------------------------------------
Quiet == rend.alive /\ ~InFlight

(* The tab's records are well formed, history_index is inside the history
   (every indexing of Tab::history in lib.rs relies on it) and no entry has a
   doc_seq that was not handed out. *)
Entries(seq) == [url : Urls, seq : 0..seq - 1, ix : Nat]

TypeOK ==
  /\ nextSeq \in Nat \ {0}
  /\ tab \in [url : Urls, history : Seq(Entries(nextSeq)), index : Nat,
              loading : BOOLEAN, crashed : BOOLEAN]
  /\ tab.index \in 1..Len(tab.history)
  /\ rend.alive \in BOOLEAN /\ rend.gen \in Nat /\ rend.nav \in 0..rend.gen

(* The URL the page's script, or the renderer when there is no script,
   has for the document. *)
DocumentUrl == IF rend.page.script THEN rend.page.jsUrl ELSE rend.page.url

(* protocol.rs UrlChanged: once nothing is in flight, the address bar, the
   current history entry and the document agree on the URL, whatever
   pushState, traversals and loads came before. *)
AddressBarHonest ==
  Quiet /\ rend.page # None =>
    tab.url = DocumentUrl /\ Current(tab).url = tab.url

(* HistoryEntry::doc_index: the browser and the script agree on the position
   of the current entry, which selects the popstate state. *)
DocIndexAgrees ==
  Quiet /\ rend.page # None /\ rend.page.script => Current(tab).ix = rend.page.jsIx

(* HistoryEntry::doc_seq: "Entries with the same doc_seq belong to one
   document": the document shown at an entry is the one its doc_seq stands for. *)
DocSeqOneDocument ==
  Quiet /\ rend.page # None => docOf[Current(tab).seq] = rend.page.by

(* What a history entry says of its document is true, position and identity. *)
HistoryConsistent == TypeOK /\ DocIndexAgrees /\ DocSeqOneDocument

(* Renderer::handle, LoopMsg::Document: a response of an earlier navigation
   never replaces the document of a later one. *)
NewestDocument ==
  [][rend.page # None /\ rend'.page # None /\ crashes' = crashes
       => rend'.page.by[2] >= rend.page.by[2]]_vars

(* The last command names a document (Reload and Stop do not), and not one of
   its fragments, to which the renderer may only scroll. *)
AskedForDocument == wanted.m \in {"navigate", "html"}
AskedForWhole == AskedForDocument /\ wanted.url.frag = 0

(* navigate, load_html: once nothing is in flight, the tab shows the document
   the browser asked for last, unless it sent Reload or Stop or asked for a
   fragment since. *)
LastNavigationWins ==
  Quiet /\ rend.page # None /\ AskedForWhole => rend.page.from = wanted.url.doc

(* Tab::loading drives the progress bar and the reload/stop button: it is
   reset once the navigation has ended, failed or been replaced, or the
   renderer has died.  Nothing is claimed after Reload or Stop: a Stop may
   cross Started on the link, and a renderer without a page ignores Reload. *)
LoadingEnds ==
  tab.loading /\ AskedForWhole ~> (~tab.loading \/ tab.crashed \/ ~AskedForWhole)

(* The same for every URL, a fragment of the document shown included. *)
LoadingAlwaysEnds ==
  tab.loading /\ AskedForDocument ~> (~tab.loading \/ tab.crashed \/ ~AskedForDocument)

(* TabCrashed: a tab whose renderer died ends up with a new renderer that
   shows a page, or is marked crashed. *)
CrashHandled == ~rend.alive ~> (tab.crashed \/ (rend.alive /\ rend.page # None))
=============================================================================
