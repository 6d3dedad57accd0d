------------------------------ MODULE WptRunner ------------------------------
(***************************************************************************)
(* tools/wpt/run.js: the runner of the web platform tests.  Workers take   *)
(* tests off one list.  In batch mode a worker feeds its tests to one      *)
(* browser, which writes one line per test; otherwise every test has a     *)
(* browser of its own.  The results are compared with expected.json, which *)
(* --update rewrites.                                                      *)
(***************************************************************************)
EXTENDS Naturals, Sequences, SequencesExt, FiniteSets

CONSTANTS
  Paths,         \* the paths asked for: each the sequence of its files
  WithWorkers,   \* --workers
  Jobs,          \* --jobs
  Outcomes       \* what the page of each test may do; of "ok", "fail", "fewer", "timeout", "error", "crash", "dies", "hangs"

VARIABLES
  batch,      \* --batch
  next,       \* index of the next test
  worker,     \* of each worker: [at, i], i the test in flight
  browser,    \* of each worker: its browser, or NoBrowser
  result,     \* of each test: its result, or NoResult
  expected,   \* expected.json: of each id its entry, or NoEntry
  verdict,    \* "" while tests run, then "pass", "regressions", "updated" or "aborted"
  truth,      \* what the page of each test really did
  crossed     \* tests given to a browser that another test had spoilt

wptRunner == <<batch, next, worker, browser, result, expected, verdict, truth, crossed>>

-----------------------------------------------------------------------------
(* The list of tests.  A file is [name, kind, skipped, globals, long,      *)
(* variants]; skipped are support files, reftests and pages without        *)
(* testharness.js.                                                         *)
WantsWindow(g) ==
  "window" \in g \/ "!worker" \in g \/ (g \cap {"worker", "dedicatedworker", "!window"} = {})
Pages(f) ==
  CASE f.skipped -> << >>
    [] f.kind = "any" ->
         (IF WantsWindow(f.globals) THEN <<".any.html">> ELSE << >>)
         \o (IF WithWorkers /\ f.globals \cap {"worker", "dedicatedworker"} # {} THEN <<".any.worker.html">> ELSE << >>)
    [] f.kind = "worker" -> IF WithWorkers THEN <<".worker.html">> ELSE << >>
    [] f.kind \in {"window", "page"} -> <<"." \o f.kind>>
    [] OTHER -> << >>
TestsForFile(f) ==
  LET variants == IF f.variants = << >> THEN <<"">> ELSE f.variants
      OfPage(page) == [k \in DOMAIN variants |-> [id |-> <<f.name, page, variants[k]>>, long |-> f.long]]
  IN  FoldLeft(LAMBDA acc, page : acc \o OfPage(page), << >>, Pages(f))
Enumerate(files) == FoldLeft(LAMBDA acc, f : acc \o TestsForFile(f), << >>, files)
tests == FoldLeft(LAMBDA acc, files : acc \o Enumerate(files), << >>, Paths)

N == Len(tests)
Ids == {tests[i].id : i \in 1..N}
Workers == 1..(IF Jobs < N THEN Jobs ELSE N)
\* Two of the paths overlap: a test is listed, and run, twice.
Overlap == Cardinality(Ids) < N

-----------------------------------------------------------------------------
NoBrowser == [life |-> "none", load |-> 0, used |-> FALSE, out |-> << >>, err |-> FALSE, stderr |-> FALSE, killers |-> {}]
(* A browser with the URL of test i; used: it has written a line.  What it *)
(* prints waits in its pipes (out; err: a panic message) until the runner  *)
(* reads it (stderr).                                                      *)
NewBrowser(i) == [life |-> "up", load |-> i, used |-> FALSE, out |-> << >>, err |-> FALSE, stderr |-> FALSE, killers |-> {i}]

(* A result: the status of the harness, and what it says of a subtest.  An *)
(* entry lists what does not pass: without one all is to be well.          *)
Res(status, sub) == [status |-> status, sub |-> sub]
NoResult == Res("none", "absent")
NoEntry == Res("OK", "pass")
Entries == {NoEntry, Res("OK", "fail"), Res("TIMEOUT", "pass")}

WptInit ==
  /\ batch \in BOOLEAN
  /\ next = 1
  /\ worker = [w \in Workers |-> [at |-> "pick", i |-> 0]]
  /\ browser = [w \in Workers |-> NoBrowser]
  /\ result = [i \in 1..N |-> NoResult]
  /\ expected = [id \in Ids |-> NoEntry]
  /\ verdict = ""
  /\ truth = [i \in 1..N |-> "none"]
  /\ crossed = {}

-----------------------------------------------------------------------------
(* What a line of output says: the page's own result, or that the renderer *)
(* crashed.                                                                *)
LineResult(line) ==
  CASE line = "ok" -> Res("OK", "pass")
    [] line = "fail" -> Res("OK", "fail")
    [] line = "fewer" -> Res("OK", "absent")
    [] line = "timeout" -> Res("TIMEOUT", "absent")
    [] line = "error" -> Res("ERROR", "absent")
    [] OTHER -> Res("CRASH", "absent")
(* batchResult(): a line of a browser that panicked counts as a crash, no  *)
(* line at all as a timeout, whatever ended the browser.                   *)
BatchResult(line, panic) ==
  IF line = "" THEN Res("TIMEOUT", "absent") ELSE IF panic THEN Res("CRASH", "absent") ELSE LineResult(line)
(* runOne(): the same from the exit of a browser started for one test.     *)
SingleResult(b) ==
  CASE b.err \/ b.stderr \/ (b.out # << >> /\ b.out[1] = "crash") -> Res("CRASH", "absent")
    [] b.life = "killed" -> Res("TIMEOUT", "absent")
    [] OTHER -> IF b.out # << >> THEN LineResult(b.out[1]) ELSE Res("ERROR", "absent")

-----------------------------------------------------------------------------
(* run(): the next URL goes to the browser the worker keeps, if it still   *)
(* reads, with a new killer and stderr cleared.                            *)
Given(b, i) ==
  IF b.life = "none" THEN NewBrowser(i)
  ELSE [b EXCEPT !.load = IF b.life = "up" THEN i ELSE 0, !.stderr = FALSE, !.killers = @ \cup {i}]
Spoilt(b) == b.life \in {"killed", "exiting"} \/ b.err

(* The worker takes the next test (next++), with the browser b it has, or  *)
(* ends; a batch browser that is left is closed.                           *)
TakesNext(w, b) ==
  IF next <= N
  THEN /\ worker' = [worker EXCEPT ![w] = [at |-> "wait", i |-> next]]
       /\ next' = next + 1
       /\ browser' = [browser EXCEPT ![w] = Given(b, next)]
       /\ crossed' = IF Spoilt(b) THEN crossed \cup {next} ELSE crossed
  ELSE /\ worker' = [worker EXCEPT ![w] = [at |-> IF b.life = "none" THEN "done" ELSE "last", i |-> 0]]
       /\ browser' = [browser EXCEPT ![w] = b]
       /\ UNCHANGED <<next, crossed>>

Begin(w) ==
  /\ worker[w].at = "pick"
  /\ TakesNext(w, NoBrowser)
  /\ UNCHANGED <<batch, result, expected, verdict, truth>>

\* mutant of Resolved
ResolvedArmed(b, i) == b
(* The answer to test i clears its killer.                                 *)
Resolved(b, i) == [b EXCEPT !.killers = @ \ {i}]
\* mutant of Restarts
RestartsNever(r, line) == FALSE
(* After a crash or without an answer the browser is closed, and the next  *)
(* test gets a new one once it has gone.                                   *)
Restarts(r, line) == line = "" \/ r.status = "CRASH"

(* The promise of run() is resolved; in the same turn the worker records   *)
(* the result and goes on.                                                 *)
Settle(w, b, line) ==
  LET i == worker[w].i
      r == BatchResult(line, b.stderr)
  IN  /\ result' = [result EXCEPT ![i] = r]
      /\ IF Restarts(r, line)
         THEN /\ worker' = [worker EXCEPT ![w] = [at |-> "closing", i |-> 0]]
              /\ browser' = [browser EXCEPT ![w] = b]
              /\ UNCHANGED <<next, crossed>>
         ELSE TakesNext(w, b)

(* A line arrives on stdout: it answers the URL in flight.                 *)
ReadLine(w) ==
  LET b == [browser[w] EXCEPT !.out = Tail(@)]
  IN  /\ batch /\ browser[w].out # << >>
      /\ IF worker[w].at = "wait"
         THEN Settle(w, Resolved(b, worker[w].i), Head(browser[w].out))
         ELSE browser' = [browser EXCEPT ![w] = b] /\ UNCHANGED <<worker, next, result, crossed>>
      /\ UNCHANGED <<batch, expected, verdict, truth>>
ReadStderr(w) ==
  /\ browser[w].err
  /\ browser' = [browser EXCEPT ![w] = [@ EXCEPT !.err = FALSE, !.stderr = TRUE]]
  /\ UNCHANGED <<batch, next, worker, result, expected, verdict, truth, crossed>>

(* The killer of a test fires: SIGKILL to the browser and its group.  The  *)
(* page has hung, or it has only just ended.                               *)
Killer(w, i) ==
  /\ i \in browser[w].killers /\ browser[w].life \in {"up", "exiting"}
  /\ browser' = [browser EXCEPT ![w] = [@ EXCEPT !.life = "killed", !.load = 0, !.killers = @ \ {i}]]
  /\ truth' = IF i = worker[w].i /\ truth[i] = "none" THEN [truth EXCEPT ![i] = "hangs"] ELSE truth
  /\ crossed' = IF ~batch /\ truth[i] \notin {"none", "hangs"} THEN crossed \cup {i} ELSE crossed
  /\ UNCHANGED <<batch, next, worker, result, expected, verdict>>

(* close(): stdin ends, and three seconds later the browser is killed.     *)
CloseEnds(w) ==
  /\ worker[w].at \in {"closing", "last"} /\ browser[w].life = "up"
  /\ browser' = [browser EXCEPT ![w] = [@ EXCEPT !.life = "exiting", !.load = 0]]
  /\ UNCHANGED <<batch, next, worker, result, expected, verdict, truth, crossed>>

(* 'close': the process has ended and its pipes are read.                  *)
Closed(w) ==
  LET b == browser[w] IN
  /\ b.life \in {"killed", "exiting"}
  /\ IF batch
     THEN /\ b.out = << >> /\ ~b.err
          /\ CASE worker[w].at = "wait" -> Settle(w, Resolved([b EXCEPT !.life = "gone"], worker[w].i), "")
               [] worker[w].at = "closing" -> TakesNext(w, NoBrowser) /\ UNCHANGED result
               [] OTHER -> /\ browser' = [browser EXCEPT ![w] = NoBrowser]
                           /\ worker' = [worker EXCEPT ![w].at = "done"]
                           /\ UNCHANGED <<next, result, crossed>>
     ELSE result' = [result EXCEPT ![worker[w].i] = SingleResult(b)] /\ TakesNext(w, NoBrowser)
  /\ UNCHANGED <<batch, expected, verdict, truth>>
(* A URL written to a browser that has ended fails with EPIPE: nobody      *)
(* listens for the error of stdin, so the runner itself ends.              *)
Broken(w) ==
  /\ batch /\ worker[w].at = "wait" /\ worker[w].i \in crossed
  /\ browser[w].life \in {"killed", "exiting"} /\ truth[worker[w].i] = "none"
  /\ verdict' = "aborted"
  /\ UNCHANGED <<batch, next, worker, browser, result, expected, truth, crossed>>
(* The worker waits for the end of a browser that has already gone.        *)
Exited(w) ==
  /\ worker[w].at = "closing" /\ browser[w].life = "gone"
  /\ TakesNext(w, NoBrowser)
  /\ UNCHANGED <<batch, result, expected, verdict, truth>>

-----------------------------------------------------------------------------
(* The browsers.  A page loads and has its outcome: a line, the end of the *)
(* process, or neither.  A browser for one test ends by itself.            *)
Load(w) ==
  LET b == browser[w]
      i == b.load
  IN  /\ b.life = "up" /\ i # 0
      /\ \E o \in Outcomes[i] :
           /\ truth' = [truth EXCEPT ![i] = o]
           /\ browser' = [browser EXCEPT ![w] =
                [b EXCEPT !.load = IF o = "hangs" THEN i ELSE 0,
                          !.out = IF o \in {"hangs", "dies"} THEN @ ELSE Append(@, o),
                          !.used = @ \/ o \notin {"hangs", "dies"},
                          !.err = @ \/ o \in {"crash", "dies"},
                          !.life = IF o = "dies" \/ (~batch /\ o # "hangs") THEN "exiting" ELSE "up"]]
      /\ truth[i] = "none"
      /\ UNCHANGED <<batch, next, worker, result, expected, verdict, crossed>>
(* The page that was left panics or takes the browser with it while it is  *)
(* torn down, after its line was written.                                  *)
LateTrouble(w, ends) ==
  LET b == browser[w] IN
  /\ batch /\ b.life = "up" /\ b.used /\ ~b.err /\ ~b.stderr /\ worker[w].at = "wait"
  /\ browser' = [browser EXCEPT ![w] = IF ends THEN [b EXCEPT !.life = "exiting", !.load = 0] ELSE [b EXCEPT !.err = TRUE]]
  /\ crossed' = crossed \cup (IF b.load # 0 \/ ~ends THEN {worker[w].i} ELSE {})
  /\ UNCHANGED <<batch, next, worker, result, expected, verdict, truth>>

-----------------------------------------------------------------------------
(* The end: compare() and --update.                                        *)
Regressed(r, e) ==
  \/ r.status # e.status /\ r.status # "OK"
  \/ r.sub = "fail" /\ e.sub = "pass"
  \/ r.sub = "absent" /\ e.sub = "fail" /\ r.status = "OK"
Improved(r, e) == (r.status # e.status /\ r.status = "OK") \/ (r.sub = "pass" /\ e.sub = "fail")
Compare(exp) ==
  LET regressions == {i \in 1..N : Regressed(result[i], exp[tests[i].id])}
      improvements == {i \in 1..N : Improved(result[i], exp[tests[i].id])}
  IN  <<regressions, improvements>>
\* mutant of EntryFor
EntryForKept(r, e) == IF r.status = "OK" /\ r.sub # "fail" THEN e ELSE [r EXCEPT !.sub = IF @ = "fail" THEN @ ELSE "pass"]
(* entryFor(): what does not pass; a test that is OK in every subtest has  *)
(* no entry any more.                                                      *)
EntryFor(r, e) == [r EXCEPT !.sub = IF @ = "fail" THEN @ ELSE "pass"]
(* Of two results of one id the later stays.                               *)
Updated(exp) ==
  FoldLeft(LAMBDA acc, i : [acc EXCEPT ![tests[i].id] = EntryFor(result[i], @)], exp, [i \in 1..N |-> i])

Finish(update) ==
  /\ verdict = "" /\ \A w \in Workers : worker[w].at = "done"
  /\ \E e \in Entries :   \* loadExpected()
       LET read == [id \in Ids |-> e] IN
       IF update THEN expected' = Updated(read) /\ verdict' = "updated"
       ELSE expected' = read /\ verdict' = IF Compare(read)[1] = {} THEN "pass" ELSE "regressions"
  /\ UNCHANGED <<batch, next, worker, browser, result, truth, crossed>>

-----------------------------------------------------------------------------
WptRunning == verdict = "" /\
  \E w \in Workers :
    \/ Begin(w) \/ ReadLine(w) \/ ReadStderr(w) \/ CloseEnds(w) \/ Closed(w) \/ Exited(w)
    \/ \E i \in 1..N : Killer(w, i)
WptPages == verdict = "" /\ \E w \in Workers : Load(w)
WptNext ==
  \/ WptRunning \/ WptPages
  \/ verdict = "" /\ \E w \in Workers : Broken(w) \/ \E ends \in BOOLEAN : LateTrouble(w, ends)
  \/ \E update \in BOOLEAN : Finish(update)

(* What a test is reported to have done is what its page did: a line, a    *)
(* panic or a killer of another test is not taken for its own.             *)
Honest(o) ==
  CASE o = "dies" -> Res(IF batch THEN "TIMEOUT" ELSE "CRASH", "absent")
    [] o \in {"hangs", "none"} -> Res("TIMEOUT", "absent")
    [] OTHER -> LineResult(o)
OwnResult == \A i \in 1..N :
  (result[i] # NoResult /\ i \notin crossed) => result[i] = Honest(truth[i]) /\ truth[i] # "none"

(* Once the expectations are updated the same results are no news.         *)
UpdateSettles == verdict = "updated" /\ ~Overlap => Compare(expected) = <<{}, {}>>

(* Every test comes to a result, whatever the pages do to their browsers.  *)
AllResults == verdict = "aborted" \/ \A i \in 1..N : result[i] # NoResult
=============================================================================
