------------------------------ MODULE IndexedDB ------------------------------
(***************************************************************************)
(* The transactions of one IndexedDB database (crates/script/js/           *)
(* 45_indexeddb.js): scheduling by scope and mode, the request queues and  *)
(* their one-turn-per-timer stepping, the undo log, key generators and     *)
(* indexes.  Opening, deleting and closing a database, key ranges and      *)
(* cursors are IdbRequests.                                                *)
(*                                                                         *)
(* The page's code is single threaded: an action is one timer turn of the  *)
(* engine, or one call the page makes between two turns (a microtask, a    *)
(* task of its own).  What an event handler does to its transaction is the *)
(* "outcome" of the dispatch.                                              *)
(*                                                                         *)
(* The contents are cells: a record <<"row", s, k>>, an index entry        *)
(* <<"ix", i, v, k>>, a generator <<"next", s>> and the flags of an index. *)
(* Every change of a cell puts its old value on the undo log.              *)
(***************************************************************************)
EXTENDS Naturals, Sequences, FiniteSets, FiniteSetsExt, SequencesExt

CONSTANTS
  Stores,      \* object stores, all with a key generator and out-of-line keys
  Indexes,     \* index objects, created at most once each
  StoreOf,     \* [Indexes -> Stores]
  Unique,      \* the indexes declared unique
  GenMax,      \* MAX_GENERATED: the largest key a generator hands out
  Values,        \* values; an index key is the value itself
  Txs,         \* transactions, numbered in creation order
  Plans,       \* [Txs -> what the page may ask for: pairs of a mode and a scope]
  Menu,        \* the requests the page makes
  MaxOneByOne, \* how many records are deleted one by one (8)
  MaxRequests, \* bound: requests placed
  MaxTimers,   \* bound: page timers set
  CommitFails, \* whether backend.commit may throw
  Existing,    \* the indexes the database has from the start
  None

Keys == 1..GenMax

Cells ==
  ({"row"} \X Stores \X Keys) \union ({"ix"} \X Indexes \X Values \X Keys)
    \union ({"next"} \X Stores) \union ({"listed", "maintained", "populated"} \X Indexes)

(* A request: what it does, to which store or index, with which key and    *)
(* value.  A key of None asks the generator for one.                       *)
Request(kind, on, key, val) == [kind |-> kind, on |-> on, key |-> key, val |-> val]

VARIABLES
  db,        \* the cells (DbData, StoreData, IndexData)
  tx,        \* the transactions
  live,      \* db.txs: the unfinished transactions, in creation order
  tasks,     \* the zero-delay timers not run yet, in order
  done,      \* history: the logs of the committed transactions
  answered,  \* history: how often each transaction's requests got an event
  timers,    \* how many page timers were set
  late       \* history: page timers that met the transaction that was active when they were set

vars == <<db, tx, live, tasks, done, answered, timers, late>>

-----------------------------------------------------------------------------
(* Data operations.  w is the work in progress: cells, undo log, and the   *)
(* failure and answer of the request.                                      *)

Set(w, c, v) == [w EXCEPT !.db[c] = v, !.undo = Append(@, <<c, w.db[c]>>)]

(* Undone from the newest change to the oldest.                            *)
Rollback(w, mark) ==
  LET Undo(cells, entry) == [cells EXCEPT ![entry[1]] = entry[2]]
  IN  [w EXCEPT !.db = FoldLeft(Undo, @, Reverse(SubSeq(w.undo, mark + 1, Len(w.undo)))),
                !.undo = SubSeq(@, 1, mark)]

Fail(w) == [w EXCEPT !.error = TRUE]

Maintained(cells, s) == {i \in Indexes : StoreOf[i] = s /\ cells[<<"maintained", i>>]}

(* indexAdd and indexRemove do nothing while the index is not populated.   *)
IndexAdd(w, i, k, v) ==
  IF w.error \/ ~w.db[<<"populated", i>>] THEN w
  ELSE IF i \in Unique /\ \E key \in Keys : w.db[<<"ix", i, v, key>>] THEN Fail(w)
  ELSE Set(w, <<"ix", i, v, k>>, TRUE)

IndexRemoveNever(w, i, k, v) == w   \* mutant of IndexRemove
IndexRemove(w, i, k, v) ==
  IF w.db[<<"populated", i>>] /\ w.db[<<"ix", i, v, k>>] THEN Set(w, <<"ix", i, v, k>>, FALSE) ELSE w

RemoveRow(w, s, k) ==
  LET v == w.db[<<"row", s, k>>]
      Drop(acc, i) == IndexRemove(acc, i, k, v)
  IN  IF v = None THEN w
      ELSE FoldLeft(Drop, Set(w, <<"row", s, k>>, None), SetToSeq(Maintained(w.db, s)))

(* storeDelete: a few records go one by one; more of them are cut out, and *)
(* then what they left in each index, populated or not.                    *)
DeleteKeys(w, s, keys) ==
  LET gone == {k \in keys : w.db[<<"row", s, k>>] # None}
      Drop(acc, k) == RemoveRow(acc, s, k)
      Cut(acc, k) == Set(acc, <<"row", s, k>>, None)
      Clear(acc, c) == Set(acc, c, FALSE)
      left == {c \in {"ix"} \X Maintained(w.db, s) \X Values \X gone : w.db[c]}
  IN  IF Cardinality(gone) <= MaxOneByOne
      THEN FoldLeft(Drop, w, SetToSortSeq(gone, LAMBDA a, b : a < b))
      ELSE FoldLeft(Clear, FoldLeft(Cut, w, SetToSeq(gone)), SetToSeq(left))

NextNumber(n) == n + 1   \* GenMax + 1 stands for Infinity, which generates nothing

UpdateKeyGeneratorNever(w, s, key) == w   \* mutant of UpdateKeyGenerator
UpdateKeyGenerator(w, s, key) ==
  IF key < w.db[<<"next", s>>] THEN w ELSE Set(w, <<"next", s>>, NextNumber(key))

(* The key to store under, generated if need be, and the work after it.    *)
WithKey(w, s, key) ==
  LET next == w.db[<<"next", s>>]
  IN  IF key = None
      THEN IF next > GenMax THEN <<None, Fail(w)>>
           ELSE <<next, Set(w, <<"next", s>>, NextNumber(next))>>
      ELSE <<key, UpdateKeyGenerator(w, s, key)>>

StoreRecord(w, s, key, v, noOverwrite) ==
  LET keyed == WithKey(w, s, key)
      k == keyed[1]
      w1 == keyed[2]
      Add(acc, i) == IndexAdd(acc, i, k, v)
  IN  IF w1.error THEN w1
      ELSE IF noOverwrite /\ w1.db[<<"row", s, k>>] # None THEN Fail(w1)
      ELSE LET w2 == Set(RemoveRow(w1, s, k), <<"row", s, k>>, v)
           IN  [FoldLeft(Add, w2, SetToSeq(Maintained(w2.db, s))) EXCEPT !.answer = k]

Populate(w, i) ==
  LET s == StoreOf[i]
      w1 == Set(w, <<"populated", i>>, TRUE)
      Add(acc, k) == IndexAdd(acc, i, k, w.db[<<"row", s, k>>])
  IN  FoldLeft(Add, w1, SetToSeq({k \in Keys : w.db[<<"row", s, k>>] # None}))

(* The first record of an index with the key, as the primary key.          *)
FirstInIndex(cells, i, v) ==
  LET hits == {k \in Keys : cells[<<"ix", i, v, k>>]}
  IN  IF hits = {} THEN None ELSE CHOOSE k \in hits : \A other \in hits : k <= other

Perform(w, req) ==
  CASE req.kind = "put" -> StoreRecord(w, req.on, req.key, req.val, FALSE)
    [] req.kind = "add" -> StoreRecord(w, req.on, req.key, req.val, TRUE)
    [] req.kind = "get" -> [w EXCEPT !.answer = w.db[<<"row", req.on, req.key>>]]
    [] req.kind = "delete" -> DeleteKeys(w, req.on, {req.key})
    [] req.kind = "clear" -> DeleteKeys(w, req.on, Keys)
    [] req.kind = "lookup" -> [w EXCEPT !.answer = FirstInIndex(w.db, req.on, req.val)]
    [] req.kind = "populate" -> Populate(w, req.on)
    [] req.kind = "unmaintain" -> Set(w, <<"maintained", req.on>>, FALSE)

Internal(req) == req.kind \in {"populate", "unmaintain"}   \* queued without an IDBRequest

-----------------------------------------------------------------------------
(* Transactions and their scheduling.                                      *)

NoTx == [state |-> "none", mode |-> "readonly", scope |-> {}, queue |-> << >>, undo |-> << >>,
         pendingAbort |-> FALSE, scheduled |-> FALSE, quiet |-> TRUE, dirty |-> FALSE, placed |-> 0,
         log |-> << >>]

Init ==
  /\ db = [c \in Cells |-> CASE c[1] = "row" -> None [] c[1] = "next" -> 1
                             [] c[1] = "ix" -> FALSE [] OTHER -> c[2] \in Existing]
  /\ tx = [t \in Txs |-> NoTx]
  /\ live = << >> /\ tasks = << >> /\ done = << >> /\ late = {} /\ timers = 0
  /\ answered = [t \in Txs |-> 0]

(* A timer is set: every transaction whose turn is pending sees timerSeq   *)
(* differ from its seq.                                                    *)
Disturb(txs) == [t \in Txs |-> [txs[t] EXCEPT !.quiet = FALSE]]

(* schedule(): w is a pair of transactions and tasks.                      *)
Schedule(w, t) ==
  IF w.tx[t].scheduled THEN w
  ELSE [tx |-> [Disturb(w.tx) EXCEPT ![t].scheduled = TRUE, ![t].quiet = TRUE],
        tasks |-> Append(w.tasks, [kind |-> "turn", tx |-> t])]

Overlaps(t, u) == tx[t].scope \intersect tx[u].scope # {}

CanStartAnyway(t) == TRUE   \* mutant of CanStart
CanStart(t) ==
  \A n \in 1..Len(live) :
    (\E m \in n + 1..Len(live) : live[m] = t) =>
      \/ ~Overlaps(live[n], t)
      \/ tx[t].mode = "readonly" /\ tx[live[n]].mode = "readonly"

Work(t) == [db |-> db, undo |-> tx[t].undo, error |-> FALSE, answer |-> None]

(* The requests that get an error event when their transaction aborts.     *)
UnansweredNone(q) == << >>   \* mutant of Unanswered
Unanswered(q) == SelectSeq(q, LAMBDA req : ~Internal(req))

(* abortTx(): everything is undone at once; the events follow as tasks.    *)
Abort(w, t, cells) ==
  LET undone == Rollback([db |-> cells, undo |-> w.tx[t].undo, error |-> FALSE, answer |-> None], 0)
      events == [n \in 1..Len(Unanswered(w.tx[t].queue)) |-> [kind |-> "reqerror", tx |-> t]]
  IN  /\ db' = undone.db
      /\ tx' = [Disturb(w.tx) EXCEPT ![t].state = "finished", ![t].undo = << >>, ![t].queue = << >>,
                                     ![t].pendingAbort = FALSE]
      /\ tasks' = w.tasks \o events \o <<[kind |-> "abort", tx |-> t]>>

(* pumpDb(): the transactions that may go on now.                          *)
PumpDbNever(w, rest) == w   \* mutant of PumpDb
PumpDb(w, rest) ==
  LET Pump(acc, u) == IF acc.tx[u].state = "finished" THEN acc ELSE Schedule(acc, u)
  IN  FoldLeft(Pump, w, rest)

(* finalizeTx(): the transaction leaves db.txs and the others are pumped.  *)
Finalize(w, t) ==
  LET rest == SelectSeq(live, LAMBDA u : u # t)
      pumped == PumpDb(w, rest)
  IN  /\ live' = rest
      /\ tx' = pumped.tx
      /\ tasks' = pumped.tasks

-----------------------------------------------------------------------------
(* What the page calls.                                                    *)

(* IDBDatabase.transaction(), or an upgrade: IdbOpen shows that the latter *)
(* has the database to itself.                                             *)
Transaction(t, mode, scope) ==
  /\ tx[t].state = "none"
  /\ \A u \in Txs : u < t => tx[u].state # "none"
  /\ mode = "versionchange" => live = << >> /\ scope = Stores
  /\ \A u \in Txs : tx[u].mode = "versionchange" => tx[u].state \in {"none", "finished"}
  /\ LET created == [tx EXCEPT ![t] = [NoTx EXCEPT !.state = "active", !.mode = mode, !.scope = scope]]
         w == Schedule([tx |-> created, tasks |-> tasks], t)
     IN  tx' = w.tx /\ tasks' = w.tasks
  /\ live' = Append(live, t)
  /\ UNCHANGED <<db, done, answered, timers, late>>

TotalPlaced == FoldFunction(LAMBDA t, n : t.placed + n, 0, tx)

StoreTouched(req) == IF req.on \in Indexes THEN StoreOf[req.on] ELSE req.on

(* preflight() and execute().                                              *)
Place(t, req) ==
  /\ TotalPlaced < MaxRequests
  /\ tx[t].state = "active"
  /\ StoreTouched(req) \in tx[t].scope
  /\ req.kind \in {"put", "add", "delete", "clear"} => tx[t].mode # "readonly"
  /\ req.on \in Indexes => db[<<"listed", req.on>>]
  /\ LET placed == [tx EXCEPT ![t].queue = Append(@, req), ![t].placed = @ + 1]
         w == Schedule([tx |-> placed, tasks |-> tasks], t)
     IN  tx' = w.tx /\ tasks' = w.tasks
  /\ UNCHANGED <<db, live, done, answered, timers, late>>

(* createIndex() lists the index at once and queues its population.        *)
CreateIndex(t, i) ==
  /\ tx[t].mode = "versionchange" /\ tx[t].state = "active"
  /\ \A j \in Indexes : StoreOf[j] = StoreOf[i] => ~db[<<"listed", j>>]
  /\ ~db[<<"maintained", i>>] /\ ~db[<<"populated", i>>]
  /\ LET w == Set(Set(Work(t), <<"listed", i>>, TRUE), <<"maintained", i>>, TRUE)
         item == Request("populate", i, None, None)
         queued == [tx EXCEPT ![t].undo = w.undo, ![t].queue = Append(@, item), ![t].dirty = TRUE]
         next == Schedule([tx |-> queued, tasks |-> tasks], t)
     IN  db' = w.db /\ tx' = next.tx /\ tasks' = next.tasks
  /\ UNCHANGED <<live, done, answered, timers, late>>

(* deleteIndex() unlists it at once; requests queued before still update it. *)
DeleteIndex(t, i) ==
  /\ tx[t].mode = "versionchange" /\ tx[t].state = "active"
  /\ db[<<"listed", i>>]
  /\ LET w == Set(Work(t), <<"listed", i>>, FALSE)
         item == Request("unmaintain", i, None, None)
         queued == [tx EXCEPT ![t].undo = w.undo, ![t].queue = Append(@, item), ![t].dirty = TRUE]
         next == Schedule([tx |-> queued, tasks |-> tasks], t)
     IN  db' = w.db /\ tx' = next.tx /\ tasks' = next.tasks
  /\ UNCHANGED <<live, done, answered, timers, late>>

CommitCall(t) ==
  /\ tx[t].state = "active"
  /\ LET w == Schedule([tx |-> [tx EXCEPT ![t].state = "committing"], tasks |-> tasks], t)
     IN  tx' = w.tx /\ tasks' = w.tasks
  /\ UNCHANGED <<db, live, done, answered, timers, late>>

AbortCall(t) ==
  /\ tx[t].state \in {"active", "inactive"}
  /\ Abort([tx |-> tx, tasks |-> tasks], t, db)
  /\ UNCHANGED <<live, done, answered, timers, late>>

(* setTimeout(f, 0): the task remembers which transactions were active.    *)
SetTimer ==
  /\ timers < MaxTimers
  /\ timers' = timers + 1
  /\ tx' = Disturb(tx)
  /\ tasks' = Append(tasks, [kind |-> "page", active |-> {t \in Txs : tx[t].state = "active"}])
  /\ UNCHANGED <<db, live, done, answered, late>>

-----------------------------------------------------------------------------
(* One timer turn.                                                         *)

IsTurn(t) == tasks # << >> /\ Head(tasks) = [kind |-> "turn", tx |-> t]

(* The transactions and tasks as step() finds them.                        *)
Begun(t) == [tx |-> [tx EXCEPT ![t].scheduled = FALSE,
                               ![t].state = IF @ = "active" THEN "inactive" ELSE @],
             tasks |-> Tail(tasks)]

(* Code has set timers since the turn was scheduled: the work waits.       *)
MustYieldNever(t) == FALSE   \* mutant of MustYield
MustYield(t) == tx[t].state = "active" /\ ~tx[t].pendingAbort /\ ~tx[t].quiet

Yield(t) ==
  /\ IsTurn(t) /\ MustYield(t)
  /\ LET w == Schedule(Begun(t), t) IN tx' = w.tx /\ tasks' = w.tasks
  /\ UNCHANGED <<db, live, done, answered, timers, late>>

AbortTurn(t) ==
  /\ IsTurn(t) /\ tx[t].state # "finished" /\ tx[t].pendingAbort
  /\ Abort(Begun(t), t, db)
  /\ UNCHANGED <<live, done, answered, timers, late>>

(* Finished already, or waiting for an earlier transaction.                *)
IdleTurn(t) ==
  /\ IsTurn(t) /\ ~MustYield(t)
  /\ \/ tx[t].state = "finished"
     \/ ~tx[t].pendingAbort /\ ~CanStart(t)
  /\ tx' = Begun(t).tx
  /\ tasks' = Begun(t).tasks
  /\ UNCHANGED <<db, live, done, answered, timers, late>>

Runs(t) == /\ IsTurn(t) /\ ~MustYield(t)
           /\ tx[t].state # "finished" /\ ~tx[t].pendingAbort /\ CanStart(t)

BeginCommit(t) ==
  /\ Runs(t) /\ tx[t].queue = << >> /\ tx[t].state # "committing"
  /\ LET b == Begun(t)
         w == Schedule([b EXCEPT !.tx[t].state = "committing"], t)
     IN  tx' = w.tx /\ tasks' = w.tasks
  /\ UNCHANGED <<db, live, done, answered, timers, late>>

\* mutant of CommitTx
CommitTxKeepsUndo(t) ==
  /\ Runs(t) /\ tx[t].queue = << >> /\ tx[t].state = "committing"
  /\ LET b == Begun(t) IN Finalize([b EXCEPT !.tx[t].state = "finished"], t)
  /\ done' = Append(done, tx[t].log)
  /\ UNCHANGED <<db, answered, timers, late>>

CommitTx(t) ==
  /\ Runs(t) /\ tx[t].queue = << >> /\ tx[t].state = "committing"
  /\ LET b == Begun(t)
     IN  Finalize([b EXCEPT !.tx[t].state = "finished", !.tx[t].undo = << >>], t)
  /\ done' = Append(done, tx[t].log)
  /\ UNCHANGED <<db, answered, timers, late>>

CommitThrows(t) ==
  /\ CommitFails /\ tx[t].dirty
  /\ Runs(t) /\ tx[t].queue = << >> /\ tx[t].state = "committing"
  /\ Abort(Begun(t), t, db)
  /\ UNCHANGED <<live, done, answered, timers, late>>

Outcomes == {"nothing", "preventDefault", "throw", "commit", "abort"}

(* runItem(): the request runs, fails back to its mark, and its event is   *)
(* dispatched with the transaction active.  A commit() or abort() in a     *)
(* success handler leaves what the same call does right after it.  s has   *)
(* the transactions and the tasks, w what the request has made of the      *)
(* database.                                                               *)
Recorded(t, req, failed, s, w) ==
  [s EXCEPT !.tx[t].undo = w.undo, !.tx[t].log = Append(@, <<req, IF failed THEN "error" ELSE w.answer>>),
            !.tx[t].dirty = @ \/ w.undo # tx[t].undo]

DispatchResult(t, outcome, failed, s) ==
  /\ outcome \in {"preventDefault", "commit", "abort"} => failed
  /\ outcome \in {"commit", "abort"} => s.tx[t].state = "active"
  /\ answered' = [answered EXCEPT ![t] = @ + 1]
  /\ IF outcome = "abort" THEN TRUE
     ELSE /\ tasks' = s.tasks
          /\ tx' = IF outcome = "commit" THEN [s.tx EXCEPT ![t].state = "committing"]
                   ELSE [s.tx EXCEPT ![t].pendingAbort =
                           s.tx[t].state = "active" /\ (outcome = "throw" \/ (failed /\ outcome # "preventDefault"))]

Requested(t, outcome, req, failed, s, w) ==
  IF failed /\ (Internal(req) \/ tx[t].state = "committing")
  THEN /\ outcome = "nothing"
       /\ Abort([s EXCEPT !.tx[t].undo = w.undo, !.tx[t].queue = IF Internal(req) THEN @ ELSE <<req>> \o @], t, w.db)
       /\ UNCHANGED answered
  ELSE \E r \in {Recorded(t, req, failed, s, w)} :
         IF Internal(req)
         THEN /\ outcome = "nothing"
              /\ db' = w.db /\ tx' = r.tx /\ tasks' = r.tasks
              /\ UNCHANGED answered
         ELSE \E shown \in {[r EXCEPT !.tx[t].state = IF @ = "inactive" THEN "active" ELSE @]} :
                /\ DispatchResult(t, outcome, failed, shown)
                /\ IF outcome = "abort" THEN Abort(shown, t, w.db) ELSE db' = w.db

RunItem(t, outcome) ==
  /\ Runs(t) /\ tx[t].queue # << >>
  /\ \E s \in {Schedule([Begun(t) EXCEPT !.tx[t].queue = Tail(@)], t)}, ran \in {Perform(Work(t), Head(tx[t].queue))} :
       Requested(t, outcome, Head(tx[t].queue), ran.error, s, IF ran.error THEN Rollback(ran, Len(tx[t].undo)) ELSE ran)
  /\ UNCHANGED <<live, done, timers, late>>

(* The events of an aborted transaction.                                   *)
RequestError(t) ==
  /\ tasks # << >> /\ Head(tasks) = [kind |-> "reqerror", tx |-> t]
  /\ tasks' = Tail(tasks)
  /\ answered' = [answered EXCEPT ![t] = @ + 1]
  /\ UNCHANGED <<db, tx, live, done, timers, late>>

AbortEvent(t) ==
  /\ tasks # << >> /\ Head(tasks) = [kind |-> "abort", tx |-> t]
  /\ Finalize([tx |-> tx, tasks |-> Tail(tasks)], t)
  /\ UNCHANGED <<db, done, answered, timers, late>>

PageTimer ==
  /\ tasks # << >> /\ Head(tasks).kind = "page"
  /\ tasks' = Tail(tasks)
  /\ late' = late \union {t \in Head(tasks).active : tx[t].state = "active"}
  /\ UNCHANGED <<db, tx, live, done, answered, timers>>

Turn(t) ==
  \/ Yield(t) \/ AbortTurn(t) \/ IdleTurn(t) \/ BeginCommit(t) \/ CommitTx(t) \/ CommitThrows(t)
  \/ \E outcome \in Outcomes : RunItem(t, outcome)
  \/ RequestError(t) \/ AbortEvent(t)

Engine == PageTimer \/ \E t \in Txs : Turn(t)

Page ==
  \/ \E t \in Txs :
       \/ \E plan \in Plans[t] : Transaction(t, plan[1], plan[2])
       \/ \E req \in Menu : Place(t, req)
       \/ \E i \in Indexes : CreateIndex(t, i) \/ DeleteIndex(t, i)
       \/ CommitCall(t) \/ AbortCall(t)
  \/ SetTimer

Next == Page \/ Engine

Spec == Init /\ [][Next]_vars

(* The event loop runs every timer that is due.                            *)
(* Engine is enabled exactly while a timer is pending.                     *)
Pending == tasks # << >>

FairSpec == Spec /\ (<>[]Pending => []<><<Engine>>_vars)
-----------------------------------------------------------------------------
(* Correctness.                                                            *)

(* Every part of the state has its shape; an undo log is empty once its    *)
(* transaction is over.                                                    *)
TypeOK ==
  /\ \A c \in Cells : db[c] \in CASE c[1] = "row" -> Values \union {None}
                                [] c[1] = "next" -> 1..GenMax + 1 [] OTHER -> BOOLEAN
  /\ \A t \in Txs :
       /\ tx[t].state \in {"none", "active", "inactive", "committing", "finished"}
       /\ tx[t].state = "finished" => tx[t].undo = << >>
       /\ t \notin Range(live) => tx[t].state \in {"none", "finished"}
  /\ \A n \in 1..Len(tasks) : tasks[n].kind \in {"turn", "reqerror", "abort", "page"}

(* An index that is kept up lists exactly the records of its store, also   *)
(* after a request that failed half way, an abort and a late deleteIndex() *)
(* (45_indexeddb.js indexAdd, indexRemove, rollback).                      *)
IndexAgrees ==
  \A i \in Indexes : db[<<"maintained", i>>] /\ db[<<"populated", i>>] =>
    \A v \in Values, k \in Keys : db[<<"ix", i, v, k>>] <=> db[<<"row", StoreOf[i], k>>] = v

(* No stored key reaches the generator's number, so a generated key never  *)
(* replaces a record, whatever was aborted in between (generateKey,        *)
(* updateKeyGenerator).                                                    *)
GeneratorFresh ==
  \A s \in Stores, k \in Keys : db[<<"row", s, k>>] # None => k < db[<<"next", s>>]

(* A timer that page code sets while a transaction is active finds it      *)
(* inactive (45_indexeddb.js:14: "after the microtasks, before the timers  *)
(* the handlers set").                                                     *)
TimersMeetInactive == late = {}

(* A transaction leaves the database only after each of its requests had   *)
(* exactly one event, success or error, also when it is aborted.           *)
RequestsAnswered ==
  \A t \in Txs : tx[t].state = "finished" /\ t \notin Range(live) => answered[t] = tx[t].placed

(* Every transaction that is created is over some day: none waits for ever *)
(* for an earlier one or for a turn nobody scheduled (canStart, pumpDb).   *)
TransactionsEnd ==
  \A t \in Txs : tx[t].state # "none" ~> tx[t].state = "finished" /\ t \notin Range(live)

(* What the database would hold if every unfinished transaction aborted:   *)
(* the oldest value on an undo log, or else the present one.               *)
Committed(c) ==
  LET changes(t) == {n \in 1..Len(tx[t].undo) : tx[t].undo[n][1] = c}
      writers == {t \in Range(live) : changes(t) # {}}
  IN  IF writers = {} THEN db[c]
      ELSE LET t == Min(writers) IN tx[t].undo[Min(changes(t))][2]

View == [row |-> [s \in Stores |-> [k \in Keys |-> Committed(<<"row", s, k>>)]],
         next |-> [s \in Stores |-> Committed(<<"next", s>>)],
         kept |-> {i \in Indexes : Committed(<<"maintained", i>>) /\ Committed(<<"populated", i>>)}]

(* The specification of one request on a view: its answer, and the view    *)
(* after it.                                                               *)
Serve(view, req) ==
  LET s == StoreTouched(req)
      key == IF req.key = None THEN view.next[s] ELSE req.key
      clash == \E i \in view.kept \intersect Unique, k \in Keys \ {key} :
                 StoreOf[i] = s /\ view.row[s][k] = req.val
      refused == \/ key > GenMax \/ clash
                 \/ req.kind = "add" /\ view.row[s][key] # None
      hits == {k \in Keys : view.row[s][k] = req.val}
  IN  CASE req.kind \in {"put", "add"} ->
             IF refused THEN <<"error", view>>
             ELSE <<key, [view EXCEPT !.row[s][key] = req.val,
                                      !.next[s] = IF key < @ THEN @ ELSE key + 1]>>
        [] req.kind = "get" -> <<view.row[s][key], view>>
        [] req.kind = "delete" -> <<None, [view EXCEPT !.row[s][key] = None]>>
        [] req.kind = "clear" -> <<None, [view EXCEPT !.row[s] = [k \in Keys |-> None]]>>
        [] req.kind = "lookup" ->
             <<IF hits = {} THEN None ELSE CHOOSE k \in hits : \A o \in hits : k <= o, view>>
        [] req.kind = "populate" -> <<None, [view EXCEPT !.kept = @ \union {req.on}]>>
        [] req.kind = "unmaintain" -> <<None, [view EXCEPT !.kept = @ \ {req.on}]>>

Served(log, view) ==
  FoldLeft(LAMBDA acc, entry : LET served == Serve(acc[2], entry[1])
                               IN  <<acc[1] /\ served[1] = entry[2], served[2]>>,
           <<TRUE, view>>, log)

(* The database implements the atomic store: commits are its only changes, *)
(* and every committed transaction could have run alone at that moment.    *)
Atomic == INSTANCE AtomicStore WITH records <- View,
            Replay <- LAMBDA log, view : Served(log, view)[2],
            Agrees <- LAMBDA log, view : Served(log, view)[1]
Serialisable == Atomic!Spec
=============================================================================
