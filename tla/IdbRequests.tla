----------------------------- MODULE IdbRequests -----------------------------
(***************************************************************************)
(* Opening, upgrading, closing and deleting one IndexedDB database         *)
(* (crates/script/js/45_indexeddb.js): the connection queue, the           *)
(* versionchange and blocked events, the upgrade transaction's life and    *)
(* the moment a connection is really closed.  The requests inside a        *)
(* transaction are IndexedDB's; here a transaction is only unfinished or   *)
(* over.                                                                   *)
(***************************************************************************)
EXTENDS Naturals, Sequences, FiniteSets, SequencesExt, Integers, FiniteSetsExt

CONSTANTS
  Requests,    \* open() and deleteDatabase() calls; an open's connection has its name
  Deletes,     \* the requests that delete the database; the others open it
  Wants,       \* [Requests -> the version asked for, 0 for the present one]
  MaxTxs,      \* bound: ordinary transactions started
  None

VARIABLES
  data,        \* the version of the database, None if there is none
  conn,        \* [Requests -> the connection the request made]
  conns,       \* db.conns: connections not closed yet
  queue,       \* db.queue, and the requests not made yet
  busy,        \* the request being processed, or None
  left,        \* versionchange events still to fire for it
  waiting,     \* the connections it waits for in db.waiters, or None
  upgrade,     \* the upgrade transaction: "none", "hold", "running" or "aborting"
  old,         \* the version before the upgrade
  events,      \* history: the events each request got
  timerq,      \* the zero-delay timers, in order
  started      \* how many ordinary transactions were started

(* What the proofs need of the constants.                                  *)
OpenAssumption ==
  /\ IsFiniteSet(Requests) /\ Deletes \subseteq Requests
  /\ Wants \in [Requests -> Nat]
  /\ None \notin Nat /\ None \notin Requests /\ \A some \in SUBSET Requests : some # None

openVars == <<data, conn, conns, queue, busy, left, waiting, upgrade, old, events, timerq, started>>

(* shown: the page has the connection; told: it got a versionchange event. *)
NoConn == [version |-> 0, closing |-> FALSE, closed |-> FALSE, txs |-> 0, shown |-> FALSE, told |-> FALSE]

OpenInit ==
  /\ data = None /\ conns = {} /\ queue = << >> /\ busy = None /\ left = 0 /\ waiting = None
  /\ upgrade = "none" /\ old = 0 /\ timerq = << >> /\ started = 0
  /\ conn = [r \in Requests |-> NoConn]
  /\ events = [r \in Requests |-> <<"idle">>]

Task(kind, r) == [kind |-> kind, of |-> r]
Runs(kind, r) == timerq # << >> /\ Head(timerq) = Task(kind, r)

-----------------------------------------------------------------------------
(* The connection queue: enqueueConn() and pumpQueue(), on what is left of *)
(* the timers after this turn.                                             *)
Pump(q, timers) ==
  IF q = << >> THEN busy' = None /\ queue' = q /\ timerq' = timers
  ELSE busy' = Head(q) /\ queue' = Tail(q) /\ timerq' = Append(timers, Task("run", Head(q)))

Request(r) ==
  /\ events[r] = <<"idle">>
  /\ events' = [events EXCEPT ![r] = << >>]
  /\ IF busy = None THEN Pump(<<r>>, timerq)
     ELSE queue' = Append(queue, r) /\ UNCHANGED <<busy, timerq>>
  /\ UNCHANGED <<data, conn, conns, left, waiting, upgrade, old, started>>

ClosableAtOnce(c) == c.closing   \* mutant of Closable
Closable(c) == c.closing /\ c.txs = 0

ReadyNever(open) == FALSE   \* mutant of Ready
Ready(open) == waiting # None /\ waiting \intersect open = {}

(* maybeClosed() with checkWaiters(), for the connections cs as they are.  *)
Settle(cs, timers) ==
  LET gone == {r \in conns : Closable(cs[r])}
      ready == Ready(conns \ gone)
  IN  /\ conns' = conns \ gone
      /\ conn' = [r \in Requests |-> [cs[r] EXCEPT !.closed = @ \/ r \in gone]]
      /\ waiting' = IF ready THEN None ELSE waiting
      /\ timerq' = IF ready THEN Append(timers, Task("alone", busy)) ELSE timers

(* fireVersionChange(): one timer per connection that is not closing.      *)
Announce(r, others, timers) ==
  LET open == {c \in others : ~conn[c].closing}
      announce == [n \in 1..Cardinality(open) |-> Task("versionchange", SetToSeq(open)[n])]
  IN  /\ left' = Cardinality(open)
      /\ timerq' = timers \o (IF open = {} THEN <<Task("announced", r)>> ELSE announce)

(* finishOpen() with its done(): the event is a task, the next request is  *)
(* taken from the queue at once.                                           *)
Finish(r, outcome) == Pump(queue, Append(Tail(timerq), Task(outcome, r)))

RunOpen(r) ==
  /\ Runs("run", r) /\ r \notin Deletes
  /\ LET have == IF data = None THEN 0 ELSE data
         version == IF Wants[r] # 0 THEN Wants[r] ELSE IF data = None THEN 1 ELSE data
     IN  /\ data' = have
         /\ IF have > version
            THEN Finish(r, "error") /\ UNCHANGED <<conn, conns, left>>
            ELSE /\ conn' = [conn EXCEPT ![r].version = version]
                 /\ conns' = conns \union {r}
                 /\ IF have = version
                    THEN Finish(r, "success") /\ UNCHANGED left
                    ELSE Announce(r, conns, Tail(timerq)) /\ UNCHANGED <<busy, queue>>
  /\ UNCHANGED <<waiting, upgrade, old, events, started>>

RunDelete(r) ==
  /\ Runs("run", r) /\ r \in Deletes
  /\ IF data = None
     THEN Finish(r, "success") /\ UNCHANGED left
     ELSE Announce(r, conns, Tail(timerq)) /\ UNCHANGED <<busy, queue>>
  /\ UNCHANGED <<data, conn, conns, waiting, upgrade, old, events, started>>

VersionChange(c) ==
  /\ Runs("versionchange", c)
  /\ left' = left - 1
  /\ timerq' = IF left = 1 THEN Append(Tail(timerq), Task("announced", busy)) ELSE Tail(timerq)
  /\ conn' = [conn EXCEPT ![c].told = ~conn[c].closing]
  /\ UNCHANGED <<data, conns, queue, busy, waiting, upgrade, old, events, started>>

StillOpenUnlessClosing(r) == {c \in conns \ {r} : ~conn[c].closing}   \* mutant of StillOpen
StillOpenIgnored(r) == {}   \* mutant of StillOpen
StillOpen(r) == conns \ {r}

(* waitClosed(): the callback's task, if there is nothing to wait for.     *)
AloneAlways(r, others) == <<Task("alone", r)>>   \* mutant of AloneNow
AloneNow(r, others) == IF others = {} THEN <<Task("alone", r)>> ELSE << >>

(* The handlers are done: blocked if a connection is still open, then      *)
(* waitClosed().                                                           *)
Announced(r) ==
  /\ Runs("announced", r)
  /\ LET others == StillOpen(r)
         blocked == IF others = {} THEN << >> ELSE <<Task("blocked", r)>>
     IN  /\ timerq' = Tail(timerq) \o blocked \o AloneNow(r, others)
         /\ waiting' = IF others = {} THEN None ELSE others
  /\ UNCHANGED <<data, conn, conns, queue, busy, left, upgrade, old, events, started>>

Blocked(r) ==
  /\ Runs("blocked", r)
  /\ timerq' = Tail(timerq)
  /\ events' = [events EXCEPT ![r] = Append(@, "blocked")]
  /\ UNCHANGED <<data, conn, conns, queue, busy, left, waiting, upgrade, old, started>>

(* Every other connection is closed: upgrade(), or the deletion.           *)
Upgrade(r) ==
  /\ Runs("alone", r) /\ r \notin Deletes
  /\ upgrade' = "hold" /\ old' = data /\ data' = conn[r].version
  /\ conn' = [conn EXCEPT ![r].txs = @ + 1]
  /\ timerq' = Append(Tail(timerq), Task("upgradeneeded", r))
  /\ UNCHANGED <<conns, queue, busy, left, waiting, events, started>>

OpenDelete(r) ==
  /\ Runs("alone", r) /\ r \in Deletes
  /\ data' = None
  /\ Finish(r, "success")
  /\ UNCHANGED <<conn, conns, left, waiting, upgrade, old, events, started>>

UpgradeNeeded(r) ==
  /\ Runs("upgradeneeded", r)
  /\ upgrade' = "running"
  /\ timerq' = Tail(timerq)
  /\ conn' = [conn EXCEPT ![r].shown = TRUE]
  /\ events' = [events EXCEPT ![r] = Append(@, "upgradeneeded")]
  /\ UNCHANGED <<data, conns, queue, busy, left, waiting, old, started>>

(* The upgrade transaction commits: finalizeTx() runs what it left for the *)
(* open request.                                                           *)
UpgradeCommits ==
  /\ upgrade = "running"
  /\ upgrade' = "none"
  /\ LET r == busy
         cs == [conn EXCEPT ![r].txs = @ - 1]
         gone == conn[r].closing
     IN  /\ Pump(queue, Append(timerq, Task(IF gone THEN "error" ELSE "success", r)))
         /\ conns' = IF gone THEN conns \ {r} ELSE conns
         /\ conn' = [cs EXCEPT ![r].closed = gone]
  /\ UNCHANGED <<data, left, waiting, old, events, started>>

(* abortTx() and abortUpgrade(): the version goes back at once, and a      *)
(* database that was new goes away; the rest is a task.                    *)
UpgradeAborts ==
  /\ upgrade = "running"
  /\ upgrade' = "aborting"
  /\ data' = IF old = 0 THEN None ELSE old
  /\ conn' = [conn EXCEPT ![busy].version = old]
  /\ timerq' = Append(timerq, Task("aborted", busy))
  /\ UNCHANGED <<conns, queue, busy, left, waiting, old, events, started>>

UpgradeAborted(r) ==
  /\ Runs("aborted", r)
  /\ upgrade' = "none"
  /\ conns' = conns \ {r}
  /\ conn' = [conn EXCEPT ![r].txs = @ - 1, ![r].closing = TRUE, ![r].closed = TRUE]
  /\ Finish(r, "error")
  /\ UNCHANGED <<data, left, waiting, old, events, started>>

(* The last event of a request.                                            *)
Final(r) ==
  /\ \E outcome \in {"success", "error"} :
       /\ Runs(outcome, r)
       /\ events' = [events EXCEPT ![r] = Append(@, outcome)]
       /\ conn' = [conn EXCEPT ![r].shown = @ \/ (outcome = "success" /\ r \notin Deletes)]
  /\ timerq' = Tail(timerq)
  /\ UNCHANGED <<data, conns, queue, busy, left, waiting, upgrade, old, started>>

-----------------------------------------------------------------------------
(* What the page does with a connection.                                   *)
Close(c) ==
  /\ conn[c].shown /\ ~conn[c].closing
  /\ Settle([conn EXCEPT ![c].closing = TRUE], timerq)
  /\ UNCHANGED <<data, queue, busy, left, upgrade, old, events, started>>

StartTx(c) ==
  /\ started < MaxTxs
  /\ conn[c].shown /\ ~conn[c].closing /\ ~(upgrade # "none" /\ busy = c)
  /\ started' = started + 1
  /\ conn' = [conn EXCEPT ![c].txs = @ + 1]
  /\ UNCHANGED <<data, conns, queue, busy, left, waiting, upgrade, old, events, timerq>>

FinishTx(c) ==
  /\ conn[c].txs > 0 /\ ~(upgrade # "none" /\ busy = c)
  /\ Settle([conn EXCEPT ![c].txs = @ - 1], timerq)
  /\ UNCHANGED <<data, queue, busy, left, upgrade, old, events, started>>

Engine ==
  \/ \E r \in Requests :
       \/ RunOpen(r) \/ RunDelete(r) \/ VersionChange(r) \/ Announced(r) \/ Blocked(r)
       \/ Upgrade(r) \/ OpenDelete(r) \/ UpgradeNeeded(r) \/ UpgradeAborted(r) \/ Final(r)
       \/ FinishTx(r)
  \/ UpgradeCommits \/ UpgradeAborts

OpenNext == Engine \/ \E r \in Requests : Request(r) \/ Close(r) \/ StartTx(r)

-----------------------------------------------------------------------------
OpenTypeOK ==
  /\ data \in Nat \union {None} /\ conns \subseteq Requests /\ left \in 0..Cardinality(Requests)
  /\ busy \in Requests \union {None} /\ upgrade \in {"none", "hold", "running", "aborting"}
  /\ \A r \in Requests : conn[r].closed => r \notin conns /\ conn[r].txs = 0

(* An upgrade has the database to itself: from its start to its end no     *)
(* other connection is open, let alone runs a transaction (waitClosed,     *)
(* maybeClosed).  IndexedDB relies on it.                                  *)
UpgradeAlone == upgrade # "none" => conns = {busy}

(* A connection the page holds has the version of the database, unless the *)
(* page has closed it (runOpen, abortUpgrade).                             *)
ConnectionVersion ==
  \A c \in conns : conn[c].shown /\ ~conn[c].closing /\ upgrade # "aborting" => conn[c].version = data

(* A request gets at most one blocked event, then at most one              *)
(* upgradeneeded, then one success or error, in this order.                *)
EventOrder ==
  \A r \in Requests : events[r] # <<"idle">> =>
    \E b \in {<< >>, <<"blocked">>}, u \in {<< >>, <<"upgradeneeded">>}, e \in {<< >>, <<"success">>, <<"error">>} :
      events[r] = b \o u \o e

(* All of these together: the connections and the requests are never       *)
(* mixed up, in whatever order the timers and the page take turns.         *)
ConnectionsConsistent == OpenTypeOK /\ UpgradeAlone /\ ConnectionVersion /\ EventOrder

(* If the page closes the connections that get a versionchange event,      *)
(* every open and delete request is answered (pumpQueue, checkWaiters).    *)
RequestEnds ==
  \A r \in Requests : events[r] # <<"idle">> ~>
    events[r] # << >> /\ events[r][Len(events[r])] \in {"success", "error"}

-----------------------------------------------------------------------------
(***************************************************************************)
(* Key ranges, sorted rows and cursors of IndexedDB                        *)
(* (crates/script/js/45_indexeddb.js).  One transaction changes a store    *)
(* and its multiEntry index while it walks one of them with a cursor; the  *)
(* order its requests run in is IndexedDB's, so here each runs when it is  *)
(* placed.                                                                 *)
(*                                                                         *)
(* A row is <<key, pk>>: <<k, k>> in the store, <<index key, k>> in the    *)
(* index.  Keys are numbers; a value is the set of index keys it yields.   *)
(***************************************************************************)

CONSTANTS
  KeyMax,       \* keys and index keys are 1..KeyMax
  Directions,   \* the cursor directions opened
  Ranges,       \* the key ranges used: records lo, hi, loOpen, hiOpen with 0 for an unbounded side
  MaxChanges   \* bound: changes to the store

Key == 1..KeyMax
Vals == SUBSET Key

VARIABLES
  value,     \* [Key -> the value stored, None if there is no record]
  rows,      \* the rows of the store and of the index: records store, index
  cursor,    \* the cursor
  visited,   \* history: the rows the cursor stood on, in order
  steady,    \* history: the rows of the cursor's source never removed since it was opened
  plain,     \* history: the cursor was only moved by continue()
  changes    \* how many changes were made

cursorVars == <<value, rows, cursor, visited, steady, plain, changes>>

-----------------------------------------------------------------------------
(* Ranges.                                                                 *)
Bounded(r) == r.lo = 0 \/ r.hi = 0 \/ r.lo < r.hi \/ (r.lo = r.hi /\ ~r.loOpen /\ ~r.hiOpen)

InRange(r, k) ==
  /\ r.lo # 0 => k > r.lo \/ (k = r.lo /\ ~r.loOpen)
  /\ r.hi # 0 => k < r.hi \/ (k = r.hi /\ ~r.hiOpen)

(* A probe is <<key>> or <<key, pk>>; it equals every row it is a prefix of. *)
Before(row, probe) == row[1] < probe[1] \/ (Len(probe) = 2 /\ row[1] = probe[1] /\ row[2] < probe[2])
Equal(row, probe) == row[1] = probe[1] /\ (Len(probe) = 2 => row[2] = probe[2])

(* lowerIdx and upperIdx: binary search, with 0-based indices.             *)
Search(seq, probe, stay) ==
  LET find[lo \in 0..Len(seq), hi \in 0..Len(seq)] ==
        IF lo >= hi THEN lo
        ELSE LET mid == (lo + hi) \div 2
             IN  IF Before(seq[mid + 1], probe) \/ (~stay /\ Equal(seq[mid + 1], probe))
                 THEN find[mid + 1, hi] ELSE find[lo, mid]
  IN  find[0, Len(seq)]

LowerIdx(seq, probe) == Search(seq, probe, TRUE)
UpperIdxTooLow(seq, probe) == Search(seq, probe, TRUE)   \* mutant of UpperIdx
UpperIdx(seq, probe) == Search(seq, probe, FALSE)

SpanOf(seq, r) ==
  LET s == IF r.lo = 0 THEN 0 ELSE IF r.loOpen THEN UpperIdx(seq, <<r.lo>>) ELSE LowerIdx(seq, <<r.lo>>)
      e == IF r.hi = 0 THEN Len(seq) ELSE IF r.hiOpen THEN LowerIdx(seq, <<r.hi>>) ELSE UpperIdx(seq, <<r.hi>>)
  IN  <<s, Max({s, e})>>

(* collect(): what getAll() and its kin return.                            *)
FirstOfKeyAny(seq, n, s) == TRUE   \* mutant of FirstOfKey
FirstOfKey(seq, n, s) == n = s + 1 \/ seq[n - 1][1] # seq[n][1]

Collect(seq, r, dir, limit) ==
  LET span == SpanOf(seq, r)
      ns == {n \in span[1] + 1..span[2] :
               dir \in {"nextunique", "prevunique"} => FirstOfKey(seq, n, span[1])}
      sorted == SetToSortSeq(ns, LAMBDA m, n : IF dir \in {"next", "nextunique"} THEN m < n ELSE n < m)
      count == IF limit = 0 THEN Len(sorted) ELSE Min({limit, Len(sorted)})
  IN  [n \in 1..count |-> seq[sorted[n]]]

RowsInsert(seq, row) == InsertAt(seq, UpperIdx(seq, row) + 1, row)

RowsRemove(seq, row) ==
  LET i == LowerIdx(seq, row) + 1
  IN  IF i <= Len(seq) /\ seq[i] = row THEN RemoveAt(seq, i) ELSE seq

IndexRows(v, k) == SetToSeq({<<ik, k>> : ik \in v})

WithoutKeyStoreOnly(rs, k) == [rs EXCEPT !.store = RowsRemove(@, <<k, k>>)]   \* mutant of WithoutKey
WithoutKey(rs, k) ==
  IF value[k] = None THEN rs
  ELSE [store |-> RowsRemove(rs.store, <<k, k>>),
        index |-> FoldLeft(RowsRemove, rs.index, IndexRows(value[k], k))]

WithKey(rs, k, v) ==
  [store |-> RowsInsert(rs.store, <<k, k>>),
   index |-> FoldLeft(RowsInsert, rs.index, IndexRows(v, k))]

-----------------------------------------------------------------------------
NoCursor == [on |-> "none", dir |-> "next", range |-> [lo |-> 0, hi |-> 0, loOpen |-> FALSE, hiOpen |-> FALSE],
             position |-> None, objPos |-> None, key |-> None, pk |-> None, gotValue |-> FALSE, ended |-> FALSE]

CursorInit ==
  /\ value \in [Key -> {None} \union {{k} : k \in Key} \union {Key}]
  /\ rows = FoldLeft(LAMBDA rs, k : IF value[k] = None THEN rs ELSE WithKey(rs, k, value[k]),
                     [store |-> << >>, index |-> << >>], [k \in Key |-> k])
  /\ cursor = NoCursor /\ visited = << >> /\ steady = {} /\ plain = TRUE /\ changes = 0

Source(c, rs) == IF c.on = "store" THEN rs.store ELSE rs.index
Forward(c) == c.dir \in {"next", "nextunique"}
UniqueDir(c) == c.dir \in {"nextunique", "prevunique"}

(* Where the cursor stands: index cursors in the plain directions also     *)
(* order equal keys by primary key.                                        *)
StandsAtKey(c, pos, osp) == <<pos>>   \* mutant of StandsAt
StandsAt(c, pos, osp) == IF c.on = "index" /\ ~UniqueDir(c) THEN <<pos, osp>> ELSE <<pos>>

(* One step of iterate() from a position, optionally to a key (target is   *)
(* << >> or a probe): the row found, or None.                              *)
Found(c, seq, target, pos, osp) ==
  LET span == SpanOf(seq, c.range)
      at == StandsAt(c, pos, osp)
      i == Max({span[1]} \union (IF target = << >> THEN {} ELSE {LowerIdx(seq, target)})
                         \union (IF pos = None THEN {} ELSE {UpperIdx(seq, at)}))
      j == Min({span[2]} \union (IF target = << >> THEN {} ELSE {UpperIdx(seq, target)})
                         \union (IF pos = None THEN {} ELSE {LowerIdx(seq, at)}))
  IN  IF Forward(c) THEN IF i < span[2] THEN seq[i + 1] ELSE None
      ELSE IF j <= span[1] THEN None
      ELSE IF c.dir = "prevunique" THEN seq[LowerIdx(seq, <<seq[j][1]>>) + 1] ELSE seq[j]

(* iterate(): count steps on, and the cursor after them; a step leads from *)
(* <<found, position, objPos>> to the next.                                *)
Moved(prev, row) == IF row = None THEN <<None, prev[2], prev[3]>> ELSE <<row, row[1], row[2]>>
Rests(c, last) ==
  IF last[1] = None
  THEN [c EXCEPT !.key = None, !.pk = None, !.ended = TRUE, !.objPos = IF c.on = "index" THEN None ELSE @]
  ELSE [c EXCEPT !.position = last[2], !.objPos = last[3], !.key = last[1][1], !.pk = last[1][2], !.gotValue = TRUE]
Iterate(c, seq, target, count) ==
  LET Step(prev, n) == IF n > 1 /\ prev[1] = None THEN prev
                       ELSE Moved(prev, Found(c, seq, target, prev[2], prev[3]))
  IN  Rests(c, FoldLeft(Step, <<None, c.position, c.objPos>>, [n \in 1..count |-> n]))

Landed(c) ==
  /\ cursor' = c
  /\ visited' = IF c.ended THEN visited ELSE Append(visited, <<c.key, c.pk>>)

(* openCursor() on the store or the index.                                 *)
OpenCursor(on, dir, r) ==
  /\ cursor.on = "none" /\ Bounded(r)
  /\ LET c == [NoCursor EXCEPT !.on = on, !.dir = dir, !.range = r]
     IN  /\ Landed(Iterate(c, Source(c, rows), << >>, 1))
         /\ steady' = Range(Source(c, rows))
  /\ UNCHANGED <<value, rows, plain, changes>>

(* continue(), continue(key), continuePrimaryKey(key, pk), advance(count). *)
Live == cursor.on # "none" /\ cursor.gotValue /\ ~cursor.ended

Ahead(a, b) == IF Forward(cursor) THEN a > b ELSE a < b

MoveTo(target, count) == Landed(Iterate([cursor EXCEPT !.gotValue = FALSE], Source(cursor, rows), target, count))

Continue ==
  /\ Live
  /\ MoveTo(<< >>, 1)
  /\ UNCHANGED <<value, rows, steady, plain, changes>>

ContinueTo(k) ==
  /\ Live /\ Ahead(k, cursor.position)
  /\ plain' = FALSE
  /\ MoveTo(<<k>>, 1)
  /\ UNCHANGED <<value, rows, steady, changes>>

ContinuePrimaryKey(k, pk) ==
  /\ Live /\ cursor.on = "index" /\ ~UniqueDir(cursor)
  /\ ~Ahead(cursor.position, k)
  /\ k = cursor.position => Ahead(pk, cursor.objPos)
  /\ plain' = FALSE
  /\ MoveTo(<<k, pk>>, 1)
  /\ UNCHANGED <<value, rows, steady, changes>>

Advance(n) ==
  /\ Live
  /\ plain' = FALSE
  /\ MoveTo(<< >>, n)
  /\ UNCHANGED <<value, rows, steady, changes>>

(* put() and IDBCursor.update(); delete() and IDBCursor.delete().          *)
Changed(rs) ==
  /\ rows' = rs
  /\ steady' = IF cursor.on = "none" THEN {} ELSE steady \intersect Range(Source(cursor, rs))
  /\ changes' = changes + 1
  /\ UNCHANGED <<cursor, visited, plain>>

Put(k, v) ==
  /\ changes < MaxChanges
  /\ value' = [value EXCEPT ![k] = v]
  /\ Changed(WithKey(WithoutKey(rows, k), k, v))

Update(v) == Live /\ Put(cursor.pk, v)

DeleteRange(r) ==
  /\ changes < MaxChanges /\ Bounded(r)
  /\ LET span == SpanOf(rows.store, r)
         keys == [n \in 1..span[2] - span[1] |-> rows.store[span[1] + n][1]]
     IN  /\ value' = [k \in Key |-> IF k \in Range(keys) THEN None ELSE value[k]]
         /\ Changed(FoldLeft(WithoutKey, rows, keys))

CursorDelete == /\ Live
                /\ DeleteRange([lo |-> cursor.pk, hi |-> cursor.pk, loOpen |-> FALSE, hiOpen |-> FALSE])

CursorNext ==
  \/ \E on \in {"store", "index"}, dir \in Directions, r \in Ranges : OpenCursor(on, dir, r)
  \/ Continue
  \/ \E k \in Key : ContinueTo(k) \/ \E pk \in Key : ContinuePrimaryKey(k, pk)
  \/ \E n \in 2..KeyMax : Advance(n)
  \/ \E k \in Key, v \in {{}, {1}, Key} : Put(k, v)
  \/ \E v \in {{}, {KeyMax}, Key} : Update(v)
  \/ CursorDelete \/ \E r \in Ranges : DeleteRange(r)

-----------------------------------------------------------------------------
(* The rows of the store and the index are exactly those of the values, in *)
(* order and without duplicates, whatever was spliced in and out.          *)
RowsMirrorValues ==
  /\ rows.store = SetToSortSeq({<<k, k>> : k \in {x \in Key : value[x] # None}}, Before)
  /\ rows.index = SetToSortSeq(UNION {{<<ik, k>> : ik \in value[k]} : k \in {x \in Key : value[x] # None}}, Before)

(* spanOf() delimits exactly the rows whose key is in the range.           *)
SpanIsRange ==
  \A seq \in {rows.store, rows.index}, r \in Ranges :
    Bounded(r) => LET span == SpanOf(seq, r)
                  IN  \A n \in 1..Len(seq) : n \in span[1] + 1..span[2] <=> InRange(r, seq[n][1])

(* A cursor only moves on: it never stands on the same row twice, nor on   *)
(* the same key twice in the unique directions, whatever the page changes  *)
(* on the way (iterate).                                                   *)
Precedes(a, b) == IF UniqueDir(cursor) THEN Ahead(b[1], a[1])
                  ELSE Ahead(b[1], a[1]) \/ (a[1] = b[1] /\ Ahead(b[2], a[2]))
CursorMovesOn == \A n \in 1..Len(visited) - 1 : Precedes(visited[n], visited[n + 1])

(* A walk with continue() misses no row of its range that was there all    *)
(* the time (in the unique directions: no such key).                       *)
CursorMissesNothing ==
  cursor.ended /\ plain =>
    \A row \in steady : InRange(cursor.range, row[1]) =>
      \E v \in Range(visited) : IF UniqueDir(cursor) THEN v[1] = row[1] ELSE v = row

(* getAll() returns the rows a cursor would walk over now.                 *)
CollectIsWalk ==
  LET Agree(c, seq, all) ==
        \A n \in 1..Len(all) + 1 : \E w \in {Iterate(c, seq, << >>, n)} :
          IF n > Len(all) THEN w.ended ELSE all[n] = <<w.key, w.pk>>
  IN  \A on \in {"store", "index"}, dir \in Directions, r \in Ranges :
        Bounded(r) =>
          \E c \in {[NoCursor EXCEPT !.on = on, !.dir = dir, !.range = r]} :
            Agree(c, Source(c, rows), Collect(Source(c, rows), r, dir, 0))
=============================================================================
