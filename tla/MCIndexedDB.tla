----------------------------- MODULE MCIndexedDB -----------------------------
(***************************************************************************)
(* Instances of the two parts of IdbRequests and of IndexedDB for TLC.     *)
(* They share no state here: a behaviour is one of the three, picked in    *)
(* the initial state, so one run explores the sum of them.                 *)
(***************************************************************************)
EXTENDS IdbRequests

CONSTANTS
  s1, s2, i1, i2, red, blue, r1, r2, r3, r4,
  Stores, Indexes, StoreOf, Unique, GenMax, Values, Txs, Plans, Menu, MaxOneByOne, MaxRequests, MaxTimers, CommitFails, Existing

VARIABLES part, db, tx, live, tasks, done, answered, timers, late

DB == INSTANCE IndexedDB

dbVars == <<db, tx, live, tasks, done, answered, timers, late>>
allVars == <<part, dbVars, openVars, cursorVars>>

-----------------------------------------------------------------------------
(* Transactions: an upgrade or a writer, then a reader or a writer of the  *)
(* same store or of the other one.                                         *)
OneStore == [i \in Indexes |-> s1]
Asks(kind, on, key, val) == [kind |-> kind, on |-> on, key |-> key, val |-> val]
SomeRequests == {Asks("put", s1, None, red), Asks("add", s1, 1, red), Asks("clear", s1, None, None), Asks("lookup", i1, None, red)}
SomePlans == <<{<<"versionchange", Stores>>, <<"readwrite", {s1}>>},
               {<<"readonly", {s1}>>, <<"readwrite", {s2}>>}>>

(* Opening: version 1, the present version, version 2 and a deletion.      *)
Versions == [r \in Requests |-> CASE r = r1 -> 1 [] r = r2 -> 2 [] OTHER -> 0]

(* Cursors: every direction, over ranges open at one end or at both.       *)
Bounds(lo, hi, loOpen, hiOpen) == [lo |-> lo, hi |-> hi, loOpen |-> loOpen, hiOpen |-> hiOpen]
SomeRanges == {Bounds(0, 0, TRUE, TRUE), Bounds(2, 0, TRUE, TRUE), Bounds(1, 2, FALSE, TRUE)}

ASSUME OpeningAssumption == OpenAssumption

-----------------------------------------------------------------------------
MCInit ==
  /\ part \in {"transactions", "open", "cursor"}
  /\ DB!Init /\ OpenInit /\ CursorInit
  /\ part # "cursor" => value = [k \in Key |-> None]

Transactions(A) == part = "transactions" /\ A /\ UNCHANGED <<part, openVars, cursorVars>>
Opening(A) == part = "open" /\ A /\ UNCHANGED <<part, dbVars, cursorVars>>

MCNext ==
  \/ Transactions(DB!Next)
  \/ Opening(OpenNext)
  \/ part = "cursor" /\ CursorNext /\ UNCHANGED <<part, dbVars, openVars>>

MCSpec == MCInit /\ [][MCNext]_allVars

(* Timers that are due run, transactions end, and the page closes a        *)
(* connection that was told of a version change.                           *)
MCFairSpec ==
  /\ MCSpec
  /\ <>[]DB!Pending => []<><<Transactions(DB!Engine)>>_allVars
  /\ WF_allVars(Opening(timerq # << >> /\ Engine))
  /\ WF_allVars(Opening(UpgradeCommits \/ UpgradeAborts))
  /\ \A r \in Requests : /\ WF_allVars(Opening(FinishTx(r)))
                         /\ WF_allVars(Opening(conn[r].told /\ Close(r)))

(* The database after every step: indexes list their records, generated    *)
(* keys are new, page timers meet no active transaction, and a transaction *)
(* that is gone has answered every request.                                *)
TransactionsConsistent ==
  DB!TypeOK /\ DB!IndexAgrees /\ DB!GeneratorFresh /\ DB!TimersMeetInactive /\ DB!RequestsAnswered

(* Committed transactions have the effect of one after the other.          *)
Serialisable == DB!Serialisable

(* Ranges hold what their bounds say, and a cursor moves on and misses     *)
(* nothing that is there all the time.                                     *)
CursorsConsistent ==
  part = "cursor" => /\ RowsMirrorValues /\ SpanIsRange /\ CursorMovesOn
                     /\ CursorMissesNothing /\ CollectIsWalk

(* Transactions and requests to open or delete come to an end.             *)
EverythingEnds == DB!TransactionsEnd /\ RequestEnds
=============================================================================
