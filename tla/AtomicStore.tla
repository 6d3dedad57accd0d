----------------------------- MODULE AtomicStore -----------------------------
(***************************************************************************)
(* What an IndexedDB database promises its pages, without saying how: the  *)
(* records change only when a transaction commits, and a transaction that  *)
(* commits could have run all its requests at that one moment.  IndexedDB  *)
(* implements it (see Atomic there).                                       *)
(***************************************************************************)
EXTENDS Naturals, Sequences

CONSTANTS
  Replay(_, _),   \* Replay(log, records): the records after the log's requests
  Agrees(_, _)    \* Agrees(log, records): the answers in the log are those of running it on records

VARIABLES
  records,        \* the committed contents of the database
  done            \* the logs of the committed transactions, in commit order

Init == done = << >>

(* A transaction takes effect: its requests, replayed in one go, get the   *)
(* answers they got and leave the records the database now has.            *)
Commit ==
  /\ Len(done') = Len(done) + 1
  /\ SubSeq(done', 1, Len(done)) = done
  /\ LET log == done'[Len(done')]
     IN  /\ Agrees(log, records)
         /\ records' = Replay(log, records)

Spec == Init /\ [][Commit]_<<records, done>>
=============================================================================
