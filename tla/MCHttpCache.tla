----------------------------- MODULE MCHttpCache -----------------------------
(***************************************************************************)
(* Instances of HttpCache for TLC: all of it, where files can be deleted;  *)
(* one URL, where they cannot; fetch tasks and the writer thread for as    *)
(* long as the process lives; or one task, the shutdown and the next       *)
(* start.  A behaviour is of one part, picked in the initial state.        *)
(***************************************************************************)
EXTENDS HttpCache, TLC

CONSTANT Parts
VARIABLE part
allVars == <<vars, part>>

Kind(w, b, s, v) == [weight |-> w, body |-> b, size |-> s, varies |-> v]

PerLanguage == [url : Urls, credentials : {TRUE}, lang : Langs]
PlainOnly == {Kind(1, 1, 4, FALSE)}
VaryingAndBig == {Kind(1, 1, 4, TRUE), Kind(9, 3, 6, FALSE)}
TooBig == {Kind(9, 4, 7, FALSE)}
EveryKind == PlainOnly \cup VaryingAndBig \cup TooBig

FirstTask == CHOOSE t \in Tasks : TRUE
Reliable == INSTANCE HttpCache WITH DeletesFail <- FALSE
OneUrl == INSTANCE HttpCache WITH Requests <- {r \in Requests : r.url = CHOOSE u \in Urls : TRUE}
Sizes == INSTANCE HttpCache WITH Kinds <- VaryingAndBig \cup TooBig
OneTask == INSTANCE HttpCache WITH Requests <- {r \in Requests : r.lang = "de"}, Kinds <- PlainOnly, ReadsFail <- FALSE

MCInit == part \in Parts /\ Init
MCNext ==
  /\ UNCHANGED part
  /\ \/ part = "all" /\ Reliable!Next
     \/ part = "url" /\ OneUrl!Next
     \/ part = "tasks" /\ ((\E t \in Tasks : Sizes!Task(t)) \/ Writer)
     \/ /\ part = "shutdown"
        /\ OneTask!Task(FirstTask) \/ (\E t \in Closers : Closer(t)) \/ Writer \/ Restart
MCSpec == MCInit /\ [][MCNext]_allVars

(* HttpCache's fairness: the writer thread and what owes it jobs go on.    *)
(* One condition stands for them all, as each of them runs out of steps.   *)
MCFairSpec ==
  /\ MCSpec
  /\ WF_allVars(UNCHANGED part /\ (Writer \/ \E t \in Threads : Enqueue(t) \/ Return(t)))
=============================================================================
