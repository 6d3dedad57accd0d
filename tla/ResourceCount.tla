---------------------------- MODULE ResourceCount ----------------------------
(***************************************************************************)
(* The renderer's count of pending subresources (crates/engine/src/        *)
(* host.rs and renderer.rs): window.onload waits for it to reach zero.     *)
(* The renderer's main thread starts requests and navigates; a request     *)
(* finishes on a thread of the network callback pool, which runs its       *)
(* handler and drops its CountingHandler.  The handler of a style sheet    *)
(* starts the requests of its @imports on that thread                      *)
(* (vendor/blitz-dom/src/net.rs, request_stylesheet).  The counter and the *)
(* generation are two atomics, read and written one at a time.             *)
(***************************************************************************)
EXTENDS Naturals, FiniteSets, FiniteSetTheorems, TLAPS

CONSTANTS
  Requests,        \* requests, numbered in the order they are made
  MaxGenerations   \* bound on the documents loaded

ASSUME CountAssumption ==
  Requests \subseteq Nat /\ IsFiniteSet(Requests) /\ MaxGenerations \in Nat

VARIABLES
  generation,  \* Shared::resource_generation
  count,       \* Shared::pending_resources
  phase,       \* of each request: unused, asked (generation read), live, dropping (compared), gone
  owner,       \* CountingHandler::generation
  parent,      \* the request whose handler makes it, as a set; {} for the main thread
  main,        \* the main thread: in its loop, in tick, or between the two stores of load_html
  loadSent,    \* Page::load_sent
  strayed,     \* history: requests of an earlier document counted for this one
  overdue,     \* history: requests of an earlier document compared, not subtracted at the reset
  forgotten    \* history: requests of this document counted before the counter was reset

vars == <<generation, count, phase, owner, parent, main, loadSent, strayed, overdue, forgotten>>

(* A fetch by this thread has read the generation and not counted yet.     *)
Asking(by) == \E r \in Requests : phase[r] = "asked" /\ parent[r] = by
OwnDocument(r) == owner[r] = generation

(* CountingNetProvider::fetch, on the main thread or in the handler of a   *)
(* style sheet: the generation is read ...                                 *)
FetchBegin(r, by) ==
  /\ phase[r] = "unused" /\ \A q \in Requests : q < r => phase[q] # "unused"
  /\ IF by = {} THEN main # "reset" ELSE \A p \in by : phase[p] = "live"
  /\ ~Asking(by)
  /\ phase' = [phase EXCEPT ![r] = "asked"]
  /\ owner' = [owner EXCEPT ![r] = generation]
  /\ parent' = [parent EXCEPT ![r] = by]
  /\ UNCHANGED <<generation, count, main, loadSent, strayed, overdue, forgotten>>

(* ... and then one is added.                                              *)
FetchCount(r) ==
  /\ phase[r] = "asked"
  /\ phase' = [phase EXCEPT ![r] = "live"]
  /\ count' = count + 1
  /\ strayed' = IF OwnDocument(r) THEN strayed ELSE strayed \cup {r}
  /\ forgotten' = IF OwnDocument(r) /\ main = "reset" THEN forgotten \cup {r} ELSE forgotten
  /\ UNCHANGED <<generation, owner, parent, main, loadSent, overdue>>

DropCompareAny(r) ==
  /\ phase[r] = "live" /\ ~Asking({r})
  /\ phase' = [phase EXCEPT ![r] = "dropping"]
  /\ UNCHANGED <<generation, count, owner, parent, main, loadSent, strayed, overdue, forgotten>>

(* CountingHandler::drop, when the handler has returned or will never run: *)
(* the generation is compared ...                                          *)
DropCompare(r) ==
  /\ phase[r] = "live" /\ ~Asking({r})
  /\ phase' = [phase EXCEPT ![r] = IF OwnDocument(r) THEN "dropping" ELSE "gone"]
  /\ UNCHANGED <<generation, count, owner, parent, main, loadSent, strayed, overdue, forgotten>>

(* ... and then one is subtracted, never below zero.                       *)
DropSubtract(r) ==
  /\ phase[r] = "dropping"
  /\ phase' = [phase EXCEPT ![r] = "gone"]
  /\ count' = IF count = 0 THEN 0 ELSE count - 1
  /\ UNCHANGED <<generation, owner, parent, main, loadSent, strayed, overdue, forgotten>>

(* load_html: a new generation, then the counter is reset.                 *)
NewGeneration ==
  /\ main = "loop" /\ ~Asking({})
  /\ generation < MaxGenerations
  /\ generation' = generation + 1
  /\ main' = "reset"
  /\ forgotten' = {}
  /\ UNCHANGED <<count, phase, owner, parent, loadSent, strayed, overdue>>

ResetCountMissing ==
  /\ main = "reset"
  /\ main' = "loop"
  /\ loadSent' = FALSE
  /\ strayed' = {}
  /\ overdue' = {r \in Requests : phase[r] = "dropping" /\ ~OwnDocument(r)}
  /\ UNCHANGED <<generation, count, phase, owner, parent, forgotten>>

ResetCount ==
  /\ main = "reset"
  /\ count' = 0
  /\ main' = "loop"
  /\ loadSent' = FALSE
  /\ strayed' = {}
  /\ overdue' = {r \in Requests : phase[r] = "dropping" /\ ~OwnDocument(r)}
  /\ UNCHANGED <<generation, phase, owner, parent, forgotten>>

(* tick: nothing is pending; what it runs before it looks at the number it *)
(* read may start requests ...                                             *)
ReadPending ==
  /\ main = "loop" /\ ~Asking({})
  /\ ~loadSent
  /\ count = 0
  /\ main' = "tick"
  /\ UNCHANGED <<generation, count, phase, owner, parent, loadSent, strayed, overdue, forgotten>>

(* ... and the browser is told that the page has loaded.                   *)
SendLoad ==
  /\ main = "tick" /\ ~Asking({})
  /\ loadSent' = TRUE
  /\ main' = "loop"
  /\ UNCHANGED <<generation, count, phase, owner, parent, strayed, overdue, forgotten>>

Init ==
  /\ generation = 0 /\ count = 0
  /\ phase = [r \in Requests |-> "unused"]
  /\ owner = [r \in Requests |-> 0]
  /\ parent = [r \in Requests |-> {}]
  /\ main = "loop" /\ loadSent = FALSE
  /\ strayed = {} /\ overdue = {} /\ forgotten = {}

(* Threads of the callback pool, and the main thread's own calls, go on.   *)
Goes(r) == FetchCount(r) \/ DropCompare(r) \/ DropSubtract(r)
Tick == ReadPending \/ SendLoad

Next ==
  \/ \E r \in Requests :
       Goes(r) \/ FetchBegin(r, {}) \/ \E p \in Requests : FetchBegin(r, {p})
  \/ NewGeneration \/ ResetCount \/ Tick

Spec == Init /\ [][Next]_vars

-----------------------------------------------------------------------------
(* The state has its type.                                                 *)
TypeOK ==
  /\ generation \in Nat /\ count \in Nat
  /\ phase \in [Requests -> {"unused", "asked", "live", "dropping", "gone"}]
  /\ owner \in [Requests -> 0..generation]
  /\ parent \in [Requests -> SUBSET Requests]
  /\ main \in {"loop", "tick", "reset"}
  /\ loadSent \in BOOLEAN
  /\ strayed \subseteq Requests /\ overdue \subseteq Requests /\ forgotten \subseteq Requests

(* The requests of the current document that have not been subtracted.     *)
Outstanding == {r \in Requests : phase[r] \in {"live", "dropping"} /\ OwnDocument(r)}

(* CountingNetProvider::fetch, CountingHandler::drop and load_html: outside*)
(* of load_html the counter is the number of the document's requests that  *)
(* will still subtract from it, but for what was half done at a navigation:*)
(* it is too high only by requests counted for the wrong document, which   *)
(* keep `load` from being sent, and too low only by those whose generation *)
(* was compared, or that were counted, before the counter was reset, by    *)
(* which `load` is early.  A request the main thread makes is always       *)
(* counted right: only @imports of a handler are strayed or forgotten.     *)
LoadCounted ==
  main # "reset" =>
    /\ count <= Cardinality(Outstanding \cup strayed)
    /\ Cardinality(Outstanding) <= count + Cardinality(overdue \cup forgotten)
    /\ \A r \in strayed \cup forgotten : parent[r] # {}

(* CountingHandler::drop: "A request of the previous document finishing    *)
(* after a navigation must not count against the new one": the counter is  *)
(* the number of the document's own requests under way.                    *)
OwnRequestsCount == main # "reset" => count = Cardinality(Outstanding)

(* tick: once every request has been made, `load` is sent, although        *)
(* requests of earlier documents finish at any time, unless one of them is *)
(* counted for the document.                                               *)
LoadFires == (\A r \in Requests : phase[r] # "unused") ~> (loadSent \/ strayed # {})

-----------------------------------------------------------------------------
(***************************************************************************)
(* The counter is what LoadCounted says for any number of requests and     *)
(* documents.  The invariant that carries it follows the requests that     *)
(* cross a navigation: at the reset all that is outstanding is forgotten,  *)
(* and later only an overdue request subtracts for another document.       *)
(***************************************************************************)

(* The requests whose subtraction, or reset, the counter is short of.      *)
Deficit == {r \in overdue : phase[r] = "gone"} \cup forgotten

(* What has strayed or is forgotten was counted, by a handler's fetch.     *)
HistoryRight ==
  /\ \A r \in strayed \cup forgotten : phase[r] \notin {"unused", "asked"} /\ parent[r] # {}
  /\ \A r \in forgotten : OwnDocument(r)

(* A fetch of the main thread is over before it navigates.                 *)
MainThreadAsks ==
  \A r \in Requests : phase[r] = "asked" /\ parent[r] = {} => OwnDocument(r) /\ main # "reset"

(* What load_html finds half done is in the history when it has finished.  *)
CrossingKnown ==
  /\ main = "reset" => Outstanding \subseteq forgotten
  /\ main # "reset" => \A r \in Requests : phase[r] = "dropping" /\ ~OwnDocument(r) => r \in overdue

CountBounded ==
  main # "reset" =>
    /\ count <= Cardinality(Outstanding \cup strayed)
    /\ Cardinality(Outstanding) <= count + Cardinality(Deficit)

CountInv == TypeOK /\ HistoryRight /\ MainThreadAsks /\ CrossingKnown /\ CountBounded

(* A set of requests is finite, and one that holds another is no smaller.  *)
LEMMA RequestSets ==
  ASSUME NEW T \in SUBSET Requests, NEW S \in SUBSET T
  PROVE  /\ IsFiniteSet(S) /\ Cardinality(S) \in Nat
         /\ IsFiniteSet(T) /\ Cardinality(T) \in Nat
         /\ Cardinality(S) <= Cardinality(T)
<1>1. IsFiniteSet(T)
  BY CountAssumption, FS_Subset
<1>2. QED  BY <1>1, FS_Subset, FS_CardinalityType

(* Each step of the main thread and of the pool keeps the state in its     *)
(* type: the counter never wraps below zero.                               *)
LEMMA TypeStep ==
  ASSUME TypeOK, [Next]_vars
  PROVE  TypeOK'
<1>1. ASSUME NEW r \in Requests, NEW by \in SUBSET Requests, FetchBegin(r, by)
      PROVE  TypeOK'
  BY <1>1 DEF TypeOK, FetchBegin
<1>2. ASSUME NEW r \in Requests, FetchCount(r)
      PROVE  TypeOK'
  BY <1>2 DEF TypeOK, FetchCount
<1>3. ASSUME NEW r \in Requests, DropCompare(r) \/ DropSubtract(r)
      PROVE  TypeOK'
  BY <1>3 DEF TypeOK, DropCompare, DropSubtract
<1>4. CASE NewGeneration
  <2>1. owner' \in [Requests -> 0..generation']
    BY <1>4 DEF TypeOK, NewGeneration
  <2>2. QED  BY <1>4, <2>1 DEF TypeOK, NewGeneration
<1>5. CASE ResetCount \/ Tick \/ UNCHANGED vars
  <2>1. loadSent' \in BOOLEAN
    BY <1>5, Zenon DEF TypeOK, ResetCount, Tick, ReadPending, SendLoad, vars
  <2>2. overdue' \subseteq Requests /\ strayed' \subseteq Requests
    BY <1>5 DEF TypeOK, ResetCount, Tick, ReadPending, SendLoad, vars
  <2>3. /\ count' \in Nat /\ main' \in {"loop", "tick", "reset"}
        /\ UNCHANGED <<generation, phase, owner, parent, forgotten>>
    BY <1>5 DEF TypeOK, ResetCount, Tick, ReadPending, SendLoad, vars
  <2>4. QED  BY <2>1, <2>2, <2>3 DEF TypeOK
<1>6. QED  BY <1>1, <1>2, <1>3, <1>4, <1>5 DEF Next, Goes

(* A request is in the history only once it is counted, and what the main  *)
(* thread asks for it counts before it navigates.                          *)
LEMMA HistoryStep ==
  ASSUME TypeOK, HistoryRight, MainThreadAsks, [Next]_vars
  PROVE  HistoryRight' /\ MainThreadAsks'
<1>1. ASSUME NEW r \in Requests, NEW by \in SUBSET Requests, FetchBegin(r, by)
      PROVE  HistoryRight' /\ MainThreadAsks'
  <2>1. r \notin strayed \cup forgotten
    BY <1>1 DEF FetchBegin, HistoryRight
  <2>2. QED  BY <1>1, <2>1 DEF TypeOK, FetchBegin, HistoryRight, MainThreadAsks, OwnDocument
<1>2. ASSUME NEW r \in Requests, FetchCount(r)
      PROVE  HistoryRight' /\ MainThreadAsks'
  BY <1>2 DEF TypeOK, FetchCount, HistoryRight, MainThreadAsks, OwnDocument
<1>3. ASSUME NEW r \in Requests, DropCompare(r) \/ DropSubtract(r)
      PROVE  HistoryRight' /\ MainThreadAsks'
  BY <1>3 DEF TypeOK, DropCompare, DropSubtract, HistoryRight, MainThreadAsks, OwnDocument
<1>4. CASE NewGeneration
  BY <1>4 DEF TypeOK, NewGeneration, Asking, HistoryRight, MainThreadAsks, OwnDocument
<1>5. CASE ResetCount \/ Tick \/ UNCHANGED vars
  BY <1>5 DEF TypeOK, ResetCount, Tick, ReadPending, SendLoad, vars, HistoryRight, MainThreadAsks, OwnDocument
<1>6. QED  BY <1>1, <1>2, <1>3, <1>4, <1>5 DEF Next, Goes

(* Whatever load_html finds half done is known when it has finished.       *)
LEMMA CrossingStep ==
  ASSUME TypeOK, CrossingKnown, [Next]_vars
  PROVE  CrossingKnown'
<1>1. ASSUME NEW r \in Requests, NEW by \in SUBSET Requests, FetchBegin(r, by)
      PROVE  CrossingKnown'
  BY <1>1 DEF TypeOK, FetchBegin, CrossingKnown, Outstanding, OwnDocument
<1>2. ASSUME NEW r \in Requests, FetchCount(r)
      PROVE  CrossingKnown'
  BY <1>2 DEF TypeOK, FetchCount, CrossingKnown, Outstanding, OwnDocument
<1>3. ASSUME NEW r \in Requests, DropCompare(r) \/ DropSubtract(r)
      PROVE  CrossingKnown'
  BY <1>3 DEF TypeOK, DropCompare, DropSubtract, CrossingKnown, Outstanding, OwnDocument
<1>4. CASE NewGeneration
  BY <1>4 DEF TypeOK, NewGeneration, CrossingKnown, Outstanding, OwnDocument
<1>5. CASE ResetCount
  BY <1>5 DEF TypeOK, ResetCount, CrossingKnown, Outstanding, OwnDocument
<1>6. CASE Tick \/ UNCHANGED vars
  BY <1>6 DEF TypeOK, Tick, ReadPending, SendLoad, vars, CrossingKnown, Outstanding, OwnDocument
<1>7. QED  BY <1>1, <1>2, <1>3, <1>4, <1>5, <1>6 DEF Next, Goes

(* Each step keeps the counter between its two bounds.                     *)
LEMMA BoundStep ==
  ASSUME CountInv, TypeOK', CrossingKnown', [Next]_vars
  PROVE  CountBounded'
<1> USE DEF CountInv
<1>1. /\ Outstanding \in SUBSET Requests /\ strayed \in SUBSET Requests /\ Deficit \in SUBSET Requests
      /\ Outstanding \cup strayed \in SUBSET Requests
  BY DEF TypeOK, Outstanding, Deficit
<1>2. /\ IsFiniteSet(Outstanding) /\ Cardinality(Outstanding) \in Nat
      /\ IsFiniteSet(Deficit) /\ Cardinality(Deficit) \in Nat
      /\ IsFiniteSet(Outstanding \cup strayed) /\ Cardinality(Outstanding \cup strayed) \in Nat
  BY <1>1, RequestSets
<1>3. ASSUME NEW r \in Requests, NEW by \in SUBSET Requests, FetchBegin(r, by)
      PROVE  CountBounded'
  <2>1. Outstanding' = Outstanding /\ Deficit' = Deficit
    BY <1>3 DEF TypeOK, FetchBegin, Outstanding, Deficit, OwnDocument
  <2>2. QED  BY <1>3, <2>1 DEF FetchBegin, CountBounded
<1>4. ASSUME NEW r \in Requests, FetchCount(r)
      PROVE  CountBounded'
  <2> SUFFICES ASSUME main # "reset" PROVE CountBounded'
    BY <1>4 DEF FetchCount, CountBounded
  <2>1. Deficit' = Deficit /\ r \notin Outstanding /\ r \notin strayed
    BY <1>4 DEF TypeOK, FetchCount, Outstanding, Deficit, HistoryRight
  <2>2. Outstanding' = IF OwnDocument(r) THEN Outstanding \cup {r} ELSE Outstanding
    BY <1>4 DEF TypeOK, FetchCount, Outstanding, OwnDocument
  <2>3. Outstanding' \cup strayed' = (Outstanding \cup strayed) \cup {r}
    BY <1>4, <2>2 DEF FetchCount
  <2>4. Cardinality(Outstanding' \cup strayed') = Cardinality(Outstanding \cup strayed) + 1
    BY <1>2, <2>1, <2>3, FS_AddElement
  <2>5. Cardinality(Outstanding') <= Cardinality(Outstanding) + 1 /\ Cardinality(Outstanding') \in Nat
    <3>1. Cardinality(Outstanding \cup {r}) = Cardinality(Outstanding) + 1
      BY <1>2, <2>1, FS_AddElement
    <3>2. QED  BY <1>2, <2>2, <3>1
  <2>6. QED  BY <1>2, <1>4, <2>1, <2>4, <2>5 DEF FetchCount, CountBounded, TypeOK
<1>5. ASSUME NEW r \in Requests, DropCompare(r)
      PROVE  CountBounded'
  <2>1. Outstanding' = Outstanding /\ Deficit \subseteq Deficit' /\ Deficit' \in SUBSET Requests
    BY <1>5 DEF TypeOK, DropCompare, Outstanding, Deficit, OwnDocument
  <2>2. Cardinality(Deficit) <= Cardinality(Deficit') /\ Cardinality(Deficit') \in Nat
    BY <2>1, RequestSets
  <2>3. QED  BY <1>2, <1>5, <2>1, <2>2 DEF DropCompare, CountBounded, TypeOK
<1>6. ASSUME NEW r \in Requests, DropSubtract(r)
      PROVE  CountBounded'
  <2> SUFFICES ASSUME main # "reset" PROVE CountBounded'
    BY <1>6 DEF DropSubtract, CountBounded
  <2>1. Outstanding' = Outstanding \ {r} /\ Deficit \subseteq Deficit' /\ Deficit' \in SUBSET Requests
    BY <1>6 DEF TypeOK, DropSubtract, Outstanding, Deficit, OwnDocument
  <2>2. Cardinality(Deficit) <= Cardinality(Deficit') /\ Cardinality(Deficit') \in Nat
    BY <2>1, RequestSets
  <2>3. count' <= Cardinality(Outstanding' \cup strayed')
    <3>1. (Outstanding \cup strayed) \ {r} \in SUBSET (Outstanding' \cup strayed')
          /\ Outstanding' \cup strayed' \in SUBSET Requests
      BY <1>1, <1>6, <2>1 DEF DropSubtract
    <3>2. /\ Cardinality((Outstanding \cup strayed) \ {r}) <= Cardinality(Outstanding' \cup strayed')
          /\ Cardinality((Outstanding \cup strayed) \ {r}) \in Nat
          /\ Cardinality(Outstanding' \cup strayed') \in Nat
      BY <3>1, RequestSets
    <3>3. Cardinality(Outstanding \cup strayed) <= Cardinality((Outstanding \cup strayed) \ {r}) + 1
      <4>1. Cardinality((Outstanding \cup strayed) \ {r})
              = IF r \in Outstanding \cup strayed THEN Cardinality(Outstanding \cup strayed) - 1
                                                 ELSE Cardinality(Outstanding \cup strayed)
        BY <1>2, FS_RemoveElement
      <4>2. QED  BY <1>2, <4>1
    <3>4. QED  BY <1>2, <1>6, <3>2, <3>3 DEF DropSubtract, CountBounded, TypeOK
  <2>4. Cardinality(Outstanding') <= count' + Cardinality(Deficit')
    <3>1. CASE OwnDocument(r)
      <4>1. r \in Outstanding
        BY <1>6, <3>1 DEF DropSubtract, Outstanding
      <4>2. Cardinality(Outstanding') = Cardinality(Outstanding) - 1
        BY <1>2, <2>1, <4>1, FS_RemoveElement
      <4>3. QED  BY <1>2, <1>6, <2>2, <4>2 DEF DropSubtract, CountBounded, TypeOK
    <3>2. CASE ~OwnDocument(r)
      <4>1. r \notin Outstanding /\ r \notin Deficit /\ Deficit' = Deficit \cup {r}
        BY <1>6, <3>2 DEF TypeOK, DropSubtract, Outstanding, Deficit, HistoryRight, CrossingKnown
      <4>2. Cardinality(Deficit') = Cardinality(Deficit) + 1
        BY <1>2, <4>1, FS_AddElement
      <4>3. Outstanding' = Outstanding
        BY <2>1, <4>1
      <4>4. QED  BY <1>2, <1>6, <4>2, <4>3 DEF DropSubtract, CountBounded, TypeOK
    <3>3. QED  BY <3>1, <3>2
  <2>5. QED  BY <2>3, <2>4 DEF CountBounded
<1>7. CASE NewGeneration
  BY <1>7 DEF NewGeneration, CountBounded
<1>8. CASE ResetCount
  <2>1. Outstanding' = Outstanding /\ Outstanding \in SUBSET Deficit' /\ Deficit' \in SUBSET Requests
    BY <1>8 DEF TypeOK, ResetCount, Outstanding, Deficit, OwnDocument, CrossingKnown
  <2>2. Cardinality(Outstanding') <= Cardinality(Deficit') /\ Cardinality(Deficit') \in Nat
    BY <2>1, RequestSets
  <2>3. Cardinality(Outstanding' \cup strayed') \in Nat
    BY <1>1, <1>8, <2>1, RequestSets DEF ResetCount
  <2>4. QED  BY <1>2, <1>8, <2>1, <2>2, <2>3 DEF ResetCount, CountBounded
<1>9. CASE Tick \/ UNCHANGED vars
  <2>1. Outstanding' = Outstanding /\ Deficit' = Deficit /\ UNCHANGED <<count, strayed>>
    BY <1>9 DEF Tick, ReadPending, SendLoad, vars, Outstanding, Deficit, OwnDocument
  <2>2. main' # "reset" => main # "reset"
    BY <1>9 DEF Tick, ReadPending, SendLoad, vars
  <2>3. QED  BY <2>1, <2>2 DEF CountBounded
<1>10. QED  BY <1>3, <1>4, <1>5, <1>6, <1>7, <1>8, <1>9 DEF Next, Goes

(* The invariant holds at first: nothing is asked for.                     *)
LEMMA InvInit == Init => CountInv
<1> SUFFICES ASSUME Init PROVE CountInv
  OBVIOUS
<1>1. loadSent \in BOOLEAN
  BY Zenon DEF Init
<1>2. Outstanding = {} /\ Deficit = {}
  BY DEF Init, Outstanding, Deficit
<1>3. TypeOK
  BY <1>1 DEF Init, TypeOK
<1>4. CountBounded
  BY <1>2, FS_EmptySet DEF Init, CountBounded
<1>5. QED  BY <1>2, <1>3, <1>4 DEF Init, CountInv, HistoryRight, MainThreadAsks, CrossingKnown, OwnDocument

(* CountingNetProvider::fetch, CountingHandler::drop and load_html: for any
   number of requests and navigations the counter differs from the document's
   requests under way only by requests that were half fetched or half dropped
   when a navigation came, and what the main thread asks for never strays. *)
THEOREM CountAccounted == Spec => []LoadCounted
<1>1. CountInv /\ [Next]_vars => CountInv'
  BY TypeStep, HistoryStep, CrossingStep, BoundStep DEF CountInv
<1>2. CountInv => LoadCounted
  <2> SUFFICES ASSUME CountInv, main # "reset" PROVE LoadCounted
    BY DEF LoadCounted
  <2>1. Outstanding \in SUBSET Requests /\ Deficit \in SUBSET (overdue \cup forgotten)
        /\ overdue \cup forgotten \in SUBSET Requests
    BY DEF CountInv, TypeOK, Outstanding, Deficit
  <2>2. /\ Cardinality(Deficit) <= Cardinality(overdue \cup forgotten)
        /\ Cardinality(Deficit) \in Nat /\ Cardinality(overdue \cup forgotten) \in Nat
        /\ Cardinality(Outstanding) \in Nat
    BY <2>1, RequestSets
  <2>3. QED  BY <2>2 DEF CountInv, CountBounded, HistoryRight, LoadCounted, TypeOK
<1>3. QED  BY InvInit, <1>1, <1>2, PTL DEF Spec

=============================================================================
