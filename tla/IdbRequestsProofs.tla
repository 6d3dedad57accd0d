--------------------------- MODULE IdbRequestsProofs ---------------------------
(***************************************************************************)
(* Opening, upgrading and deleting a database: proofs for any number of    *)
(* requests and connections.                                               *)
(*                                                                         *)
(* What the code never says is that at most one of its zero-delay timers   *)
(* carries on the request being processed (or the versionchange events of  *)
(* one list do), and which one that is decides what holds of the           *)
(* connections.  The invariant names that timer, the phase of the request. *)
(***************************************************************************)
EXTENDS IdbRequests, FiniteSetTheorems, SequenceTheorems, TLAPS

OpenSpec == OpenInit /\ [][OpenNext]_openVars

-----------------------------------------------------------------------------
(* The timers that carry on a request, those that answer one, and the rest. *)
Carrying == {"run", "versionchange", "announced", "alone", "upgradeneeded", "aborted"}
Outcomes == {"success", "error"}
Tasks == [kind : Carrying \union Outcomes \union {"blocked"}, of : Requests]

(* A phase is named after the timer it waits for.                          *)
Upgrading == {"upgradeneeded", "running", "aborted"}
Phases == {"free", "waiting", "running"} \union Carrying
Width(p) == IF p = "versionchange" THEN left ELSE IF p \in Carrying THEN 1 ELSE 0

(* The carrying timers of q are w timers in a row, all of this kind.       *)
Block(q, kind, w) ==
  \E lo \in 0..Len(q) :
    /\ lo + w <= Len(q)
    /\ \A n \in 1..Len(q) : IF lo < n /\ n <= lo + w THEN q[n].kind = kind ELSE q[n].kind \notin Carrying

Connection == [version : Nat, closing : BOOLEAN, closed : BOOLEAN, txs : Nat, shown : BOOLEAN, told : BOOLEAN]
Fresh(c) == ~c.shown /\ ~c.closing /\ ~c.closed /\ c.txs = 0
Unused(r) == Fresh(conn[r]) /\ r \notin conns

(* What a request may hear, and may have heard: before its upgrade, in it, *)
(* at the end.                                                             *)
Events == {"blocked", "upgradeneeded"} \union Outcomes
Early == {<< >>, <<"blocked">>}
Shown == {Append(heard, "upgradeneeded") : heard \in Early}
Ended == UNION {{Append(heard, outcome) : heard \in Early \union Shown} : outcome \in Outcomes}

-----------------------------------------------------------------------------
OpenTyped ==
  /\ data \in Nat \union {None} /\ old \in Nat
  /\ conn \in [Requests -> Connection] /\ conns \subseteq Requests \ Deletes
  /\ queue \in Seq(Requests) /\ timerq \in Seq(Tasks)
  /\ busy \in Requests \union {None}
  /\ events \in [Requests -> {<<"idle">>} \union Early \union Shown \union Ended]

(* What the phase says of the books kept for the request.                  *)
Phased(p) ==
  /\ busy = None <=> p = "free"
  /\ IF p = "versionchange" THEN left \in 1..Cardinality(Requests) ELSE left = 0
  /\ IF p = "waiting" THEN waiting # None /\ conns \ {busy} \subseteq waiting ELSE waiting = None
  /\ upgrade = IF p = "upgradeneeded" THEN "hold" ELSE IF p = "running" THEN "running"
               ELSE IF p = "aborted" THEN "aborting" ELSE "none"

(* The connections of all requests, and that of the one processed.         *)
Connections ==
  \A r \in Requests :
    /\ conn[r].closed => conn[r].closing /\ r \notin conns /\ conn[r].txs = 0
    /\ events[r] = <<"idle">> => Unused(r)
    /\ r \in conns /\ r # busy /\ ~conn[r].closing => conn[r].version = data

Processed(p) ==
  /\ p = "run" => Unused(busy)
  /\ p \in {"versionchange", "announced", "waiting", "alone"} =>
       data \in Nat /\ Fresh(conn[busy]) /\ (busy \in Deletes \/ busy \in conns)
  /\ p = "alone" => conns \subseteq {busy}
  /\ p \in Upgrading => conns = {busy} /\ conn[busy].txs = 1
  /\ p \in {"upgradeneeded", "running"} => conn[busy].version = data
  /\ p = "upgradeneeded" => ~conn[busy].shown /\ ~conn[busy].closing

(* The requests not begun.                                                 *)
Queued ==
  /\ busy = None => queue = << >>
  /\ IsInjective(queue)
  /\ \A r \in Range(queue) : r # busy /\ Unused(r) /\ events[r] = << >>

(* A timer answers a request that is done and has no other.                *)
Answers ==
  \A task \in Range(timerq) : task.kind \in Outcomes =>
    /\ task.of # busy /\ task.of \notin Range(queue)
    /\ events[task.of] \in Early \union Shown

(* The blocked event comes before what follows once the others are closed. *)
InOrder(q) ==
  \A m, n \in 1..Len(q) :
    /\ q[m].kind \in Outcomes /\ q[n].kind \in Outcomes /\ q[m].of = q[n].of => m = n
    /\ q[m].kind = "blocked" /\ q[n].kind = "blocked" => m = n
    /\ q[m].kind = "blocked" /\ q[n].kind = "alone" => m < n

Owned ==
  \A task \in Range(timerq) : task.kind \in Carrying \ {"versionchange"} => task.of = busy

Told(p) ==
  /\ \A task \in Range(timerq) : task.kind = "blocked" =>
       task.of = busy /\ events[busy] = << >> /\ p \in {"waiting", "alone"}
  /\ p \in {"run", "versionchange", "announced"} => events[busy] = << >>
  /\ p \in {"waiting", "alone", "upgradeneeded"} => events[busy] \in Early
  /\ p \in {"running", "aborted"} => events[busy] \in Shown

OpenInvariant(p) ==
  /\ OpenTyped /\ Block(timerq, p, Width(p)) /\ Phased(p)
  /\ Connections /\ Processed(p) /\ Queued /\ Answers /\ InOrder(timerq) /\ Owned /\ Told(p)

ConnectionsInvariant == \E p \in Phases : OpenInvariant(p)

-----------------------------------------------------------------------------
(* Sequences of timers.                                                    *)

(* The next timer carries on: it is the first of the block. *)
LEMMA BlockTaken ==
  ASSUME NEW q \in Seq(Tasks), NEW kind, NEW w \in Nat, Block(q, kind, w),
         q # << >>, Head(q).kind \in Carrying
  PROVE  w > 0 /\ Head(q).kind = kind /\ Block(Tail(q), kind, w - 1)
<1>1. PICK lo \in 0..Len(q) :
        /\ lo + w <= Len(q)
        /\ \A n \in 1..Len(q) : IF lo < n /\ n <= lo + w THEN q[n].kind = kind ELSE q[n].kind \notin Carrying
  BY DEF Block
<1>2. Head(q) = q[1] /\ 1 \in 1..Len(q)
  OBVIOUS
<1>3. lo = 0 /\ w > 0 /\ q[1].kind = kind
  BY <1>1, <1>2
<1>4. Tail(q) \in Seq(Tasks) /\ Len(Tail(q)) = Len(q) - 1 /\ \A n \in 1..Len(q) - 1 : Tail(q)[n] = q[n + 1]
  OBVIOUS
<1>5. \A n \in 1..Len(Tail(q)) : IF 0 < n /\ n <= 0 + (w - 1) THEN Tail(q)[n].kind = kind ELSE Tail(q)[n].kind \notin Carrying
  BY <1>1, <1>3, <1>4
<1>6. 0 \in 0..Len(Tail(q)) /\ 0 + (w - 1) <= Len(Tail(q))
  BY <1>1, <1>3, <1>4
<1>7. Block(Tail(q), kind, w - 1)
  BY <1>3, <1>5, <1>6 DEF Block
<1>8. QED  BY <1>2, <1>3, <1>7

(* The next timer does not carry on: the block stays whole. *)
LEMMA BlockPassed ==
  ASSUME NEW q \in Seq(Tasks), NEW kind, NEW w \in Nat, Block(q, kind, w),
         q # << >>, Head(q).kind \notin Carrying, w = 0 \/ kind \in Carrying
  PROVE  Block(Tail(q), kind, w)
<1>1. PICK lo \in 0..Len(q) :
        /\ lo + w <= Len(q)
        /\ \A n \in 1..Len(q) : IF lo < n /\ n <= lo + w THEN q[n].kind = kind ELSE q[n].kind \notin Carrying
  BY DEF Block
<1>2. Head(q) = q[1] /\ 1 \in 1..Len(q)
  OBVIOUS
<1>3. Tail(q) \in Seq(Tasks) /\ Len(Tail(q)) = Len(q) - 1 /\ \A n \in 1..Len(q) - 1 : Tail(q)[n] = q[n + 1]
  OBVIOUS
<1>4. CASE w = 0
  <2>1. \A n \in 1..Len(q) : q[n].kind \notin Carrying
    BY <1>1, <1>4
  <2>2. \A n \in 1..Len(Tail(q)) : Tail(q)[n].kind \notin Carrying
    BY <1>3, <2>1
  <2>3. 0 \in 0..Len(Tail(q)) /\ 0 + w <= Len(Tail(q)) /\ \A n \in 1..Len(Tail(q)) : ~(0 < n /\ n <= 0 + w)
    BY <1>2, <1>3, <1>4
  <2>4. QED  BY <2>2, <2>3 DEF Block
<1>5. CASE w > 0
  <2>1. kind \in Carrying
    BY <1>5
  <2>2. lo >= 1
    BY <1>1, <1>2, <1>5, <2>1
  <2>3. lo - 1 \in 0..Len(Tail(q)) /\ (lo - 1) + w <= Len(Tail(q))
    BY <1>1, <1>3, <2>2
  <2>4. \A n \in 1..Len(Tail(q)) : IF lo - 1 < n /\ n <= (lo - 1) + w THEN Tail(q)[n].kind = kind
                                                                     ELSE Tail(q)[n].kind \notin Carrying
    BY <1>1, <1>3
  <2>5. QED  BY <2>3, <2>4 DEF Block
<1>6. QED  BY <1>4, <1>5

(* Another timer behind. *)
LEMMA BlockBefore ==
  ASSUME NEW q \in Seq(Tasks), NEW kind, NEW w \in Nat, Block(q, kind, w),
         NEW task \in Tasks, task.kind \notin Carrying
  PROVE  Block(Append(q, task), kind, w)
<1>1. PICK lo \in 0..Len(q) :
        /\ lo + w <= Len(q)
        /\ \A n \in 1..Len(q) : IF lo < n /\ n <= lo + w THEN q[n].kind = kind ELSE q[n].kind \notin Carrying
  BY DEF Block
<1> DEFINE a == Append(q, task)
<1>2. Len(a) = Len(q) + 1 /\ a[Len(q) + 1] = task /\ \A n \in 1..Len(q) : a[n] = q[n]
  OBVIOUS
<1> HIDE DEF a
<1>3. \A n \in 1..Len(a) : n \in 1..Len(q) \/ n = Len(q) + 1
  BY <1>2
<1>4. \A n \in 1..Len(a) : IF lo < n /\ n <= lo + w THEN a[n].kind = kind ELSE a[n].kind \notin Carrying
  BY <1>1, <1>2, <1>3
<1>5. lo \in 0..Len(a) /\ lo + w <= Len(a)
  BY <1>1, <1>2
<1>6. QED  BY <1>4, <1>5 DEF Block, a

(* A block of no timers is one of any kind. *)
LEMMA BlockNone ==
  ASSUME NEW q \in Seq(Tasks), NEW kind, NEW other, Block(q, kind, 0)
  PROVE  Block(q, other, 0) /\ \A n \in 1..Len(q) : q[n].kind \notin Carrying
  BY DEF Block

(* The first timers of a block come to the end of what has none. *)
LEMMA BlockBegun ==
  ASSUME NEW q \in Seq(Tasks), NEW more \in Seq(Tasks), NEW kind, Block(q, kind, 0),
         NEW next, \A n \in 1..Len(more) : more[n].kind = next
  PROVE  Block(q \o more, next, Len(more))
<1> DEFINE a == q \o more
<1>1. /\ Len(a) = Len(q) + Len(more) /\ Len(q) \in Nat /\ Len(more) \in Nat
      /\ \A n \in 1..Len(a) : a[n] = IF n <= Len(q) THEN q[n] ELSE more[n - Len(q)]
  BY ConcatProperties
<1>2. \A n \in 1..Len(q) : q[n].kind \notin Carrying
  BY BlockNone
<1> HIDE DEF a
<1>3. ASSUME NEW n \in 1..Len(a)
      PROVE  IF Len(q) < n /\ n <= Len(q) + Len(more) THEN a[n].kind = next ELSE a[n].kind \notin Carrying
  <2>1. CASE n <= Len(q)
    BY <1>1, <1>2, <2>1
  <2>2. CASE n > Len(q)
    <3>1. n - Len(q) \in 1..Len(more)
      BY <1>1, <2>2
    <3>2. QED  BY <1>1, <2>2, <3>1
  <2>3. QED  BY <1>1, <2>1, <2>2
<1>4. Len(q) \in 0..Len(a) /\ Len(q) + Len(more) <= Len(a)
  BY <1>1
<1>5. QED  BY <1>3, <1>4 DEF Block, a

LEMMA BlockOfOne ==
  ASSUME NEW q \in Seq(Tasks), NEW kind, Block(q, kind, 0), NEW task \in Tasks
  PROVE  Block(Append(q, task), task.kind, 1)
<1>1. <<task>> \in Seq(Tasks) /\ Len(<<task>>) = 1 /\ \A n \in 1..1 : <<task>>[n].kind = task.kind
  OBVIOUS
<1>2. Append(q, task) = q \o <<task>>
  BY AppendIsConcat
<1>3. QED  BY <1>1, <1>2, BlockBegun

(* fireVersionChange: a sequence lists each connection of a set once. *)
LEMMA ListOfSet ==
  ASSUME NEW S, IsFiniteSet(S)
  PROVE  /\ Cardinality(S) \in Nat /\ (Cardinality(S) = 0 <=> S = {})
         /\ \A n \in 1..Cardinality(S) : SetToSeq(S)[n] \in S
<1>1. Cardinality(S) \in Nat /\ ExistsBijection(1..Cardinality(S), S)
  BY FS_CardinalityType
<1>2. PICK list \in [1..Cardinality(S) -> S] : \A m, n \in 1..Cardinality(S) : list[m] = list[n] => m = n
  BY <1>1 DEF ExistsBijection, Bijection, Injection, IsInjective
<1>3. IsInjective(list)
  BY <1>2 DEF IsInjective
<1>4. SetToSeq(S) \in [1..Cardinality(S) -> S]
  BY <1>3 DEF SetToSeq
<1>5. QED  BY <1>1, <1>4, FS_EmptySet

LEMMA RangeType ==
  ASSUME NEW S, NEW q \in Seq(S)
  PROVE  Range(q) \subseteq S
<1>1. DOMAIN q = 1..Len(q) /\ \A n \in 1..Len(q) : q[n] \in S
  OBVIOUS
<1>2. QED  BY <1>1 DEF Range

(* What is in a sequence whose first element is taken, or that gets one more. *)
LEMMA RangeTaken ==
  ASSUME NEW S, NEW q \in Seq(S), q # << >>
  PROVE  /\ Head(q) \in S /\ Tail(q) \in Seq(S) /\ Range(q) = {Head(q)} \union Range(Tail(q))
         /\ IsInjective(q) => IsInjective(Tail(q)) /\ Head(q) \notin Range(Tail(q))
<1>1. /\ Head(q) = q[1] /\ 1 \in 1..Len(q) /\ Head(q) \in S
      /\ Tail(q) \in Seq(S) /\ Len(q) \in Nat /\ Len(Tail(q)) = Len(q) - 1
      /\ \A n \in 1..Len(Tail(q)) : n + 1 \in 1..Len(q) /\ Tail(q)[n] = q[n + 1]
  OBVIOUS
<1>2. DOMAIN q = 1..Len(q) /\ DOMAIN Tail(q) = 1..Len(Tail(q))
  BY <1>1
<1>3. ASSUME NEW n \in 1..Len(q), n # 1 PROVE q[n] \in Range(Tail(q))
  <2>1. n - 1 \in 1..Len(Tail(q)) /\ (n - 1) + 1 = n
    BY <1>1, <1>3
  <2>2. Tail(q)[n - 1] = q[(n - 1) + 1]
    BY <1>1, <2>1
  <2>3. QED  BY <1>2, <2>1, <2>2 DEF Range
<1>4. Range(q) = {Head(q)} \union Range(Tail(q))
  <2>1. \A x \in Range(q) : \E n \in 1..Len(q) : x = q[n]
    BY <1>2 DEF Range
  <2>2. \A x \in Range(Tail(q)) : \E n \in 1..Len(Tail(q)) : x = q[n + 1]
    BY <1>1, <1>2 DEF Range
  <2>3. \A n \in 1..Len(q) : q[n] \in Range(q)
    BY <1>2 DEF Range
  <2>4. QED  BY <1>1, <1>3, <2>1, <2>2, <2>3
<1>5. ASSUME IsInjective(q) PROVE IsInjective(Tail(q)) /\ Head(q) \notin Range(Tail(q))
  <2>1. \A m, n \in 1..Len(Tail(q)) : Tail(q)[m] = Tail(q)[n] => m + 1 = n + 1
    BY <1>1, <1>2, <1>5 DEF IsInjective
  <2>2. \A n \in 1..Len(Tail(q)) : q[1] # q[n + 1]
    BY <1>1, <1>2, <1>5 DEF IsInjective
  <2>3. QED  BY <1>1, <1>2, <2>1, <2>2 DEF IsInjective, Range
<1>6. QED  BY <1>1, <1>4, <1>5

LEMMA RangeAdded ==
  ASSUME NEW S, NEW q \in Seq(S), NEW last \in S
  PROVE  /\ Append(q, last) \in Seq(S) /\ Range(Append(q, last)) = Range(q) \union {last}
         /\ IsInjective(q) /\ last \notin Range(q) => IsInjective(Append(q, last))
<1> DEFINE a == Append(q, last)
<1>1. /\ Len(q) \in Nat /\ Len(a) = Len(q) + 1 /\ a[Len(q) + 1] = last
      /\ \A n \in 1..Len(q) : a[n] = q[n]
      /\ DOMAIN q = 1..Len(q) /\ DOMAIN a = 1..Len(a) /\ a \in Seq(S)
  OBVIOUS
<1> HIDE DEF a
<1>2. 1..Len(a) = 1..Len(q) \union {Len(q) + 1}
  BY <1>1
<1>3. Range(a) = Range(q) \union {last}
  BY <1>1, <1>2 DEF Range
<1>4. ASSUME IsInjective(q), last \notin Range(q) PROVE IsInjective(a)
  BY <1>1, <1>2, <1>4 DEF IsInjective, Range
<1>5. QED  BY <1>1, <1>3, <1>4 DEF a

(* The order of the timers outlasts the first of them, and one more behind. *)
LEMMA OrderTaken ==
  ASSUME NEW q \in Seq(Tasks), q # << >>, InOrder(q)
  PROVE  /\ InOrder(Tail(q))
         /\ \A task \in Range(Tail(q)) :
              /\ Head(q).kind \in Outcomes /\ task.kind \in Outcomes => task.of # Head(q).of
              /\ Head(q).kind \in {"blocked", "alone"} => task.kind # "blocked"
<1>1. /\ Head(q) = q[1] /\ 1 \in 1..Len(q)
      /\ Tail(q) \in Seq(Tasks) /\ Len(q) \in Nat /\ Len(Tail(q)) = Len(q) - 1
      /\ \A n \in 1..Len(Tail(q)) : n \in Nat /\ n + 1 \in 1..Len(q) /\ Tail(q)[n] = q[n + 1]
  OBVIOUS
<1>2. InOrder(Tail(q))
  <2> SUFFICES ASSUME NEW m \in 1..Len(Tail(q)), NEW n \in 1..Len(Tail(q))
               PROVE  LET s == Tail(q) IN
                      /\ s[m].kind \in Outcomes /\ s[n].kind \in Outcomes /\ s[m].of = s[n].of => m = n
                      /\ s[m].kind = "blocked" /\ s[n].kind = "blocked" => m = n
                      /\ s[m].kind = "blocked" /\ s[n].kind = "alone" => m < n
    BY DEF InOrder
  <2>1. m \in Nat /\ n \in Nat /\ m + 1 \in 1..Len(q) /\ n + 1 \in 1..Len(q)
        /\ Tail(q)[m] = q[m + 1] /\ Tail(q)[n] = q[n + 1]
    BY <1>1
  <2>2. /\ q[m + 1].kind \in Outcomes /\ q[n + 1].kind \in Outcomes /\ q[m + 1].of = q[n + 1].of => m + 1 = n + 1
        /\ q[m + 1].kind = "blocked" /\ q[n + 1].kind = "blocked" => m + 1 = n + 1
        /\ q[m + 1].kind = "blocked" /\ q[n + 1].kind = "alone" => m + 1 < n + 1
    BY <2>1 DEF InOrder
  <2>3. QED  BY <2>1, <2>2
<1>3. ASSUME NEW n \in 1..Len(Tail(q))
      PROVE  /\ q[1].kind \in Outcomes /\ q[n + 1].kind \in Outcomes => q[n + 1].of # q[1].of
             /\ q[1].kind \in {"blocked", "alone"} => q[n + 1].kind # "blocked"
  <2>1. 1 \in 1..Len(q) /\ n + 1 \in 1..Len(q) /\ n + 1 # 1 /\ ~(n + 1 < 1)
    BY <1>1
  <2>2. QED  BY <2>1 DEF InOrder
<1>4. DOMAIN Tail(q) = 1..Len(Tail(q))
  BY <1>1
<1>5. QED  BY <1>1, <1>2, <1>3, <1>4 DEF Range

LEMMA OrderAdded ==
  ASSUME NEW q \in Seq(Tasks), InOrder(q), NEW last \in Tasks,
         \A task \in Range(q) :
           /\ last.kind \in Outcomes /\ task.kind \in Outcomes => task.of # last.of
           /\ last.kind = "blocked" => task.kind \notin {"blocked", "alone"}
  PROVE  InOrder(Append(q, last))
<1> DEFINE a == Append(q, last)
<1>1. /\ Len(q) \in Nat /\ Len(a) = Len(q) + 1 /\ a[Len(q) + 1] = last
      /\ \A n \in 1..Len(q) : a[n] = q[n]
      /\ DOMAIN q = 1..Len(q)
  OBVIOUS
<1> HIDE DEF a
<1>2. \A n \in 1..Len(a) : (n \in 1..Len(q) /\ n < Len(a) /\ a[n] = q[n] /\ a[n] \in Range(q)) \/ (n = Len(a) /\ a[n] = last)
  BY <1>1 DEF Range
<1> SUFFICES ASSUME NEW m \in 1..Len(a), NEW n \in 1..Len(a)
             PROVE  /\ a[m].kind \in Outcomes /\ a[n].kind \in Outcomes /\ a[m].of = a[n].of => m = n
                    /\ a[m].kind = "blocked" /\ a[n].kind = "blocked" => m = n
                    /\ a[m].kind = "blocked" /\ a[n].kind = "alone" => m < n
  BY DEF InOrder, a
<1>3. CASE m \in 1..Len(q) /\ n \in 1..Len(q)
  BY <1>1, <1>3 DEF InOrder
<1>4. CASE m = Len(a) /\ n \in 1..Len(q) /\ a[n] \in Range(q) /\ a[m] = last
  <2>1. "blocked" \notin Outcomes /\ "alone" \notin Outcomes /\ last.kind = a[m].kind /\ last.of = a[m].of
    BY <1>4 DEF Outcomes
  <2>2. QED  BY <1>4, <2>1
<1>5. CASE n = Len(a) /\ m \in 1..Len(q) /\ m < n /\ a[m] \in Range(q) /\ a[n] = last
  BY <1>5
<1>6. CASE m = n
  <2>1. ~(a[m].kind = "blocked" /\ a[n].kind = "alone")
    BY <1>6
  <2>2. QED  BY <1>6, <2>1
<1>7. QED  BY <1>2, <1>3, <1>4, <1>5, <1>6

(* A list of versionchange timers changes nothing about it. *)
LEMMA ListAdded ==
  ASSUME NEW q \in Seq(Tasks), InOrder(q), NEW more \in Seq(Tasks),
         \A n \in 1..Len(more) : more[n].kind = "versionchange"
  PROVE  /\ q \o more \in Seq(Tasks) /\ InOrder(q \o more)
         /\ \A task \in Range(q \o more) : task \in Range(q) \/ task.kind = "versionchange"
<1> DEFINE a == q \o more
<1>1. /\ Len(a) = Len(q) + Len(more) /\ Len(q) \in Nat /\ Len(more) \in Nat /\ a \in Seq(Tasks)
      /\ \A n \in 1..Len(a) : a[n] = IF n <= Len(q) THEN q[n] ELSE more[n - Len(q)]
      /\ DOMAIN a = 1..Len(a) /\ DOMAIN q = 1..Len(q)
  BY ConcatProperties
<1> HIDE DEF a
<1>2. ASSUME NEW n \in 1..Len(a)
      PROVE  (n \in 1..Len(q) /\ a[n] = q[n]) \/ a[n].kind = "versionchange"
  <2>1. CASE n <= Len(q)
    BY <1>1, <2>1
  <2>2. CASE n > Len(q)
    <3>1. n - Len(q) \in 1..Len(more)
      BY <1>1, <2>2
    <3>2. QED  BY <1>1, <2>2, <3>1
  <2>3. QED  BY <1>1, <2>1, <2>2
<1>3. "versionchange" \notin Outcomes
  BY DEF Outcomes
<1>4. InOrder(a)
  BY <1>2, <1>3 DEF InOrder
<1>5. QED  BY <1>1, <1>2, <1>4 DEF Range, a

-----------------------------------------------------------------------------
(* The next timer and what it leaves. *)
LEMMA TimerTaken ==
  ASSUME OpenAssumption, NEW p \in Phases, OpenInvariant(p), NEW kind, NEW r, Runs(kind, r)
  PROVE  /\ Tail(timerq) \in Seq(Tasks) /\ InOrder(Tail(timerq))
         /\ Task(kind, r) \in Range(timerq) /\ Range(Tail(timerq)) \subseteq Range(timerq)
         /\ kind \in Carrying => p = kind /\ Block(Tail(timerq), p, Width(p) - 1)
         /\ kind \in Carrying \ {"versionchange"} =>
              /\ r = busy /\ Block(Tail(timerq), p, 0)
              /\ \A task \in Range(Tail(timerq)) : task.kind \in Outcomes
         /\ kind \notin Carrying => Block(Tail(timerq), p, Width(p))
<1>1. /\ timerq \in Seq(Tasks) /\ timerq # << >> /\ Head(timerq) = Task(kind, r)
      /\ Head(timerq).kind = kind /\ Head(timerq).of = r
      /\ InOrder(timerq) /\ Block(timerq, p, Width(p))
  BY DEF OpenInvariant, OpenTyped, Runs, Task
<1>2. Tail(timerq) \in Seq(Tasks) /\ Range(timerq) = {Task(kind, r)} \union Range(Tail(timerq))
  BY <1>1, RangeTaken
<1>3. Width(p) \in Nat /\ (Width(p) = 0 \/ p \in Carrying)
  BY FS_CardinalityType DEF OpenInvariant, Phased, Width, OpenAssumption, Carrying
<1>4. InOrder(Tail(timerq))
  BY <1>1, OrderTaken
<1>5. kind \in Carrying => p = kind /\ Block(Tail(timerq), p, Width(p) - 1)
  BY <1>1, <1>3, BlockTaken
<1>6. kind \notin Carrying => Block(Tail(timerq), p, Width(p))
  BY <1>1, <1>3, BlockPassed
<1>7. ASSUME kind \in Carrying \ {"versionchange"}
      PROVE  /\ r = busy /\ Block(Tail(timerq), p, 0)
             /\ \A task \in Range(Tail(timerq)) : task.kind \in Outcomes
  <2>1. r = busy
    <3>1. Task(kind, r).kind = kind /\ Task(kind, r).of = r /\ Task(kind, r) \in Range(timerq)
      BY <1>2 DEF Task
    <3>2. QED  BY <1>7, <3>1 DEF OpenInvariant, Owned
  <2>2. Width(p) = 1
    BY <1>5, <1>7 DEF Width
  <2>3. Block(Tail(timerq), p, 0)
    BY <1>5, <1>7, <2>2
  <2>4. \A n \in 1..Len(Tail(timerq)) : Tail(timerq)[n].kind \notin Carrying
    BY <1>2, <2>3, BlockNone
  <2>5. ASSUME NEW task \in Range(Tail(timerq)) PROVE task.kind \in Outcomes
    <3>1. task.kind \notin Carrying /\ task \in Tasks
      BY <1>2, <2>4 DEF Range
    <3>2. task.kind # "blocked"
      <4>1. CASE kind = "alone"
        BY <1>1, <4>1, OrderTaken
      <4>2. CASE kind # "alone"
        <5>1. p \notin {"waiting", "alone"}
          BY <1>5, <1>7, <4>2 DEF Carrying
        <5>2. QED  BY <1>2, <5>1 DEF OpenInvariant, Told
      <4>3. QED  BY <4>1, <4>2
    <3>3. QED  BY <3>1, <3>2 DEF Tasks
  <2>6. QED  BY <2>1, <2>3, <2>5
<1>8. QED  BY <1>2, <1>4, <1>5, <1>6, <1>7

(* pumpQueue: a request is done, its event is on the way and the next one  *)
(* in the queue has its turn. *)
LEMMA Finished ==
  ASSUME OpenAssumption, NEW p \in Phases, OpenInvariant(p), busy # None,
         NEW timers \in Seq(Tasks), Range(timers) \subseteq Range(timerq), InOrder(timers),
         \A task \in Range(timers) : task.kind \in Outcomes,
         NEW outcome \in Outcomes, Pump(queue, Append(timers, Task(outcome, busy))),
         events' = events, events[busy] \in Early \union Shown,
         old' \in Nat, left' = 0, waiting' = None, upgrade' = "none",
         data' \in Nat \union {None}, conns' \subseteq Requests \ Deletes, conn' \in [Requests -> Connection],
         \A r \in Requests : r # busy => conn'[r] = conn[r] /\ (r \in conns' <=> r \in conns),
         conn'[busy].closed => conn'[busy].closing /\ busy \notin conns' /\ conn'[busy].txs = 0,
         \A r \in conns' : ~conn'[r].closing => conn'[r].version = data'
  PROVE  ConnectionsInvariant'
<1> DEFINE after == Append(timers, Task(outcome, busy))
<1>1. OpenTyped /\ Queued /\ Connections /\ Answers /\ busy \in Requests
  BY DEF OpenInvariant, OpenTyped
<1>2. Task(outcome, busy) \in Tasks /\ Task(outcome, busy).kind = outcome /\ Task(outcome, busy).of = busy
  BY <1>1 DEF Task, Tasks
<1>3. \A task \in Range(timers) : task.kind \in Outcomes /\ task.of # busy /\ task.of \notin Range(queue)
                                  /\ events[task.of] \in Early \union Shown
  BY <1>1 DEF Answers
<1>4. after \in Seq(Tasks) /\ Range(after) = Range(timers) \union {Task(outcome, busy)}
  BY <1>2, RangeAdded
<1>5. busy \notin Range(queue)
  BY <1>1 DEF Queued
<1>6. \A task \in Range(after) : task.kind \in Outcomes /\ task.of \notin Range(queue)
                                 /\ events[task.of] \in Early \union Shown
  BY <1>2, <1>3, <1>4, <1>5
<1>7. InOrder(after)
  <2>1. Task(outcome, busy).kind # "blocked"
    BY <1>2 DEF Outcomes
  <2>2. QED  BY <1>2, <1>3, <2>1, OrderAdded
<1>8. Carrying \intersect Outcomes = {} /\ "blocked" \notin Outcomes
  BY DEF Carrying, Outcomes
<1>9. \A kind : Block(after, kind, 0)
  <2>1. \A n \in 1..Len(after) : after[n].kind \notin Carrying
    <3>1. DOMAIN after = 1..Len(after)
      BY <1>4
    <3>2. QED  BY <1>6, <1>8, <3>1 DEF Range
  <2>2. Len(after) \in Nat
    BY <1>4
  <2> HIDE DEF after
  <2>3. 0 \in 0..Len(after) /\ 0 + 0 <= Len(after) /\ \A n \in 1..Len(after) : ~(0 < n /\ n <= 0 + 0)
    BY <2>2
  <2>4. QED  BY <2>1, <2>3 DEF Block
<1> HIDE DEF after
<1>10. Pump(queue, after)
  BY DEF after
<1>11. Connections'
  <2>1. "idle" # "blocked" /\ <<"idle">> \notin Early \union Shown
    BY DEF Early, Shown
  <2> SUFFICES ASSUME NEW r \in Requests
               PROVE  /\ conn'[r].closed => conn'[r].closing /\ r \notin conns' /\ conn'[r].txs = 0
                      /\ events[r] = <<"idle">> => Fresh(conn'[r]) /\ r \notin conns'
                      /\ r \in conns' /\ ~conn'[r].closing => conn'[r].version = data'
    BY DEF Connections, Unused
  <2>2. CASE r = busy
    BY <2>1, <2>2
  <2>3. CASE r # busy
    <3>1. conn'[r] = conn[r] /\ (r \in conns' <=> r \in conns)
      BY <2>3
    <3>2. /\ conn[r].closed => conn[r].closing /\ r \notin conns /\ conn[r].txs = 0
          /\ events[r] = <<"idle">> => Fresh(conn[r]) /\ r \notin conns
      BY <1>1 DEF Connections, Unused
    <3>3. QED  BY <3>1, <3>2
  <2>4. QED  BY <2>2, <2>3
<1>12. CASE queue = << >>
  <2>1. busy' = None /\ queue' = << >> /\ timerq' = after
    BY <1>10, <1>12 DEF Pump
  <2>2. "free" \in Phases /\ "free" \notin Carrying \union Upgrading
        /\ "free" \notin {"run", "versionchange", "announced", "waiting", "alone", "upgradeneeded", "running", "aborted"}
    BY DEF Phases, Carrying, Upgrading
  <2>3. Range(<< >>) = {} /\ IsInjective(<< >>)
    BY DEF Range, IsInjective
  <2>4. OpenTyped'
    BY <1>1, <1>4, <2>1 DEF OpenTyped
  <2>5. Block(timerq', "free", Width("free")')
    BY <1>9, <2>1, <2>2 DEF Width
  <2>6. Phased("free")' /\ Processed("free")'
    BY <2>1, <2>2 DEF Phased, Processed
  <2>7. Queued' /\ Answers' /\ Owned' /\ Told("free")' /\ InOrder(timerq')
    <3>1. Queued'
      BY <2>1, <2>3 DEF Queued
    <3>2. None \notin Requests /\ \A task \in Range(after) : task.of # None
      <4>1. Range(after) \subseteq Tasks
        BY <1>4, RangeType
      <4>2. \A task \in Tasks : task.of \in Requests
        BY DEF Tasks
      <4>3. QED  BY <4>1, <4>2 DEF OpenAssumption
    <3>3. Answers'
      BY <1>6, <2>1, <2>3, <3>2 DEF Answers
    <3>4. Owned' /\ Told("free")'
      BY <1>6, <1>8, <2>1, <2>2 DEF Owned, Told
    <3>5. QED  BY <1>7, <2>1, <3>1, <3>3, <3>4
  <2>8. OpenInvariant("free")'
    BY <1>11, <2>4, <2>5, <2>6, <2>7 DEF OpenInvariant
  <2>9. QED  BY <2>2, <2>8 DEF ConnectionsInvariant
<1>13. CASE queue # << >>
  <2> DEFINE next == Head(queue)
             rest == Tail(queue)
  <2>1. busy' = next /\ queue' = rest /\ timerq' = Append(after, Task("run", next))
    BY <1>10, <1>13 DEF Pump
  <2>2. /\ queue \in Seq(Requests) /\ next \in Requests /\ rest \in Seq(Requests)
        /\ Range(queue) = {next} \union Range(rest) /\ next \notin Range(rest) /\ IsInjective(rest)
    BY <1>1, <1>13, RangeTaken DEF OpenTyped, Queued
  <2>3. next # busy /\ Unused(next) /\ events[next] = << >>
    BY <1>1, <2>2 DEF Queued
  <2> HIDE DEF next, rest
  <2>4. /\ Task("run", next) \in Tasks /\ Task("run", next).kind = "run" /\ Task("run", next).of = next
        /\ "run" \in Carrying /\ "run" \in Phases /\ "run" \notin Outcomes
    BY <2>2 DEF Task, Tasks, Carrying, Phases, Outcomes
  <2>5. timerq' \in Seq(Tasks) /\ Range(timerq') = Range(after) \union {Task("run", next)}
    BY <1>4, <2>1, <2>4, RangeAdded
  <2>6. OpenTyped'
    BY <1>1, <2>1, <2>2, <2>5 DEF OpenTyped
  <2>7. Block(timerq', "run", Width("run")')
    <3>1. Block(timerq', "run", 1)
      BY <1>4, <1>9, <2>1, <2>4, BlockOfOne
    <3>2. Width("run")' = 1
      BY <2>4 DEF Width
    <3>3. QED  BY <3>1, <3>2
  <2>8. Phased("run")' /\ Processed("run")'
    <3>1. next # None
      BY <2>2 DEF OpenAssumption
    <3>2. Phased("run")'
      BY <2>1, <3>1 DEF Phased
    <3>3. conn'[next] = conn[next] /\ (next \in conns' <=> next \in conns)
      BY <2>2, <2>3
    <3>4. Processed("run")'
      BY <2>1, <2>3, <3>3 DEF Processed, Unused, Upgrading
    <3>5. QED  BY <3>2, <3>4
  <2>9. Queued'
    <3>1. \A r \in Range(rest) : r \in Requests /\ r # next /\ r # busy /\ Unused(r) /\ events[r] = << >>
      <4>1. \A r \in Range(queue) : r \in Requests
        BY <2>2 DEF Range
      <4>2. QED  BY <1>1, <2>2, <4>1 DEF Queued
    <3>2. \A r \in Range(rest) : Unused(r)'
      BY <3>1 DEF Unused
    <3>3. next # None
      BY <2>2 DEF OpenAssumption
    <3>4. QED  BY <2>1, <2>2, <3>1, <3>2, <3>3 DEF Queued
  <2>10. Answers' /\ Owned' /\ Told("run")' /\ InOrder(timerq')
    <3>1. Answers'
      BY <1>6, <2>1, <2>2, <2>4, <2>5 DEF Answers
    <3>2. Owned'
      BY <1>6, <1>8, <2>1, <2>4, <2>5 DEF Owned
    <3>3. Told("run")'
      BY <1>6, <1>8, <2>1, <2>3, <2>4, <2>5 DEF Told
    <3>4. InOrder(timerq')
      BY <1>4, <1>7, <2>1, <2>4, OrderAdded
    <3>5. QED  BY <3>1, <3>2, <3>3, <3>4
  <2>11. OpenInvariant("run")'
    BY <1>11, <2>6, <2>7, <2>8, <2>9, <2>10 DEF OpenInvariant
  <2>12. QED  BY <2>4, <2>11 DEF ConnectionsInvariant
<1>14. QED  BY <1>12, <1>13

(* What the phases are called. *)
LEMMA PhaseNames ==
  /\ Phases = {"free", "run", "versionchange", "announced", "waiting", "alone", "upgradeneeded", "running", "aborted"}
  /\ Carrying = {"run", "versionchange", "announced", "alone", "upgradeneeded", "aborted"}
  /\ Upgrading = {"upgradeneeded", "running", "aborted"} /\ Outcomes = {"success", "error"}
  BY DEF Phases, Carrying, Upgrading, Outcomes

(* A timer has the kind and the request it was made with. *)
LEMMA TaskType ==
  ASSUME NEW kind \in Carrying \union Outcomes \union {"blocked"}, NEW r \in Requests
  PROVE  Task(kind, r) \in Tasks /\ Task(kind, r).kind = kind /\ Task(kind, r).of = r
  BY DEF Task, Tasks

LEMMA ConnectionChanged ==
  ASSUME NEW c \in Connection, NEW n \in Nat
  PROVE  /\ [c EXCEPT !.txs = n] \in Connection
         /\ LET over == [c EXCEPT !.txs = n, !.closing = TRUE, !.closed = TRUE]
            IN  over \in Connection /\ over.closing /\ over.txs = n
  BY DEF Connection

(* No request that has heard something is idle again. *)
LEMMA NotIdle ==
  /\ Early \subseteq Seq(Events) /\ Shown \subseteq Seq(Events)
  /\ <<"idle">> \notin Early \union Shown \union Ended
<1>1. Early \subseteq Seq(Events) /\ <<"idle">> \notin Early
  <2>1. << >> \in Seq(Events) /\ <<"blocked">> \in Seq(Events)
    BY DEF Events
  <2>2. <<"idle">> # << >> /\ <<"idle">> # <<"blocked">>
    OBVIOUS
  <2>3. QED  BY <2>1, <2>2 DEF Early
<1>2. ASSUME NEW heard \in Seq(Events), NEW event \in Events
      PROVE  Append(heard, event) \in Seq(Events) /\ Append(heard, event) # <<"idle">>
  <2>1. Append(heard, event) \in Seq(Events) /\ Len(Append(heard, event)) = Len(heard) + 1
    BY AppendProperties
  <2>2. Append(heard, event)[Len(heard) + 1] = event
    BY AppendProperties
  <2>3. Len(heard) \in Nat
    BY LenProperties
  <2>4. Len(<<"idle">>) = 1 /\ <<"idle">>[1] = "idle"
    OBVIOUS
  <2>5. ASSUME Append(heard, event) = <<"idle">> PROVE FALSE
    <3>1. Len(heard) + 1 = 1
      BY <2>1, <2>4, <2>5
    <3>2. QED  BY <2>2, <2>4, <2>5, <3>1 DEF Events, Outcomes
  <2>6. QED  BY <2>1, <2>5
<1>3. Shown \subseteq Seq(Events) /\ <<"idle">> \notin Shown
  <2>1. "upgradeneeded" \in Events
    BY DEF Events
  <2>2. QED  BY <1>1, <1>2, <2>1 DEF Shown
<1>4. \A outcome \in Outcomes : outcome \in Events
  BY DEF Outcomes, Events
<1>5. <<"idle">> \notin Ended
  <2>1. \A heard \in Early \union Shown, outcome \in Outcomes : Append(heard, outcome) # <<"idle">>
    BY <1>1, <1>2, <1>3, <1>4
  <2>2. QED  BY <2>1 DEF Ended
<1>6. QED  BY <1>1, <1>3, <1>5

(* One more carrying timer of the request, behind timers that only answer  *)
(* requests: the next phase is that timer's. *)
LEMMA CarriedOn ==
  ASSUME OpenAssumption, busy \in Requests,
         NEW timers \in Seq(Tasks), InOrder(timers), Block(timers, "none", 0),
         \A task \in Range(timers) : task.kind \in Outcomes /\ task \in Range(timerq),
         NEW p \in Carrying \ {"versionchange"}, timerq' = Append(timers, Task(p, busy)),
         Answers, events' = events, busy' = busy, queue' = queue
  PROVE  /\ timerq' \in Seq(Tasks) /\ Block(timerq', p, Width(p)') /\ InOrder(timerq')
         /\ Answers' /\ Owned' /\ \A task \in Range(timerq') : task.kind # "blocked"
<1>1. Task(p, busy) \in Tasks /\ Task(p, busy).kind = p /\ Task(p, busy).of = busy
  BY TaskType
<1>2. p \notin Outcomes /\ p # "blocked" /\ p # "versionchange" /\ \A o \in Outcomes : o \notin Carrying /\ o # "blocked"
  BY PhaseNames
<1>3. timerq' \in Seq(Tasks) /\ Range(timerq') = Range(timers) \union {Task(p, busy)}
  BY <1>1, RangeAdded
<1>4. Block(timerq', p, 1)
  BY <1>1, BlockOfOne
<1>5. Width(p)' = 1
  BY <1>2 DEF Width
<1>6. InOrder(timerq')
  BY <1>1, <1>2, OrderAdded
<1>7. Answers'
  <2>1. \A task \in Range(timerq') : task.kind \in Outcomes => task \in Range(timerq)
    BY <1>1, <1>2, <1>3
  <2>2. QED  BY <2>1 DEF Answers
<1>8. Owned'
  BY <1>1, <1>2, <1>3 DEF Owned
<1>9. \A task \in Range(timerq') : task.kind # "blocked"
  BY <1>1, <1>2, <1>3
<1>10. QED  BY <1>3, <1>4, <1>5, <1>6, <1>7, <1>8, <1>9

(* fireVersionChange, for the request that runs. *)
LEMMA Announcing ==
  ASSUME OpenAssumption, OpenInvariant("run"),
         NEW timers \in Seq(Tasks), InOrder(timers), Block(timers, "none", 0),
         \A task \in Range(timers) : task.kind \in Outcomes /\ task \in Range(timerq),
         Announce(busy, conns, timers), UNCHANGED <<queue, busy, waiting, upgrade, old, events>>,
         data' \in Nat, data \in {data', None},
         conn' \in [Requests -> Connection], \A r \in Requests \ {busy} : conn'[r] = conn[r],
         Fresh(conn'[busy]), conns' = IF busy \in Deletes THEN conns ELSE conns \union {busy}
  PROVE  ConnectionsInvariant'
<1> DEFINE open == {c \in conns : ~conn[c].closing}
           list == [n \in 1..Cardinality(open) |-> Task("versionchange", SetToSeq(open)[n])]
<1>1. OpenTyped /\ Phased("run") /\ Connections /\ Processed("run") /\ Queued /\ Answers /\ Told("run")
  BY DEF OpenInvariant
<1>2. busy \in Requests /\ left = 0 /\ waiting = None /\ upgrade = "none"
  BY <1>1 DEF OpenTyped, Phased
<1>3. IsFiniteSet(open) /\ Cardinality(open) <= Cardinality(Requests) /\ Cardinality(Requests) \in Nat /\ open \subseteq Requests
  BY <1>1, FS_Subset, FS_CardinalityType DEF OpenTyped, OpenAssumption
<1>4. /\ Cardinality(open) \in Nat /\ (Cardinality(open) = 0 <=> open = {})
      /\ \A n \in 1..Cardinality(open) : SetToSeq(open)[n] \in open
  BY <1>3, ListOfSet
<1>5. left' = Cardinality(open) /\ timerq' = timers \o (IF open = {} THEN <<Task("announced", busy)>> ELSE list)
  BY DEF Announce
<1>6. list \in Seq(Tasks) /\ Len(list) = Cardinality(open) /\ \A n \in 1..Len(list) : list[n].kind = "versionchange"
  <2>1. \A n \in 1..Cardinality(open) : /\ Task("versionchange", SetToSeq(open)[n]) \in Tasks
                                        /\ Task("versionchange", SetToSeq(open)[n]).kind = "versionchange"
    BY <1>3, <1>4, TaskType, PhaseNames
  <2>2. QED  BY <1>4, <2>1
<1> HIDE DEF open, list
<1>7. Connections'
  <2> SUFFICES ASSUME NEW r \in Requests
               PROVE  /\ conn'[r].closed => conn'[r].closing /\ r \notin conns' /\ conn'[r].txs = 0
                      /\ events[r] = <<"idle">> => Fresh(conn'[r]) /\ r \notin conns'
                      /\ r \in conns' /\ r # busy /\ ~conn'[r].closing => conn'[r].version = data'
    BY DEF Connections, Unused
  <2>1. CASE r = busy
    <3>1. events[busy] = << >>
      BY <1>1 DEF Told
    <3>2. QED  BY <2>1, <3>1 DEF Fresh
  <2>2. CASE r # busy
    <3>1. conn'[r] = conn[r] /\ (r \in conns' <=> r \in conns) /\ conn[r].version \in Nat
      BY <1>1, <2>2 DEF OpenTyped, Connection
    <3>2. /\ conn[r].closed => conn[r].closing /\ r \notin conns /\ conn[r].txs = 0
          /\ events[r] = <<"idle">> => Fresh(conn[r]) /\ r \notin conns
          /\ r \in conns /\ ~conn[r].closing => conn[r].version = data
      BY <1>1, <2>2 DEF Connections, Unused
    <3>3. QED  BY <3>1, <3>2 DEF OpenAssumption
  <2>3. QED  BY <2>1, <2>2
<1>8. Queued'
  <2>1. \A r \in Range(queue) : r \in Requests
    BY <1>1, RangeType DEF OpenTyped
  <2>2. \A r \in Range(queue) : Unused(r)'
    BY <1>1, <2>1 DEF Queued, Unused
  <2>3. QED  BY <1>1, <2>2 DEF Queued
<1>9. Fresh(conn'[busy]) /\ (busy \in Deletes \/ busy \in conns')
  OBVIOUS
<1>10. conns' \subseteq Requests \ Deletes
  BY <1>1, <1>2 DEF OpenTyped
<1>11. CASE open = {}
  <2>1. timerq' = Append(timers, Task("announced", busy))
    <3>1. Task("announced", busy) \in Tasks
      BY <1>2, TaskType, PhaseNames
    <3>2. QED  BY <1>5, <1>11, <3>1, AppendIsConcat
  <2>2. "announced" \in Carrying \ {"versionchange"} /\ "announced" \in Phases
    BY PhaseNames
  <2>3. /\ timerq' \in Seq(Tasks) /\ Block(timerq', "announced", Width("announced")') /\ InOrder(timerq')
        /\ Answers' /\ Owned' /\ \A task \in Range(timerq') : task.kind # "blocked"
    BY <1>1, <1>2, <2>1, <2>2, CarriedOn
  <2>4. OpenTyped'
    BY <1>1, <1>10, <2>3 DEF OpenTyped
  <2>5. Phased("announced")' /\ Processed("announced")' /\ Told("announced")'
    BY <1>1, <1>2, <1>4, <1>5, <1>9, <1>11, <2>3 DEF OpenAssumption, Phased, Processed, Told, Upgrading
  <2>6. OpenInvariant("announced")'
    BY <1>7, <1>8, <2>3, <2>4, <2>5 DEF OpenInvariant
  <2>7. QED  BY <2>2, <2>6 DEF ConnectionsInvariant
<1>12. CASE open # {}
  <2>1. timerq' = timers \o list
    BY <1>5, <1>12
  <2>2. timerq' \in Seq(Tasks) /\ InOrder(timerq')
        /\ \A task \in Range(timerq') : task \in Range(timers) \/ task.kind = "versionchange"
    BY <1>6, <2>1, ListAdded
  <2>3. Block(timerq', "versionchange", left')
    BY <1>5, <1>6, <2>1, BlockBegun
  <2>4. "versionchange" \in Phases /\ "versionchange" \notin Outcomes /\ \A o \in Outcomes : o \notin Carrying /\ o # "blocked"
    BY PhaseNames
  <2>5. OpenTyped'
    BY <1>1, <1>10, <2>2 DEF OpenTyped
  <2>6. Answers'
    BY <1>1, <2>2, <2>4 DEF Answers
  <2>7. Owned' /\ \A task \in Range(timerq') : task.kind # "blocked"
    BY <2>2, <2>4 DEF Owned
  <2>8. left' \in 1..Cardinality(Requests)
    BY <1>3, <1>4, <1>5, <1>12
  <2>9. Phased("versionchange")' /\ Processed("versionchange")' /\ Told("versionchange")'
    BY <1>1, <1>2, <1>9, <2>7, <2>8 DEF OpenAssumption, Phased, Processed, Told, Upgrading
  <2>10. Width("versionchange")' = left'
    BY DEF Width
  <2>11. OpenInvariant("versionchange")'
    BY <1>7, <1>8, <2>2, <2>3, <2>5, <2>6, <2>7, <2>9, <2>10 DEF OpenInvariant
  <2>12. QED  BY <2>4, <2>11 DEF ConnectionsInvariant
<1>13. QED  BY <1>11, <1>12

-----------------------------------------------------------------------------
(* The steps of the engine, one by one. *)

(* runOpen. *)
LEMMA RunOpenStep ==
  ASSUME OpenAssumption, NEW p \in Phases, OpenInvariant(p), NEW r \in Requests, RunOpen(r)
  PROVE  ConnectionsInvariant'
<1> DEFINE timers == Tail(timerq)
           have == IF data = None THEN 0 ELSE data
           version == IF Wants[r] # 0 THEN Wants[r] ELSE IF data = None THEN 1 ELSE data
<1>1. Runs("run", r) /\ r \notin Deletes
  BY DEF RunOpen
<1>2. /\ p = "run" /\ r = busy /\ timers \in Seq(Tasks) /\ InOrder(timers) /\ Range(timers) \subseteq Range(timerq)
      /\ Block(timers, p, 0) /\ \A task \in Range(timers) : task.kind \in Outcomes
  BY <1>1, TimerTaken, PhaseNames
<1>3. OpenInvariant("run")
  BY <1>2
<1>4. OpenTyped /\ Phased("run") /\ Connections /\ Processed("run") /\ Told("run")
  BY <1>3 DEF OpenInvariant
<1>5. /\ left = 0 /\ waiting = None /\ upgrade = "none" /\ events[busy] = << >> /\ Fresh(conn[busy]) /\ busy \notin conns
      /\ busy # None
  BY <1>2, <1>4 DEF Phased, Processed, Told, Unused, OpenAssumption
<1>6. have \in Nat /\ version \in Nat
  BY <1>4 DEF OpenTyped, OpenAssumption
<1>7. /\ data' = have
      /\ \/ have > version /\ Finish(r, "error") /\ UNCHANGED <<conn, conns, left>>
         \/ /\ conn' = [conn EXCEPT ![r].version = version] /\ conns' = conns \union {r}
            /\ \/ have = version /\ Finish(r, "success") /\ UNCHANGED left
               \/ Announce(r, conns, timers) /\ UNCHANGED <<busy, queue>>
      /\ UNCHANGED <<waiting, upgrade, old, events>>
  BY DEF RunOpen
<1>8. \A c \in conns : c # busy /\ (~conn[c].closing => conn[c].version = have)
  <2>1. \A c \in conns : conn[c].version \in Nat /\ c \in Requests
    BY <1>4 DEF OpenTyped, Connection
  <2>2. \A c \in conns : ~conn[c].closing => conn[c].version = data
    BY <1>4, <1>5, <2>1 DEF Connections
  <2>3. QED  BY <1>5, <2>1, <2>2 DEF OpenAssumption
<1>9. "error" \in Outcomes /\ "success" \in Outcomes /\ << >> \in Early \union Shown
  BY DEF Outcomes, Early
<1>10. Block(timers, "none", 0) /\ \A task \in Range(timers) : task.kind \in Outcomes /\ task \in Range(timerq)
  BY <1>2, BlockNone
<1> HIDE DEF timers, have, version
<1>11. CASE Finish(r, "error") /\ UNCHANGED <<conn, conns, left>>
  <2>1. Pump(queue, Append(timers, Task("error", busy)))
    BY <1>2, <1>11 DEF Finish, timers
  <2>2. /\ old' \in Nat /\ data' \in Nat \union {None} /\ conns' \subseteq Requests \ Deletes /\ conn' \in [Requests -> Connection]
    BY <1>4, <1>6, <1>7, <1>11 DEF OpenTyped
  <2>3. conn'[busy].closed => conn'[busy].closing /\ busy \notin conns' /\ conn'[busy].txs = 0
    BY <1>5, <1>11 DEF Fresh
  <2>4. \A c \in conns' : ~conn'[c].closing => conn'[c].version = data'
    BY <1>7, <1>8, <1>11
  <2>5. left' = 0 /\ waiting' = None /\ upgrade' = "none" /\ events' = events /\ events[busy] \in Early \union Shown
    BY <1>5, <1>7, <1>9, <1>11
  <2>6. QED  BY <1>2, <1>5, <1>9, <1>11, <2>1, <2>2, <2>3, <2>4, <2>5, Finished
<1>12. CASE conn' = [conn EXCEPT ![r].version = version] /\ conns' = conns \union {r}
  <2>1. conn' \in [Requests -> Connection] /\ conns' \subseteq Requests \ Deletes
    <3>1. [conn[r] EXCEPT !.version = version] \in Connection
      BY <1>4, <1>6 DEF OpenTyped, Connection
    <3>2. QED  BY <1>1, <1>4, <1>12, <3>1 DEF OpenTyped
  <2>2. conn'[busy].version = version /\ Fresh(conn'[busy]) /\ \A c \in Requests \ {busy} : conn'[c] = conn[c]
    BY <1>2, <1>4, <1>5, <1>12 DEF OpenTyped, Connection, Fresh
  <2>3. CASE have = version /\ Finish(r, "success") /\ UNCHANGED left
    <3>1. Pump(queue, Append(timers, Task("success", busy)))
      BY <1>2, <2>3 DEF Finish, timers
    <3>2. old' \in Nat /\ data' \in Nat \union {None}
      BY <1>4, <1>6, <1>7 DEF OpenTyped
    <3>3. conn'[busy].closed => conn'[busy].closing /\ busy \notin conns' /\ conn'[busy].txs = 0
      BY <2>2 DEF Fresh
    <3>4. \A c \in conns' : ~conn'[c].closing => conn'[c].version = data'
      BY <1>2, <1>4, <1>7, <1>8, <1>12, <2>2, <2>3 DEF OpenTyped
    <3>5. \A c \in Requests : c # busy => conn'[c] = conn[c] /\ (c \in conns' <=> c \in conns)
      BY <1>2, <1>12, <2>2
    <3>6. left' = 0 /\ waiting' = None /\ upgrade' = "none" /\ events' = events /\ events[busy] \in Early \union Shown
      BY <1>5, <1>7, <1>9, <2>3
    <3>7. QED  BY <1>2, <1>5, <1>9, <2>1, <3>1, <3>2, <3>3, <3>4, <3>5, <3>6, Finished
  <2>4. CASE Announce(r, conns, timers) /\ UNCHANGED <<busy, queue>>
    <3>1. data' \in Nat /\ data \in {data', None}
      BY <1>6, <1>7 DEF have
    <3>2. conns' = IF busy \in Deletes THEN conns ELSE conns \union {busy}
      BY <1>1, <1>2, <1>12
    <3>3. Announce(busy, conns, timers) /\ UNCHANGED <<queue, busy, waiting, upgrade, old, events>>
      BY <1>2, <1>7, <2>4
    <3>4. QED  BY <1>2, <1>3, <1>10, <2>1, <2>2, <3>1, <3>2, <3>3, Announcing
  <2>5. QED  BY <1>7, <1>11, <2>3, <2>4
<1>13. QED  BY <1>7, <1>11, <1>12

(* runDelete. *)
LEMMA RunDeleteStep ==
  ASSUME OpenAssumption, NEW p \in Phases, OpenInvariant(p), NEW r \in Requests, RunDelete(r)
  PROVE  ConnectionsInvariant'
<1> DEFINE timers == Tail(timerq)
<1>1. Runs("run", r) /\ r \in Deletes
  BY DEF RunDelete
<1>2. /\ p = "run" /\ r = busy /\ timers \in Seq(Tasks) /\ InOrder(timers) /\ Range(timers) \subseteq Range(timerq)
      /\ Block(timers, p, 0) /\ \A task \in Range(timers) : task.kind \in Outcomes
  BY <1>1, TimerTaken, PhaseNames
<1>3. OpenInvariant("run")
  BY <1>2
<1>4. OpenTyped /\ Phased("run") /\ Connections /\ Processed("run") /\ Told("run")
  BY <1>3 DEF OpenInvariant
<1>5. /\ left = 0 /\ waiting = None /\ upgrade = "none" /\ events[busy] = << >> /\ Fresh(conn[busy]) /\ busy \notin conns
      /\ busy # None
  BY <1>2, <1>4 DEF Phased, Processed, Told, Unused, OpenAssumption
<1>6. UNCHANGED <<data, conn, conns, waiting, upgrade, old, events>>
  BY DEF RunDelete
<1>7. "success" \in Outcomes /\ << >> \in Early \union Shown
  BY DEF Outcomes, Early
<1>8. Block(timers, "none", 0) /\ \A task \in Range(timers) : task.kind \in Outcomes /\ task \in Range(timerq)
  BY <1>2, BlockNone
<1> HIDE DEF timers
<1>9. CASE Finish(r, "success") /\ UNCHANGED left
  <2>1. Pump(queue, Append(timers, Task("success", busy)))
    BY <1>2, <1>9 DEF Finish, timers
  <2>2. /\ old' \in Nat /\ data' \in Nat \union {None} /\ conns' \subseteq Requests \ Deletes /\ conn' \in [Requests -> Connection]
    BY <1>4, <1>6 DEF OpenTyped
  <2>3. conn'[busy].closed => conn'[busy].closing /\ busy \notin conns' /\ conn'[busy].txs = 0
    BY <1>5, <1>6 DEF Fresh
  <2>4. \A c \in conns' : ~conn'[c].closing => conn'[c].version = data'
    BY <1>4, <1>5, <1>6 DEF Connections, OpenTyped
  <2>5. left' = 0 /\ waiting' = None /\ upgrade' = "none" /\ events' = events /\ events[busy] \in Early \union Shown
    BY <1>5, <1>6, <1>7, <1>9
  <2>6. QED  BY <1>2, <1>5, <1>6, <1>7, <2>1, <2>2, <2>3, <2>4, <2>5, Finished
<1>10. CASE data # None /\ Announce(r, conns, timers) /\ UNCHANGED <<busy, queue>>
  <2>1. data' \in Nat /\ data \in {data', None} /\ conn' \in [Requests -> Connection]
    BY <1>4, <1>6, <1>10 DEF OpenTyped
  <2>2. conns' = IF busy \in Deletes THEN conns ELSE conns \union {busy}
    BY <1>1, <1>2, <1>6
  <2>3. /\ Announce(busy, conns, timers) /\ UNCHANGED <<queue, busy, waiting, upgrade, old, events>>
        /\ Fresh(conn'[busy]) /\ \A c \in Requests \ {busy} : conn'[c] = conn[c]
    BY <1>2, <1>5, <1>6, <1>10
  <2>4. QED  BY <1>2, <1>3, <1>8, <2>1, <2>2, <2>3, Announcing
<1>11. QED  BY <1>9, <1>10 DEF RunDelete, timers

(* A step that tells a connection of a version change, or none at all. *)
LEMMA SameConnections ==
  ASSUME NEW p \in Phases, p # "free" => busy \in Requests,
         OpenTyped, Connections, Processed(p), Queued, UNCHANGED <<data, conns, busy, queue, events>>,
         conn' \in [Requests -> Connection],
         \A r \in Requests :
           /\ conn'[r].version = conn[r].version /\ conn'[r].closing = conn[r].closing
           /\ conn'[r].closed = conn[r].closed /\ conn'[r].txs = conn[r].txs /\ conn'[r].shown = conn[r].shown
  PROVE  Connections' /\ Processed(p)' /\ Queued'
<1>1. \A r \in Requests : /\ Fresh(conn'[r]) = Fresh(conn[r])
                          /\ Unused(r)' = Unused(r)
  BY DEF Fresh, Unused
<1>2. Connections'
  BY <1>1 DEF Connections
<1>3. Processed(p)'
  BY <1>1, PhaseNames DEF Processed
<1>4. Range(queue) \subseteq Requests
  BY RangeType DEF OpenTyped
<1>5. Queued'
  BY <1>1, <1>4 DEF Queued
<1>6. QED  BY <1>2, <1>3, <1>5

(* The versionchange timer of one connection. *)
LEMMA VersionChangeStep ==
  ASSUME OpenAssumption, NEW p \in Phases, OpenInvariant(p), NEW c \in Requests, VersionChange(c)
  PROVE  ConnectionsInvariant'
<1> DEFINE timers == Tail(timerq)
<1>1. /\ Runs("versionchange", c)
      /\ left' = left - 1 /\ conn' = [conn EXCEPT ![c].told = ~conn[c].closing]
      /\ timerq' = IF left = 1 THEN Append(timers, Task("announced", busy)) ELSE timers
      /\ UNCHANGED <<data, conns, queue, busy, waiting, upgrade, old, events>>
  BY DEF VersionChange
<1>2. /\ p = "versionchange" /\ timers \in Seq(Tasks) /\ InOrder(timers) /\ Range(timers) \subseteq Range(timerq)
      /\ Block(timers, p, Width(p) - 1)
  BY <1>1, TimerTaken, PhaseNames
<1>3. /\ OpenTyped /\ Phased(p) /\ Connections /\ Processed(p) /\ Queued /\ Answers /\ Owned /\ Told(p)
  BY DEF OpenInvariant
<1>4. left \in 1..Cardinality(Requests) /\ Cardinality(Requests) \in Nat /\ waiting = None /\ upgrade = "none" /\ busy \in Requests
  BY <1>2, <1>3, FS_CardinalityType DEF Phased, OpenTyped, OpenAssumption
<1>5. Width(p) = left /\ Width(p)' = left'
  BY <1>2 DEF Width
<1>6. conn' \in [Requests -> Connection]
  BY <1>1, <1>3 DEF OpenTyped, Connection
<1>7. \A r \in Requests :
        /\ conn'[r].version = conn[r].version /\ conn'[r].closing = conn[r].closing
        /\ conn'[r].closed = conn[r].closed /\ conn'[r].txs = conn[r].txs /\ conn'[r].shown = conn[r].shown
  BY <1>1, <1>3 DEF OpenTyped, Connection
<1>8. UNCHANGED <<data, conns, busy, queue, events>>
  BY <1>1
<1>9. Connections' /\ Processed(p)' /\ Queued'
  BY <1>3, <1>4, <1>6, <1>7, <1>8, SameConnections
<1>10. \A task \in Range(timers) : task \in Range(timerq) /\ task.kind # "blocked"
  BY <1>2, <1>3 DEF Told
<1> HIDE DEF timers
<1>11. CASE left = 1
  <2>1. Block(timers, "none", 0) /\ \A n \in 1..Len(timers) : timers[n].kind \notin Carrying
    BY <1>2, <1>5, <1>11, BlockNone
  <2>2. DOMAIN timers = 1..Len(timers) /\ Range(timers) \subseteq Tasks
    BY <1>2, RangeType
  <2>3. \A task \in Range(timers) : task.kind \in Outcomes /\ task \in Range(timerq)
    BY <1>10, <2>1, <2>2 DEF Range, Tasks
  <2>4. "announced" \in Carrying \ {"versionchange"} /\ "announced" \in Phases
    BY PhaseNames
  <2>5. timerq' = Append(timers, Task("announced", busy)) /\ events' = events /\ busy' = busy /\ queue' = queue
    BY <1>1, <1>11 DEF timers
  <2>6. /\ timerq' \in Seq(Tasks) /\ Block(timerq', "announced", Width("announced")') /\ InOrder(timerq')
        /\ Answers' /\ Owned' /\ \A task \in Range(timerq') : task.kind # "blocked"
    BY <1>2, <1>3, <1>4, <2>1, <2>3, <2>4, <2>5, CarriedOn
  <2>7. OpenTyped'
    BY <1>1, <1>3, <1>6, <2>6 DEF OpenTyped
  <2>8. Phased("announced")'
    BY <1>1, <1>4, <1>11 DEF Phased, OpenAssumption
  <2>9. Processed("announced")' /\ Told("announced")'
    BY <1>1, <1>2, <1>3, <1>9, <2>6 DEF Processed, Told, Upgrading
  <2>10. OpenInvariant("announced")'
    BY <1>9, <2>6, <2>7, <2>8, <2>9 DEF OpenInvariant
  <2>11. QED  BY <2>4, <2>10 DEF ConnectionsInvariant
<1>12. CASE left # 1
  <2>1. timerq' = timers /\ left' \in 1..Cardinality(Requests)
    BY <1>1, <1>4, <1>12 DEF timers
  <2>2. Block(timerq', p, Width(p)')
    BY <1>1, <1>2, <1>5, <2>1
  <2>3. OpenTyped'
    BY <1>1, <1>2, <1>3, <1>6, <2>1 DEF OpenTyped
  <2>4. Phased(p)'
    BY <1>1, <1>2, <1>4, <2>1 DEF Phased, OpenAssumption
  <2>5. Answers' /\ Owned' /\ Told(p)'
    BY <1>1, <1>3, <1>10, <2>1 DEF Answers, Owned, Told
  <2>6. OpenInvariant(p)'
    BY <1>2, <1>9, <2>1, <2>2, <2>3, <2>4, <2>5 DEF OpenInvariant
  <2>7. QED  BY <2>6 DEF ConnectionsInvariant
<1>13. QED  BY <1>11, <1>12

(* The handlers of versionchange events are done: waitClosed. *)
LEMMA AnnouncedStep ==
  ASSUME OpenAssumption, NEW p \in Phases, OpenInvariant(p), NEW r \in Requests, Announced(r)
  PROVE  ConnectionsInvariant'
<1> DEFINE timers == Tail(timerq)
           others == conns \ {r}
<1>1. /\ Runs("announced", r)
      /\ timerq' = timers \o (IF others = {} THEN << >> ELSE <<Task("blocked", r)>>)
                          \o (IF others = {} THEN <<Task("alone", r)>> ELSE << >>)
      /\ waiting' = IF others = {} THEN None ELSE others
      /\ UNCHANGED <<data, conn, conns, queue, busy, left, upgrade, old, events>>
  BY DEF Announced, StillOpen, AloneNow
<1>2. /\ p = "announced" /\ r = busy /\ timers \in Seq(Tasks) /\ InOrder(timers) /\ Range(timers) \subseteq Range(timerq)
      /\ Block(timers, p, 0) /\ \A task \in Range(timers) : task.kind \in Outcomes
  BY <1>1, TimerTaken, PhaseNames
<1>3. /\ OpenTyped /\ Phased(p) /\ Connections /\ Processed(p) /\ Queued /\ Answers /\ Told(p)
  BY DEF OpenInvariant
<1>4. /\ left = 0 /\ upgrade = "none" /\ busy \in Requests /\ events[busy] = << >>
      /\ data \in Nat /\ Fresh(conn[busy]) /\ (busy \in Deletes \/ busy \in conns)
  BY <1>2, <1>3 DEF Phased, Told, Processed
<1>5. conn' \in [Requests -> Connection] /\ UNCHANGED <<data, conns, busy, queue, events>> /\ conn' = conn
  BY <1>1, <1>3 DEF OpenTyped
<1>6. Connections' /\ Queued'
  BY <1>3, <1>4, <1>5, SameConnections
<1>7. Block(timers, "none", 0) /\ \A task \in Range(timers) : task.kind \in Outcomes /\ task \in Range(timerq)
  BY <1>2, BlockNone
<1>8. << >> \in Early /\ "blocked" \notin Outcomes /\ \A o \in Outcomes : o # "blocked" /\ o \notin Carrying
  BY PhaseNames DEF Early
<1> HIDE DEF timers
<1>9. CASE others = {}
  <2>1. Task("alone", busy) \in Tasks
    BY <1>4, TaskType, PhaseNames
  <2>2. timerq' = Append(timers, Task("alone", busy))
    <3>1. timerq' = (timers \o << >>) \o <<Task("alone", busy)>>
      BY <1>1, <1>2, <1>9 DEF timers
    <3>2. timers \o << >> = timers
      BY <1>2, ConcatEmptySeq
    <3>3. QED  BY <1>2, <2>1, <3>1, <3>2, AppendIsConcat
  <2>3. "alone" \in Carrying \ {"versionchange"} /\ "alone" \in Phases
    BY PhaseNames
  <2>4. /\ timerq' \in Seq(Tasks) /\ Block(timerq', "alone", Width("alone")') /\ InOrder(timerq')
        /\ Answers' /\ Owned' /\ \A task \in Range(timerq') : task.kind # "blocked"
    BY <1>1, <1>2, <1>3, <1>4, <1>7, <2>2, <2>3, CarriedOn
  <2>5. OpenTyped'
    BY <1>1, <1>3, <2>4 DEF OpenTyped
  <2>6. Phased("alone")'
    BY <1>1, <1>4, <1>9 DEF Phased, OpenAssumption
  <2>7. Processed("alone")' /\ Told("alone")'
    BY <1>1, <1>2, <1>4, <1>8, <1>9, <2>4 DEF Processed, Told, Upgrading
  <2>8. OpenInvariant("alone")'
    BY <1>6, <2>4, <2>5, <2>6, <2>7 DEF OpenInvariant
  <2>9. QED  BY <2>3, <2>8 DEF ConnectionsInvariant
<1>10. CASE others # {}
  <2>1. /\ Task("blocked", busy) \in Tasks /\ Task("blocked", busy).kind = "blocked" /\ Task("blocked", busy).of = busy
        /\ "waiting" \in Phases /\ "waiting" \notin Carrying
    BY <1>4, TaskType, PhaseNames
  <2>2. timerq' = Append(timers, Task("blocked", busy))
    <3>1. timerq' = (timers \o <<Task("blocked", busy)>>) \o << >>
      BY <1>1, <1>2, <1>10 DEF timers
    <3>2. timers \o <<Task("blocked", busy)>> = Append(timers, Task("blocked", busy)) /\ Append(timers, Task("blocked", busy)) \in Seq(Tasks)
      BY <1>2, <2>1, AppendIsConcat
    <3>3. QED  BY <3>1, <3>2, ConcatEmptySeq
  <2>3. timerq' \in Seq(Tasks) /\ Range(timerq') = Range(timers) \union {Task("blocked", busy)}
    BY <1>2, <2>1, <2>2, RangeAdded
  <2>4. InOrder(timerq')
    BY <1>2, <1>7, <1>8, <2>1, <2>2, PhaseNames, OrderAdded
  <2>5. Block(timerq', "waiting", Width("waiting")')
    <3>1. Block(timers, "waiting", 0) /\ Task("blocked", busy).kind \notin Carrying
      BY <1>2, <2>1, BlockNone, PhaseNames
    <3>2. Width("waiting")' = 0
      BY <2>1, PhaseNames DEF Width
    <3>3. QED  BY <1>2, <2>1, <2>2, <3>1, <3>2, BlockBefore
  <2>6. OpenTyped'
    BY <1>1, <1>3, <2>3 DEF OpenTyped
  <2>7. Phased("waiting")'
    <3>1. waiting' = others /\ others \in SUBSET Requests
      BY <1>1, <1>3, <1>10 DEF OpenTyped
    <3>2. QED  BY <1>1, <1>2, <1>4, <3>1 DEF Phased, OpenAssumption
  <2>8. Processed("waiting")' /\ Told("waiting")'
    BY <1>1, <1>4, <1>8, <2>1, <2>3, <1>7 DEF Processed, Told, Upgrading
  <2>9. Answers' /\ Owned'
    BY <1>1, <1>3, <1>7, <1>8, <2>1, <2>3, PhaseNames DEF Answers, Owned
  <2>10. OpenInvariant("waiting")'
    BY <1>6, <2>3, <2>4, <2>5, <2>6, <2>7, <2>8, <2>9 DEF OpenInvariant
  <2>11. QED  BY <2>1, <2>10 DEF ConnectionsInvariant
<1>11. QED  BY <1>9, <1>10

(* What one request hears or does that is not being processed. *)
LEMMA OtherChanged ==
  ASSUME NEW p \in Phases, p # "free" => busy \in Requests,
         OpenTyped, Connections, Processed(p), Queued, UNCHANGED <<data, conns, busy, queue>>,
         NEW r \in Requests, r # busy, r \notin Range(queue), events'[r] # <<"idle">>,
         conn' \in [Requests -> Connection],
         conn'[r].version = conn[r].version, conn'[r].closing = conn[r].closing, conn'[r].closed = conn[r].closed,
         conn[r].closed => conn'[r].txs = conn[r].txs,
         \A c \in Requests \ {r} : conn'[c] = conn[c] /\ events'[c] = events[c]
  PROVE  Connections' /\ Processed(p)' /\ Queued'
<1>1. \A c \in Requests \ {r} : Fresh(conn'[c]) = Fresh(conn[c]) /\ Unused(c)' = Unused(c)
  BY DEF Unused
<1>2. Connections'
  <2> SUFFICES ASSUME NEW c \in Requests
               PROVE  /\ conn'[c].closed => conn'[c].closing /\ c \notin conns /\ conn'[c].txs = 0
                      /\ events'[c] = <<"idle">> => Unused(c)'
                      /\ c \in conns /\ c # busy /\ ~conn'[c].closing => conn'[c].version = data
    BY DEF Connections
  <2>1. CASE c = r
    BY <2>1 DEF Connections
  <2>2. CASE c # r
    BY <1>1, <2>2 DEF Connections
  <2>3. QED  BY <2>1, <2>2
<1>3. Processed(p)'
  BY <1>1, PhaseNames DEF Processed
<1>4. Range(queue) \subseteq Requests
  BY RangeType DEF OpenTyped
<1>5. Queued'
  BY <1>1, <1>4 DEF Queued
<1>6. QED  BY <1>2, <1>3, <1>5

(* The blocked event. *)
LEMMA BlockedStep ==
  ASSUME OpenAssumption, NEW p \in Phases, OpenInvariant(p), NEW r \in Requests, Blocked(r)
  PROVE  ConnectionsInvariant'
<1> DEFINE timers == Tail(timerq)
<1>1. /\ Runs("blocked", r) /\ timerq' = timers /\ events' = [events EXCEPT ![r] = Append(@, "blocked")]
      /\ UNCHANGED <<data, conn, conns, queue, busy, left, waiting, upgrade, old>>
  BY DEF Blocked
<1>2. /\ OpenTyped /\ Phased(p) /\ Connections /\ Processed(p) /\ Queued /\ Answers /\ Owned /\ Told(p) /\ InOrder(timerq)
  BY DEF OpenInvariant
<1>3. /\ timers \in Seq(Tasks) /\ InOrder(timers) /\ Task("blocked", r) \in Range(timerq)
      /\ Range(timers) \subseteq Range(timerq) /\ Block(timers, p, Width(p))
  <2>1. "blocked" \notin Carrying
    BY PhaseNames
  <2>2. QED  BY <1>1, <2>1, TimerTaken
<1>4. Task("blocked", r).kind = "blocked" /\ Task("blocked", r).of = r
  BY TaskType
<1>5. r = busy /\ events[busy] = << >> /\ p \in {"waiting", "alone"}
  BY <1>2, <1>3, <1>4 DEF Told
<1>6. \A task \in Range(timers) : task.kind # "blocked"
  BY <1>1, <1>2, <1>4, OrderTaken DEF Runs, OpenTyped
<1> HIDE DEF timers
<1>7. Append(<< >>, "blocked") = <<"blocked">> /\ <<"blocked">> \in Early /\ <<"blocked">> # <<"idle">>
  BY DEF Early
<1>8. events'[busy] = <<"blocked">> /\ \A c \in Requests \ {busy} : events'[c] = events[c]
  BY <1>1, <1>2, <1>5, <1>7 DEF OpenTyped
<1>9. OpenTyped'
  <2>1. events' \in [Requests -> {<<"idle">>} \union Early \union Shown \union Ended]
    BY <1>1, <1>2, <1>5, <1>7 DEF OpenTyped
  <2>2. QED  BY <1>1, <1>2, <1>3, <2>1 DEF OpenTyped
<1>10. Block(timerq', p, Width(p)') /\ Phased(p)' /\ Processed(p)'
  BY <1>1, <1>2, <1>3 DEF Width, Phased, Processed, Unused
<1>11. Connections'
  BY <1>1, <1>2, <1>5, <1>7, <1>8 DEF Connections, Unused
<1>12. Range(queue) \subseteq Requests /\ Range(timerq) \subseteq Tasks
  BY <1>2, RangeType DEF OpenTyped
<1>13. Queued'
  BY <1>1, <1>2, <1>8, <1>12 DEF Queued, Unused
<1>14. Answers' /\ Owned'
  <2>1. \A task \in Range(timerq) : task.of \in Requests
    BY <1>12 DEF Tasks
  <2>2. QED  BY <1>1, <1>2, <1>3, <1>8, <2>1 DEF Answers, Owned
<1>15. Told(p)'
  BY <1>1, <1>5, <1>6, <1>7, <1>8, PhaseNames DEF Told
<1>16. OpenInvariant(p)'
  BY <1>1, <1>3, <1>9, <1>10, <1>11, <1>13, <1>14, <1>15 DEF OpenInvariant
<1>17. QED  BY <1>16 DEF ConnectionsInvariant

(* upgrade: the database is the request's alone. *)
LEMMA UpgradeStep ==
  ASSUME OpenAssumption, NEW p \in Phases, OpenInvariant(p), NEW r \in Requests, Upgrade(r)
  PROVE  ConnectionsInvariant'
<1> DEFINE timers == Tail(timerq)
<1>1. /\ Runs("alone", r) /\ r \notin Deletes
      /\ upgrade' = "hold" /\ old' = data /\ data' = conn[r].version
      /\ conn' = [conn EXCEPT ![r].txs = @ + 1]
      /\ timerq' = Append(timers, Task("upgradeneeded", r))
      /\ UNCHANGED <<conns, queue, busy, left, waiting, events>>
  BY DEF Upgrade
<1>2. /\ p = "alone" /\ r = busy /\ timers \in Seq(Tasks) /\ InOrder(timers) /\ Range(timers) \subseteq Range(timerq)
      /\ Block(timers, p, 0) /\ \A task \in Range(timers) : task.kind \in Outcomes
  BY <1>1, TimerTaken, PhaseNames
<1>3. /\ OpenTyped /\ Phased(p) /\ Connections /\ Processed(p) /\ Queued /\ Answers /\ Told(p)
  BY DEF OpenInvariant
<1>4. /\ left = 0 /\ waiting = None /\ events[busy] \in Early /\ data \in Nat
      /\ Fresh(conn[busy]) /\ conns = {busy} /\ busy \in Requests
  BY <1>1, <1>2, <1>3 DEF Phased, Told, Processed, OpenTyped
<1>5. Block(timers, "none", 0) /\ \A task \in Range(timers) : task.kind \in Outcomes /\ task \in Range(timerq)
  BY <1>2, BlockNone
<1>6. "upgradeneeded" \in Carrying \ {"versionchange"} /\ "upgradeneeded" \in Phases
  BY PhaseNames
<1> HIDE DEF timers
<1>7. timerq' = Append(timers, Task("upgradeneeded", busy)) /\ events' = events /\ busy' = busy /\ queue' = queue
  BY <1>1, <1>2 DEF timers
<1>8. /\ timerq' \in Seq(Tasks) /\ Block(timerq', "upgradeneeded", Width("upgradeneeded")') /\ InOrder(timerq')
      /\ Answers' /\ Owned' /\ \A task \in Range(timerq') : task.kind # "blocked"
  BY <1>2, <1>3, <1>4, <1>5, <1>6, <1>7, CarriedOn
<1>9. conn' \in [Requests -> Connection]
  <2>1. conn[r] \in Connection /\ conn[r].txs + 1 \in Nat
    BY <1>3 DEF OpenTyped, Connection
  <2>2. [conn[r] EXCEPT !.txs = @ + 1] \in Connection
    BY <2>1, ConnectionChanged
  <2>3. QED  BY <1>1, <1>3, <2>2 DEF OpenTyped
<1>10. /\ conn'[busy].txs = 1 /\ conn'[busy].version = data' /\ ~conn'[busy].shown /\ ~conn'[busy].closing /\ ~conn'[busy].closed
       /\ \A c \in Requests \ {busy} : conn'[c] = conn[c]
  BY <1>1, <1>2, <1>3, <1>4 DEF OpenTyped, Connection, Fresh
<1>11. data' \in Nat /\ old' \in Nat
  BY <1>1, <1>2, <1>3, <1>4 DEF OpenTyped, Connection
<1>12. OpenTyped'
  BY <1>1, <1>3, <1>8, <1>9, <1>11 DEF OpenTyped
<1>13. <<"idle">> \notin Early
  BY DEF Early
<1>14. Connections'
  BY <1>1, <1>3, <1>4, <1>10, <1>13 DEF Connections, Unused
<1>15. Phased("upgradeneeded")' /\ Processed("upgradeneeded")' /\ Told("upgradeneeded")'
  BY <1>1, <1>4, <1>8, <1>10 DEF Phased, Processed, Told, OpenAssumption
<1>16. Queued'
  <2>1. Range(queue) \subseteq Requests
    BY <1>3, RangeType DEF OpenTyped
  <2>2. QED  BY <1>1, <1>3, <1>10, <2>1 DEF Queued, Unused
<1>17. OpenInvariant("upgradeneeded")'
  BY <1>8, <1>12, <1>14, <1>15, <1>16 DEF OpenInvariant
<1>18. QED  BY <1>6, <1>17 DEF ConnectionsInvariant

(* The deletion, when every connection is closed. *)
LEMMA OpenDeleteStep ==
  ASSUME OpenAssumption, NEW p \in Phases, OpenInvariant(p), NEW r \in Requests, OpenDelete(r)
  PROVE  ConnectionsInvariant'
<1> DEFINE timers == Tail(timerq)
<1>1. /\ Runs("alone", r) /\ r \in Deletes /\ data' = None
      /\ Pump(queue, Append(timers, Task("success", r)))
      /\ UNCHANGED <<conn, conns, left, waiting, upgrade, old, events>>
  BY DEF OpenDelete, Finish
<1>2. /\ p = "alone" /\ r = busy /\ timers \in Seq(Tasks) /\ InOrder(timers) /\ Range(timers) \subseteq Range(timerq)
      /\ \A task \in Range(timers) : task.kind \in Outcomes
  BY <1>1, TimerTaken, PhaseNames
<1>3. /\ OpenTyped /\ Phased(p) /\ Connections /\ Processed(p) /\ Told(p)
  BY DEF OpenInvariant
<1>4. /\ left = 0 /\ waiting = None /\ upgrade = "none" /\ events[busy] \in Early \union Shown
      /\ Fresh(conn[busy]) /\ conns = {} /\ busy # None
  BY <1>1, <1>2, <1>3 DEF Phased, Told, Processed, OpenTyped, OpenAssumption
<1>5. "success" \in Outcomes
  BY PhaseNames
<1> HIDE DEF timers
<1>6. Pump(queue, Append(timers, Task("success", busy)))
  BY <1>1, <1>2
<1>7. /\ old' \in Nat /\ data' \in Nat \union {None} /\ conns' \subseteq Requests \ Deletes /\ conn' \in [Requests -> Connection]
      /\ \A c \in conns' : ~conn'[c].closing => conn'[c].version = data'
      /\ left' = 0 /\ waiting' = None /\ upgrade' = "none" /\ events' = events
      /\ \A c \in Requests : c # busy => conn'[c] = conn[c] /\ (c \in conns' <=> c \in conns)
  BY <1>1, <1>3, <1>4 DEF OpenTyped
<1>8. conn'[busy].closed => conn'[busy].closing /\ busy \notin conns' /\ conn'[busy].txs = 0
  BY <1>1, <1>4 DEF Fresh
<1>9. QED  BY <1>2, <1>4, <1>5, <1>6, <1>7, <1>8, Finished

(* The upgradeneeded event, in which the upgrade transaction begins. *)
LEMMA UpgradeNeededStep ==
  ASSUME OpenAssumption, NEW p \in Phases, OpenInvariant(p), NEW r \in Requests, UpgradeNeeded(r)
  PROVE  ConnectionsInvariant'
<1> DEFINE timers == Tail(timerq)
<1>1. /\ Runs("upgradeneeded", r) /\ upgrade' = "running" /\ timerq' = timers
      /\ conn' = [conn EXCEPT ![r].shown = TRUE]
      /\ events' = [events EXCEPT ![r] = Append(@, "upgradeneeded")]
      /\ UNCHANGED <<data, conns, queue, busy, left, waiting, old>>
  BY DEF UpgradeNeeded
<1>2. /\ p = "upgradeneeded" /\ r = busy /\ timers \in Seq(Tasks) /\ InOrder(timers) /\ Range(timers) \subseteq Range(timerq)
      /\ Block(timers, p, 0) /\ \A task \in Range(timers) : task.kind \in Outcomes
  BY <1>1, TimerTaken, PhaseNames
<1>3. /\ OpenTyped /\ Phased(p) /\ Connections /\ Processed(p) /\ Queued /\ Answers /\ Told(p)
  BY DEF OpenInvariant
<1>4. /\ left = 0 /\ waiting = None /\ events[busy] \in Early /\ conns = {busy} /\ busy \in Requests
      /\ conn[busy].txs = 1 /\ conn[busy].version = data /\ ~conn[busy].closing
  BY <1>2, <1>3 DEF Phased, Told, Processed, OpenTyped, Upgrading
<1>5. Block(timers, "running", 0) /\ "running" \in Phases /\ "running" \notin Carrying
  BY <1>2, BlockNone, PhaseNames
<1> HIDE DEF timers
<1>6. Append(events[busy], "upgradeneeded") \in Shown /\ <<"idle">> \notin Shown
  BY <1>4, NotIdle DEF Shown
<1>7. events'[busy] \in Shown /\ \A c \in Requests \ {busy} : events'[c] = events[c]
  BY <1>1, <1>2, <1>3, <1>4, <1>6 DEF OpenTyped
<1>8. conn' \in [Requests -> Connection]
  BY <1>1, <1>3 DEF OpenTyped, Connection
<1>9. /\ conn'[busy].txs = 1 /\ conn'[busy].version = data /\ conn'[busy].closed = conn[busy].closed
      /\ conn'[busy].closing = conn[busy].closing
      /\ \A c \in Requests \ {busy} : conn'[c] = conn[c]
  BY <1>1, <1>2, <1>3, <1>4 DEF OpenTyped, Connection
<1>10. OpenTyped'
  <2>1. events' \in [Requests -> {<<"idle">>} \union Early \union Shown \union Ended]
    BY <1>1, <1>2, <1>3, <1>6 DEF OpenTyped
  <2>2. QED  BY <1>1, <1>2, <1>3, <1>8, <2>1 DEF OpenTyped
<1>11. Connections'
  <2> SUFFICES ASSUME NEW c \in Requests
               PROVE  /\ conn'[c].closed => conn'[c].closing /\ c \notin conns /\ conn'[c].txs = 0
                      /\ events'[c] = <<"idle">> => Unused(c)'
                      /\ c \in conns /\ c # busy /\ ~conn'[c].closing => conn'[c].version = data
    BY <1>1 DEF Connections
  <2>1. CASE c = busy
    BY <1>3, <1>4, <1>6, <1>7, <1>9, <2>1 DEF Connections
  <2>2. CASE c # busy
    BY <1>1, <1>3, <1>4, <1>7, <1>9, <2>2 DEF Connections, Unused
  <2>3. QED  BY <2>1, <2>2
<1>12. Block(timerq', "running", Width("running")')
  BY <1>1, <1>5 DEF Width
<1>13. Phased("running")' /\ Processed("running")'
  BY <1>1, <1>4, <1>9 DEF Phased, Processed, OpenAssumption
<1>14. Told("running")' /\ Owned' /\ Answers'
  <2>1. \A o \in Outcomes : o # "blocked" /\ o \notin Carrying
    BY PhaseNames
  <2>2. Range(timers) \subseteq Tasks /\ \A task \in Tasks : task.of \in Requests
    BY <1>2, RangeType DEF Tasks
  <2>3. Told("running")'
    BY <1>1, <1>2, <1>7, <2>1 DEF Told
  <2>4. Owned'
    BY <1>1, <1>2, <2>1 DEF Owned
  <2>5. Answers'
    BY <1>1, <1>2, <1>3, <1>7, <2>2 DEF Answers
  <2>6. QED  BY <2>3, <2>4, <2>5
<1>15. Queued'
  <2>1. Range(queue) \subseteq Requests
    BY <1>3, RangeType DEF OpenTyped
  <2>2. QED  BY <1>1, <1>3, <1>7, <1>9, <2>1 DEF Queued, Unused
<1>16. OpenInvariant("running")'
  BY <1>1, <1>2, <1>10, <1>11, <1>12, <1>13, <1>14, <1>15 DEF OpenInvariant
<1>17. QED  BY <1>5, <1>16 DEF ConnectionsInvariant

(* abortUpgrade's task. *)
LEMMA UpgradeAbortedStep ==
  ASSUME OpenAssumption, NEW p \in Phases, OpenInvariant(p), NEW r \in Requests, UpgradeAborted(r)
  PROVE  ConnectionsInvariant'
<1> DEFINE timers == Tail(timerq)
<1>1. /\ Runs("aborted", r) /\ upgrade' = "none" /\ conns' = conns \ {r}
      /\ conn' = [conn EXCEPT ![r].txs = @ - 1, ![r].closing = TRUE, ![r].closed = TRUE]
      /\ Pump(queue, Append(timers, Task("error", r)))
      /\ UNCHANGED <<data, left, waiting, old, events>>
  BY DEF UpgradeAborted, Finish
<1>2. /\ p = "aborted" /\ r = busy /\ timers \in Seq(Tasks) /\ InOrder(timers) /\ Range(timers) \subseteq Range(timerq)
      /\ \A task \in Range(timers) : task.kind \in Outcomes
  BY <1>1, TimerTaken, PhaseNames
<1>3. /\ OpenTyped /\ Phased(p) /\ Connections /\ Processed(p) /\ Told(p)
  BY DEF OpenInvariant
<1>4. /\ left = 0 /\ waiting = None /\ events[busy] \in Early \union Shown /\ conns = {busy} /\ busy # None
      /\ conn[busy].txs = 1
  BY <1>2, <1>3 DEF Phased, Told, Processed, OpenAssumption, Upgrading
<1>5. "error" \in Outcomes
  BY PhaseNames
<1> HIDE DEF timers
<1>6. Pump(queue, Append(timers, Task("error", busy)))
  BY <1>1, <1>2
<1> DEFINE over == [conn[busy] EXCEPT !.txs = @ - 1, !.closing = TRUE, !.closed = TRUE]
<1>7. over \in Connection /\ over.closing /\ over.txs = 0
  <2>1. conn[busy] \in Connection /\ conn[busy].txs - 1 = 0
    BY <1>2, <1>3, <1>4 DEF OpenTyped
  <2>2. QED  BY <2>1, ConnectionChanged
<1>8. conn' = [conn EXCEPT ![busy] = over]
  BY <1>1, <1>2, <1>3 DEF OpenTyped, Connection
<1> HIDE DEF over
<1>9. /\ conn' \in [Requests -> Connection] /\ conn'[busy].closing /\ conn'[busy].txs = 0
       /\ \A c \in Requests \ {busy} : conn'[c] = conn[c]
  BY <1>2, <1>3, <1>7, <1>8 DEF OpenTyped
<1>10. /\ old' \in Nat /\ data' \in Nat \union {None} /\ conns' = {}
      /\ left' = 0 /\ waiting' = None /\ upgrade' = "none" /\ events' = events
      /\ \A c \in Requests : c # busy => conn'[c] = conn[c] /\ (c \in conns' <=> c \in conns)
  BY <1>1, <1>2, <1>3, <1>4, <1>9 DEF OpenTyped
<1>11. conn'[busy].closed => conn'[busy].closing /\ busy \notin conns' /\ conn'[busy].txs = 0
  BY <1>9, <1>10
<1>12. QED  BY <1>2, <1>4, <1>5, <1>6, <1>9, <1>10, <1>11, Finished

(* The last event of a request. *)
LEMMA FinalStep ==
  ASSUME OpenAssumption, NEW p \in Phases, OpenInvariant(p), NEW r \in Requests, Final(r)
  PROVE  ConnectionsInvariant'
<1> DEFINE timers == Tail(timerq)
<1>1. PICK outcome \in Outcomes :
        /\ Runs(outcome, r) /\ events' = [events EXCEPT ![r] = Append(@, outcome)]
        /\ conn' = [conn EXCEPT ![r].shown = @ \/ (outcome = "success" /\ r \notin Deletes)]
  BY DEF Final, Outcomes
<1>2. timerq' = timers /\ UNCHANGED <<data, conns, queue, busy, left, waiting, upgrade, old>>
  BY DEF Final
<1>3. /\ OpenTyped /\ Phased(p) /\ Connections /\ Processed(p) /\ Queued /\ Answers /\ Owned /\ Told(p) /\ InOrder(timerq)
  BY DEF OpenInvariant
<1>4. outcome \notin Carrying /\ outcome # "blocked"
  BY PhaseNames
<1>5. /\ timers \in Seq(Tasks) /\ InOrder(timers) /\ Task(outcome, r) \in Range(timerq)
      /\ Range(timers) \subseteq Range(timerq) /\ Block(timers, p, Width(p))
  BY <1>1, <1>4, TimerTaken
<1>6. Task(outcome, r).kind = outcome /\ Task(outcome, r).of = r
  BY TaskType
<1>7. r # busy /\ r \notin Range(queue) /\ events[r] \in Early \union Shown
  BY <1>3, <1>5, <1>6 DEF Answers
<1>8. \A task \in Range(timers) : task.kind \in Outcomes => task.of # r
  BY <1>1, <1>3, <1>6, OrderTaken DEF Runs, OpenTyped
<1> HIDE DEF timers
<1>9. Append(events[r], outcome) \in Ended
  BY <1>7 DEF Ended
<1>10. events' \in [Requests -> {<<"idle">>} \union Early \union Shown \union Ended] /\ events'[r] # <<"idle">>
  BY <1>1, <1>3, <1>9, NotIdle DEF OpenTyped
<1>11. conn' \in [Requests -> Connection]
  <2> DEFINE now == conn[r].shown \/ (outcome = "success" /\ r \notin Deletes)
  <2>1. now \in BOOLEAN /\ conn[r] \in Connection /\ conn' = [conn EXCEPT ![r].shown = now]
    BY <1>1, <1>3 DEF OpenTyped
  <2> HIDE DEF now
  <2>2. [conn[r] EXCEPT !.shown = now] \in Connection
    BY <2>1 DEF Connection
  <2>3. QED  BY <1>3, <2>1, <2>2 DEF OpenTyped
<1>12. /\ conn'[r].version = conn[r].version /\ conn'[r].closing = conn[r].closing /\ conn'[r].closed = conn[r].closed
       /\ conn'[r].txs = conn[r].txs
       /\ \A c \in Requests \ {r} : conn'[c] = conn[c] /\ events'[c] = events[c]
  BY <1>1, <1>3 DEF OpenTyped, Connection
<1>13. p # "free" => busy \in Requests
  BY <1>3 DEF Phased, OpenTyped
<1>14. Connections' /\ Processed(p)' /\ Queued'
  BY <1>2, <1>3, <1>7, <1>10, <1>11, <1>12, <1>13, OtherChanged
<1>15. OpenTyped'
  BY <1>2, <1>3, <1>5, <1>10, <1>11 DEF OpenTyped
<1>16. Block(timerq', p, Width(p)') /\ Phased(p)'
  BY <1>2, <1>3, <1>5 DEF Width, Phased
<1>17. Answers' /\ Owned'
  <2>1. Range(timerq) \subseteq Tasks /\ \A task \in Tasks : task.of \in Requests
    BY <1>3, RangeType DEF OpenTyped, Tasks
  <2>2. QED  BY <1>2, <1>3, <1>5, <1>8, <1>12, <2>1 DEF Answers, Owned
<1>18. Told(p)'
  <2>1. p # "free" => events'[busy] = events[busy]
    BY <1>7, <1>12, <1>13
  <2>2. p \in {"waiting", "alone"} => p # "free"
    OBVIOUS
  <2>3. QED  BY <1>2, <1>3, <1>5, <2>1, <2>2 DEF Told
<1>19. OpenInvariant(p)'
  BY <1>2, <1>5, <1>14, <1>15, <1>16, <1>17, <1>18 DEF OpenInvariant
<1>20. QED  BY <1>19 DEF ConnectionsInvariant

(* While the upgrade transaction runs, the timers only answer requests. *)
LEMMA Running ==
  ASSUME OpenAssumption, NEW p \in Phases, OpenInvariant(p), upgrade = "running"
  PROVE  /\ p = "running" /\ Block(timerq, "none", 0)
         /\ \A task \in Range(timerq) : task.kind \in Outcomes
         /\ left = 0 /\ waiting = None /\ events[busy] \in Shown /\ conns = {busy} /\ busy \in Requests
         /\ conn[busy].txs = 1 /\ conn[busy].version = data
<1>1. OpenTyped /\ Phased(p) /\ Processed(p) /\ Told(p) /\ Block(timerq, p, Width(p))
  BY DEF OpenInvariant
<1>2. p = "running"
  BY <1>1 DEF Phased
<1>3. Width(p) = 0
  BY <1>2, PhaseNames DEF Width
<1>4. Block(timerq, "none", 0) /\ \A n \in 1..Len(timerq) : timerq[n].kind \notin Carrying
  BY <1>1, <1>3, BlockNone DEF OpenTyped
<1>5. Range(timerq) \subseteq Tasks /\ DOMAIN timerq = 1..Len(timerq)
  BY <1>1, RangeType DEF OpenTyped
<1>6. \A task \in Range(timerq) : task.kind \notin Carrying
  BY <1>4, <1>5 DEF Range
<1>7. \A task \in Range(timerq) : task.kind # "blocked"
  BY <1>1, <1>2 DEF Told
<1>8. \A task \in Range(timerq) : task.kind \in Outcomes
  BY <1>5, <1>6, <1>7 DEF Tasks
<1>9. QED  BY <1>1, <1>2, <1>4, <1>8 DEF OpenTyped, Phased, Told, Processed, Upgrading

(* finalizeTx of the upgrade. *)
LEMMA UpgradeCommitsStep ==
  ASSUME OpenAssumption, NEW p \in Phases, OpenInvariant(p), UpgradeCommits
  PROVE  ConnectionsInvariant'
<1> DEFINE gone == conn[busy].closing
           outcome == IF gone THEN "error" ELSE "success"
<1>1. /\ upgrade = "running" /\ upgrade' = "none"
      /\ Pump(queue, Append(timerq, Task(outcome, busy)))
      /\ conns' = IF gone THEN conns \ {busy} ELSE conns
      /\ conn' = [[conn EXCEPT ![busy].txs = @ - 1] EXCEPT ![busy].closed = gone]
      /\ UNCHANGED <<data, left, waiting, old, events>>
  BY DEF UpgradeCommits
<1>2. /\ OpenTyped /\ Connections /\ InOrder(timerq)
  BY DEF OpenInvariant
<1>3. /\ \A task \in Range(timerq) : task.kind \in Outcomes
      /\ left = 0 /\ waiting = None /\ events[busy] \in Shown /\ conns = {busy} /\ busy \in Requests
      /\ conn[busy].txs = 1 /\ conn[busy].version = data
  BY <1>1, Running
<1>4. outcome \in Outcomes /\ busy # None /\ gone \in BOOLEAN /\ conn[busy] \in Connection
  BY <1>2, <1>3 DEF Outcomes, OpenAssumption, OpenTyped, Connection
<1> DEFINE over == [conn[busy] EXCEPT !.txs = 0, !.closed = gone]
<1> HIDE DEF gone, outcome
<1>5. /\ over \in Connection /\ over.closed = gone /\ over.closing = conn[busy].closing
      /\ over.txs = 0 /\ over.version = data
  BY <1>3, <1>4 DEF Connection
<1>6. conn' = [conn EXCEPT ![busy] = over]
  <2>1. conn[busy].txs - 1 = 0
    BY <1>3
  <2>2. [[conn EXCEPT ![busy].txs = 0] EXCEPT ![busy].closed = gone] = [conn EXCEPT ![busy] = over]
    BY <1>2, <1>3 DEF OpenTyped
  <2>3. QED  BY <1>1, <2>1, <2>2
<1> HIDE DEF over
<1>7. /\ conn' \in [Requests -> Connection] /\ conn'[busy] = over
      /\ \A c \in Requests \ {busy} : conn'[c] = conn[c]
  BY <1>2, <1>3, <1>5, <1>6 DEF OpenTyped
<1>8. /\ old' \in Nat /\ data' \in Nat \union {None} /\ conns' \subseteq Requests \ Deletes
      /\ left' = 0 /\ waiting' = None /\ upgrade' = "none" /\ events' = events /\ events[busy] \in Early \union Shown
      /\ \A c \in Requests : c # busy => conn'[c] = conn[c] /\ (c \in conns' <=> c \in conns)
  BY <1>1, <1>2, <1>3, <1>7 DEF OpenTyped
<1>9. conn'[busy].closed => conn'[busy].closing /\ busy \notin conns' /\ conn'[busy].txs = 0
  BY <1>1, <1>5, <1>7 DEF gone
<1>10. \A c \in conns' : ~conn'[c].closing => conn'[c].version = data'
  BY <1>1, <1>3, <1>5, <1>7
<1>11. timerq \in Seq(Tasks)
  BY <1>2 DEF OpenTyped
<1>12. QED  BY <1>1, <1>2, <1>3, <1>4, <1>7, <1>8, <1>9, <1>10, <1>11, Finished

(* abortTx and abortUpgrade. *)
LEMMA UpgradeAbortsStep ==
  ASSUME OpenAssumption, NEW p \in Phases, OpenInvariant(p), UpgradeAborts
  PROVE  ConnectionsInvariant'
<1>1. /\ upgrade = "running" /\ upgrade' = "aborting"
      /\ data' = IF old = 0 THEN None ELSE old
      /\ conn' = [conn EXCEPT ![busy].version = old]
      /\ timerq' = Append(timerq, Task("aborted", busy))
      /\ UNCHANGED <<conns, queue, busy, left, waiting, old, events>>
  BY DEF UpgradeAborts
<1>2. /\ OpenTyped /\ Connections /\ Queued /\ Answers /\ InOrder(timerq)
  BY DEF OpenInvariant
<1>3. /\ p = "running" /\ Block(timerq, "none", 0)
      /\ \A task \in Range(timerq) : task.kind \in Outcomes
      /\ left = 0 /\ waiting = None /\ events[busy] \in Shown /\ conns = {busy} /\ busy \in Requests
      /\ conn[busy].txs = 1
  BY <1>1, Running
<1>4. "aborted" \in Carrying \ {"versionchange"} /\ "aborted" \in Phases
  BY PhaseNames
<1>5. timerq \in Seq(Tasks)
  BY <1>2 DEF OpenTyped
<1>6. /\ timerq' \in Seq(Tasks) /\ Block(timerq', "aborted", Width("aborted")') /\ InOrder(timerq')
      /\ Answers' /\ Owned' /\ \A task \in Range(timerq') : task.kind # "blocked"
  BY <1>1, <1>2, <1>3, <1>4, <1>5, CarriedOn
<1>7. conn' \in [Requests -> Connection]
  <2>1. conn[busy] \in Connection /\ old \in Nat
    BY <1>2, <1>3 DEF OpenTyped
  <2>2. [conn[busy] EXCEPT !.version = old] \in Connection
    BY <2>1 DEF Connection
  <2>3. QED  BY <1>1, <1>2, <2>2 DEF OpenTyped
<1>8. /\ conn'[busy].closed = conn[busy].closed /\ conn'[busy].closing = conn[busy].closing /\ conn'[busy].txs = 1
      /\ \A c \in Requests \ {busy} : conn'[c] = conn[c]
  <2>1. conn[busy] \in Connection /\ DOMAIN conn = Requests
    BY <1>2, <1>3 DEF OpenTyped
  <2>2. conn'[busy] = [conn[busy] EXCEPT !.version = old] /\ \A c \in Requests \ {busy} : conn'[c] = conn[c]
    BY <1>1, <1>3, <2>1
  <2>3. QED  BY <1>3, <2>1, <2>2 DEF Connection
<1>9. OpenTyped'
  BY <1>1, <1>2, <1>6, <1>7 DEF OpenTyped
<1>10. Connections'
  <2> SUFFICES ASSUME NEW c \in Requests
               PROVE  /\ conn'[c].closed => conn'[c].closing /\ c \notin conns /\ conn'[c].txs = 0
                      /\ events[c] = <<"idle">> => Unused(c)'
                      /\ c \in conns /\ c # busy /\ ~conn'[c].closing => conn'[c].version = data'
    BY <1>1 DEF Connections
  <2>1. CASE c = busy
    BY <1>2, <1>3, <1>8, <2>1, NotIdle DEF Connections
  <2>2. CASE c # busy
    BY <1>1, <1>2, <1>3, <1>8, <2>2 DEF Connections, Unused
  <2>3. QED  BY <2>1, <2>2
<1>11. Phased("aborted")' /\ Processed("aborted")' /\ Told("aborted")'
  BY <1>1, <1>3, <1>6, <1>8 DEF Phased, Processed, Told, OpenAssumption
<1>12. Queued'
  <2>1. Range(queue) \subseteq Requests
    BY <1>2, RangeType DEF OpenTyped
  <2>2. QED  BY <1>1, <1>2, <1>8, <2>1 DEF Queued, Unused
<1>13. OpenInvariant("aborted")'
  BY <1>6, <1>9, <1>10, <1>11, <1>12 DEF OpenInvariant
<1>14. QED  BY <1>4, <1>13 DEF ConnectionsInvariant


LEMMA ClosedChanged ==
  ASSUME NEW c \in Connection, NEW over \in BOOLEAN, NEW after, after = [c EXCEPT !.closed = @ \/ over]
  PROVE  /\ after \in Connection /\ after.closed = (c.closed \/ over)
         /\ after.closing = c.closing /\ after.txs = c.txs /\ after.shown = c.shown
         /\ after.version = c.version
  BY DEF Connection

(* maybeClosed: which connections close, when one of them changes. *)
LEMMA Settled ==
  ASSUME OpenAssumption, NEW p \in Phases, OpenInvariant(p), NEW c \in Requests,
         NEW cs \in [Requests -> Connection], \A r \in Requests \ {c} : cs[r] = conn[r],
         cs[c].version = conn[c].version, cs[c].closed = conn[c].closed, conn[c].closing => cs[c].closing,
         cs[c].shown = conn[c].shown, ~Fresh(conn[c]), ~conn[c].closed,
         c = busy => p \in {"running", "aborted"} /\ cs[c].txs = conn[c].txs,
         Settle(cs, timerq), UNCHANGED <<data, queue, busy, left, upgrade, old, events>>
  PROVE  /\ conn' \in [Requests -> Connection] /\ conns' \subseteq conns
         /\ p # "free" => /\ busy \in Requests /\ (busy \in conns <=> busy \in conns')
                          /\ conn'[busy].version = conn[busy].version /\ conn'[busy].txs = conn[busy].txs
         /\ \A r \in Requests : Unused(r) => Unused(r)'
         /\ Connections' /\ Processed(p)' /\ Queued'
<1> DEFINE gone == {r \in conns : Closable(cs[r])}
<1>1. conns' = conns \ gone /\ conn' = [r \in Requests |-> [cs[r] EXCEPT !.closed = @ \/ r \in gone]]
  BY DEF Settle
<1>2. OpenTyped /\ Phased(p) /\ Connections /\ Processed(p) /\ Queued
  BY DEF OpenInvariant
<1>3. \A r \in gone : r \in conns /\ cs[r].closing /\ cs[r].txs = 0
  BY DEF Closable
<1> HIDE DEF gone
<1>4. ASSUME NEW r \in Requests
      PROVE  /\ conn'[r] \in Connection /\ conn'[r].closed = (cs[r].closed \/ r \in gone)
             /\ conn'[r].closing = cs[r].closing /\ conn'[r].txs = cs[r].txs /\ conn'[r].shown = cs[r].shown
             /\ conn'[r].version = cs[r].version
  <2>1. cs[r] \in Connection /\ (r \in gone) \in BOOLEAN
    OBVIOUS
  <2>2. conn'[r] = [cs[r] EXCEPT !.closed = @ \/ r \in gone]
    BY <1>1
  <2> DEFINE over == r \in gone
  <2>3. over \in BOOLEAN /\ conn'[r] = [cs[r] EXCEPT !.closed = @ \/ over]
    BY <2>1, <2>2
  <2> HIDE DEF over
  <2>4. /\ conn'[r] \in Connection /\ conn'[r].closed = (cs[r].closed \/ over)
        /\ conn'[r].closing = cs[r].closing /\ conn'[r].txs = cs[r].txs /\ conn'[r].shown = cs[r].shown
        /\ conn'[r].version = cs[r].version
    BY <2>1, <2>3, ClosedChanged
  <2>5. QED  BY <2>4 DEF over
<1>5. conn' \in [Requests -> Connection]
  BY <1>1, <1>4
<1>6. p # "free" => busy \in Requests
  BY <1>2 DEF OpenTyped, Phased
<1>7. p # "free" => busy \notin gone
  <2>1. CASE p = "run"
    BY <1>2, <1>3, <2>1 DEF Processed, Unused
  <2>2. CASE p \in {"versionchange", "announced", "waiting", "alone"}
    <3>1. Fresh(conn[busy]) /\ busy # c /\ busy \in Requests
      BY <1>2, <1>6, <2>2 DEF Processed
    <3>2. cs[busy] = conn[busy]
      BY <3>1
    <3>3. QED  BY <1>3, <3>1, <3>2 DEF Fresh
  <2>3. CASE p \in Upgrading
    <3>1. conn[busy].txs = 1 /\ busy \in Requests
      BY <1>2, <1>6, <2>3, PhaseNames DEF Processed
    <3>2. cs[busy].txs = 1
      BY <3>1
    <3>3. QED  BY <1>3, <3>2
  <2>4. QED  BY <2>1, <2>2, <2>3, PhaseNames
<1>8. \A r \in Requests : Unused(r) => r # c /\ cs[r] = conn[r] /\ r \notin gone
  BY <1>3 DEF Unused
<1>9. \A r \in Requests : Unused(r) => Unused(r)'
  <2> SUFFICES ASSUME NEW r \in Requests, Unused(r) PROVE Unused(r)'
    OBVIOUS
  <2>1. cs[r] = conn[r] /\ r \notin gone
    BY <1>8
  <2>2. /\ (conn'[r].closed => conn[r].closed) /\ conn'[r].closing = conn[r].closing
        /\ conn'[r].txs = conn[r].txs /\ conn'[r].shown = conn[r].shown
    BY <1>4, <2>1
  <2>3. r \notin conns'
    BY <1>1 DEF Unused
  <2>4. QED  BY <2>2, <2>3 DEF Unused, Fresh
<1>10. p # "free" => /\ conn'[busy].version = conn[busy].version /\ conn'[busy].txs = conn[busy].txs
                     /\ (busy \in conns <=> busy \in conns')
  BY <1>1, <1>4, <1>6, <1>7
<1>11. Connections'
  <2> SUFFICES ASSUME NEW r \in Requests
               PROVE  /\ conn'[r].closed => conn'[r].closing /\ r \notin conns' /\ conn'[r].txs = 0
                      /\ events[r] = <<"idle">> => Unused(r)'
                      /\ r \in conns' /\ r # busy /\ ~conn'[r].closing => conn'[r].version = data
    BY DEF Connections
  <2>1. cs[r].version = conn[r].version /\ (conn[r].closing => cs[r].closing) /\ cs[r].closed = conn[r].closed
    OBVIOUS
  <2>2. conn'[r].closed => conn'[r].closing /\ r \notin conns' /\ conn'[r].txs = 0
    <3>1. conn[r].closed => conn[r].closing /\ r \notin conns /\ conn[r].txs = 0
      BY <1>2 DEF Connections
    <3>2. CASE r \in gone
      <4>1. conn'[r].closing = cs[r].closing /\ conn'[r].txs = cs[r].txs
        BY <1>4
      <4>2. QED  BY <1>1, <1>3, <3>2, <4>1
    <3>3. CASE r \notin gone /\ r = c
      BY <1>4, <2>1, <3>3
    <3>4. CASE r \notin gone /\ r # c
      <4>1. cs[r] = conn[r]
        BY <3>4
      <4>2. (conn'[r].closed => conn[r].closed) /\ conn'[r].closing = conn[r].closing /\ conn'[r].txs = conn[r].txs
        BY <1>4, <3>4, <4>1
      <4>3. QED  BY <1>1, <3>1, <4>2
    <3>5. QED  BY <3>2, <3>3, <3>4
  <2>3. events[r] = <<"idle">> => Unused(r)'
    BY <1>2, <1>9 DEF Connections
  <2>4. r \in conns' /\ r # busy /\ ~conn'[r].closing => conn'[r].version = data
    BY <1>1, <1>2, <1>4, <2>1 DEF Connections
  <2>5. QED  BY <2>2, <2>3, <2>4
<1>12. p # "free" /\ c # busy => cs[busy] = conn[busy]
  BY <1>6
<1>13. Processed(p)'
  <2>1. p = "run" => Unused(busy)'
    BY <1>2, <1>6, <1>9 DEF Processed
  <2>2. p \in {"versionchange", "announced", "waiting", "alone"} =>
          data \in Nat /\ Fresh(conn'[busy]) /\ (busy \in Deletes \/ busy \in conns')
    <3> SUFFICES ASSUME p \in {"versionchange", "announced", "waiting", "alone"}
                 PROVE  data \in Nat /\ Fresh(conn'[busy]) /\ (busy \in Deletes \/ busy \in conns')
      OBVIOUS
    <3>1. p # "free" /\ Fresh(conn[busy]) /\ data \in Nat /\ (busy \in Deletes \/ busy \in conns)
      BY <1>2 DEF Processed
    <3>2. busy # c
      BY <3>1
    <3>3. Fresh(conn'[busy])
      BY <1>4, <1>6, <1>7, <1>12, <3>1, <3>2 DEF Fresh
    <3>4. QED  BY <1>10, <3>1, <3>3
  <2>3. p = "alone" => conns' \subseteq {busy}
    BY <1>1, <1>2 DEF Processed
  <2>4. p \in Upgrading => conns' = {busy} /\ conn'[busy].txs = 1
    BY <1>1, <1>2, <1>7, <1>10, PhaseNames DEF Processed
  <2>5. p \in {"upgradeneeded", "running"} => conn'[busy].version = data
    BY <1>2, <1>10 DEF Processed
  <2>6. p = "upgradeneeded" => ~conn'[busy].shown /\ ~conn'[busy].closing
    BY <1>2, <1>4, <1>6, <1>12 DEF Processed
  <2>7. QED  BY <2>1, <2>2, <2>3, <2>4, <2>5, <2>6 DEF Processed
<1>14. Queued'
  <2>1. Range(queue) \subseteq Requests
    BY <1>2, RangeType DEF OpenTyped
  <2>2. QED  BY <1>2, <1>9, <2>1 DEF Queued
<1>15. QED  BY <1>1, <1>5, <1>6, <1>9, <1>10, <1>11, <1>13, <1>14

(* checkWaiters: the request waits on, or carries on when the others are closed. *)
LEMMA SettleStep ==
  ASSUME OpenAssumption, NEW p \in Phases, OpenInvariant(p), NEW c \in Requests,
         NEW cs \in [Requests -> Connection], \A r \in Requests \ {c} : cs[r] = conn[r],
         cs[c].version = conn[c].version, cs[c].closed = conn[c].closed, conn[c].closing => cs[c].closing,
         cs[c].shown = conn[c].shown, ~Fresh(conn[c]), ~conn[c].closed,
         c = busy => p \in {"running", "aborted"} /\ cs[c].txs = conn[c].txs,
         Settle(cs, timerq), UNCHANGED <<data, queue, busy, left, upgrade, old, events>>
  PROVE  ConnectionsInvariant'
<1> DEFINE ready == Ready(conns')
<1>1. /\ waiting' = (IF ready THEN None ELSE waiting)
      /\ timerq' = IF ready THEN Append(timerq, Task("alone", busy)) ELSE timerq
  BY DEF Settle
<1>2. OpenTyped /\ Phased(p) /\ Processed(p) /\ Queued /\ Answers /\ Owned /\ Told(p) /\ InOrder(timerq)
      /\ Block(timerq, p, Width(p))
  BY DEF OpenInvariant
<1>3. /\ conn' \in [Requests -> Connection] /\ conns' \subseteq conns
      /\ Connections' /\ Processed(p)' /\ Queued' /\ (p # "free" => busy \in Requests)
  BY Settled
<1>4. CASE ~ready
  <2>1. waiting' = waiting /\ timerq' = timerq
    BY <1>1, <1>4
  <2>2. OpenTyped'
    BY <1>2, <1>3, <2>1 DEF OpenTyped
  <2>3. Block(timerq', p, Width(p)') /\ Phased(p)' /\ Answers' /\ Owned' /\ Told(p)' /\ InOrder(timerq')
    BY <1>2, <1>3, <2>1 DEF Width, Phased, Answers, Owned, Told
  <2>4. OpenInvariant(p)'
    BY <1>3, <2>2, <2>3 DEF OpenInvariant
  <2>5. QED  BY <2>4 DEF ConnectionsInvariant
<1>5. CASE ready
  <2>1. p = "waiting" /\ waiting # None /\ waiting \intersect conns' = {}
    BY <1>2, <1>5 DEF Ready, Phased
  <2>2. /\ waiting' = None /\ timerq' = Append(timerq, Task("alone", busy))
    BY <1>1, <1>5
  <2>3. conns' \subseteq {busy}
    BY <1>2, <1>3, <2>1 DEF Phased
  <2>4. /\ busy \in Requests /\ left = 0 /\ upgrade = "none" /\ timerq \in Seq(Tasks)
    BY <1>2, <1>3, <2>1 DEF Phased, OpenTyped
  <2>5. /\ Task("alone", busy) \in Tasks /\ Task("alone", busy).kind = "alone" /\ Task("alone", busy).of = busy
        /\ "alone" \in Phases /\ "alone" \in Carrying /\ "alone" \notin Outcomes
    BY <2>4, TaskType, PhaseNames
  <2>6. timerq' \in Seq(Tasks) /\ Range(timerq') = Range(timerq) \union {Task("alone", busy)}
    BY <2>2, <2>4, <2>5, RangeAdded
  <2>7. Block(timerq', "alone", Width("alone")')
    <3>1. Width(p) = 0 /\ Width("alone")' = 1
      BY <2>1, <2>5, PhaseNames DEF Width
    <3>2. QED  BY <1>2, <2>2, <2>4, <2>5, <3>1, BlockOfOne
  <2>8. InOrder(timerq')
    BY <1>2, <2>2, <2>4, <2>5, OrderAdded
  <2>9. OpenTyped'
    BY <1>2, <1>3, <2>6 DEF OpenTyped
  <2>10. Phased("alone")'
    BY <2>2, <2>4 DEF Phased, OpenAssumption
  <2>11. Processed("alone")'
    BY <1>3, <2>1, <2>3 DEF Processed, Upgrading
  <2>12. Answers' /\ Owned'
    BY <1>2, <2>5, <2>6 DEF Answers, Owned
  <2>13. Told("alone")'
    BY <1>2, <2>1, <2>5, <2>6 DEF Told
  <2>14. OpenInvariant("alone")'
    BY <1>3, <2>6, <2>7, <2>8, <2>9, <2>10, <2>11, <2>12, <2>13 DEF OpenInvariant
  <2>15. QED  BY <2>5, <2>14 DEF ConnectionsInvariant
<1>6. QED  BY <1>4, <1>5


-----------------------------------------------------------------------------
(* The steps of the page, one by one. *)

(* IDBDatabase.close(). *)
LEMMA CloseStep ==
  ASSUME OpenAssumption, NEW p \in Phases, OpenInvariant(p), NEW c \in Requests, Close(c)
  PROVE  ConnectionsInvariant'
<1> DEFINE cs == [conn EXCEPT ![c].closing = TRUE]
<1>1. OpenTyped /\ Phased(p) /\ Connections /\ Processed(p)
  BY DEF OpenInvariant
<1>2. conn[c].shown /\ ~conn[c].closing /\ Settle(cs, timerq) /\ UNCHANGED <<data, queue, busy, left, upgrade, old, events>>
  BY DEF Close
<1>3. cs \in [Requests -> Connection] /\ \A r \in Requests \ {c} : cs[r] = conn[r]
  BY <1>1 DEF OpenTyped, Connection
<1>4. /\ cs[c].version = conn[c].version /\ cs[c].closed = conn[c].closed /\ cs[c].txs = conn[c].txs
      /\ cs[c].shown = conn[c].shown
  BY <1>1 DEF OpenTyped, Connection
<1> HIDE DEF cs
<1>5. ~Fresh(conn[c]) /\ ~conn[c].closed
  BY <1>1, <1>2 DEF Fresh, Connections
<1>6. c = busy => p \in {"running", "aborted"}
  BY <1>1, <1>2, <1>5, PhaseNames DEF Phased, Processed, Unused, OpenAssumption
<1>7. QED  BY <1>2, <1>3, <1>4, <1>5, <1>6, SettleStep

(* A transaction of the page is over. *)
LEMMA FinishTxStep ==
  ASSUME OpenAssumption, NEW p \in Phases, OpenInvariant(p), NEW c \in Requests, FinishTx(c)
  PROVE  ConnectionsInvariant'
<1> DEFINE cs == [conn EXCEPT ![c].txs = @ - 1]
<1>1. OpenTyped /\ Phased(p) /\ Connections /\ Processed(p)
  BY DEF OpenInvariant
<1>2. /\ conn[c].txs > 0 /\ ~(upgrade # "none" /\ busy = c) /\ Settle(cs, timerq)
      /\ UNCHANGED <<data, queue, busy, left, upgrade, old, events>>
  BY DEF FinishTx
<1>3. conn[c] \in Connection /\ conn[c].txs \in Nat /\ conn[c].txs # 0 /\ conn[c].txs - 1 \in Nat
  BY <1>1, <1>2 DEF OpenTyped, Connection
<1>4. [conn[c] EXCEPT !.txs = @ - 1] \in Connection
  BY <1>3, ConnectionChanged
<1>5. cs \in [Requests -> Connection] /\ \A r \in Requests \ {c} : cs[r] = conn[r]
  BY <1>1, <1>4 DEF OpenTyped
<1>6. /\ cs[c].version = conn[c].version /\ cs[c].closed = conn[c].closed /\ cs[c].closing = conn[c].closing
      /\ cs[c].shown = conn[c].shown
  BY <1>1 DEF OpenTyped, Connection
<1> HIDE DEF cs
<1>7. ~Fresh(conn[c]) /\ ~conn[c].closed
  BY <1>1, <1>3 DEF Fresh, Connections
<1>8. c # busy
  <2>1. p # "free" => p \in {"run", "versionchange", "announced", "waiting", "alone"} \/ upgrade # "none"
    BY <1>1, PhaseNames DEF Phased
  <2>2. QED  BY <1>1, <1>2, <1>7, <2>1 DEF Phased, Processed, Unused, OpenAssumption
<1>9. QED  BY <1>2, <1>5, <1>6, <1>7, <1>8, SettleStep

(* IDBDatabase.transaction(). *)
LEMMA StartTxStep ==
  ASSUME OpenAssumption, NEW p \in Phases, OpenInvariant(p), NEW c \in Requests, StartTx(c)
  PROVE  ConnectionsInvariant'
<1>1. /\ OpenTyped /\ Phased(p) /\ Connections /\ Processed(p) /\ Queued /\ Answers /\ Owned /\ Told(p) /\ InOrder(timerq)
      /\ Block(timerq, p, Width(p))
  BY DEF OpenInvariant
<1>2. /\ conn[c].shown /\ ~conn[c].closing /\ ~(upgrade # "none" /\ busy = c)
      /\ conn' = [conn EXCEPT ![c].txs = @ + 1]
      /\ UNCHANGED <<data, conns, queue, busy, left, waiting, upgrade, old, events, timerq>>
  BY DEF StartTx
<1>3. conn[c] \in Connection /\ conn[c].txs + 1 \in Nat
  BY <1>1 DEF OpenTyped, Connection
<1>4. [conn[c] EXCEPT !.txs = @ + 1] \in Connection
  BY <1>3, ConnectionChanged
<1>5. conn' \in [Requests -> Connection]
  BY <1>1, <1>2, <1>4 DEF OpenTyped
<1>6. /\ conn'[c].version = conn[c].version /\ conn'[c].closing = conn[c].closing /\ conn'[c].closed = conn[c].closed
      /\ \A r \in Requests \ {c} : conn'[r] = conn[r] /\ events'[r] = events[r]
  BY <1>1, <1>2 DEF OpenTyped, Connection
<1>7. ~conn[c].closed
  BY <1>1, <1>2 DEF Connections
<1>8. ~Unused(c) /\ ~Fresh(conn[c])
  BY <1>2 DEF Unused, Fresh
<1>9. c \notin Range(queue) /\ events'[c] # <<"idle">>
  BY <1>1, <1>2, <1>8 DEF Queued, Connections
<1>10. c # busy
  <2>1. p # "free" => p \in {"run", "versionchange", "announced", "waiting", "alone"} \/ upgrade # "none"
    BY <1>1, PhaseNames DEF Phased
  <2>2. QED  BY <1>1, <1>2, <1>8, <2>1 DEF Phased, Processed, Unused, OpenAssumption
<1>11. p # "free" => busy \in Requests
  BY <1>1 DEF Phased, OpenTyped
<1>12. Connections' /\ Processed(p)' /\ Queued'
  BY <1>1, <1>2, <1>5, <1>6, <1>7, <1>9, <1>10, <1>11, OtherChanged
<1>13. OpenTyped'
  BY <1>1, <1>2, <1>5 DEF OpenTyped
<1>14. Block(timerq', p, Width(p)') /\ Phased(p)' /\ Answers' /\ Owned' /\ Told(p)' /\ InOrder(timerq')
  BY <1>1, <1>2 DEF Width, Phased, Answers, Owned, Told
<1>15. OpenInvariant(p)'
  BY <1>12, <1>13, <1>14 DEF OpenInvariant
<1>16. QED  BY <1>15 DEF ConnectionsInvariant

(* A new request: nothing refers to it yet. *)
LEMMA Unheard ==
  ASSUME OpenAssumption, NEW p \in Phases, OpenInvariant(p), NEW r \in Requests, events[r] = <<"idle">>
  PROVE  /\ Unused(r) /\ r # busy /\ r \notin Range(queue)
         /\ \A task \in Range(timerq) : task.kind \in Outcomes \union {"blocked"} => task.of # r
<1>1. OpenTyped /\ Phased(p) /\ Connections /\ Queued /\ Answers /\ Told(p)
  BY DEF OpenInvariant
<1>2. events[r] \notin Early \union Shown /\ events[r] # << >>
  BY NotIdle DEF Early
<1>3. Unused(r) /\ r \notin Range(queue)
  BY <1>1, <1>2 DEF Connections, Queued
<1>4. r # busy
  BY <1>1, <1>2, PhaseNames DEF Phased, Told, OpenAssumption
<1>5. \A task \in Range(timerq) : task.kind \in Outcomes \union {"blocked"} => task.of # r
  BY <1>1, <1>2, <1>4 DEF Answers, Told
<1>6. QED  BY <1>3, <1>4, <1>5

(* indexedDB.open() and deleteDatabase(): enqueueConn. *)
LEMMA RequestStep ==
  ASSUME OpenAssumption, NEW p \in Phases, OpenInvariant(p), NEW r \in Requests, Request(r)
  PROVE  ConnectionsInvariant'
<1>1. /\ OpenTyped /\ Phased(p) /\ Connections /\ Processed(p) /\ Queued /\ Answers /\ Owned /\ Told(p) /\ InOrder(timerq)
      /\ Block(timerq, p, Width(p))
  BY DEF OpenInvariant
<1>2. /\ events[r] = <<"idle">> /\ events' = [events EXCEPT ![r] = << >>]
      /\ UNCHANGED <<data, conn, conns, left, waiting, upgrade, old>>
  BY DEF Request
<1>3. /\ Unused(r) /\ r # busy /\ r \notin Range(queue)
      /\ \A task \in Range(timerq) : task.kind \in Outcomes \union {"blocked"} => task.of # r
  BY <1>2, Unheard
<1>4. /\ events' \in [Requests -> {<<"idle">>} \union Early \union Shown \union Ended]
      /\ events'[r] = << >> /\ \A c \in Requests \ {r} : events'[c] = events[c]
  BY <1>1, <1>2 DEF OpenTyped, Early
<1>5. /\ Range(timerq) \subseteq Tasks /\ Range(queue) \subseteq Requests /\ DOMAIN timerq = 1..Len(timerq)
      /\ timerq \in Seq(Tasks) /\ queue \in Seq(Requests)
  BY <1>1, RangeType DEF OpenTyped
<1>6. \A task \in Range(timerq) : task.kind \in Outcomes \union {"blocked"} => task.of \in Requests \ {r}
  BY <1>3, <1>5 DEF Tasks
<1>7. \A c \in Requests : Unused(c)' = Unused(c)
  BY <1>2 DEF Unused
<1>8. \A c \in Requests :
        /\ conn'[c].closed => conn'[c].closing /\ c \notin conns' /\ conn'[c].txs = 0
        /\ events'[c] = <<"idle">> => Unused(c)'
        /\ c \in conns' /\ c # busy /\ ~conn'[c].closing => c # r /\ conn'[c].version = data'
  <2>1. << >> # <<"idle">>
    OBVIOUS
  <2>2. QED  BY <1>1, <1>2, <1>3, <1>4, <1>7, <2>1 DEF Connections, Unused
<1>9. CASE busy = None
  <2>1. busy' = r /\ queue' = << >> /\ timerq' = Append(timerq, Task("run", r))
    <3>1. Pump(<<r>>, timerq) /\ <<r>> # << >> /\ Head(<<r>>) = r /\ Tail(<<r>>) = << >>
      BY <1>9 DEF Request
    <3>2. QED  BY <3>1 DEF Pump
  <2>2. p = "free" /\ left = 0 /\ waiting = None /\ upgrade = "none"
    BY <1>1, <1>9 DEF Phased
  <2>3. Block(timerq, p, 0)
    BY <1>1, <2>2, PhaseNames DEF Width
  <2>4. \A task \in Range(timerq) : task.kind \notin Carrying
    <3>1. \A n \in 1..Len(timerq) : timerq[n].kind \notin Carrying
      BY <1>5, <2>3, BlockNone
    <3>2. QED  BY <1>5, <3>1 DEF Range
  <2>5. \A task \in Range(timerq) : task.kind \in Outcomes
    BY <1>1, <1>5, <2>2, <2>4 DEF Told, Tasks
  <2>6. /\ Task("run", r) \in Tasks /\ Task("run", r).kind = "run" /\ Task("run", r).of = r
        /\ "run" \in Phases /\ "run" \in Carrying /\ "run" \notin Outcomes
    BY TaskType, PhaseNames
  <2>7. timerq' \in Seq(Tasks) /\ Range(timerq') = Range(timerq) \union {Task("run", r)}
    BY <1>5, <2>1, <2>6, RangeAdded
  <2>8. Block(timerq', "run", Width("run")')
    <3>1. Block(timerq', "run", 1)
      BY <1>5, <2>1, <2>3, <2>6, BlockOfOne
    <3>2. Width("run")' = 1
      BY <2>6 DEF Width
    <3>3. QED  BY <3>1, <3>2
  <2>9. InOrder(timerq')
    BY <1>1, <1>5, <2>1, <2>6, OrderAdded
  <2>10. OpenTyped'
    BY <1>1, <1>2, <1>4, <2>1, <2>7 DEF OpenTyped
  <2>11. Connections'
    <3>1. None \notin Requests
      BY DEF OpenAssumption
    <3>2. QED  BY <1>8, <1>9, <2>1, <3>1 DEF Connections
  <2>12. Phased("run")' /\ Processed("run")'
    BY <1>2, <1>3, <1>7, <2>1, <2>2 DEF Phased, Processed, Upgrading, OpenAssumption
  <2>13. Queued'
    <3>1. Range(<< >>) = {} /\ IsInjective(<< >>)
      BY DEF Range, IsInjective
    <3>2. QED  BY <2>1, <3>1 DEF Queued
  <2>14. Answers'
    <3>1. Range(<< >>) = {}
      BY DEF Range
    <3>2. QED  BY <1>1, <1>4, <1>6, <2>1, <2>6, <2>7, <3>1 DEF Answers
  <2>15. Owned' /\ Told("run")'
    <3>1. \A o \in Outcomes : o # "blocked" /\ o \notin Carrying
      BY PhaseNames
    <3>2. QED  BY <1>4, <2>1, <2>5, <2>6, <2>7, <3>1 DEF Owned, Told
  <2>16. OpenInvariant("run")'
    BY <2>7, <2>8, <2>9, <2>10, <2>11, <2>12, <2>13, <2>14, <2>15 DEF OpenInvariant
  <2>17. QED  BY <2>6, <2>16 DEF ConnectionsInvariant
<1>10. CASE busy # None
  <2>1. queue' = Append(queue, r) /\ busy' = busy /\ timerq' = timerq
    BY <1>10 DEF Request
  <2>2. /\ queue' \in Seq(Requests) /\ Range(queue') = Range(queue) \union {r}
        /\ IsInjective(queue) => IsInjective(queue')
    BY <1>3, <1>5, <2>1, RangeAdded
  <2>3. OpenTyped'
    BY <1>1, <1>2, <1>4, <2>1, <2>2 DEF OpenTyped
  <2>4. busy \in Requests \ {r}
    BY <1>1, <1>3, <1>10 DEF OpenTyped
  <2>5. Connections'
    BY <1>8, <2>1 DEF Connections
  <2>6. Block(timerq', p, Width(p)') /\ Phased(p)' /\ InOrder(timerq') /\ Owned'
    BY <1>1, <1>2, <2>1 DEF Width, Phased, Owned
  <2>7. Processed(p)'
    BY <1>1, <1>2, <1>7, <2>1, <2>4 DEF Processed
  <2>8. Queued'
    BY <1>1, <1>3, <1>4, <1>5, <1>7, <1>10, <2>1, <2>2 DEF Queued
  <2>9. Answers'
    BY <1>1, <1>4, <1>6, <2>1, <2>2 DEF Answers
  <2>10. Told(p)'
    BY <1>1, <1>4, <2>1, <2>4 DEF Told
  <2>11. OpenInvariant(p)'
    BY <2>1, <1>1, <2>3, <2>5, <2>6, <2>7, <2>8, <2>9, <2>10 DEF OpenInvariant
  <2>12. QED  BY <2>11 DEF ConnectionsInvariant
<1>11. QED  BY <1>9, <1>10


-----------------------------------------------------------------------------
(* The invariant. *)
LEMMA OpenStart ==
  ASSUME OpenAssumption, OpenInit
  PROVE  ConnectionsInvariant
<1>1. /\ data = None /\ conns = {} /\ queue = << >> /\ busy = None /\ left = 0 /\ waiting = None
      /\ upgrade = "none" /\ old = 0 /\ timerq = << >> /\ conn = [r \in Requests |-> NoConn]
      /\ events = [r \in Requests |-> <<"idle">>]
  BY DEF OpenInit
<1>2. Range(<< >>) = {} /\ IsInjective(<< >>) /\ Len(<< >>) = 0 /\ << >> \in Seq(Tasks) /\ << >> \in Seq(Requests)
  BY DEF Range, IsInjective
<1>3. NoConn \in Connection /\ Fresh(NoConn)
  BY DEF NoConn, Connection, Fresh
<1>4. OpenTyped
  BY <1>1, <1>2, <1>3 DEF OpenTyped
<1>5. Block(timerq, "free", Width("free"))
  <2>1. Width("free") = 0
    BY PhaseNames DEF Width
  <2>2. QED  BY <1>1, <1>2, <2>1 DEF Block
<1>6. Phased("free") /\ Processed("free")
  BY <1>1 DEF Phased, Processed, Upgrading
<1>7. Connections
  BY <1>1, <1>3 DEF Connections, Unused, Fresh
<1>8. Queued /\ Answers /\ Owned /\ Told("free") /\ InOrder(timerq)
  BY <1>1, <1>2 DEF Queued, Answers, Owned, Told, InOrder
<1>9. OpenInvariant("free") /\ "free" \in Phases
  BY <1>4, <1>5, <1>6, <1>7, <1>8, PhaseNames DEF OpenInvariant
<1>10. QED  BY <1>9 DEF ConnectionsInvariant

LEMMA OpenStep ==
  ASSUME OpenAssumption, ConnectionsInvariant, [OpenNext]_openVars
  PROVE  ConnectionsInvariant'
<1>1. PICK p \in Phases : OpenInvariant(p)
  BY DEF ConnectionsInvariant
<1>2. CASE \E r \in Requests : RunOpen(r) \/ RunDelete(r) \/ VersionChange(r) \/ Announced(r) \/ Blocked(r)
  BY <1>1, <1>2, RunOpenStep, RunDeleteStep, VersionChangeStep, AnnouncedStep, BlockedStep
<1>3. CASE \E r \in Requests : \/ Upgrade(r) \/ OpenDelete(r) \/ UpgradeNeeded(r) \/ UpgradeAborted(r)
                               \/ Final(r) \/ FinishTx(r)
  BY <1>1, <1>3, UpgradeStep, OpenDeleteStep, UpgradeNeededStep, UpgradeAbortedStep, FinalStep, FinishTxStep
<1>4. CASE UpgradeCommits \/ UpgradeAborts
  BY <1>1, <1>4, UpgradeCommitsStep, UpgradeAbortsStep
<1>5. CASE \E r \in Requests : Request(r) \/ Close(r) \/ StartTx(r)
  BY <1>1, <1>5, RequestStep, CloseStep, StartTxStep
<1>6. CASE UNCHANGED openVars
  <2>1. UNCHANGED <<data, conn, conns, queue, busy, left, waiting, upgrade, old, events, timerq>>
    BY <1>6 DEF openVars
  <2>2. OpenInvariant(p)'
    BY <1>1, <2>1 DEF OpenInvariant, OpenTyped, Phased, Connections, Processed, Queued, Answers, Owned, Told,
                      Width, Unused
  <2>3. QED  BY <2>2 DEF ConnectionsInvariant
<1>7. QED  BY <1>2, <1>3, <1>4, <1>5, <1>6 DEF OpenNext, Engine

-----------------------------------------------------------------------------
(* What the invariant says of the properties. *)

LEMMA OrderOfEvents ==
  ASSUME OpenTyped
  PROVE  EventOrder
<1>1. /\ \A event \in Events : <<event>> \in Seq(Events)
      /\ \A heard \in Seq(Events), event \in Events : Append(heard, event) = heard \o <<event>>
      /\ \A heard \in Seq(Events) : heard \o << >> = heard
  <2>1. \A heard \in Seq(Events), event \in Events : Append(heard, event) = heard \o <<event>>
    BY AppendIsConcat
  <2>2. \A heard \in Seq(Events) : heard \o << >> = heard
    BY ConcatEmptySeq
  <2>3. QED  BY <2>1, <2>2
<1>2. /\ "upgradeneeded" \in Events /\ \A outcome \in Outcomes : outcome \in Events
      /\ \A b \in Early : b \in {<< >>, <<"blocked">>} /\ b \in Seq(Events)
  BY NotIdle DEF Events, Early
<1>3. ASSUME NEW heard \in Early \union Shown
      PROVE  /\ heard \in Seq(Events)
             /\ \E b \in Early, u \in {<< >>, <<"upgradeneeded">>} : heard = b \o u
  <2>1. CASE heard \in Early
    BY <1>1, <1>2, <2>1
  <2>2. CASE heard \in Shown
    <3>1. PICK b \in Early : heard = Append(b, "upgradeneeded")
      BY <2>2 DEF Shown
    <3>2. heard = b \o <<"upgradeneeded">>
      BY <1>1, <1>2, <3>1
    <3>3. QED  BY <2>2, <3>2, NotIdle
  <2>3. QED  BY <2>1, <2>2
<1>4. ASSUME NEW heard \in Early \union Shown
      PROVE  \E b \in Early, u \in {<< >>, <<"upgradeneeded">>} : heard = b \o u \o << >>
  <2>1. PICK b \in Early, u \in {<< >>, <<"upgradeneeded">>} : heard = b \o u
    BY <1>3
  <2>2. heard = (b \o u) \o << >>
    BY <1>1, <1>3, <2>1
  <2>3. QED  BY <2>2
<1>5. ASSUME NEW heard \in Ended
      PROVE  \E b \in Early, u \in {<< >>, <<"upgradeneeded">>}, outcome \in Outcomes : heard = b \o u \o <<outcome>>
  <2>1. PICK outcome \in Outcomes, before \in Early \union Shown : heard = Append(before, outcome)
    BY <1>5 DEF Ended
  <2>2. PICK b \in Early, u \in {<< >>, <<"upgradeneeded">>} : before = b \o u
    BY <1>3
  <2>3. heard = (b \o u) \o <<outcome>>
    BY <1>1, <1>2, <1>3, <2>1, <2>2
  <2>4. QED  BY <2>3
<1>6. ASSUME NEW r \in Requests, events[r] # <<"idle">>
      PROVE  \E b \in {<< >>, <<"blocked">>}, u \in {<< >>, <<"upgradeneeded">>},
                e \in {<< >>, <<"success">>, <<"error">>} : events[r] = b \o u \o e
  <2>1. \A outcome \in Outcomes : <<outcome>> \in {<< >>, <<"success">>, <<"error">>}
    BY DEF Outcomes
  <2>2. CASE events[r] \in Early \union Shown
    BY <1>2, <1>4, <2>2
  <2>3. CASE events[r] \in Ended
    BY <1>2, <1>5, <2>1, <2>3
  <2>4. QED  BY <1>6, <2>2, <2>3 DEF OpenTyped
<1>7. QED  BY <1>6 DEF EventOrder

LEMMA Consistent ==
  ASSUME OpenAssumption, ConnectionsInvariant
  PROVE  ConnectionsConsistent
<1>1. PICK p \in Phases : OpenInvariant(p)
  BY DEF ConnectionsInvariant
<1>2. OpenTyped /\ Phased(p) /\ Connections /\ Processed(p)
  BY <1>1 DEF OpenInvariant
<1>3. OpenTypeOK
  <2>1. Cardinality(Requests) \in Nat
    BY FS_CardinalityType DEF OpenAssumption
  <2>2. left \in 0..Cardinality(Requests)
    BY <1>2, <2>1 DEF Phased
  <2>3. QED  BY <1>2, <2>2 DEF OpenTyped, Phased, Connections, OpenTypeOK
<1>4. UpgradeAlone
  BY <1>2 DEF Phased, Processed, Upgrading, UpgradeAlone
<1>5. ConnectionVersion
  <2> SUFFICES ASSUME NEW c \in conns, conn[c].shown, ~conn[c].closing, upgrade # "aborting"
               PROVE  conn[c].version = data
    BY DEF ConnectionVersion
  <2>1. c \in Requests
    BY <1>2 DEF OpenTyped
  <2>2. CASE c # busy
    BY <1>2, <2>1, <2>2 DEF Connections
  <2>3. CASE c = busy
    <3>1. p \in {"upgradeneeded", "running"}
      BY <1>2, <2>1, <2>3, PhaseNames DEF Phased, Processed, Unused, Fresh, OpenAssumption
    <3>2. QED  BY <1>2, <2>3, <3>1 DEF Processed
  <2>4. QED  BY <2>2, <2>3
<1>6. EventOrder
  BY <1>2, OrderOfEvents
<1>7. QED  BY <1>3, <1>4, <1>5, <1>6 DEF ConnectionsConsistent

-----------------------------------------------------------------------------
(* In every run, whatever requests are made and in whatever order timers,  *)
(* page and transactions take turns: an upgrade has the database to itself *)
(* until it is over, a connection the page holds has the version of the    *)
(* database, and the events of a request come once each and in order       *)
(* (enqueueConn, fireVersionChange, waitClosed, maybeClosed, abortUpgrade). *)
THEOREM DatabaseOpenedSafely ==
  ASSUME OpenAssumption
  PROVE  OpenSpec => []ConnectionsConsistent
<1>1. OpenInit => ConnectionsInvariant
  BY OpenStart
<1>2. ConnectionsInvariant /\ [OpenNext]_openVars => ConnectionsInvariant'
  BY OpenStep
<1>3. ConnectionsInvariant => ConnectionsConsistent
  BY Consistent
<1>4. QED  BY <1>1, <1>2, <1>3, PTL DEF OpenSpec

=============================================================================
