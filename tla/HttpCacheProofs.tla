--------------------------- MODULE HttpCacheProofs ---------------------------
(***************************************************************************)
(* Both tiers of the HTTP cache are accounted for, every entry can be      *)
(* reached, and a slot finds the file its version was written to, whatever *)
(* the requests, the budgets, the faults and the order of the file jobs.   *)
(***************************************************************************)
EXTENDS HttpCache, FiniteSetTheorems, SequenceTheorems, TLAPS

(***************************************************************************)
(* What the operators of HttpCache return: sums of costs, LRU maps, and    *)
(* the operations on the index.                                            *)
(***************************************************************************)

(* Every non-empty set of natural numbers has a least element. *)
LEMMA LeastNatural ==
  ASSUME NEW N \in SUBSET Nat, N # {}
  PROVE  \E least \in N : \A n \in N : least <= n
<1> DEFINE Below == {0..n : n \in N}
<1>1. Below \subseteq FiniteSubsetsOf(Nat) /\ Below # {}
  <2>1. ASSUME NEW n \in N PROVE 0..n \in SUBSET Nat /\ IsFiniteSet(0..n)
    BY FS_Interval
  <2> QED
    BY <2>1 DEF FiniteSubsetsOf
<1>2. IsWellFoundedOn(StrictSubsetOrdering(Nat), FiniteSubsetsOf(Nat))
  BY FS_StrictSubsetOrderingWellFounded
<1>3. PICK B \in Below : \A C \in Below : ~(<<C, B>> \in StrictSubsetOrdering(Nat))
  BY <1>1, <1>2, WFMin
<1>4. PICK least \in N : B = 0..least
  OBVIOUS
<1>5. ASSUME NEW n \in N PROVE least <= n
  <2> SUFFICES ASSUME n < least PROVE FALSE
    BY <1>4
  <2>1. 0..n \in Below /\ 0..n \subseteq 0..least /\ 0..n # 0..least
    <3>1. least \in 0..least /\ least \notin 0..n
      OBVIOUS
    <3> QED
      BY <3>1
  <2>2. <<0..n, 0..least>> \in (SUBSET Nat) \X (SUBSET Nat)
    OBVIOUS
  <2>3. <<0..n, B>> \in StrictSubsetOrdering(Nat)
    BY <1>4, <2>1, <2>2 DEF StrictSubsetOrdering
  <2> QED
    BY <1>3, <2>1, <2>3
<1> QED
  BY <1>5

-----------------------------------------------------------------------------
(***************************************************************************)
(* Sums of costs                                                           *)
(***************************************************************************)
Costs(cost, ks) == \A k \in ks : cost[k] \in Nat

(* The bytes of a finite set of keys are finitely many. *)
LEMMA BytesFinite ==
  ASSUME NEW cost, NEW ks, IsFiniteSet(ks), Costs(cost, ks)
  PROVE  IsFiniteSet(Bytes(cost, ks)) /\ Total(cost, ks) \in Nat
<1> DEFINE Blocks == {{k} \X (1..cost[k]) : k \in ks}
           block == [k \in ks |-> {k} \X (1..cost[k])]
<1>1. block \in Surjection(ks, Blocks)
  BY DEF Surjection
<1>2. IsFiniteSet(Blocks)
  BY <1>1, FS_Surjection
<1>3. ASSUME NEW B \in Blocks PROVE IsFiniteSet(B)
  <2>1. PICK k \in ks : B = {k} \X (1..cost[k])
    OBVIOUS
  <2>2. cost[k] \in Nat
    BY DEF Costs
  <2>3. IsFiniteSet({k}) /\ IsFiniteSet(1..cost[k])
    <3>1. 1 \in Int /\ cost[k] \in Int
      BY <2>2
    <3> QED
      BY <3>1, FS_Singleton, FS_Interval
  <2> QED
    BY <2>1, <2>3, FS_Product
<1>4. IsFiniteSet(UNION Blocks)
  BY <1>2, <1>3, FS_UNION
<1> QED
  BY <1>4, FS_CardinalityType DEF Bytes, Total

(* Nothing costs nothing, and one key its own cost. *)
LEMMA TotalOfEmpty == ASSUME NEW cost PROVE Total(cost, {}) = 0
BY FS_EmptySet DEF Total, Bytes

LEMMA TotalOfOne ==
  ASSUME NEW cost, NEW k, cost[k] \in Nat
  PROVE  Total(cost, {k}) = cost[k]
<1>1. Bytes(cost, {k}) = {k} \X (1..cost[k])
  BY DEF Bytes
<1>2. IsFiniteSet({k}) /\ Cardinality({k}) = 1
  BY FS_Singleton
<1>3. IsFiniteSet(1..cost[k]) /\ Cardinality(1..cost[k]) = cost[k]
  BY FS_Interval, SMTT(30)
<1>4. Cardinality({k} \X (1..cost[k])) = Cardinality({k}) * Cardinality(1..cost[k])
  BY <1>2, <1>3, FS_Product
<1>5. Cardinality({k} \X (1..cost[k])) = cost[k]
  BY <1>2, <1>3, <1>4
<1> QED
  BY <1>1, <1>5 DEF Total

(* The costs of two disjoint sets of keys add up. *)
LEMMA TotalOfUnion ==
  ASSUME NEW cost, NEW A, NEW B, IsFiniteSet(A), IsFiniteSet(B), A \cap B = {},
         Costs(cost, A), Costs(cost, B)
  PROVE  Total(cost, A \cup B) = Total(cost, A) + Total(cost, B)
<1>1. Bytes(cost, A \cup B) = Bytes(cost, A) \cup Bytes(cost, B)
  BY DEF Bytes
<1>2. Bytes(cost, A) \cap Bytes(cost, B) = {}
  <2>1. ASSUME NEW b \in Bytes(cost, A), b \in Bytes(cost, B) PROVE FALSE
    <3>1. PICK k \in A : b \in {k} \X (1..cost[k])
      BY DEF Bytes
    <3>2. PICK l \in B : b \in {l} \X (1..cost[l])
      BY <2>1 DEF Bytes
    <3> QED
      BY <3>1, <3>2
  <2> QED
    BY <2>1
<1>3. /\ IsFiniteSet(Bytes(cost, A)) /\ Cardinality(Bytes(cost, A)) \in Nat
      /\ IsFiniteSet(Bytes(cost, B)) /\ Cardinality(Bytes(cost, B)) \in Nat
  BY BytesFinite DEF Total
<1>4. Cardinality(Bytes(cost, A) \cup Bytes(cost, B))
        = Cardinality(Bytes(cost, A)) + Cardinality(Bytes(cost, B))
          - Cardinality(Bytes(cost, A) \cap Bytes(cost, B))
  BY <1>3, FS_Union
<1>5. Cardinality(Bytes(cost, A) \cap Bytes(cost, B)) = 0
  BY <1>2, FS_EmptySet
<1>6. Cardinality(Bytes(cost, A) \cup Bytes(cost, B))
        = Cardinality(Bytes(cost, A)) + Cardinality(Bytes(cost, B))
  BY <1>3, <1>4, <1>5
<1> QED
  BY <1>1, <1>6 DEF Total

(* The cost of what is left when some of the keys go. *)
LEMMA TotalOfRest ==
  ASSUME NEW cost, NEW ks, NEW gone \in SUBSET ks, IsFiniteSet(ks), Costs(cost, ks)
  PROVE  /\ Total(cost, ks \ gone) = Total(cost, ks) - Total(cost, gone)
         /\ Total(cost, ks \ gone) \in Nat
         /\ Total(cost, ks) \in Nat
         /\ Total(cost, gone) \in Nat
<1>1. IsFiniteSet(gone) /\ IsFiniteSet(ks \ gone)
  BY FS_Subset
<1>2. Costs(cost, gone) /\ Costs(cost, ks \ gone)
  BY DEF Costs
<1>3. (ks \ gone) \cup gone = ks /\ (ks \ gone) \cap gone = {}
  OBVIOUS
<1>4. Total(cost, ks) = Total(cost, ks \ gone) + Total(cost, gone)
  <2>1. Total(cost, (ks \ gone) \cup gone) = Total(cost, ks \ gone) + Total(cost, gone)
    BY <1>1, <1>2, <1>3, TotalOfUnion
  <2> QED
    BY <1>3, <2>1, Zenon
<1>5. /\ Total(cost, ks \ gone) \in Nat /\ Total(cost, gone) \in Nat /\ Total(cost, ks) \in Nat
  BY <1>1, <1>2, BytesFinite
<1> QED
  BY <1>4, <1>5

(* Only the costs of the keys matter. *)
LEMMA TotalAgrees ==
  ASSUME NEW cost, NEW other, NEW ks, \A k \in ks : cost[k] = other[k]
  PROVE  Total(cost, ks) = Total(other, ks)
<1>1. Bytes(cost, ks) = Bytes(other, ks)
  BY DEF Bytes
<1> QED
  BY <1>1 DEF Total

(* Keys that cost nothing do not count. *)
LEMMA TotalOfCostly ==
  ASSUME NEW cost, NEW ks, NEW more, ks \subseteq more, \A k \in more \ ks : cost[k] = 0
  PROVE  Total(cost, more) = Total(cost, ks)
<1>1. Bytes(cost, more) = Bytes(cost, ks)
  <2>1. Bytes(cost, ks) \subseteq Bytes(cost, more)
    BY DEF Bytes
  <2>2. ASSUME NEW b \in Bytes(cost, more) PROVE b \in Bytes(cost, ks)
    <3>1. PICK k \in more : b \in {k} \X (1..cost[k])
      BY DEF Bytes
    <3>2. 1..0 = {}
      OBVIOUS
    <3>3. k \in ks
      BY <3>1, <3>2
    <3> QED
      BY <3>1, <3>3 DEF Bytes
  <2> QED
    BY <2>1, <2>2
<1> QED
  BY <1>1 DEF Total

-----------------------------------------------------------------------------
(***************************************************************************)
(* LRU maps                                                                *)
(***************************************************************************)
(* The sequence lists every key of ks once, and no other key. *)
Enumerates(lru, ks) ==
  /\ lru \in Seq(VKeys)
  /\ \A m, n \in 1..Len(lru) : lru[m] = lru[n] => m = n
  /\ ks = {lru[n] : n \in 1..Len(lru)}

(* Finitely many keys are listed, as many as the sequence is long. *)
LEMMA EnumeratedListed ==
  ASSUME NEW lru, NEW ks, Enumerates(lru, ks)
  PROVE  IsFiniteSet(ks) /\ ks \subseteq VKeys /\ Listed(lru, ks)
<1>1. Len(lru) \in Nat /\ DOMAIN lru = 1..Len(lru) /\ lru \in [1..Len(lru) -> VKeys]
  BY LenProperties DEF Enumerates
<1>2. lru \in Bijection(1..Len(lru), ks)
  BY <1>1 DEF Enumerates, Bijection, Injection, Surjection, IsInjective
<1>3. IsFiniteSet(1..Len(lru)) /\ Cardinality(1..Len(lru)) = Len(lru)
  BY <1>1, FS_Interval, SMTT(30)
<1>4. IsFiniteSet(ks) /\ Cardinality(ks) = Len(lru)
  BY <1>2, <1>3, FS_Bijection DEF ExistsBijection
<1> QED
  BY <1>1, <1>4 DEF Listed, Enumerates

LEMMA EmptyEnumerates == Enumerates(<< >>, {})
BY DEF Enumerates

LEMMA AppendEnumerates ==
  ASSUME NEW lru, NEW ks, Enumerates(lru, ks), NEW k \in VKeys, k \notin ks
  PROVE  Enumerates(Append(lru, k), ks \cup {k})
<1> DEFINE longer == Append(lru, k)
<1>1. lru \in Seq(VKeys) /\ Len(lru) \in Nat /\ \A n \in 1..Len(lru) : lru[n] \in ks
  BY LenProperties DEF Enumerates
<1>2. /\ longer \in Seq(VKeys) /\ Len(longer) = Len(lru) + 1
      /\ \A n \in 1..Len(lru) : longer[n] = lru[n]
      /\ longer[Len(lru) + 1] = k
  BY <1>1, AppendProperties
<1>3. \A n \in 1..Len(longer) : n \in 1..Len(lru) \/ n = Len(lru) + 1
  BY <1>1, <1>2
<1>4. ASSUME NEW m \in 1..Len(longer), NEW n \in 1..Len(longer), longer[m] = longer[n]
      PROVE  m = n
  BY <1>1, <1>2, <1>3, <1>4 DEF Enumerates
<1>5. {longer[n] : n \in 1..Len(longer)} = {lru[n] : n \in 1..Len(lru)} \cup {k}
  <2>1. 1..Len(longer) = 1..Len(lru) \cup {Len(lru) + 1}
    BY <1>1, <1>2
  <2> QED
    BY <1>2, <2>1
<1> QED
  BY <1>2, <1>4, <1>5 DEF Enumerates

(* A map whose oldest entries were popped. *)
LEMMA RestEnumerates ==
  ASSUME NEW lru, NEW ks, Enumerates(lru, ks), NEW n \in 0..Len(lru)
  PROVE  Enumerates(SubSeq(lru, n + 1, Len(lru)), ks \ {lru[j] : j \in 1..n})
<1> DEFINE rest == SubSeq(lru, n + 1, Len(lru))
<1>1. /\ lru \in Seq(VKeys) /\ Len(lru) \in Nat /\ n \in Nat /\ n <= Len(lru)
      /\ \A j \in 1..Len(lru) : lru[j] \in VKeys
  BY LenProperties DEF Enumerates
<1>2. /\ rest \in Seq(VKeys)
      /\ Len(rest) = Len(lru) - n
      /\ \A j \in 1..(Len(lru) - n) : rest[j] = lru[n + j]
  <2>1. \A j \in (n + 1)..Len(lru) : lru[j] \in VKeys
    BY <1>1
  <2>2. n + 1 \in Int /\ Len(lru) \in Int
    BY <1>1
  <2>3. /\ rest \in Seq(VKeys)
        /\ Len(rest) = IF n + 1 <= Len(lru) THEN Len(lru) - (n + 1) + 1 ELSE 0
        /\ \A j \in 1..(Len(lru) - (n + 1) + 1) : rest[j] = lru[n + 1 + j - 1]
    BY <2>1, <2>2, SubSeqProperties
  <2> HIDE DEF rest
  <2>4. Len(rest) = Len(lru) - n
    BY <1>1, <2>3
  <2>5. ASSUME NEW j \in 1..(Len(lru) - n) PROVE rest[j] = lru[n + j]
    <3>1. j \in 1..(Len(lru) - (n + 1) + 1) /\ n + 1 + j - 1 = n + j
      BY <1>1
    <3> QED
      BY <2>3, <3>1
  <2> QED
    BY <2>3, <2>4, <2>5
<1>3. \A j \in 1..Len(rest) : n + j \in 1..Len(lru) /\ rest[j] = lru[n + j]
  BY <1>1, <1>2
<1>4. ASSUME NEW j \in 1..Len(rest), NEW m \in 1..Len(rest), rest[j] = rest[m] PROVE j = m
  <2>1. n + j = n + m
    BY <1>3, <1>4 DEF Enumerates
  <2> QED
    BY <1>1, <2>1
<1>5. ASSUME NEW k PROVE k \in {rest[j] : j \in 1..Len(rest)} <=> k \in ks \ {lru[j] : j \in 1..n}
  <2>1. ASSUME NEW j \in 1..Len(rest), k = rest[j] PROVE k \in ks \ {lru[i] : i \in 1..n}
    <3>1. n + j \in 1..Len(lru) /\ k = lru[n + j]
      BY <1>3, <2>1
    <3>2. ASSUME NEW i \in 1..n, k = lru[i] PROVE FALSE
      <4>1. i \in 1..Len(lru) /\ i # n + j
        BY <1>1
      <4> QED
        BY <3>1, <3>2, <4>1 DEF Enumerates
    <3> QED
      BY <3>1, <3>2 DEF Enumerates
  <2>2. ASSUME k \in ks \ {lru[j] : j \in 1..n} PROVE \E j \in 1..Len(rest) : k = rest[j]
    <3>1. PICK i \in 1..Len(lru) : k = lru[i]
      BY <2>2 DEF Enumerates
    <3>2. i \notin 1..n
      BY <2>2, <3>1
    <3>3. i - n \in 1..Len(rest) /\ n + (i - n) = i
      BY <1>1, <1>2, <3>2
    <3> QED
      BY <1>3, <3>1, <3>3
  <2> QED
    BY <2>1, <2>2
<1> QED
  BY <1>2, <1>4, <1>5 DEF Enumerates

(* The map without some keys, computed entry by entry. *)
Kept(lru, ks, f, m) ==
  f = [n \in 0..m |-> IF n = 0 THEN << >>
                      ELSE IF lru[n] \in ks THEN f[n - 1] ELSE Append(f[n - 1], lru[n])]

LEMMA KeptExists ==
  ASSUME NEW lru, NEW ks, NEW m \in Nat
  PROVE  \E f : Kept(lru, ks, f, m)
<1> DEFINE Bad == {n \in Nat : ~ \E f : Kept(lru, ks, f, n)}
<1> SUFFICES ASSUME Bad # {} PROVE FALSE
  OBVIOUS
<1>1. PICK b \in Bad : \A n \in Bad : b <= n
  <2> HIDE DEF Bad
  <2>1. Bad \in SUBSET Nat
    BY DEF Bad
  <2> QED
    BY <2>1, LeastNatural
<1>2. Kept(lru, ks, [n \in 0..0 |-> << >>], 0)
  <2>1. \A n \in 0..0 : n = 0
    OBVIOUS
  <2> QED
    BY <2>1 DEF Kept
<1>3. b \in Nat /\ b # 0 /\ b - 1 \in Nat /\ b - 1 \notin Bad
  BY <1>1, <1>2
<1>4. PICK f : Kept(lru, ks, f, b - 1)
  BY <1>3
<1> DEFINE last == IF lru[b] \in ks THEN f[b - 1] ELSE Append(f[b - 1], lru[b])
           g == [n \in 0..b |-> IF n = b THEN last ELSE f[n]]
<1>5. ASSUME NEW n \in 0..b
      PROVE  g[n] = IF n = 0 THEN << >>
                    ELSE IF lru[n] \in ks THEN g[n - 1] ELSE Append(g[n - 1], lru[n])
  <2>1. CASE n = b
    <3>1. g[n] = last /\ g[n - 1] = f[b - 1] /\ n # 0
      BY <1>3, <2>1
    <3> QED
      BY <2>1, <3>1
  <2>2. CASE n = 0
    BY <1>3, <1>4, <2>2 DEF Kept
  <2>3. CASE n # b /\ n # 0
    <3>1. n \in 0..(b - 1) /\ n - 1 \in 0..(b - 1) /\ n - 1 # b /\ n - 1 \in 0..b
      BY <1>3, <2>3
    <3>2. g[n] = f[n] /\ g[n - 1] = f[n - 1]
      BY <2>3, <3>1
    <3>3. f[n] = IF lru[n] \in ks THEN f[n - 1] ELSE Append(f[n - 1], lru[n])
      BY <1>4, <2>3, <3>1 DEF Kept
    <3> QED
      BY <2>3, <3>2, <3>3
  <2> QED
    BY <2>1, <2>2, <2>3
<1>6. Kept(lru, ks, g, b)
  <2>1. g = [n \in 0..b |-> g[n]]
    OBVIOUS
  <2> HIDE DEF g
  <2> QED
    BY <1>5, <2>1 DEF Kept
<1> QED
  BY <1>1, <1>6

LEMMA WithoutEnumerates ==
  ASSUME NEW lru, NEW ks, Enumerates(lru, ks), NEW gone
  PROVE  Enumerates(Without(lru, gone), ks \ gone)
<1> DEFINE f == CHOOSE f : Kept(lru, gone, f, Len(lru))
           Seen(n) == {lru[j] : j \in 1..n}
           Bad == {n \in 0..Len(lru) : ~ Enumerates(f[n], Seen(n) \ gone)}
<1>1. Len(lru) \in Nat /\ \A n \in 1..Len(lru) : lru[n] \in VKeys
  BY LenProperties DEF Enumerates
<1>2. Kept(lru, gone, f, Len(lru))
  BY <1>1, KeptExists
<1>3. Without(lru, gone) = f[Len(lru)]
  BY <1>2 DEF Without, Kept
<1> HIDE DEF f
<1>4. Bad = {}
  <2> SUFFICES ASSUME Bad # {} PROVE FALSE
    OBVIOUS
  <2>1. Bad \in SUBSET Nat
    BY <1>1
  <2> HIDE DEF Bad
  <2>2. PICK b \in Bad : \A n \in Bad : b <= n
    BY <2>1, LeastNatural
  <2>3. b \in 0..Len(lru) /\ ~ Enumerates(f[b], Seen(b) \ gone)
    BY <2>2 DEF Bad
  <2>4. b # 0
    <3>1. f[0] = << >> /\ Seen(0) = {}
      BY <1>1, <1>2 DEF Kept
    <3>2. Seen(0) \ gone = {}
      BY <3>1
    <3> QED
      BY <2>3, <3>1, <3>2, EmptyEnumerates
  <2>5. b - 1 \in 0..Len(lru) /\ b - 1 \notin Bad /\ b \in 1..Len(lru)
    BY <1>1, <2>2, <2>3, <2>4
  <2>6. Enumerates(f[b - 1], Seen(b - 1) \ gone)
    BY <2>5 DEF Bad
  <2>7. Seen(b) = Seen(b - 1) \cup {lru[b]}
    <3>1. 1..b = 1..(b - 1) \cup {b}
      BY <1>1, <2>5
    <3> QED
      BY <3>1
  <2>8. f[b] = IF lru[b] \in gone THEN f[b - 1] ELSE Append(f[b - 1], lru[b])
    BY <1>2, <2>3, <2>4 DEF Kept
  <2>9. CASE lru[b] \in gone
    <3>1. Seen(b) \ gone = Seen(b - 1) \ gone
      BY <2>7, <2>9
    <3> QED
      BY <2>3, <2>6, <2>8, <2>9, <3>1
  <2>10. CASE lru[b] \notin gone
    <3>1. lru[b] \notin Seen(b - 1)
      <4>1. ASSUME NEW j \in 1..(b - 1), lru[j] = lru[b] PROVE FALSE
        <5>1. j \in 1..Len(lru) /\ j # b
          BY <1>1, <2>5
        <5> QED
          BY <2>5, <4>1, <5>1 DEF Enumerates
      <4> QED
        BY <4>1
    <3>2. Seen(b) \ gone = (Seen(b - 1) \ gone) \cup {lru[b]}
      BY <2>7, <2>10
    <3>3. Enumerates(Append(f[b - 1], lru[b]), (Seen(b - 1) \ gone) \cup {lru[b]})
      BY <1>1, <2>5, <2>6, <3>1, AppendEnumerates
    <3> QED
      BY <2>3, <2>8, <2>10, <3>2, <3>3
  <2> QED
    BY <2>9, <2>10
<1>5. Enumerates(f[Len(lru)], Seen(Len(lru)) \ gone)
  <2>1. Len(lru) \in 0..Len(lru)
    BY <1>1
  <2>2. Len(lru) \notin Bad
    BY <1>4
  <2> QED
    BY <2>1, <2>2, Zenon
<1>6. Seen(Len(lru)) = ks
  BY DEF Enumerates
<1> QED
  BY <1>3, <1>5, <1>6

(* Popping stops within the map, and only once what is left fits. *)
LEMMA PopsSuffice ==
  ASSUME NEW lru \in Seq(VKeys), NEW bytes, NEW target, NEW cost
  PROVE  LET n == PopsNeeded(lru, bytes, target, cost)
         IN  /\ n \in 0..Len(lru)
             /\ n = Len(lru) \/ bytes - Total(cost, {lru[j] : j \in 1..n}) <= target
<1> DEFINE fits(n) == n = Len(lru) \/ bytes - Total(cost, {lru[j] : j \in 1..n}) <= target
           Fit == {n \in 0..Len(lru) : fits(n)}
           first(n) == fits(n) /\ \A m \in 0..(n - 1) : ~fits(m)
<1>1. Len(lru) \in Nat
  BY LenProperties
<1>2. Fit \in SUBSET Nat /\ Len(lru) \in Fit
  BY <1>1
<1>3. PICK n \in Fit : \A m \in Fit : n <= m
  <2> HIDE DEF Fit
  <2> QED
    BY <1>2, LeastNatural
<1>4. n \in 0..Len(lru) /\ fits(n)
  BY <1>3
<1>5. \A m \in 0..(n - 1) : ~fits(m)
  <2>1. ASSUME NEW m \in 0..(n - 1), fits(m) PROVE FALSE
    <3>1. m \in 0..Len(lru) /\ ~(n <= m)
      BY <1>1, <1>4
    <3>2. m \in Fit
      BY <2>1, <3>1
    <3> QED
      BY <1>3, <3>1, <3>2
  <2> QED
    BY <2>1
<1>6. PopsNeeded(lru, bytes, target, cost) = CHOOSE m \in 0..Len(lru) : first(m)
  BY DEF PopsNeeded
<1> HIDE DEF fits, Fit
<1>7. \E m \in 0..Len(lru) : first(m)
  BY <1>4, <1>5
<1>8. LET m == PopsNeeded(lru, bytes, target, cost)
      IN  m \in 0..Len(lru) /\ first(m)
  BY <1>6, <1>7, Zenon
<1> QED
  BY <1>8 DEF fits

-----------------------------------------------------------------------------
(***************************************************************************)
(* A tier of the cache: an LRU map of its keys and the sum of their costs  *)
(***************************************************************************)
Tier(lru, bytes, cost, ks) ==
  Enumerates(lru, ks) /\ Costs(cost, ks) /\ bytes = Total(cost, ks)

LEMMA TierTyped ==
  ASSUME NEW lru, NEW bytes, NEW cost, NEW ks, Tier(lru, bytes, cost, ks)
  PROVE  lru \in Seq(VKeys) /\ bytes \in Nat /\ IsFiniteSet(ks) /\ ks \subseteq VKeys
<1>1. IsFiniteSet(ks) /\ ks \subseteq VKeys
  BY EnumeratedListed DEF Tier
<1>2. bytes \in Nat
  BY <1>1, BytesFinite DEF Tier
<1> QED
  BY <1>1, <1>2 DEF Tier, Enumerates

(* What costs the same is the same tier. *)
LEMMA TierAgrees ==
  ASSUME NEW lru, NEW bytes, NEW cost, NEW other, NEW ks, Tier(lru, bytes, cost, ks),
         \A k \in ks : other[k] = cost[k]
  PROVE  Tier(lru, bytes, other, ks)
<1>1. Total(cost, ks) = Total(other, ks)
  BY TotalAgrees
<1> QED
  BY <1>1 DEF Tier, Costs

(* Some keys go, wherever they are in the map. *)
LEMMA TierShrinks ==
  ASSUME NEW lru, NEW bytes, NEW cost, NEW ks, Tier(lru, bytes, cost, ks), NEW gone \in SUBSET ks
  PROVE  /\ Tier(Without(lru, gone), bytes - Total(cost, gone), cost, ks \ gone)
         /\ bytes - Total(cost, gone) <= bytes
<1>1. IsFiniteSet(ks) /\ bytes \in Nat /\ Costs(cost, ks) /\ bytes = Total(cost, ks)
  BY TierTyped DEF Tier
<1>2. Total(cost, ks \ gone) = bytes - Total(cost, gone) /\ Total(cost, gone) \in Nat
  BY <1>1, TotalOfRest
<1>3. Enumerates(Without(lru, gone), ks \ gone)
  BY WithoutEnumerates DEF Tier
<1>4. Costs(cost, ks \ gone)
  BY <1>1 DEF Costs
<1>5. bytes - Total(cost, gone) <= bytes
  BY <1>1, <1>2
<1> QED
  BY <1>2, <1>3, <1>4, <1>5 DEF Tier

(* The n oldest keys go. *)
LEMMA TierPops ==
  ASSUME NEW lru, NEW bytes, NEW cost, NEW ks, Tier(lru, bytes, cost, ks), NEW n \in 0..Len(lru)
  PROVE  LET popped == {lru[j] : j \in 1..n}
         IN  /\ popped \subseteq ks
             /\ Tier(SubSeq(lru, n + 1, Len(lru)), bytes - Total(cost, popped), cost, ks \ popped)
             /\ bytes - Total(cost, popped) \in Nat
             /\ bytes - Total(cost, popped) <= bytes
             /\ n = Len(lru) => bytes - Total(cost, popped) = 0
<1> DEFINE popped == {lru[j] : j \in 1..n}
<1>1. IsFiniteSet(ks) /\ bytes \in Nat /\ Costs(cost, ks) /\ bytes = Total(cost, ks)
  BY TierTyped DEF Tier
<1>2. Len(lru) \in Nat /\ ks = {lru[j] : j \in 1..Len(lru)}
  BY LenProperties DEF Tier, Enumerates
<1>3. popped \subseteq ks
  BY <1>2
<1>4. Enumerates(SubSeq(lru, n + 1, Len(lru)), ks \ popped)
  BY RestEnumerates DEF Tier
<1>5. n = Len(lru) => ks \ popped = {}
  BY <1>2
<1> HIDE DEF popped
<1>6. /\ Total(cost, ks \ popped) = bytes - Total(cost, popped) /\ Total(cost, popped) \in Nat
      /\ Total(cost, ks \ popped) \in Nat
  BY <1>1, <1>3, TotalOfRest
<1>7. Costs(cost, ks \ popped)
  BY <1>1 DEF Costs
<1>8. bytes - Total(cost, popped) \in Nat /\ bytes - Total(cost, popped) <= bytes
  BY <1>1, <1>6
<1>9. n = Len(lru) => bytes - Total(cost, popped) = 0
  BY <1>5, <1>6, TotalOfEmpty
<1>10. Tier(SubSeq(lru, n + 1, Len(lru)), bytes - Total(cost, popped), cost, ks \ popped)
  BY <1>4, <1>6, <1>7 DEF Tier
<1> QED
  BY <1>3, <1>8, <1>9, <1>10 DEF popped

(* A key is added as the most recently used one. *)
LEMMA TierGrows ==
  ASSUME NEW lru, NEW bytes, NEW cost, NEW ks, Tier(lru, bytes, cost, ks),
         NEW k \in VKeys, k \notin ks, cost[k] \in Nat
  PROVE  Tier(Append(lru, k), bytes + cost[k], cost, ks \cup {k})
<1>1. IsFiniteSet(ks) /\ Costs(cost, ks) /\ bytes = Total(cost, ks)
  BY TierTyped DEF Tier
<1>2. IsFiniteSet({k}) /\ Costs(cost, {k}) /\ ks \cap {k} = {}
  BY FS_Singleton DEF Costs
<1>3. Total(cost, ks \cup {k}) = bytes + Total(cost, {k})
  BY <1>1, <1>2, TotalOfUnion
<1>4. Total(cost, {k}) = cost[k]
  BY TotalOfOne
<1>5. Costs(cost, ks \cup {k})
  BY <1>1 DEF Costs
<1>6. Enumerates(Append(lru, k), ks \cup {k})
  BY AppendEnumerates DEF Tier
<1> QED
  BY <1>3, <1>4, <1>5, <1>6 DEF Tier

(* A key of the tier becomes the most recently used one. *)
LEMMA TierTouched ==
  ASSUME NEW lru, NEW bytes, NEW cost, NEW ks, Tier(lru, bytes, cost, ks), NEW k \in ks
  PROVE  Tier(Append(Without(lru, {k}), k), bytes, cost, ks)
<1>1. k \in VKeys
  BY TierTyped
<1>2. Enumerates(Without(lru, {k}), ks \ {k})
  BY WithoutEnumerates DEF Tier
<1>3. Enumerates(Append(Without(lru, {k}), k), (ks \ {k}) \cup {k})
  BY <1>1, <1>2, AppendEnumerates
<1>4. (ks \ {k}) \cup {k} = ks
  OBVIOUS
<1> QED
  BY <1>3, <1>4 DEF Tier

(* One key's copy is replaced: it goes, or becomes the most recently used. *)
LEMMA TierReplaced ==
  ASSUME NEW lru, NEW bytes, NEW cost, NEW other, NEW ks, Tier(lru, bytes, cost, ks),
         NEW k \in VKeys, cost[k] \in Nat, k \notin ks => cost[k] = 0, other[k] \in Nat,
         \A l \in ks \ {k} : other[l] = cost[l]
  PROVE  /\ Tier(Without(lru, {k}), bytes - cost[k], other, ks \ {k})
         /\ Tier(Append(Without(lru, {k}), k), bytes - cost[k] + other[k], other, ks \cup {k})
<1>1. IsFiniteSet(ks) /\ bytes \in Nat /\ Costs(cost, ks) /\ bytes = Total(cost, ks)
  BY TierTyped DEF Tier
<1>2. Enumerates(Without(lru, {k}), ks \ {k})
  BY WithoutEnumerates DEF Tier
<1>3. Total(cost, ks \ {k}) = bytes - cost[k]
  <2>1. CASE k \in ks
    <3>1. {k} \in SUBSET ks /\ Total(cost, {k}) = cost[k]
      BY <2>1, TotalOfOne
    <3> QED
      BY <1>1, <3>1, TotalOfRest
  <2>2. CASE k \notin ks
    <3>1. ks \ {k} = ks
      BY <2>2
    <3>2. Total(cost, ks \ {k}) = bytes
      BY <1>1, <3>1, Zenon
    <3> QED
      BY <1>1, <2>2, <3>2
  <2> QED
    BY <2>1, <2>2
<1>4. Costs(cost, ks \ {k})
  BY <1>1 DEF Costs
<1>5. Tier(Without(lru, {k}), bytes - cost[k], cost, ks \ {k})
  BY <1>2, <1>3, <1>4 DEF Tier
<1>6. Tier(Without(lru, {k}), bytes - cost[k], other, ks \ {k})
  BY <1>5, TierAgrees
<1>7. Tier(Append(Without(lru, {k}), k), bytes - cost[k] + other[k], other, (ks \ {k}) \cup {k})
  <2>1. k \notin ks \ {k}
    OBVIOUS
  <2> QED
    BY <1>6, <2>1, TierGrows
<1>8. (ks \ {k}) \cup {k} = ks \cup {k}
  OBVIOUS
<1> QED
  BY <1>6, <1>7, <1>8

-----------------------------------------------------------------------------
(***************************************************************************)
(* The index                                                               *)
(***************************************************************************)
MemKeys(i) == {k \in VKeys : HasMem(i, k)}
DiskKeys(i) == {k \in VKeys : OnDisk(i, k)}
MemTier(i) == Tier(i.memLru, i.memBytes, MemCost(i), MemKeys(i))
DiskTier(i) == Tier(i.diskLru, i.diskBytes, DiskCost(i), DiskKeys(i))

(* Entries and primary keys refer to each other. *)
Reachable(i) ==
  /\ \A k \in VKeys : i.entries[k] # None =>
       i.primaries[PrimaryOf(k)] # None /\ k \in i.primaries[PrimaryOf(k)].variants
  /\ \A p \in Primaries : i.primaries[p] # None =>
       /\ i.primaries[p].variants # {}
       /\ \A k \in i.primaries[p].variants : i.entries[k] # None /\ PrimaryOf(k) = p

Filled(i) == \A k \in VKeys : i.entries[k] # NewEntry

(* An index between two operations; the budgets are kept by the operations
   that add to a tier. *)
Sound(i) == i \in Index /\ MemTier(i) /\ DiskTier(i) /\ Reachable(i)

LEMMA EntryTyped ==
  ASSUME NEW i \in Index, NEW k \in VKeys
  PROVE  /\ i.entries[k] # None => i.entries[k] \in Entries
         /\ HasMem(i, k) => i.entries[k].mem \in Values
         /\ OnDisk(i, k) => i.entries[k].disk \in Slots
         /\ MemCost(i)[k] \in Nat /\ DiskCost(i)[k] \in Nat
         /\ MemCost(i)[k] = IF HasMem(i, k) THEN i.entries[k].mem.kind.weight ELSE 0
         /\ DiskCost(i)[k] = IF OnDisk(i, k) THEN i.entries[k].disk.size ELSE 0
<1>1. i.entries[k] \in Entries \cup {None}
  BY DEF Index
<1>2. HasMem(i, k) => i.entries[k].mem \in Values
  BY <1>1 DEF HasMem, Entries
<1>3. OnDisk(i, k) => i.entries[k].disk \in Slots
  BY <1>1 DEF OnDisk, Entries
<1>4. \A v \in Values : v.kind.weight \in Nat
  BY CacheAssumption DEF Values, KindType
<1> QED
  BY <1>1, <1>2, <1>3, <1>4 DEF MemCost, DiskCost, Slots

(* What the keys without a copy in a tier cost there. *)
LEMMA CostOfSome ==
  ASSUME NEW i \in Index, NEW ks \in SUBSET VKeys
  PROVE  /\ MemWeight(i, ks) = Total(MemCost(i), {k \in ks : HasMem(i, k)})
         /\ DiskSize(i, ks) = Total(DiskCost(i), {k \in ks : OnDisk(i, k)})
<1>1. \A k \in ks \ {k \in ks : HasMem(i, k)} : MemCost(i)[k] = 0
  BY EntryTyped
<1>2. \A k \in ks \ {k \in ks : OnDisk(i, k)} : DiskCost(i)[k] = 0
  BY EntryTyped
<1>3. Total(MemCost(i), ks) = Total(MemCost(i), {k \in ks : HasMem(i, k)})
  BY <1>1, TotalOfCostly
<1>4. Total(DiskCost(i), ks) = Total(DiskCost(i), {k \in ks : OnDisk(i, k)})
  BY <1>2, TotalOfCostly
<1> QED
  BY <1>3, <1>4 DEF MemWeight, DiskSize

-----------------------------------------------------------------------------
(***************************************************************************)
(* Index::remove                                                           *)
(***************************************************************************)
LEMMA RemovedFields ==
  ASSUME NEW i \in Index, NEW ks \in SUBSET VKeys
  PROVE  LET j == RemoveEntries(i, ks)
             gone == {k \in ks : i.entries[k] # None}
         IN  /\ \A k \in VKeys : j.entries[k] = IF k \in ks THEN None ELSE i.entries[k]
             /\ j.entries \in [VKeys -> Entries \cup {None}]
             /\ j.primaries = [p \in Primaries |->
                  IF i.primaries[p] = None \/ \A k \in gone : PrimaryOf(k) # p THEN i.primaries[p]
                  ELSE IF i.primaries[p].variants \ gone = {} THEN None
                  ELSE [i.primaries[p] EXCEPT !.variants = i.primaries[p].variants \ gone]]
             /\ j.memLru = Without(i.memLru, {k \in gone : HasMem(i, k)})
             /\ j.memBytes = i.memBytes - MemWeight(i, gone)
             /\ j.diskLru = Without(i.diskLru, {k \in gone : OnDisk(i, k)})
             /\ j.diskBytes = i.diskBytes - DiskSize(i, gone)
             /\ j.nextGen = i.nextGen
             /\ j.dirty \in BOOLEAN
             /\ j = [entries |-> j.entries, primaries |-> j.primaries, memLru |-> j.memLru,
                     diskLru |-> j.diskLru, memBytes |-> j.memBytes, diskBytes |-> j.diskBytes,
                     nextGen |-> j.nextGen, dirty |-> j.dirty]
<1> DEFINE j == RemoveEntries(i, ks)
           gone == {k \in ks : i.entries[k] # None}
<1>1. j.entries = [k \in VKeys |-> IF k \in gone THEN None ELSE i.entries[k]]
  BY DEF RemoveEntries, Index
<1>2. \A k \in VKeys : j.entries[k] = IF k \in ks THEN None ELSE i.entries[k]
  BY <1>1
<1>3. j.entries \in [VKeys -> Entries \cup {None}]
  BY <1>1 DEF Index
<1>4. j.primaries = [p \in Primaries |->
        IF i.primaries[p] = None \/ \A k \in gone : PrimaryOf(k) # p THEN i.primaries[p]
        ELSE IF i.primaries[p].variants \ gone = {} THEN None
        ELSE [i.primaries[p] EXCEPT !.variants = i.primaries[p].variants \ gone]]
  BY DEF RemoveEntries, Index
<1>5. /\ j.memLru = Without(i.memLru, {k \in gone : HasMem(i, k)})
      /\ j.memBytes = i.memBytes - MemWeight(i, gone)
      /\ j.diskLru = Without(i.diskLru, {k \in gone : OnDisk(i, k)})
      /\ j.diskBytes = i.diskBytes - DiskSize(i, gone)
      /\ j.nextGen = i.nextGen
  BY DEF RemoveEntries, Index
<1>6. j.dirty \in BOOLEAN
  BY DEF RemoveEntries, Index, LosesSlots
<1>7. j = [entries |-> j.entries, primaries |-> j.primaries, memLru |-> j.memLru,
           diskLru |-> j.diskLru, memBytes |-> j.memBytes, diskBytes |-> j.diskBytes,
           nextGen |-> j.nextGen, dirty |-> j.dirty]
  <2> DEFINE E == [k \in VKeys |-> IF k \in gone THEN None ELSE i.entries[k]]
             P == [p \in Primaries |->
                     IF i.primaries[p] = None \/ \A k \in gone : PrimaryOf(k) # p THEN i.primaries[p]
                     ELSE IF i.primaries[p].variants \ gone = {} THEN None
                     ELSE [i.primaries[p] EXCEPT !.variants = i.primaries[p].variants \ gone]]
             M == Without(i.memLru, {k \in gone : HasMem(i, k)})
             W == i.memBytes - MemWeight(i, gone)
             D == Without(i.diskLru, {k \in gone : OnDisk(i, k)})
             S == i.diskBytes - DiskSize(i, gone)
             L == LosesSlots(i, gone)
  <2>1. j = [i EXCEPT !.entries = E, !.primaries = P, !.memLru = M, !.memBytes = W,
                      !.diskLru = D, !.diskBytes = S, !.dirty = @ \/ L]
    BY DEF RemoveEntries
  <2> HIDE DEF E, P, M, W, D, S, L, j
  <2> QED
    BY <2>1 DEF Index
<1> QED
  BY <1>2, <1>3, <1>4, <1>5, <1>6, <1>7

LEMMA RemoveSound ==
  ASSUME NEW i, Sound(i), NEW ks \in SUBSET VKeys
  PROVE  LET j == RemoveEntries(i, ks)
         IN  /\ Sound(j)
             /\ j.memBytes <= i.memBytes /\ j.diskBytes <= i.diskBytes /\ j.nextGen = i.nextGen
             /\ \A k \in VKeys : j.entries[k] = IF k \in ks THEN None ELSE i.entries[k]
<1> DEFINE j == RemoveEntries(i, ks)
           gone == {k \in ks : i.entries[k] # None}
           goneMem == {k \in gone : HasMem(i, k)}
           goneDisk == {k \in gone : OnDisk(i, k)}
<1>1. i \in Index
  BY DEF Sound
<1>2. /\ \A k \in VKeys : j.entries[k] = IF k \in ks THEN None ELSE i.entries[k]
      /\ j.entries \in [VKeys -> Entries \cup {None}]
      /\ j.primaries = [p \in Primaries |->
           IF i.primaries[p] = None \/ \A k \in gone : PrimaryOf(k) # p THEN i.primaries[p]
           ELSE IF i.primaries[p].variants \ gone = {} THEN None
           ELSE [i.primaries[p] EXCEPT !.variants = i.primaries[p].variants \ gone]]
      /\ j.memLru = Without(i.memLru, goneMem)
      /\ j.memBytes = i.memBytes - MemWeight(i, gone)
      /\ j.diskLru = Without(i.diskLru, goneDisk)
      /\ j.diskBytes = i.diskBytes - DiskSize(i, gone)
      /\ j.nextGen = i.nextGen
      /\ j.dirty \in BOOLEAN
      /\ j = [entries |-> j.entries, primaries |-> j.primaries, memLru |-> j.memLru,
              diskLru |-> j.diskLru, memBytes |-> j.memBytes, diskBytes |-> j.diskBytes,
              nextGen |-> j.nextGen, dirty |-> j.dirty]
  BY <1>1, RemovedFields
<1> HIDE DEF j
<1>3. /\ MemWeight(i, gone) = Total(MemCost(i), goneMem)
      /\ DiskSize(i, gone) = Total(DiskCost(i), goneDisk)
  <2>1. gone \in SUBSET VKeys
    OBVIOUS
  <2> HIDE DEF gone
  <2> QED
    BY <1>1, <2>1, CostOfSome
<1>4. /\ Tier(j.memLru, j.memBytes, MemCost(i), MemKeys(i) \ goneMem)
      /\ j.memBytes <= i.memBytes
  <2>1. goneMem \in SUBSET MemKeys(i)
    BY DEF MemKeys
  <2> HIDE DEF goneMem
  <2> QED
    BY <1>2, <1>3, <2>1, TierShrinks, SMTT(30) DEF Sound, MemTier
<1>5. /\ Tier(j.diskLru, j.diskBytes, DiskCost(i), DiskKeys(i) \ goneDisk)
      /\ j.diskBytes <= i.diskBytes
  <2>1. goneDisk \in SUBSET DiskKeys(i)
    BY DEF DiskKeys
  <2> HIDE DEF goneDisk
  <2> QED
    BY <1>2, <1>3, <2>1, TierShrinks, SMTT(30) DEF Sound, DiskTier
<1>6. MemKeys(j) = MemKeys(i) \ goneMem /\ DiskKeys(j) = DiskKeys(i) \ goneDisk
  BY <1>2 DEF MemKeys, DiskKeys, HasMem, OnDisk
<1>7. j.primaries \in [Primaries -> PrimaryEntries \cup {None}]
  <2>1. ASSUME NEW p \in Primaries, i.primaries[p] # None
        PROVE  [i.primaries[p] EXCEPT !.variants = i.primaries[p].variants \ gone] \in PrimaryEntries
    <3>1. i.primaries[p] \in PrimaryEntries
      BY <1>1, <2>1 DEF Index
    <3> HIDE DEF gone
    <3> QED
      BY <3>1 DEF PrimaryEntries
  <2>2. \A p \in Primaries : i.primaries[p] \in PrimaryEntries \cup {None}
    BY <1>1 DEF Index
  <2> HIDE DEF gone
  <2> QED
    BY <1>2, <2>1, <2>2
<1>8. j \in Index
  <2>1. j.memLru \in Seq(VKeys) /\ j.memBytes \in Nat /\ j.diskLru \in Seq(VKeys) /\ j.diskBytes \in Nat
    BY <1>4, <1>5, TierTyped
  <2>2. j.nextGen \in Nat
    BY <1>1, <1>2 DEF Index
  <2> QED
    BY <1>2, <1>7, <2>1, <2>2 DEF Index
<1>9. MemTier(j)
  <2>1. \A k \in MemKeys(j) : MemCost(j)[k] = MemCost(i)[k]
    BY <1>2 DEF MemKeys, MemCost, HasMem
  <2> QED
    BY <1>4, <1>6, <2>1, TierAgrees DEF MemTier
<1>10. DiskTier(j)
  <2>1. \A k \in DiskKeys(j) : DiskCost(j)[k] = DiskCost(i)[k]
    BY <1>2 DEF DiskKeys, DiskCost, OnDisk
  <2> QED
    BY <1>5, <1>6, <2>1, TierAgrees DEF DiskTier
<1>11. Reachable(j)
  <2>1. ASSUME NEW k \in VKeys, j.entries[k] # None
        PROVE  j.primaries[PrimaryOf(k)] # None /\ k \in j.primaries[PrimaryOf(k)].variants
    <3> DEFINE p == PrimaryOf(k)
    <3>1. k \notin ks /\ i.entries[k] # None /\ k \notin gone
      BY <1>2, <2>1
    <3>2. p \in Primaries /\ i.primaries[p] # None /\ k \in i.primaries[p].variants
      BY <3>1 DEF Sound, Reachable, VKeys, PrimaryOf
    <3>3. i.primaries[p] \in PrimaryEntries
      BY <1>1, <3>2 DEF Index
    <3>4. k \in i.primaries[p].variants \ gone
      BY <3>1, <3>2
    <3>5. [i.primaries[p] EXCEPT !.variants = i.primaries[p].variants \ gone]
            = [varies |-> i.primaries[p].varies, variants |-> i.primaries[p].variants \ gone]
      BY <3>3, SMTT(30) DEF PrimaryEntries
    <3>6. [varies |-> i.primaries[p].varies, variants |-> i.primaries[p].variants \ gone]
            \in PrimaryEntries
      BY <3>3 DEF PrimaryEntries
    <3>7. CASE \A l \in gone : PrimaryOf(l) # p
      BY <1>2, <3>2, <3>7
    <3>8. CASE \E l \in gone : PrimaryOf(l) = p
      <4>1. j.primaries[p] = [varies |-> i.primaries[p].varies, variants |-> i.primaries[p].variants \ gone]
        BY <1>2, <3>2, <3>4, <3>5, <3>8
      <4> QED
        BY <3>4, <3>6, <4>1, NoneAssumption
    <3> QED
      BY <3>7, <3>8
  <2>2. ASSUME NEW p \in Primaries, j.primaries[p] # None
        PROVE  /\ j.primaries[p].variants # {}
               /\ \A k \in j.primaries[p].variants : j.entries[k] # None /\ PrimaryOf(k) = p
    <3>1. i.primaries[p] # None
      BY <1>2, <2>2
    <3>2. i.primaries[p] \in PrimaryEntries
      BY <1>1, <3>1 DEF Index
    <3>3. /\ i.primaries[p].variants # {}
          /\ \A k \in i.primaries[p].variants : k \in VKeys /\ i.entries[k] # None /\ PrimaryOf(k) = p
      BY <3>1, <3>2 DEF Sound, Reachable, PrimaryEntries
    <3>4. CASE \A l \in gone : PrimaryOf(l) # p
      <4>1. j.primaries[p] = i.primaries[p]
        BY <1>2, <3>4
      <4>2. \A k \in i.primaries[p].variants : k \notin ks
        BY <3>3, <3>4
      <4> QED
        BY <1>2, <3>3, <4>1, <4>2
    <3>5. CASE \E l \in gone : PrimaryOf(l) = p
      <4>1. /\ i.primaries[p].variants \ gone # {}
            /\ j.primaries[p] = [i.primaries[p] EXCEPT !.variants = i.primaries[p].variants \ gone]
        BY <1>2, <2>2, <3>1, <3>5
      <4>2. j.primaries[p].variants = i.primaries[p].variants \ gone
        BY <3>2, <4>1 DEF PrimaryEntries
      <4>3. \A k \in i.primaries[p].variants \ gone : k \notin ks
        BY <3>3
      <4> QED
        BY <1>2, <3>3, <4>1, <4>2, <4>3
    <3> QED
      BY <3>4, <3>5
  <2> QED
    BY <2>1, <2>2 DEF Reachable
<1> QED
  BY <1>2, <1>4, <1>5, <1>8, <1>9, <1>10, <1>11 DEF Sound, j

-----------------------------------------------------------------------------
(***************************************************************************)
(* Eviction                                                                *)
(***************************************************************************)
(* What evict_memory does to an entry: nothing, or its memory copy goes, or
   the entry goes with it when nothing else would be left. *)
LosesMemory(before, after) ==
  \/ after = before
  \/ before # None /\ KeepEntry(before) /\ after = [before EXCEPT !.mem = None]
  \/ before # None /\ ~KeepEntry(before) /\ after = None

LEMMA EvictMemorySound ==
  ASSUME NEW i, Sound(i)
  PROVE  LET r == EvictMemory(i)
         IN  /\ Sound(r)
             /\ r.memBytes <= MemBudget /\ r.diskBytes <= i.diskBytes /\ r.nextGen = i.nextGen
             /\ \A k \in VKeys : LosesMemory(i.entries[k], r.entries[k])
<1> DEFINE n == PopsNeeded(i.memLru, i.memBytes, MemBudget, MemCost(i))
           popped == {i.memLru[m] : m \in 1..n}
           victims == {k \in popped : HasMem(i, k)}
           rest == SubSeq(i.memLru, n + 1, Len(i.memLru))
           bytes == i.memBytes - MemWeight(i, victims)
           entries == [k \in VKeys |-> IF k \in victims THEN [i.entries[k] EXCEPT !.mem = None]
                                       ELSE i.entries[k]]
           j == [i EXCEPT !.memLru = rest, !.memBytes = bytes, !.entries = entries]
           empty == {k \in victims : ~KeepEntry(i.entries[k])}
<1>1. i \in Index /\ i.memLru \in Seq(VKeys)
  BY DEF Sound, Index
<1>2. EvictMemory(i) = RemoveEntries(j, empty)
  BY DEF EvictMemory, Index
<1>3. /\ n \in 0..Len(i.memLru)
      /\ n = Len(i.memLru) \/ i.memBytes - Total(MemCost(i), popped) <= MemBudget
  BY <1>1, PopsSuffice
<1> HIDE DEF n
<1>4. /\ popped \subseteq MemKeys(i)
      /\ Tier(rest, i.memBytes - Total(MemCost(i), popped), MemCost(i), MemKeys(i) \ popped)
      /\ i.memBytes - Total(MemCost(i), popped) \in Nat
      /\ n = Len(i.memLru) => i.memBytes - Total(MemCost(i), popped) = 0
  BY <1>3, TierPops DEF Sound, MemTier
<1> HIDE DEF popped
<1>5. victims = popped
  BY <1>4 DEF MemKeys
<1>6. bytes = i.memBytes - Total(MemCost(i), popped) /\ bytes \in Nat /\ bytes <= MemBudget
  <2>1. bytes = i.memBytes - Total(MemCost(i), popped)
    BY <1>5, Zenon DEF MemWeight
  <2>2. MemBudget \in Nat
    BY CacheAssumption
  <2> HIDE DEF bytes
  <2> QED
    BY <1>3, <1>4, <2>1, <2>2
<1>7. ASSUME NEW k \in victims
      PROVE  /\ k \in VKeys /\ i.entries[k] \in Entries /\ i.entries[k] # None
             /\ [i.entries[k] EXCEPT !.mem = None] \in Entries
             /\ [i.entries[k] EXCEPT !.mem = None] =
                  [mem |-> None, disk |-> i.entries[k].disk, pending |-> i.entries[k].pending]
  <2>1. k \in VKeys /\ HasMem(i, k)
    BY <1>4 DEF MemKeys
  <2>2. i.entries[k] \in Entries /\ i.entries[k] # None
    BY <1>1, <2>1, EntryTyped DEF HasMem
  <2> QED
    BY <2>1, <2>2 DEF Entries
<1>8. entries \in [VKeys -> Entries \cup {None}]
  <2>1. \A k \in VKeys : i.entries[k] \in Entries \cup {None}
    BY <1>1 DEF Index
  <2> HIDE DEF victims
  <2> QED
    BY <1>7, <2>1
<1>9. /\ j = [entries |-> entries, primaries |-> i.primaries, memLru |-> rest,
              diskLru |-> i.diskLru, memBytes |-> bytes, diskBytes |-> i.diskBytes,
              nextGen |-> i.nextGen, dirty |-> i.dirty]
      /\ j.entries = entries /\ j.primaries = i.primaries /\ j.memLru = rest
      /\ j.diskLru = i.diskLru /\ j.memBytes = bytes /\ j.diskBytes = i.diskBytes
      /\ j.nextGen = i.nextGen
  <2>1. j = [i EXCEPT !.memLru = rest, !.memBytes = bytes, !.entries = entries]
    OBVIOUS
  <2> HIDE DEF entries, rest, bytes, j
  <2>2. j = [entries |-> entries, primaries |-> i.primaries, memLru |-> rest,
             diskLru |-> i.diskLru, memBytes |-> bytes, diskBytes |-> i.diskBytes,
             nextGen |-> i.nextGen, dirty |-> i.dirty]
    BY <1>1, <2>1 DEF Index
  <2> QED
    BY <2>2
<1> HIDE DEF j
<1>10. \A k \in VKeys : j.entries[k] = IF k \in victims THEN [i.entries[k] EXCEPT !.mem = None]
                                         ELSE i.entries[k]
  BY <1>9
<1> HIDE DEF entries, rest, bytes, victims
<1>11. j \in Index
  <2>1. rest \in Seq(VKeys)
    BY <1>4, TierTyped
  <2> QED
    BY <1>1, <1>6, <1>8, <1>9, <2>1 DEF Index
<1>12. /\ MemKeys(j) = MemKeys(i) \ popped
       /\ \A k \in MemKeys(j) : MemCost(j)[k] = MemCost(i)[k]
  <2>1. \A k \in VKeys : HasMem(j, k) <=> HasMem(i, k) /\ k \notin victims
    BY <1>7, <1>10 DEF HasMem
  <2> QED
    BY <1>5, <1>10, <2>1 DEF MemKeys, MemCost
<1>13. /\ DiskKeys(j) = DiskKeys(i)
       /\ \A k \in DiskKeys(j) : DiskCost(j)[k] = DiskCost(i)[k]
  <2>1. \A k \in VKeys : /\ OnDisk(j, k) <=> OnDisk(i, k)
                         /\ OnDisk(j, k) => j.entries[k].disk = i.entries[k].disk
    BY <1>7, <1>10, NoneAssumption, SMTT(30), ZenonT(30) DEF OnDisk
  <2>2. DiskKeys(j) = DiskKeys(i)
    BY <2>1 DEF DiskKeys
  <2>3. ASSUME NEW k \in DiskKeys(j) PROVE DiskCost(j)[k] = DiskCost(i)[k]
    BY <2>1 DEF DiskKeys, DiskCost
  <2> QED
    BY <2>2, <2>3
<1>14. Reachable(j)
  <2>1. \A k \in VKeys : j.entries[k] = None <=> i.entries[k] = None
    BY <1>7, <1>10, NoneAssumption
  <2>2. \A p \in Primaries : i.primaries[p] # None => i.primaries[p].variants \subseteq VKeys
    BY <1>1 DEF Index, PrimaryEntries
  <2> QED
    BY <1>9, <2>1, <2>2 DEF Sound, Reachable
<1>15. Sound(j)
  <2>1. MemTier(j)
    <3>1. Tier(j.memLru, j.memBytes, MemCost(i), MemKeys(j))
      BY <1>4, <1>6, <1>9, <1>12
    <3> QED
      BY <1>12, <3>1, TierAgrees DEF MemTier
  <2>2. DiskTier(j)
    BY <1>9, <1>13, TierAgrees DEF Sound, DiskTier
  <2> QED
    BY <1>11, <1>14, <2>1, <2>2 DEF Sound
<1>16. empty \in SUBSET VKeys
  BY <1>7
<1> DEFINE r == RemoveEntries(j, empty)
<1>17. /\ Sound(r)
       /\ r.memBytes <= j.memBytes /\ r.diskBytes <= j.diskBytes /\ r.nextGen = j.nextGen
       /\ \A k \in VKeys : r.entries[k] = IF k \in empty THEN None ELSE j.entries[k]
  <2> HIDE DEF empty
  <2> QED
    BY <1>15, <1>16, RemoveSound
<1>18. r.memBytes <= MemBudget /\ r.diskBytes <= i.diskBytes /\ r.nextGen = i.nextGen
  <2>1. r.memBytes \in Nat /\ MemBudget \in Nat
    BY <1>17, CacheAssumption DEF Sound, Index
  <2> HIDE DEF r
  <2> QED
    BY <1>6, <1>9, <1>17, <2>1
<1>19. ASSUME NEW k \in VKeys PROVE LosesMemory(i.entries[k], r.entries[k])
  BY <1>7, <1>10, <1>17 DEF LosesMemory
<1> QED
  BY <1>2, <1>17, <1>18, <1>19

(* What evict_disk does to an entry: nothing, or its slot goes, or the
   entry goes with it when it holds nothing else. *)
LosesSlot(before, after) ==
  \/ after = before
  \/ /\ before # None /\ before.disk # None /\ ~(before.mem = None /\ before.pending = None)
     /\ after = [before EXCEPT !.disk = None]
  \/ /\ before # None /\ before.disk # None /\ before.mem = None /\ before.pending = None
     /\ after = None

LEMMA EvictDiskSound ==
  ASSUME NEW i, Sound(i)
  PROVE  LET r == EvictDisk(i).idx
         IN  /\ Sound(r)
             /\ r.diskBytes <= DiskBudget /\ r.memBytes <= i.memBytes /\ r.nextGen = i.nextGen
             /\ \A k \in VKeys : LosesSlot(i.entries[k], r.entries[k])
             /\ EvictDisk(i).deletes = SlotPaths(i, {k \in VKeys : ~OnDisk(r, k)})
<1> DEFINE needed == PopsNeeded(i.diskLru, i.diskBytes, (DiskBudget \div 10) * 9, DiskCost(i))
           n == IF i.diskBytes <= DiskBudget THEN 0 ELSE needed
           popped == {i.diskLru[m] : m \in 1..n}
           victims == {k \in popped : OnDisk(i, k)}
           rest == SubSeq(i.diskLru, n + 1, Len(i.diskLru))
           bytes == i.diskBytes - DiskSize(i, victims)
           changed == \E k \in popped : i.entries[k] # None
           entries == [k \in VKeys |-> IF k \in victims THEN [i.entries[k] EXCEPT !.disk = None]
                                       ELSE i.entries[k]]
           j == [i EXCEPT !.diskLru = rest, !.diskBytes = bytes, !.dirty = @ \/ changed,
                          !.entries = entries]
           empty == {k \in popped : i.entries[k] # None /\ i.entries[k].mem = None
                                                        /\ i.entries[k].pending = None}
<1>1. i \in Index /\ i.diskLru \in Seq(VKeys) /\ i.diskBytes \in Nat
  BY DEF Sound, Index
<1>2. EvictDisk(i) = [idx |-> RemoveEntries(j, empty), deletes |-> SlotPaths(i, victims)]
  BY DEF EvictDisk, Index
<1>3. /\ n \in 0..Len(i.diskLru)
      /\ \/ n = Len(i.diskLru)
         \/ i.diskBytes - Total(DiskCost(i), popped) <= DiskBudget
  <2>1. Len(i.diskLru) \in Nat
    BY <1>1, LenProperties
  <2>2. CASE i.diskBytes <= DiskBudget
    <3>1. n = 0 /\ 1..n = {}
      BY <2>2
    <3>2. popped = {}
      BY <3>1
    <3>3. Total(DiskCost(i), popped) = 0
      BY <3>2, TotalOfEmpty
    <3> HIDE DEF popped, n
    <3>4. i.diskBytes - Total(DiskCost(i), popped) = i.diskBytes
      BY <1>1, <3>3
    <3> QED
      BY <2>1, <2>2, <3>1, <3>4
  <2>3. CASE ~(i.diskBytes <= DiskBudget)
    <3>1. /\ needed \in 0..Len(i.diskLru)
          /\ \/ needed = Len(i.diskLru)
             \/ i.diskBytes - Total(DiskCost(i), {i.diskLru[m] : m \in 1..needed})
                  <= (DiskBudget \div 10) * 9
      BY <1>1, PopsSuffice
    <3>2. n = needed
      BY <2>3
    <3> HIDE DEF needed, n
    <3>3. /\ n \in 0..Len(i.diskLru)
          /\ n = Len(i.diskLru) \/ i.diskBytes - Total(DiskCost(i), popped) <= (DiskBudget \div 10) * 9
      BY <3>1, <3>2
    <3> HIDE DEF popped
    <3>4. DiskBudget \in Nat /\ (DiskBudget \div 10) * 9 <= DiskBudget /\ (DiskBudget \div 10) * 9 \in Nat
      BY CacheAssumption
    <3>5. n \in Nat /\ n <= Len(i.diskLru)
      BY <2>1, <3>3
    <3>6. Tier(i.diskLru, i.diskBytes, DiskCost(i), DiskKeys(i))
      BY DEF Sound, DiskTier
    <3>7. i.diskBytes - Total(DiskCost(i), popped) \in Nat
      BY <3>3, <3>6, TierPops DEF popped
    <3> QED
      BY <3>3, <3>4, <3>7
  <2> QED
    BY <2>2, <2>3
<1> HIDE DEF n
<1>4. /\ popped \subseteq DiskKeys(i)
      /\ Tier(rest, i.diskBytes - Total(DiskCost(i), popped), DiskCost(i), DiskKeys(i) \ popped)
      /\ i.diskBytes - Total(DiskCost(i), popped) \in Nat
      /\ n = Len(i.diskLru) => i.diskBytes - Total(DiskCost(i), popped) = 0
  BY <1>3, TierPops DEF Sound, DiskTier
<1> HIDE DEF popped
<1>5. victims = popped
  BY <1>4 DEF DiskKeys
<1>6. bytes = i.diskBytes - Total(DiskCost(i), popped) /\ bytes \in Nat /\ bytes <= DiskBudget
  <2>1. bytes = i.diskBytes - Total(DiskCost(i), popped)
    BY <1>5, Zenon DEF DiskSize
  <2>2. DiskBudget \in Nat
    BY CacheAssumption
  <2> HIDE DEF bytes
  <2> QED
    BY <1>3, <1>4, <2>1, <2>2
<1>7. ASSUME NEW k \in victims
      PROVE  /\ k \in VKeys /\ i.entries[k] \in Entries /\ i.entries[k] # None /\ OnDisk(i, k)
             /\ [i.entries[k] EXCEPT !.disk = None] \in Entries
             /\ [i.entries[k] EXCEPT !.disk = None] =
                  [mem |-> i.entries[k].mem, disk |-> None, pending |-> i.entries[k].pending]
  <2>1. k \in VKeys /\ OnDisk(i, k)
    BY <1>4 DEF DiskKeys
  <2>2. i.entries[k] \in Entries /\ i.entries[k] # None
    BY <1>1, <2>1, EntryTyped DEF OnDisk
  <2> QED
    BY <2>1, <2>2 DEF Entries
<1>8. entries \in [VKeys -> Entries \cup {None}]
  <2>1. \A k \in VKeys : i.entries[k] \in Entries \cup {None}
    BY <1>1 DEF Index
  <2> HIDE DEF victims
  <2> QED
    BY <1>7, <2>1
<1>9. /\ j = [entries |-> entries, primaries |-> i.primaries, memLru |-> i.memLru,
              diskLru |-> rest, memBytes |-> i.memBytes, diskBytes |-> bytes,
              nextGen |-> i.nextGen, dirty |-> i.dirty \/ changed]
      /\ j.entries = entries /\ j.primaries = i.primaries /\ j.memLru = i.memLru
      /\ j.diskLru = rest /\ j.memBytes = i.memBytes /\ j.diskBytes = bytes
      /\ j.nextGen = i.nextGen
  <2>1. j = [i EXCEPT !.diskLru = rest, !.diskBytes = bytes, !.dirty = @ \/ changed,
                      !.entries = entries]
    OBVIOUS
  <2> HIDE DEF entries, rest, bytes, changed, j
  <2>2. j = [entries |-> entries, primaries |-> i.primaries, memLru |-> i.memLru,
             diskLru |-> rest, memBytes |-> i.memBytes, diskBytes |-> bytes,
             nextGen |-> i.nextGen, dirty |-> i.dirty \/ changed]
    BY <1>1, <2>1 DEF Index
  <2> QED
    BY <2>2
<1> HIDE DEF j
<1>10. \A k \in VKeys : j.entries[k] = IF k \in victims THEN [i.entries[k] EXCEPT !.disk = None]
                                         ELSE i.entries[k]
  BY <1>9
<1> HIDE DEF entries, rest, bytes, victims
<1>11. j \in Index
  <2>1. rest \in Seq(VKeys)
    BY <1>4, TierTyped
  <2>2. (i.dirty \/ changed) \in BOOLEAN
    OBVIOUS
  <2> HIDE DEF changed
  <2> QED
    BY <1>1, <1>6, <1>8, <1>9, <2>1, <2>2 DEF Index
<1>12. /\ DiskKeys(j) = DiskKeys(i) \ popped
       /\ \A k \in DiskKeys(j) : DiskCost(j)[k] = DiskCost(i)[k]
  <2>1. \A k \in VKeys : OnDisk(j, k) <=> OnDisk(i, k) /\ k \notin victims
    BY <1>7, <1>10 DEF OnDisk
  <2> QED
    BY <1>5, <1>10, <2>1 DEF DiskKeys, DiskCost
<1>13. /\ MemKeys(j) = MemKeys(i)
       /\ \A k \in MemKeys(j) : MemCost(j)[k] = MemCost(i)[k]
  <2>1. \A k \in VKeys : /\ HasMem(j, k) <=> HasMem(i, k)
                         /\ HasMem(j, k) => j.entries[k].mem = i.entries[k].mem
    BY <1>7, <1>10, NoneAssumption, SMTT(30), ZenonT(30) DEF HasMem
  <2>2. MemKeys(j) = MemKeys(i)
    BY <2>1 DEF MemKeys
  <2>3. ASSUME NEW k \in MemKeys(j) PROVE MemCost(j)[k] = MemCost(i)[k]
    BY <2>1 DEF MemKeys, MemCost
  <2> QED
    BY <2>2, <2>3
<1>14. Reachable(j)
  <2>1. \A k \in VKeys : j.entries[k] = None <=> i.entries[k] = None
    BY <1>7, <1>10, NoneAssumption
  <2>2. \A p \in Primaries : i.primaries[p] # None => i.primaries[p].variants \subseteq VKeys
    BY <1>1 DEF Index, PrimaryEntries
  <2> QED
    BY <1>9, <2>1, <2>2 DEF Sound, Reachable
<1>15. Sound(j)
  <2>1. DiskTier(j)
    <3>1. Tier(j.diskLru, j.diskBytes, DiskCost(i), DiskKeys(j))
      BY <1>4, <1>6, <1>9, <1>12
    <3> QED
      BY <1>12, <3>1, TierAgrees DEF DiskTier
  <2>2. MemTier(j)
    BY <1>9, <1>13, TierAgrees DEF Sound, MemTier
  <2> QED
    BY <1>11, <1>14, <2>1, <2>2 DEF Sound
<1>16. empty \in SUBSET VKeys
  BY <1>4 DEF DiskKeys
<1> DEFINE r == RemoveEntries(j, empty)
<1>17. /\ Sound(r)
       /\ r.memBytes <= j.memBytes /\ r.diskBytes <= j.diskBytes /\ r.nextGen = j.nextGen
       /\ \A k \in VKeys : r.entries[k] = IF k \in empty THEN None ELSE j.entries[k]
  <2> HIDE DEF empty
  <2> QED
    BY <1>15, <1>16, RemoveSound
<1>18. r.diskBytes <= DiskBudget /\ r.memBytes <= i.memBytes /\ r.nextGen = i.nextGen
  <2>1. r.diskBytes \in Nat /\ DiskBudget \in Nat
    BY <1>17, CacheAssumption DEF Sound, Index
  <2> HIDE DEF r
  <2> QED
    BY <1>6, <1>9, <1>17, <2>1
<1> HIDE DEF r
<1>19. ASSUME NEW k \in VKeys PROVE LosesSlot(i.entries[k], r.entries[k])
  <2>1. CASE k \in victims
    BY <1>5, <1>7, <1>10, <1>17, <2>1 DEF LosesSlot, OnDisk
  <2>2. CASE k \notin victims
    BY <1>5, <1>10, <1>17, <2>2 DEF LosesSlot
  <2> QED
    BY <2>1, <2>2
<1>20. SlotPaths(i, victims) = SlotPaths(i, {k \in VKeys : ~OnDisk(r, k)})
  <2>1. \A k \in VKeys : OnDisk(i, k) => (k \in victims <=> ~OnDisk(r, k))
    <3>1. \A k \in VKeys : k \in victims => r.entries[k] = None \/ r.entries[k].disk = None
      BY <1>7, <1>10, <1>17, SMTT(30), ZenonT(30)
    <3>2. \A k \in VKeys : k \notin victims => r.entries[k] = i.entries[k]
      BY <1>5, <1>10, <1>17
    <3> QED
      BY <3>1, <3>2 DEF OnDisk
  <2>2. {k \in victims : OnDisk(i, k)} = {k \in {l \in VKeys : ~OnDisk(r, l)} : OnDisk(i, k)}
    BY <1>7, <2>1
  <2> QED
    BY <2>2 DEF SlotPaths
<1>21. EvictDisk(i).idx = r /\ EvictDisk(i).deletes = SlotPaths(i, victims)
  <2> HIDE DEF j, empty, victims
  <2> QED
    BY <1>2 DEF r
<1> HIDE DEF victims, empty
<1> QED
  BY <1>17, <1>18, <1>19, <1>20, <1>21

-----------------------------------------------------------------------------
(***************************************************************************)
(* The inductive invariant                                                 *)
(***************************************************************************)
InBudget(i) == i.memBytes <= MemBudget /\ i.diskBytes <= DiskBudget

(* The index between two critical sections. *)
Settled(i) == Sound(i) /\ Filled(i) /\ InBudget(i)

IndexInvariant == TypeOK /\ Settled(idx)

(* It says what the runs check. *)
LEMMA SettledAccounted ==
  ASSUME IndexInvariant
  PROVE  TiersAccounted /\ EntriesReachable
<1>1. idx \in Index /\ MemTier(idx) /\ DiskTier(idx) /\ Reachable(idx) /\ Filled(idx) /\ InBudget(idx)
  BY DEF IndexInvariant, Settled, Sound
<1>2. Listed(idx.memLru, MemKeys(idx)) /\ Listed(idx.diskLru, DiskKeys(idx))
  BY <1>1, EnumeratedListed DEF MemTier, DiskTier, Tier
<1>3. idx.memBytes = MemWeight(idx, VKeys) /\ idx.diskBytes = DiskSize(idx, VKeys)
  <2>1. VKeys \in SUBSET VKeys
    OBVIOUS
  <2>2. /\ MemWeight(idx, VKeys) = Total(MemCost(idx), MemKeys(idx))
        /\ DiskSize(idx, VKeys) = Total(DiskCost(idx), DiskKeys(idx))
    BY <1>1, <2>1, CostOfSome DEF MemKeys, DiskKeys
  <2> QED
    BY <1>1, <2>2 DEF MemTier, DiskTier, Tier
<1>4. MemTierAccounted /\ DiskTierAccounted
  BY <1>1, <1>2, <1>3 DEF MemTierAccounted, DiskTierAccounted, MemKeys, DiskKeys, InBudget
<1>5. EntriesReachable
  BY <1>1 DEF EntriesReachable, Reachable, Filled
<1> QED
  BY <1>4, <1>5 DEF IndexInvariant, TiersAccounted

-----------------------------------------------------------------------------
(***************************************************************************)
(* Index::touch                                                            *)
(***************************************************************************)
LEMMA TouchSettled ==
  ASSUME NEW i, Settled(i), NEW k \in VKeys
  PROVE  /\ Settled(Touch(i, k))
         /\ Touch(i, k).entries = i.entries
         /\ Touch(i, k).nextGen = i.nextGen
<1> DEFINE mem == IF HasMem(i, k) THEN Append(Without(i.memLru, {k}), k) ELSE i.memLru
           disk == IF OnDisk(i, k) THEN Append(Without(i.diskLru, {k}), k) ELSE i.diskLru
           j == Touch(i, k)
<1>1. i \in Index
  BY DEF Settled, Sound
<1>2. j = [i EXCEPT !.memLru = mem, !.diskLru = disk]
  BY DEF Touch
<1>3. Tier(mem, i.memBytes, MemCost(i), MemKeys(i))
  BY TierTouched DEF Settled, Sound, MemTier, MemKeys
<1>4. Tier(disk, i.diskBytes, DiskCost(i), DiskKeys(i))
  BY TierTouched DEF Settled, Sound, DiskTier, DiskKeys
<1> HIDE DEF mem, disk, j
<1>5. mem \in Seq(VKeys) /\ disk \in Seq(VKeys)
  BY <1>3, <1>4, TierTyped
<1>6. /\ j \in Index /\ j.memLru = mem /\ j.diskLru = disk /\ j.entries = i.entries
      /\ j.primaries = i.primaries /\ j.memBytes = i.memBytes /\ j.diskBytes = i.diskBytes
      /\ j.nextGen = i.nextGen
  BY <1>1, <1>2, <1>5 DEF Index
<1>7. /\ MemKeys(j) = MemKeys(i) /\ MemCost(j) = MemCost(i)
      /\ DiskKeys(j) = DiskKeys(i) /\ DiskCost(j) = DiskCost(i)
  BY <1>6 DEF MemKeys, MemCost, DiskKeys, DiskCost, HasMem, OnDisk
<1>8. Sound(j)
  BY <1>3, <1>4, <1>6, <1>7 DEF Settled, Sound, MemTier, DiskTier, Reachable
<1> QED
  BY <1>6, <1>8 DEF Settled, Filled, InBudget, j

-----------------------------------------------------------------------------
(***************************************************************************)
(* What an operation may do to an entry                                    *)
(***************************************************************************)
(* It keeps its slot and its pending write, and goes only when nothing of
   it would be left. *)
KeepsDisk(before, after) ==
  \/ after = None /\ (before = None \/ ~KeepEntry(before))
  \/ after # None /\ before # None /\ after.disk = before.disk /\ after.pending = before.pending

LEMMA EntriesOfNone == NewEntry \in Entries /\ NewEntry # None
BY NoneAssumption DEF NewEntry, Entries

LEMMA MemoryLost ==
  ASSUME NEW before \in Entries \cup {None}, NEW after, LosesMemory(before, after)
  PROVE  KeepsDisk(before, after) /\ (before # NewEntry => after # NewEntry)
<1>1. CASE after = before
  BY <1>1 DEF KeepsDisk
<1>2. CASE before # None /\ KeepEntry(before) /\ after = [before EXCEPT !.mem = None]
  <2>1. before \in Entries
    BY <1>2
  <2>2. after \in Entries /\ after.disk = before.disk /\ after.pending = before.pending
    BY <1>2, <2>1 DEF Entries
  <2> QED
    BY <1>2, <2>2, NoneAssumption DEF KeepsDisk, KeepEntry, NewEntry
<1>3. CASE before # None /\ ~KeepEntry(before) /\ after = None
  BY <1>3, EntriesOfNone DEF KeepsDisk
<1> QED
  BY <1>1, <1>2, <1>3 DEF LosesMemory

(* evict_memory from an index whose memory tier may be over its budget *)
LEMMA EvictMemorySettles ==
  ASSUME NEW i, Sound(i), Filled(i), i.diskBytes <= DiskBudget
  PROVE  LET r == EvictMemory(i)
         IN  /\ Settled(r) /\ r.nextGen = i.nextGen
             /\ \A k \in VKeys : KeepsDisk(i.entries[k], r.entries[k])
<1> DEFINE r == EvictMemory(i)
<1>1. /\ Sound(r)
      /\ r.memBytes <= MemBudget /\ r.diskBytes <= i.diskBytes /\ r.nextGen = i.nextGen
      /\ \A k \in VKeys : LosesMemory(i.entries[k], r.entries[k])
  BY EvictMemorySound
<1>2. i.diskBytes \in Nat /\ r.diskBytes \in Nat /\ DiskBudget \in Nat
  BY <1>1, CacheAssumption DEF Sound, Index
<1> HIDE DEF r
<1>3. \A k \in VKeys : i.entries[k] \in Entries \cup {None}
  BY DEF Sound, Index
<1>4. \A k \in VKeys : KeepsDisk(i.entries[k], r.entries[k]) /\ r.entries[k] # NewEntry
  BY <1>1, <1>3, MemoryLost DEF Filled
<1> QED
  BY <1>1, <1>2, <1>4 DEF Settled, Filled, InBudget, r

-----------------------------------------------------------------------------
(***************************************************************************)
(* promote                                                                 *)
(***************************************************************************)
LEMMA PromotedSettled ==
  ASSUME NEW i, Settled(i), NEW k \in VKeys, NEW gen, NEW value \in Values
  PROVE  LET r == Promoted(i, k, gen, value)
         IN  /\ Settled(r) /\ r.nextGen = i.nextGen
             /\ \A l \in VKeys : KeepsDisk(i.entries[l], r.entries[l])
<1>1. i \in Index /\ Sound(i) /\ Filled(i) /\ InBudget(i)
  BY DEF Settled, Sound
<1>2. CASE ~Promotable(i.entries[k], gen, value)
  <2>1. Promoted(i, k, gen, value) = i
    BY <1>2 DEF Promoted
  <2> QED
    BY <2>1 DEF KeepsDisk
<1>3. CASE Promotable(i.entries[k], gen, value)
  <2> DEFINE e == [i.entries[k] EXCEPT !.mem = value]
             entries == [i.entries EXCEPT ![k] = e]
             lru == Append(i.memLru, k)
             bytes == i.memBytes + value.kind.weight
             j == [i EXCEPT !.entries = entries, !.memLru = lru, !.memBytes = bytes]
  <2>1. Promoted(i, k, gen, value) = EvictMemory(j)
    BY <1>3 DEF Promoted
  <2>2. i.entries[k] \in Entries /\ i.entries[k].mem = None /\ i.entries[k].disk # None
    BY <1>1, <1>3, EntryTyped DEF Promotable
  <2>3. /\ e \in Entries /\ e # None /\ e.mem = value /\ e.disk = i.entries[k].disk
        /\ e.pending = i.entries[k].pending
    BY <2>2, NoneAssumption DEF Entries
  <2>4. value # None /\ value.kind.weight \in Nat
    BY NoneAssumption, CacheAssumption DEF Values, KindType
  <2> HIDE DEF e
  <2>5. /\ entries \in [VKeys -> Entries \cup {None}]
        /\ \A l \in VKeys : entries[l] = IF l = k THEN e ELSE i.entries[l]
    BY <1>1, <2>3 DEF Index
  <2>6. /\ j = [entries |-> entries, primaries |-> i.primaries, memLru |-> lru,
                diskLru |-> i.diskLru, memBytes |-> bytes, diskBytes |-> i.diskBytes,
                nextGen |-> i.nextGen, dirty |-> i.dirty]
    <3>1. j = [i EXCEPT !.entries = entries, !.memLru = lru, !.memBytes = bytes]
      OBVIOUS
    <3> HIDE DEF entries, lru, bytes, j
    <3> QED
      BY <1>1, <3>1 DEF Index
  <2>7. /\ j.entries = entries /\ j.primaries = i.primaries /\ j.memLru = lru
        /\ j.diskLru = i.diskLru /\ j.memBytes = bytes /\ j.diskBytes = i.diskBytes
        /\ j.nextGen = i.nextGen /\ j.dirty = i.dirty
    BY <2>6
  <2> HIDE DEF j, entries
  <2>8. /\ MemKeys(j) = MemKeys(i) \cup {k} /\ k \notin MemKeys(i)
        /\ \A l \in MemKeys(i) : MemCost(j)[l] = MemCost(i)[l]
        /\ MemCost(j)[k] = value.kind.weight
    <3>1. \A l \in VKeys : HasMem(j, l) <=> HasMem(i, l) \/ l = k
      BY <2>3, <2>4, <2>5, <2>7 DEF HasMem
    <3>2. ~HasMem(i, k)
      BY <2>2 DEF HasMem
    <3> QED
      BY <2>3, <2>5, <2>7, <3>1, <3>2 DEF MemKeys, MemCost
  <2>9. MemTier(j)
    <3>1. Tier(i.memLru, i.memBytes, MemCost(i), MemKeys(i))
      BY <1>1 DEF Sound, MemTier
    <3>2. Tier(i.memLru, i.memBytes, MemCost(j), MemKeys(i))
      BY <2>8, <3>1, TierAgrees
    <3>3. Tier(Append(i.memLru, k), i.memBytes + MemCost(j)[k], MemCost(j), MemKeys(i) \cup {k})
      BY <2>4, <2>8, <3>2, TierGrows
    <3> QED
      BY <2>7, <2>8, <3>3 DEF MemTier
  <2>10. DiskTier(j)
    <3>1. \A l \in VKeys : /\ OnDisk(j, l) <=> OnDisk(i, l)
                           /\ OnDisk(j, l) => j.entries[l].disk = i.entries[l].disk
      BY <2>2, <2>3, <2>5, <2>7, NoneAssumption DEF OnDisk
    <3>2. DiskKeys(j) = DiskKeys(i) /\ \A l \in DiskKeys(i) : DiskCost(j)[l] = DiskCost(i)[l]
      BY <3>1 DEF DiskKeys, DiskCost
    <3>3. Tier(i.diskLru, i.diskBytes, DiskCost(i), DiskKeys(i))
      BY <1>1 DEF Sound, DiskTier
    <3>4. Tier(i.diskLru, i.diskBytes, DiskCost(j), DiskKeys(i))
      BY <3>2, <3>3, TierAgrees
    <3> QED
      BY <2>7, <3>2, <3>4 DEF DiskTier
  <2>11. Reachable(j)
    <3>1. \A l \in VKeys : j.entries[l] = None <=> i.entries[l] = None
      BY <2>2, <2>3, <2>5, <2>7, NoneAssumption
    <3>2. \A p \in Primaries : i.primaries[p] # None => i.primaries[p].variants \subseteq VKeys
      BY <1>1 DEF Index, PrimaryEntries
    <3> QED
      BY <1>1, <2>7, <3>1, <3>2 DEF Sound, Reachable
  <2>12. Sound(j)
    <3>1. lru \in Seq(VKeys) /\ bytes \in Nat
      BY <2>7, <2>9, TierTyped DEF MemTier
    <3> HIDE DEF lru, bytes
    <3>2. j \in Index
      BY <1>1, <2>5, <2>6, <3>1 DEF Index
    <3> QED
      BY <2>9, <2>10, <2>11, <3>2 DEF Sound
  <2>13. Filled(j)
    BY <1>1, <2>3, <2>4, <2>5, <2>7 DEF Filled, NewEntry
  <2>14. \A l \in VKeys : /\ j.entries[l] # None <=> i.entries[l] # None
                          /\ j.entries[l] # None => /\ j.entries[l].disk = i.entries[l].disk
                                                    /\ j.entries[l].pending = i.entries[l].pending
    BY <2>2, <2>3, <2>5, <2>7, NoneAssumption
  <2> DEFINE r == EvictMemory(j)
  <2>15. /\ Settled(r) /\ r.nextGen = j.nextGen
         /\ \A l \in VKeys : KeepsDisk(j.entries[l], r.entries[l])
    BY <1>1, <2>7, <2>12, <2>13, EvictMemorySettles DEF InBudget
  <2> HIDE DEF r
  <2>16. \A l \in VKeys : KeepsDisk(i.entries[l], r.entries[l])
    BY <2>14, <2>15 DEF KeepsDisk, KeepEntry
  <2> QED
    BY <2>1, <2>7, <2>15, <2>16 DEF r
<1> QED
  BY <1>2, <1>3

-----------------------------------------------------------------------------
(***************************************************************************)
(* store                                                                   *)
(***************************************************************************)
LEMMA KeysTyped ==
  ASSUME NEW r \in Requests, NEW varies
  PROVE  /\ PrimaryKey(r) \in Primaries
         /\ VariantKey(PrimaryKey(r), varies, r) \in VKeys
         /\ PrimaryOf(VariantKey(PrimaryKey(r), varies, r)) = PrimaryKey(r)
BY CacheAssumption DEF RequestType, PrimaryKey, VariantKey, PrimaryOf, Primaries, VKeys

(* The jobs a store leaves for the writer thread. *)
ToDisk(value) == HasDisk /\ value.kind.body <= DiskEntryMax
StoreJobs(i, k, value) ==
  (IF ~ToDisk(value) /\ OnDisk(i, k) THEN DeleteJobs({<<k, i.entries[k].disk.gen>>}) ELSE <<>>)
  \o (IF ToDisk(value)
      THEN <<[op |-> "write", key |-> k, gen |-> i.nextGen + 1, value |-> value]>> ELSE <<>>)

(* What a store leaves of the index i and of the entry of the variant k. *)
StoreOutcome(i, k, value, j, jobs) ==
  /\ Settled(j) /\ j.nextGen = i.nextGen + 1
  /\ \A l \in VKeys \ {k} : KeepsDisk(i.entries[l], j.entries[l])
  /\ ToDisk(value) =>
       /\ j.entries[k] # None
       /\ j.entries[k].disk = IF i.entries[k] = None THEN None ELSE i.entries[k].disk
       /\ j.entries[k].pending = [gen |-> i.nextGen + 1, value |-> value]
  /\ ~ToDisk(value) =>
       ~OnDisk(j, k) /\ (j.entries[k] = None \/ j.entries[k].pending = None)
  /\ jobs = StoreJobs(i, k, value)

LEMMA StoredSettled ==
  ASSUME NEW i, Settled(i), NEW r \in Requests, NEW value \in Values
  PROVE  StoreOutcome(i, VariantKey(PrimaryKey(r), value.kind.varies, r), value,
                      StoredIndex(i, r, value).idx, StoredIndex(i, r, value).jobs)
<1> DEFINE p == PrimaryKey(r)
           k == VariantKey(p, value.kind.varies, r)
           gen == i.nextGen + 1
           inMemory == value.kind.weight <= MemEntryMax
           toDisk == HasDisk /\ value.kind.body <= DiskEntryMax
           old == IF i.entries[k] = None THEN NewEntry ELSE i.entries[k]
           entry == [mem |-> IF inMemory THEN value ELSE None,
                     disk |-> IF toDisk THEN old.disk ELSE None,
                     pending |-> IF toDisk THEN [gen |-> gen, value |-> value] ELSE None]
           dropDisk == ~toDisk /\ old.disk # None
           entries == [i.entries EXCEPT ![k] = entry]
           primary == [varies |-> value.kind.varies, variants |-> Siblings(i, p) \cup {k}]
           primaries == [i.primaries EXCEPT ![p] = primary]
           memLru == IF inMemory THEN Append(Without(i.memLru, {k}), k) ELSE Without(i.memLru, {k})
           memBytes == i.memBytes - MemWeight(i, {k}) + (IF inMemory THEN value.kind.weight ELSE 0)
           diskLru == IF dropDisk THEN Without(i.diskLru, {k}) ELSE i.diskLru
           diskBytes == IF dropDisk THEN i.diskBytes - old.disk.size ELSE i.diskBytes
           j == [i EXCEPT !.entries[k] = entry, !.primaries[p] = primary, !.nextGen = gen,
                          !.memLru = memLru, !.memBytes = memBytes,
                          !.diskLru = diskLru, !.diskBytes = diskBytes, !.dirty = @ \/ dropDisk]
           orphan == IF entry = NewEntry THEN {k} ELSE {}
<1>1. i \in Index /\ Sound(i) /\ Filled(i) /\ InBudget(i)
  BY DEF Settled, Sound
<1>2. p \in Primaries /\ k \in VKeys /\ PrimaryOf(k) = p
  BY KeysTyped
<1>3. /\ StoredIndex(i, r, value).idx = EvictMemory(RemoveEntries(j, orphan))
      /\ StoredIndex(i, r, value).jobs =
           (IF dropDisk THEN DeleteJobs({<<k, old.disk.gen>>}) ELSE <<>>)
           \o (IF toDisk THEN <<[op |-> "write", key |-> k, gen |-> gen, value |-> value]>> ELSE <<>>)
  BY DEF StoredIndex, NextGeneration
<1>4. /\ value # None /\ value.kind.weight \in Nat /\ value.kind.varies \in BOOLEAN
      /\ gen \in Nat \ {0} /\ toDisk \in BOOLEAN /\ inMemory \in BOOLEAN
  BY <1>1, NoneAssumption, CacheAssumption DEF Values, KindType, Index
<1>5. old \in Entries /\ (i.entries[k] # None => old = i.entries[k])
                      /\ (i.entries[k] = None => old.disk = None)
  BY <1>1, <1>2, EntryTyped, EntriesOfNone DEF NewEntry
<1>6. StoredIndex(i, r, value).jobs = StoreJobs(i, k, value)
  <2>1. ToDisk(value) = toDisk
    BY DEF ToDisk
  <2>2. dropDisk <=> ~toDisk /\ OnDisk(i, k)
    BY <1>5 DEF OnDisk
  <2>3. OnDisk(i, k) => old.disk.gen = i.entries[k].disk.gen
    BY <1>5 DEF OnDisk
  <2> HIDE DEF k, gen, toDisk, dropDisk, old
  <2> QED
    BY <1>3, <1>4, <2>1, <2>2, <2>3 DEF StoreJobs, gen
<1> HIDE DEF old, p, k
<1>7. /\ entry \in Entries /\ entry # None
      /\ entry.mem = IF inMemory THEN value ELSE None
      /\ entry.disk = IF toDisk THEN old.disk ELSE None
      /\ entry.pending = IF toDisk THEN [gen |-> gen, value |-> value] ELSE None
  <2>1. [gen |-> gen, value |-> value] \in PendingWrites
    BY <1>4 DEF PendingWrites
  <2> HIDE DEF gen, toDisk, inMemory
  <2> QED
    BY <1>5, <2>1, NoneAssumption DEF Entries
<1> HIDE DEF entry
<1>8. /\ entries \in [VKeys -> Entries \cup {None}]
      /\ \A l \in VKeys : entries[l] = IF l = k THEN entry ELSE i.entries[l]
  BY <1>1, <1>2, <1>7 DEF Index
<1>9. /\ primary \in PrimaryEntries /\ primary # None
      /\ primary.variants = Siblings(i, p) \cup {k}
      /\ \A l \in Siblings(i, p) : l \in VKeys /\ i.entries[l] # None /\ PrimaryOf(l) = p
  <2>1. \A l \in Siblings(i, p) : l \in VKeys /\ i.entries[l] # None /\ PrimaryOf(l) = p
    BY <1>1, <1>2 DEF Siblings, Sound, Reachable, Index, PrimaryEntries
  <2> QED
    BY <1>2, <1>4, <2>1, NoneAssumption DEF PrimaryEntries
<1> HIDE DEF primary
<1>10. /\ primaries \in [Primaries -> PrimaryEntries \cup {None}]
       /\ \A q \in Primaries : primaries[q] = IF q = p THEN primary ELSE i.primaries[q]
  BY <1>1, <1>2, <1>9 DEF Index
<1>11. j = [entries |-> entries, primaries |-> primaries, memLru |-> memLru,
            diskLru |-> diskLru, memBytes |-> memBytes, diskBytes |-> diskBytes,
            nextGen |-> gen, dirty |-> i.dirty \/ dropDisk]
  <2>1. j = [i EXCEPT !.entries[k] = entry, !.primaries[p] = primary, !.nextGen = gen,
                      !.memLru = memLru, !.memBytes = memBytes,
                      !.diskLru = diskLru, !.diskBytes = diskBytes, !.dirty = @ \/ dropDisk]
    OBVIOUS
  <2> HIDE DEF gen, memLru, memBytes, diskLru, diskBytes, dropDisk, j
  <2> QED
    BY <1>1, <2>1 DEF Index
<1>12. /\ j.entries = entries /\ j.primaries = primaries /\ j.memLru = memLru
       /\ j.diskLru = diskLru /\ j.memBytes = memBytes /\ j.diskBytes = diskBytes
       /\ j.nextGen = gen
  BY <1>11
<1> HIDE DEF j, entries, primaries
<1>13. MemTier(j)
  <2>1. \A l \in VKeys : HasMem(j, l) <=> (IF l = k THEN inMemory ELSE HasMem(i, l))
    BY <1>4, <1>7, <1>8, <1>12 DEF HasMem
  <2>2. /\ MemKeys(j) = IF inMemory THEN MemKeys(i) \cup {k} ELSE MemKeys(i) \ {k}
        /\ \A l \in MemKeys(i) \ {k} : MemCost(j)[l] = MemCost(i)[l]
        /\ MemCost(j)[k] = IF inMemory THEN value.kind.weight ELSE 0
    BY <1>2, <1>7, <1>8, <1>12, <2>1 DEF MemKeys, MemCost
  <2>3. MemCost(i)[k] \in Nat /\ (k \notin MemKeys(i) => MemCost(i)[k] = 0) /\ MemCost(j)[k] \in Nat
    BY <1>1, <1>2, <1>4, <2>2, EntryTyped DEF MemKeys
  <2>4. MemWeight(i, {k}) = MemCost(i)[k]
    BY <2>3, TotalOfOne DEF MemWeight
  <2>5. Tier(i.memLru, i.memBytes, MemCost(i), MemKeys(i)) /\ i.memBytes \in Nat
    BY <1>1 DEF Sound, MemTier, Index
  <2>6. /\ Tier(Without(i.memLru, {k}), i.memBytes - MemCost(i)[k], MemCost(j), MemKeys(i) \ {k})
        /\ Tier(Append(Without(i.memLru, {k}), k), i.memBytes - MemCost(i)[k] + MemCost(j)[k],
                MemCost(j), MemKeys(i) \cup {k})
    BY <1>2, <2>2, <2>3, <2>5, TierReplaced
  <2>7. CASE inMemory
    <3>1. /\ memLru = Append(Without(i.memLru, {k}), k) /\ MemKeys(j) = MemKeys(i) \cup {k}
          /\ memBytes = i.memBytes - MemCost(i)[k] + MemCost(j)[k]
      BY <2>2, <2>4, <2>7
    <3> QED
      BY <1>12, <2>6, <3>1 DEF MemTier
  <2>8. CASE ~inMemory
    <3>1. memLru = Without(i.memLru, {k}) /\ MemKeys(j) = MemKeys(i) \ {k}
      BY <2>2, <2>8
    <3>2. memBytes = i.memBytes - MemCost(i)[k]
      BY <2>3, <2>4, <2>5, <2>8
    <3> HIDE DEF memLru, memBytes
    <3> QED
      BY <1>12, <2>6, <3>1, <3>2 DEF MemTier
  <2> QED
    BY <2>7, <2>8
<1>14. DiskTier(j) /\ j.diskBytes <= DiskBudget
  <2>1. \A l \in VKeys : OnDisk(j, l) <=> OnDisk(i, l) /\ ~(l = k /\ dropDisk)
    BY <1>4, <1>5, <1>7, <1>8, <1>12 DEF OnDisk
  <2>2. \A l \in VKeys : OnDisk(j, l) => j.entries[l].disk = i.entries[l].disk
    BY <1>5, <1>7, <1>8, <1>12 DEF OnDisk
  <2>3. \A l \in VKeys : OnDisk(j, l) => DiskCost(j)[l] = DiskCost(i)[l]
    BY <2>1, <2>2 DEF DiskCost
  <2>4. Tier(i.diskLru, i.diskBytes, DiskCost(i), DiskKeys(i)) /\ i.diskBytes \in Nat
    BY <1>1 DEF Sound, DiskTier, Index
  <2>5. DiskBudget \in Nat /\ i.diskBytes <= DiskBudget
    BY <1>1, CacheAssumption DEF InBudget
  <2>6. CASE ~dropDisk
    <3>1. DiskKeys(j) = DiskKeys(i) /\ \A l \in DiskKeys(i) : DiskCost(j)[l] = DiskCost(i)[l]
      BY <2>1, <2>3, <2>6 DEF DiskKeys
    <3>2. diskLru = i.diskLru /\ diskBytes = i.diskBytes
      BY <2>6
    <3>3. Tier(i.diskLru, i.diskBytes, DiskCost(j), DiskKeys(j))
      BY <2>4, <3>1, TierAgrees
    <3> HIDE DEF diskLru, diskBytes
    <3> QED
      BY <1>12, <2>5, <3>2, <3>3 DEF DiskTier
  <2>7. CASE dropDisk
    <3>1. OnDisk(i, k) /\ old.disk.size = DiskCost(i)[k] /\ DiskCost(i)[k] \in Nat
      BY <1>1, <1>2, <1>5, <2>7, EntryTyped DEF OnDisk
    <3>2. DiskKeys(j) = DiskKeys(i) \ {k}
      BY <2>1, <2>7 DEF DiskKeys
    <3>3. \A l \in DiskKeys(i) \ {k} : DiskCost(j)[l] = DiskCost(i)[l]
      BY <2>3, <3>2 DEF DiskKeys
    <3>4. DiskCost(j)[k] \in Nat
      BY <1>2, <2>1, <2>7 DEF DiskCost
    <3>5. Tier(Without(i.diskLru, {k}), i.diskBytes - DiskCost(i)[k], DiskCost(j), DiskKeys(i) \ {k})
      <4>1. k \in DiskKeys(i)
        BY <1>2, <3>1 DEF DiskKeys
      <4> QED
        BY <1>2, <2>4, <3>1, <3>3, <3>4, <4>1, TierReplaced
    <3>6. diskLru = Without(i.diskLru, {k}) /\ diskBytes = i.diskBytes - DiskCost(i)[k]
      BY <2>7, <3>1
    <3> HIDE DEF diskLru, diskBytes
    <3>7. diskBytes <= DiskBudget
      BY <2>4, <2>5, <3>1, <3>6
    <3> QED
      BY <1>12, <3>2, <3>5, <3>6, <3>7 DEF DiskTier
  <2> QED
    BY <2>6, <2>7
<1>15. Reachable(j)
  <2>1. ASSUME NEW l \in VKeys, j.entries[l] # None
        PROVE  j.primaries[PrimaryOf(l)] # None /\ l \in j.primaries[PrimaryOf(l)].variants
    <3>1. PrimaryOf(l) \in Primaries
      BY DEF VKeys, PrimaryOf
    <3>2. CASE l = k
      BY <1>2, <1>9, <1>10, <1>12, <3>2
    <3>3. CASE l # k
      <4>1. i.entries[l] # None
        BY <1>8, <1>12, <2>1, <3>3
      <4>2. i.primaries[PrimaryOf(l)] # None /\ l \in i.primaries[PrimaryOf(l)].variants
        BY <1>1, <4>1 DEF Sound, Reachable
      <4> QED
        BY <1>9, <1>10, <1>12, <3>1, <4>2 DEF Siblings
    <3> QED
      BY <3>2, <3>3
  <2>2. ASSUME NEW q \in Primaries, j.primaries[q] # None
        PROVE  /\ j.primaries[q].variants # {}
               /\ \A l \in j.primaries[q].variants : j.entries[l] # None /\ PrimaryOf(l) = q
    <3>1. CASE q = p
      BY <1>2, <1>7, <1>8, <1>9, <1>10, <1>12, <3>1
    <3>2. CASE q # p
      <4>1. j.primaries[q] = i.primaries[q]
        BY <1>10, <1>12, <3>2
      <4>2. i.primaries[q].variants \subseteq VKeys
        BY <1>1, <2>2, <4>1 DEF Index, PrimaryEntries
      <4> QED
        BY <1>1, <1>7, <1>8, <1>12, <2>2, <4>1, <4>2 DEF Sound, Reachable
    <3> QED
      BY <3>1, <3>2
  <2> QED
    BY <2>1, <2>2 DEF Reachable
<1>16. Sound(j)
  <2>1. memLru \in Seq(VKeys) /\ memBytes \in Nat /\ diskLru \in Seq(VKeys) /\ diskBytes \in Nat
    BY <1>12, <1>13, <1>14, TierTyped DEF MemTier, DiskTier
  <2>2. (i.dirty \/ dropDisk) \in BOOLEAN /\ gen \in Nat
    BY <1>4
  <2> HIDE DEF memLru, memBytes, diskLru, diskBytes, dropDisk, gen
  <2>3. j \in Index
    BY <1>8, <1>10, <1>11, <2>1, <2>2 DEF Index
  <2> QED
    BY <1>13, <1>14, <1>15, <2>3 DEF Sound
<1> DEFINE m == RemoveEntries(j, orphan)
<1>17. /\ Sound(m) /\ m.diskBytes <= j.diskBytes /\ m.nextGen = j.nextGen
       /\ \A l \in VKeys : m.entries[l] = IF l \in orphan THEN None ELSE j.entries[l]
  <2>1. orphan \in SUBSET VKeys
    BY <1>2
  <2> HIDE DEF orphan
  <2> QED
    BY <1>16, <2>1, RemoveSound
<1> HIDE DEF m
<1>18. Filled(m) /\ m.diskBytes <= DiskBudget
  <2>1. m.diskBytes \in Nat /\ j.diskBytes \in Nat /\ DiskBudget \in Nat
    BY <1>16, <1>17, CacheAssumption DEF Sound, Index
  <2>2. m.diskBytes <= DiskBudget
    BY <1>14, <1>17, <2>1
  <2>3. ASSUME NEW l \in VKeys PROVE m.entries[l] # NewEntry
    BY <1>1, <1>8, <1>12, <1>17, EntriesOfNone DEF Filled
  <2> QED
    BY <2>2, <2>3 DEF Filled
<1> DEFINE n == EvictMemory(m)
<1>19. /\ Settled(n) /\ n.nextGen = m.nextGen
       /\ \A l \in VKeys : KeepsDisk(m.entries[l], n.entries[l])
  BY <1>17, <1>18, EvictMemorySettles
<1> HIDE DEF n
<1>20. ASSUME NEW l \in VKeys \ {k} PROVE KeepsDisk(i.entries[l], n.entries[l])
  BY <1>8, <1>12, <1>17, <1>19
<1>21. ASSUME toDisk
       PROVE  /\ n.entries[k] # None
              /\ n.entries[k].disk = IF i.entries[k] = None THEN None ELSE i.entries[k].disk
              /\ n.entries[k].pending = [gen |-> gen, value |-> value]
  <2>1. [gen |-> gen, value |-> value] # None
    BY <1>4, NoneAssumption DEF PendingWrites
  <2> HIDE DEF gen
  <2>2. entry # NewEntry /\ KeepEntry(entry)
    BY <1>7, <1>21, <2>1 DEF NewEntry, KeepEntry
  <2>3. m.entries[k] = entry
    BY <1>2, <1>8, <1>12, <1>17, <2>2
  <2>4. n.entries[k] # None /\ n.entries[k].disk = entry.disk /\ n.entries[k].pending = entry.pending
    BY <1>2, <1>7, <1>19, <2>2, <2>3 DEF KeepsDisk
  <2> QED
    BY <1>5, <1>7, <1>21, <2>4
<1>22. ASSUME ~toDisk
       PROVE  ~OnDisk(n, k) /\ (n.entries[k] = None \/ n.entries[k].pending = None)
  <2>1. m.entries[k] = None \/ m.entries[k] = entry
    BY <1>2, <1>8, <1>12, <1>17
  <2> QED
    BY <1>2, <1>7, <1>19, <1>22, <2>1 DEF KeepsDisk, OnDisk
<1>23. n = StoredIndex(i, r, value).idx /\ ToDisk(value) = toDisk
  BY <1>3, Zenon DEF n, m, ToDisk, k, p
<1> QED
  BY <1>6, <1>12, <1>17, <1>19, <1>20, <1>21, <1>22, <1>23 DEF k, p, StoreOutcome

-----------------------------------------------------------------------------
(***************************************************************************)
(* on_write_done                                                           *)
(***************************************************************************)
LEMMA SlotLost ==
  ASSUME NEW before \in Entries \cup {None}, NEW after, LosesSlot(before, after), before # NewEntry
  PROVE  after # NewEntry
<1>1. CASE before # None /\ ~(before.mem = None /\ before.pending = None)
                         /\ after = [before EXCEPT !.disk = None]
  <2>1. before \in Entries
    BY <1>1
  <2>2. after.mem = before.mem /\ after.pending = before.pending
    BY <1>1, <2>1 DEF Entries
  <2> QED
    BY <1>1, <2>2 DEF NewEntry
<1> QED
  BY <1>1, EntriesOfNone DEF LosesSlot

(* evict_disk from an index whose disk tier may be over its budget *)
LEMMA EvictDiskSettles ==
  ASSUME NEW i, Sound(i), Filled(i), i.memBytes <= MemBudget
  PROVE  /\ Settled(EvictDisk(i).idx)
         /\ EvictDisk(i).idx.nextGen = i.nextGen
         /\ \A k \in VKeys : LosesSlot(i.entries[k], EvictDisk(i).idx.entries[k])
         /\ EvictDisk(i).deletes = SlotPaths(i, {k \in VKeys : ~OnDisk(EvictDisk(i).idx, k)})
<1> DEFINE r == EvictDisk(i).idx
<1>1. /\ Sound(r)
      /\ r.diskBytes <= DiskBudget /\ r.memBytes <= i.memBytes /\ r.nextGen = i.nextGen
      /\ \A k \in VKeys : LosesSlot(i.entries[k], r.entries[k])
      /\ EvictDisk(i).deletes = SlotPaths(i, {k \in VKeys : ~OnDisk(r, k)})
  BY EvictDiskSound
<1> HIDE DEF r
<1>2. i.memBytes \in Nat /\ r.memBytes \in Nat /\ MemBudget \in Nat
  BY <1>1, CacheAssumption DEF Sound, Index
<1>3. \A k \in VKeys : i.entries[k] \in Entries \cup {None}
  BY DEF Sound, Index
<1>4. \A k \in VKeys : r.entries[k] # NewEntry
  BY <1>1, <1>3, SlotLost DEF Filled
<1> QED
  BY <1>1, <1>2, <1>4 DEF Settled, Filled, InBudget, r

LEMMA CommittedSound ==
  ASSUME NEW i, Settled(i), NEW k \in VKeys, i.entries[k] # None, NEW slot \in Slots
  PROVE  LET j == Committed(i, k, slot)
         IN  /\ Sound(j) /\ Filled(j) /\ j.memBytes <= MemBudget /\ j.nextGen = i.nextGen
             /\ \A l \in VKeys \ {k} : j.entries[l] = i.entries[l]
             /\ j.entries[k] = [mem |-> i.entries[k].mem, disk |-> slot, pending |-> None]
             /\ j.entries[k] # None
<1> DEFINE entry == [mem |-> i.entries[k].mem, disk |-> slot, pending |-> None]
           entries == [i.entries EXCEPT ![k] = entry]
           diskLru == Append(Without(i.diskLru, {k}), k)
           diskBytes == i.diskBytes - DiskSize(i, {k}) + slot.size
           j == Committed(i, k, slot)
<1>1. i \in Index /\ Sound(i) /\ Filled(i) /\ InBudget(i)
  BY DEF Settled, Sound
<1>2. i.entries[k] \in Entries /\ slot # None /\ slot.size \in Nat
  BY <1>1, EntryTyped, NoneAssumption DEF Slots
<1>3. entry \in Entries /\ entry # None /\ entry.mem = i.entries[k].mem /\ entry.disk = slot
  BY <1>2, NoneAssumption DEF Entries
<1>4. j = [i EXCEPT !.entries[k] = entry, !.diskLru = diskLru, !.diskBytes = diskBytes, !.dirty = TRUE]
  BY DEF Committed
<1> HIDE DEF entry, j
<1>5. /\ entries \in [VKeys -> Entries \cup {None}]
      /\ \A l \in VKeys : entries[l] = IF l = k THEN entry ELSE i.entries[l]
  BY <1>1, <1>3 DEF Index
<1>6. j = [entries |-> entries, primaries |-> i.primaries, memLru |-> i.memLru,
           diskLru |-> diskLru, memBytes |-> i.memBytes, diskBytes |-> diskBytes,
           nextGen |-> i.nextGen, dirty |-> TRUE]
  <2> HIDE DEF diskLru, diskBytes
  <2> QED
    BY <1>1, <1>4 DEF Index
<1>7. /\ j.entries = entries /\ j.primaries = i.primaries /\ j.memLru = i.memLru
      /\ j.diskLru = diskLru /\ j.memBytes = i.memBytes /\ j.diskBytes = diskBytes
      /\ j.nextGen = i.nextGen
  BY <1>6
<1> HIDE DEF entries
<1>8. MemTier(j)
  <2>1. \A l \in VKeys :
          (HasMem(j, l) <=> HasMem(i, l)) /\ (HasMem(j, l) => j.entries[l].mem = i.entries[l].mem)
    BY <1>3, <1>5, <1>7 DEF HasMem
  <2>2. MemKeys(j) = MemKeys(i) /\ \A l \in MemKeys(i) : MemCost(j)[l] = MemCost(i)[l]
    BY <2>1 DEF MemKeys, MemCost
  <2>3. Tier(i.memLru, i.memBytes, MemCost(i), MemKeys(i))
    BY <1>1 DEF Sound, MemTier
  <2>4. Tier(i.memLru, i.memBytes, MemCost(j), MemKeys(i))
    BY <2>2, <2>3, TierAgrees
  <2> QED
    BY <1>7, <2>2, <2>4 DEF MemTier
<1>9. DiskTier(j)
  <2>1. \A l \in VKeys : OnDisk(j, l) <=> OnDisk(i, l) \/ l = k
    BY <1>2, <1>3, <1>5, <1>7 DEF OnDisk
  <2>2. /\ DiskKeys(j) = DiskKeys(i) \cup {k}
        /\ \A l \in DiskKeys(i) \ {k} : DiskCost(j)[l] = DiskCost(i)[l]
        /\ DiskCost(j)[k] = slot.size
    BY <1>3, <1>5, <1>7, <2>1 DEF DiskKeys, DiskCost
  <2>3. DiskCost(i)[k] \in Nat /\ (k \notin DiskKeys(i) => DiskCost(i)[k] = 0)
    BY <1>1, EntryTyped DEF DiskKeys
  <2>4. DiskSize(i, {k}) = DiskCost(i)[k]
    BY <2>3, TotalOfOne DEF DiskSize
  <2>5. Tier(i.diskLru, i.diskBytes, DiskCost(i), DiskKeys(i))
    BY <1>1 DEF Sound, DiskTier
  <2>6. Tier(diskLru, i.diskBytes - DiskCost(i)[k] + DiskCost(j)[k], DiskCost(j), DiskKeys(i) \cup {k})
    BY <1>2, <2>2, <2>3, <2>5, TierReplaced
  <2> QED
    BY <1>7, <2>2, <2>4, <2>6 DEF DiskTier
<1>10. Reachable(j)
  <2>1. \A l \in VKeys : j.entries[l] = None <=> i.entries[l] = None
    BY <1>3, <1>5, <1>7
  <2>2. \A p \in Primaries : i.primaries[p] # None => i.primaries[p].variants \subseteq VKeys
    BY <1>1 DEF Index, PrimaryEntries
  <2> QED
    BY <1>1, <1>7, <2>1, <2>2 DEF Sound, Reachable
<1>11. Sound(j)
  <2>1. diskLru \in Seq(VKeys) /\ diskBytes \in Nat
    BY <1>7, <1>9, TierTyped DEF DiskTier
  <2> HIDE DEF diskLru, diskBytes
  <2>2. j \in Index
    BY <1>1, <1>5, <1>6, <2>1 DEF Index
  <2> QED
    BY <1>8, <1>9, <1>10, <2>2 DEF Sound
<1>12. Filled(j)
  BY <1>1, <1>2, <1>3, <1>5, <1>7 DEF Filled, NewEntry
<1> QED
  BY <1>1, <1>3, <1>5, <1>7, <1>11, <1>12 DEF InBudget, j, entry

LEMMA WriteFailedSettled ==
  ASSUME NEW i, Settled(i), NEW k \in VKeys, i.entries[k] # None
  PROVE  LET r == WriteFailed(i, k)
         IN  /\ Settled(r) /\ r.nextGen = i.nextGen
             /\ \A l \in VKeys \ {k} : r.entries[l] = i.entries[l]
             /\ \/ r.entries[k] = None /\ i.entries[k].disk = None
                \/ /\ r.entries[k] # None /\ r.entries[k].disk = i.entries[k].disk
                   /\ r.entries[k].pending = None
<1> DEFINE entry == [i.entries[k] EXCEPT !.pending = None]
           entries == [i.entries EXCEPT ![k] = entry]
           j == [i EXCEPT !.entries[k].pending = None]
           orphan == IF j.entries[k] = NewEntry THEN {k} ELSE {}
           r == RemoveEntries(j, orphan)
<1>1. i \in Index /\ Sound(i) /\ Filled(i) /\ InBudget(i)
  BY DEF Settled, Sound
<1>2. i.entries[k] \in Entries
  BY <1>1, EntryTyped
<1>3. /\ entry \in Entries /\ entry # None /\ entry.mem = i.entries[k].mem
      /\ entry.disk = i.entries[k].disk /\ entry.pending = None
  BY <1>2, NoneAssumption DEF Entries
<1>4. j = [i EXCEPT !.entries = entries]
  BY <1>1 DEF Index
<1>5. WriteFailed(i, k) = r
  BY DEF WriteFailed
<1> HIDE DEF j, entry
<1>6. /\ entries \in [VKeys -> Entries \cup {None}]
      /\ \A l \in VKeys : entries[l] = IF l = k THEN entry ELSE i.entries[l]
  BY <1>1, <1>3 DEF Index
<1> HIDE DEF entries
<1>7. /\ j \in Index
      /\ j.entries = entries /\ j.primaries = i.primaries /\ j.memLru = i.memLru
      /\ j.diskLru = i.diskLru /\ j.memBytes = i.memBytes /\ j.diskBytes = i.diskBytes
      /\ j.nextGen = i.nextGen
  BY <1>1, <1>4, <1>6 DEF Index
<1>8. \A l \in VKeys : /\ (HasMem(j, l) <=> HasMem(i, l)) /\ (OnDisk(j, l) <=> OnDisk(i, l))
                       /\ (HasMem(j, l) => j.entries[l].mem = i.entries[l].mem)
                       /\ (OnDisk(j, l) => j.entries[l].disk = i.entries[l].disk)
  BY <1>3, <1>6, <1>7 DEF HasMem, OnDisk
<1>9. MemTier(j)
  <2>1. MemKeys(j) = MemKeys(i) /\ \A l \in MemKeys(i) : MemCost(j)[l] = MemCost(i)[l]
    BY <1>8 DEF MemKeys, MemCost
  <2>2. Tier(i.memLru, i.memBytes, MemCost(i), MemKeys(i))
    BY <1>1 DEF Sound, MemTier
  <2>3. Tier(i.memLru, i.memBytes, MemCost(j), MemKeys(i))
    BY <2>1, <2>2, TierAgrees
  <2> QED
    BY <1>7, <2>1, <2>3 DEF MemTier
<1>10. DiskTier(j)
  <2>1. DiskKeys(j) = DiskKeys(i) /\ \A l \in DiskKeys(i) : DiskCost(j)[l] = DiskCost(i)[l]
    BY <1>8 DEF DiskKeys, DiskCost
  <2>2. Tier(i.diskLru, i.diskBytes, DiskCost(i), DiskKeys(i))
    BY <1>1 DEF Sound, DiskTier
  <2>3. Tier(i.diskLru, i.diskBytes, DiskCost(j), DiskKeys(i))
    BY <2>1, <2>2, TierAgrees
  <2> QED
    BY <1>7, <2>1, <2>3 DEF DiskTier
<1>11. Reachable(j)
  <2>1. \A l \in VKeys : j.entries[l] = None <=> i.entries[l] = None
    BY <1>3, <1>6, <1>7
  <2>2. \A p \in Primaries : i.primaries[p] # None => i.primaries[p].variants \subseteq VKeys
    BY <1>1 DEF Index, PrimaryEntries
  <2> QED
    BY <1>1, <1>7, <2>1, <2>2 DEF Sound, Reachable
<1>12. /\ Sound(r) /\ r.memBytes <= j.memBytes /\ r.diskBytes <= j.diskBytes /\ r.nextGen = j.nextGen
       /\ \A l \in VKeys : r.entries[l] = IF l \in orphan THEN None ELSE j.entries[l]
  <2>1. Sound(j)
    BY <1>7, <1>9, <1>10, <1>11 DEF Sound
  <2>2. orphan \in SUBSET VKeys
    OBVIOUS
  <2> HIDE DEF orphan
  <2> QED
    BY <2>1, <2>2, RemoveSound
<1> HIDE DEF r
<1>13. InBudget(r)
  <2>1. /\ r.memBytes \in Nat /\ r.diskBytes \in Nat /\ j.memBytes \in Nat /\ j.diskBytes \in Nat
        /\ MemBudget \in Nat /\ DiskBudget \in Nat
    BY <1>7, <1>12, CacheAssumption DEF Sound, Index
  <2> QED
    BY <1>1, <1>7, <1>12, <2>1 DEF InBudget
<1>14. Filled(r)
  BY <1>1, <1>6, <1>7, <1>12, EntriesOfNone DEF Filled
<1>15. \/ r.entries[k] = None /\ i.entries[k].disk = None
       \/ /\ r.entries[k] # None /\ r.entries[k].disk = i.entries[k].disk
          /\ r.entries[k].pending = None
  <2>1. CASE entry = NewEntry
    BY <1>3, <1>6, <1>7, <1>12, <2>1 DEF NewEntry
  <2>2. CASE entry # NewEntry
    BY <1>3, <1>6, <1>7, <1>12, <2>2
  <2> QED
    BY <2>1, <2>2
<1>16. \A l \in VKeys \ {k} : r.entries[l] = i.entries[l]
  BY <1>6, <1>7, <1>12
<1> QED
  BY <1>5, <1>7, <1>12, <1>13, <1>14, <1>15, <1>16 DEF Settled

-----------------------------------------------------------------------------
(***************************************************************************)
(* The saved index                                                         *)
(***************************************************************************)
LEMMA SnapshotTyped ==
  ASSUME NEW i, Sound(i)
  PROVE  LET recs == Snapshot(i).entries
         IN  /\ Snapshot(i) \in Snapshots
             /\ \A n \in 1..Len(recs) : /\ recs[n].vkey \in VKeys
                                        /\ OnDisk(i, recs[n].vkey)
                                        /\ recs[n].slot = i.entries[recs[n].vkey].disk
             /\ \A k \in VKeys : OnDisk(i, k) => \E n \in 1..Len(recs) : recs[n].vkey = k
<1> DEFINE keys == Without(i.diskLru, {k \in VKeys : ~OnDisk(i, k)})
           recs == [n \in 1..Len(keys) |-> [vkey |-> keys[n], slot |-> i.entries[keys[n]].disk]]
           vary == [p \in Primaries |-> /\ i.primaries[p] # None
                                        /\ i.primaries[p].varies
                                        /\ \E n \in 1..Len(keys) : PrimaryOf(keys[n]) = p]
<1>1. Enumerates(keys, DiskKeys(i))
  <2>1. Enumerates(i.diskLru, DiskKeys(i))
    BY DEF Sound, DiskTier, Tier
  <2>2. DiskKeys(i) \ {k \in VKeys : ~OnDisk(i, k)} = DiskKeys(i)
    BY DEF DiskKeys
  <2> QED
    BY <2>1, <2>2, WithoutEnumerates
<1>2. Snapshot(i) = [entries |-> recs, vary |-> vary]
  BY DEF Snapshot
<1> HIDE DEF keys
<1>3. /\ Len(keys) \in Nat
      /\ \A n \in 1..Len(keys) : keys[n] \in VKeys /\ OnDisk(i, keys[n])
      /\ \A m, n \in 1..Len(keys) : keys[m] = keys[n] => m = n
      /\ DiskKeys(i) = {keys[n] : n \in 1..Len(keys)}
  <2>1. keys \in Seq(VKeys) /\ DiskKeys(i) = {keys[n] : n \in 1..Len(keys)}
    BY <1>1 DEF Enumerates
  <2>2. Len(keys) \in Nat /\ \A n \in 1..Len(keys) : keys[n] \in VKeys
    BY <2>1, LenProperties
  <2>3. \A n \in 1..Len(keys) : keys[n] \in DiskKeys(i)
    BY <2>1
  <2> QED
    BY <1>1, <2>1, <2>2, <2>3 DEF Enumerates, DiskKeys
<1>4. \A n \in 1..Len(keys) : /\ recs[n] \in Records
                              /\ recs[n].vkey = keys[n]
                              /\ recs[n].slot = i.entries[keys[n]].disk
  <2>1. \A n \in 1..Len(keys) : i.entries[keys[n]].disk \in Slots
    BY <1>3, EntryTyped DEF Sound
  <2> QED
    BY <1>3, <2>1 DEF Records
<1>5. recs \in Seq(Records) /\ Len(recs) = Len(keys)
  BY <1>3, <1>4
<1>6. vary \in [Primaries -> BOOLEAN]
  OBVIOUS
<1> HIDE DEF recs, vary
<1>7. Snapshot(i) \in Snapshots
  BY <1>2, <1>3, <1>4, <1>5, <1>6 DEF Snapshots
<1>8. \A k \in VKeys : OnDisk(i, k) => \E n \in 1..Len(recs) : recs[n].vkey = k
  BY <1>3, <1>4, <1>5 DEF DiskKeys
<1> QED
  BY <1>2, <1>3, <1>4, <1>5, <1>7, <1>8

(* A generation the loaded index hands out next was never a slot's. *)
LEMMA LastGenerationBounds ==
  ASSUME NEW recs \in Seq(Records)
  PROVE  /\ LastGeneration(recs) \in Nat
         /\ \A n \in 1..Len(recs) : recs[n].slot.gen <= LastGeneration(recs)
<1> DEFINE gen == [n \in 1..Len(recs) |-> recs[n].slot.gen]
           gens == {0} \cup {recs[n].slot.gen : n \in 1..Len(recs)}
           Bounds(n) == {m \in Nat : \A j \in 1..n : gen[j] <= m}
           Bad == {n \in 0..Len(recs) : Bounds(n) = {}}
<1>1. /\ Len(recs) \in Nat /\ gen \in [1..Len(recs) -> Nat]
      /\ \A n \in 1..Len(recs) : gen[n] = recs[n].slot.gen
  <2>1. Len(recs) \in Nat /\ \A n \in 1..Len(recs) : recs[n] \in Records
    BY LenProperties
  <2>2. \A n \in 1..Len(recs) : recs[n].slot.gen \in Nat
    BY <2>1 DEF Records, Slots
  <2> QED
    BY <2>1, <2>2
<1> HIDE DEF gen
<1>2. Bad = {}
  <2> SUFFICES ASSUME Bad # {} PROVE FALSE
    OBVIOUS
  <2>1. PICK b \in Bad : \A n \in Bad : b <= n
    <3>1. Bad \in SUBSET Nat
      BY <1>1
    <3> HIDE DEF Bad
    <3> QED
      BY <3>1, LeastNatural
  <2>2. b \in 0..Len(recs) /\ Bounds(b) = {}
    BY <2>1
  <2>3. b # 0
    <3>1. 0 \in Bounds(0)
      OBVIOUS
    <3> QED
      BY <2>2, <3>1
  <2>4. b - 1 \in 0..Len(recs) /\ b - 1 \notin Bad /\ b \in 1..Len(recs)
    <3>1. b - 1 \in 0..Len(recs) /\ ~(b <= b - 1) /\ b \in 1..Len(recs)
      BY <1>1, <2>2, <2>3
    <3> HIDE DEF Bad
    <3> QED
      BY <2>1, <3>1
  <2>5. PICK m \in Nat : \A j \in 1..(b - 1) : gen[j] <= m
    BY <2>4
  <2> DEFINE top == IF gen[b] <= m THEN m ELSE gen[b]
  <2>6. top \in Nat /\ m <= top /\ gen[b] <= top
    BY <1>1, <2>4, SMTT(30)
  <2>7. ASSUME NEW j \in 1..b PROVE gen[j] <= top
    <3>1. CASE j = b
      BY <2>6, <3>1
    <3>2. CASE j # b
      <4>1. j \in 1..(b - 1) /\ j \in 1..Len(recs)
        BY <1>1, <2>4, <3>2
      <4>2. gen[j] <= m
        BY <2>5, <4>1
      <4>3. gen[j] \in Nat
        BY <1>1, <4>1
      <4> HIDE DEF top
      <4> QED
        BY <2>5, <2>6, <4>2, <4>3
    <3> QED
      BY <3>1, <3>2
  <2>8. top \in Bounds(b)
    BY <2>6, <2>7
  <2> QED
    BY <2>2, <2>8
<1>3. PICK g \in Bounds(Len(recs)) : \A m \in Bounds(Len(recs)) : g <= m
  <2>1. Len(recs) \in 0..Len(recs)
    BY <1>1
  <2>2. Bounds(Len(recs)) # {} /\ Bounds(Len(recs)) \in SUBSET Nat
    BY <1>2, <2>1
  <2> HIDE DEF Bounds
  <2> QED
    BY <2>2, LeastNatural
<1>4. g \in Nat /\ \A n \in 1..Len(recs) : gen[n] <= g
  BY <1>3
<1>5. g \in gens
  <2> SUFFICES ASSUME g \notin gens PROVE FALSE
    OBVIOUS
  <2>1. g - 1 \in Nat
    BY <1>4
  <2>2. ASSUME NEW n \in 1..Len(recs) PROVE gen[n] <= g - 1
    <3>1. gen[n] # g /\ gen[n] \in Nat /\ gen[n] <= g
      BY <1>1, <1>4
    <3> QED
      BY <1>4, <3>1
  <2>3. g <= g - 1
    BY <1>3, <2>1, <2>2
  <2> QED
    BY <1>4, <2>3
<1>6. \A h \in gens : h <= g
  <2>1. \A n \in 1..Len(recs) : recs[n].slot.gen <= g
    BY <1>1, <1>4
  <2> QED
    BY <1>4, <2>1
<1>7. LastGeneration(recs) = CHOOSE l \in gens : \A h \in gens : h <= l
  BY DEF LastGeneration
<1>8. gens \in SUBSET Nat
  <2>1. \A n \in 1..Len(recs) : recs[n].slot.gen \in Nat
    BY <1>1
  <2> QED
    BY <2>1
<1>9. \A n \in 1..Len(recs) : recs[n].slot.gen \in gens
  OBVIOUS
<1> HIDE DEF gens
<1>10. LastGeneration(recs) \in gens /\ \A h \in gens : h <= LastGeneration(recs)
  BY <1>5, <1>6, <1>7
<1> QED
  BY <1>8, <1>9, <1>10

-----------------------------------------------------------------------------
(***************************************************************************)
(* HttpCache::open                                                         *)
(***************************************************************************)
LEMMA EmptySound ==
  /\ Sound(EmptyIndex) /\ Settled(EmptyIndex)
  /\ \A k \in VKeys : EmptyIndex.entries[k] = None
<1> DEFINE i == EmptyIndex
<1>1. /\ i.memLru = << >> /\ i.diskLru = << >> /\ i.memBytes = 0 /\ i.diskBytes = 0
      /\ \A k \in VKeys : i.entries[k] = None
      /\ \A p \in Primaries : i.primaries[p] = None
  BY DEF EmptyIndex
<1>2. i \in Index
  BY DEF EmptyIndex, Index
<1> HIDE DEF i
<1>3. MemKeys(i) = {} /\ DiskKeys(i) = {}
  BY <1>1 DEF MemKeys, DiskKeys, HasMem, OnDisk
<1>4. MemTier(i) /\ DiskTier(i)
  BY <1>1, <1>3, EmptyEnumerates, TotalOfEmpty DEF MemTier, DiskTier, Tier, Costs
<1>5. Reachable(i) /\ Filled(i)
  BY <1>1, EntriesOfNone DEF Reachable, Filled
<1>6. InBudget(i)
  BY <1>1, CacheAssumption DEF InBudget
<1> QED
  BY <1>1, <1>2, <1>4, <1>5, <1>6 DEF Sound, Settled, i

LEMMA LoadedSound ==
  ASSUME NEW snap \in Snapshots
  PROVE  LET j == LoadedIndex(snap)
             recs == snap.entries
         IN  /\ Sound(j) /\ Filled(j) /\ j.memBytes = 0
             /\ j.nextGen \in Nat
             /\ \A n \in 1..Len(recs) : /\ recs[n].slot.gen <= j.nextGen
                                        /\ j.entries[recs[n].vkey] = [mem |-> None, disk |-> recs[n].slot,
                                                                      pending |-> None]
             /\ \A k \in VKeys : j.entries[k] # None =>
                  /\ j.entries[k].mem = None /\ j.entries[k].pending = None
                  /\ \E n \in 1..Len(recs) : recs[n].vkey = k /\ j.entries[k].disk = recs[n].slot
<1> DEFINE recs == snap.entries
           keys == {recs[n].vkey : n \in 1..Len(recs)}
           slot(k) == recs[CHOOSE n \in 1..Len(recs) : recs[n].vkey = k].slot
           variants(p) == {k \in keys : PrimaryOf(k) = p}
           entries == [k \in VKeys |-> IF k \in keys THEN [NewEntry EXCEPT !.disk = slot(k)] ELSE None]
           primaries == [p \in Primaries |->
                          IF variants(p) = {} THEN None
                          ELSE [varies |-> snap.vary[p], variants |-> variants(p)]]
           diskLru == [n \in 1..Len(recs) |-> recs[n].vkey]
           diskBytes == Total([k \in keys |-> slot(k).size], keys)
           nextGen == LastGeneration(recs)
           j == LoadedIndex(snap)
<1>1. /\ recs \in Seq(Records) /\ snap.vary \in [Primaries -> BOOLEAN]
      /\ \A m, n \in 1..Len(recs) : recs[m].vkey = recs[n].vkey => m = n
  BY DEF Snapshots
<1>2. Len(recs) \in Nat /\ \A n \in 1..Len(recs) : recs[n].vkey \in VKeys /\ recs[n].slot \in Slots
  <2> HIDE DEF recs
  <2>1. Len(recs) \in Nat /\ \A n \in 1..Len(recs) : recs[n] \in Records
    BY <1>1, LenProperties
  <2> QED
    BY <2>1 DEF Records
<1>3. nextGen \in Nat /\ \A n \in 1..Len(recs) : recs[n].slot.gen <= nextGen
  BY <1>1, LastGenerationBounds
<1>4. j = [EmptyIndex EXCEPT !.entries = entries, !.primaries = primaries, !.diskLru = diskLru,
                             !.diskBytes = diskBytes, !.nextGen = nextGen]
  BY DEF LoadedIndex
<1> HIDE DEF recs, j, nextGen
<1>5. ASSUME NEW n \in 1..Len(recs) PROVE slot(recs[n].vkey) = recs[n].slot
  <2> DEFINE m == CHOOSE m \in 1..Len(recs) : recs[m].vkey = recs[n].vkey
  <2>1. m \in 1..Len(recs) /\ recs[m].vkey = recs[n].vkey
    OBVIOUS
  <2> HIDE DEF m
  <2>2. m = n
    BY <1>1, <2>1
  <2> QED
    BY <2>2 DEF m
<1>6. ASSUME NEW k \in keys
      PROVE  /\ k \in VKeys /\ slot(k) \in Slots
             /\ \E n \in 1..Len(recs) : recs[n].vkey = k /\ slot(k) = recs[n].slot
  <2>1. PICK n \in 1..Len(recs) : recs[n].vkey = k
    BY DEF keys
  <2> HIDE DEF slot
  <2>2. slot(k) = recs[n].slot
    BY <1>5, <2>1
  <2> QED
    BY <1>2, <2>1, <2>2
<1> HIDE DEF slot, keys
<1>7. ASSUME NEW k \in keys
      PROVE  LET e == [NewEntry EXCEPT !.disk = slot(k)]
             IN  /\ e = [mem |-> None, disk |-> slot(k), pending |-> None]
                 /\ e.mem = None /\ e.disk = slot(k) /\ e.pending = None
                 /\ e \in Entries /\ e # None /\ slot(k) # None
  BY <1>6, NoneAssumption DEF NewEntry, Entries
<1>8. /\ entries \in [VKeys -> Entries \cup {None}]
      /\ \A k \in VKeys : entries[k] = IF k \in keys THEN [NewEntry EXCEPT !.disk = slot(k)] ELSE None
  BY <1>7
<1> HIDE DEF entries
<1>9. /\ primaries \in [Primaries -> PrimaryEntries \cup {None}]
      /\ \A p \in Primaries : primaries[p] # None =>
           variants(p) # {} /\ primaries[p].variants = variants(p)
      /\ \A p \in Primaries : variants(p) # {} => primaries[p] # None
  <2>1. \A p \in Primaries : variants(p) \in SUBSET VKeys
    BY <1>6
  <2>2. \A p \in Primaries : /\ [varies |-> snap.vary[p], variants |-> variants(p)] \in PrimaryEntries
                             /\ [varies |-> snap.vary[p], variants |-> variants(p)] # None
    BY <1>1, <2>1, NoneAssumption DEF PrimaryEntries
  <2> HIDE DEF variants
  <2> QED
    BY <2>2
<1> HIDE DEF primaries
<1>10. Enumerates(diskLru, keys)
  <2>1. diskLru \in Seq(VKeys) /\ Len(diskLru) = Len(recs)
    BY <1>2
  <2>2. \A n \in 1..Len(recs) : diskLru[n] = recs[n].vkey
    OBVIOUS
  <2> HIDE DEF diskLru
  <2> QED
    BY <1>1, <2>1, <2>2 DEF Enumerates, keys
<1> HIDE DEF diskLru
<1>11. IsFiniteSet(keys) /\ keys \subseteq VKeys
  BY <1>10, EnumeratedListed
<1>12. /\ j = [entries |-> entries, primaries |-> primaries, memLru |-> << >>, diskLru |-> diskLru,
               memBytes |-> 0, diskBytes |-> diskBytes, nextGen |-> nextGen, dirty |-> FALSE]
       /\ j.entries = entries /\ j.primaries = primaries /\ j.memLru = << >> /\ j.diskLru = diskLru
       /\ j.memBytes = 0 /\ j.diskBytes = diskBytes /\ j.nextGen = nextGen
  BY <1>4 DEF EmptyIndex
<1>13. MemKeys(j) = {} /\ DiskKeys(j) = keys
  <2>1. \A k \in VKeys : ~HasMem(j, k)
    BY <1>7, <1>8, <1>12 DEF HasMem
  <2>2. \A k \in VKeys : OnDisk(j, k) <=> k \in keys
    BY <1>7, <1>8, <1>12 DEF OnDisk
  <2> QED
    BY <1>11, <2>1, <2>2 DEF MemKeys, DiskKeys
<1>14. DiskTier(j)
  <2>1. \A k \in keys : DiskCost(j)[k] = slot(k).size /\ slot(k).size \in Nat
    <3>1. ASSUME NEW k \in keys PROVE slot(k).size \in Nat
      BY <1>6, <3>1 DEF Slots
    <3>2. ASSUME NEW k \in keys PROVE DiskCost(j)[k] = slot(k).size
      <4>1. k \in VKeys /\ j.entries[k] = [NewEntry EXCEPT !.disk = slot(k)]
        BY <1>8, <1>11, <1>12
      <4>2. j.entries[k] # None /\ j.entries[k].disk = slot(k) /\ slot(k) # None
        BY <1>7, <4>1
      <4>3. OnDisk(j, k)
        BY <4>2 DEF OnDisk
      <4> QED
        BY <4>1, <4>2, <4>3 DEF DiskCost
    <3> QED
      BY <3>1, <3>2
  <2>2. Total([k \in keys |-> slot(k).size], keys) = Total(DiskCost(j), keys)
    BY <2>1, TotalAgrees
  <2>3. Costs(DiskCost(j), keys)
    BY <2>1 DEF Costs
  <2> QED
    BY <1>10, <1>12, <1>13, <2>2, <2>3 DEF DiskTier, Tier
<1>15. MemTier(j)
  BY <1>12, <1>13, EmptyEnumerates, TotalOfEmpty DEF MemTier, Tier, Costs
<1>16. Reachable(j)
  <2>1. ASSUME NEW k \in VKeys, j.entries[k] # None
        PROVE  j.primaries[PrimaryOf(k)] # None /\ k \in j.primaries[PrimaryOf(k)].variants
    <3>1. k \in keys /\ PrimaryOf(k) \in Primaries
      BY <1>8, <1>12, <2>1 DEF VKeys, PrimaryOf
    <3>2. k \in variants(PrimaryOf(k))
      BY <3>1
    <3> QED
      BY <1>9, <1>12, <3>1, <3>2
  <2>2. ASSUME NEW p \in Primaries, j.primaries[p] # None
        PROVE  /\ j.primaries[p].variants # {}
               /\ \A k \in j.primaries[p].variants : j.entries[k] # None /\ PrimaryOf(k) = p
    <3>1. j.primaries[p].variants = variants(p) /\ variants(p) # {}
      BY <1>9, <1>12, <2>2
    <3>2. \A k \in variants(p) : k \in keys /\ PrimaryOf(k) = p
      OBVIOUS
    <3> HIDE DEF variants
    <3>3. ASSUME NEW k \in variants(p) PROVE j.entries[k] # None /\ PrimaryOf(k) = p
      <4>1. k \in keys /\ k \in VKeys /\ PrimaryOf(k) = p
        BY <1>11, <3>2
      <4>2. j.entries[k] = [NewEntry EXCEPT !.disk = slot(k)]
        BY <1>8, <1>12, <4>1
      <4> QED
        BY <1>7, <4>1, <4>2
    <3> QED
      BY <3>1, <3>3
  <2> QED
    BY <2>1, <2>2 DEF Reachable
<1>17. Sound(j)
  <2>1. diskLru \in Seq(VKeys) /\ diskBytes \in Nat
    BY <1>12, <1>14, TierTyped DEF DiskTier
  <2>2. << >> \in Seq(VKeys)
    OBVIOUS
  <2> HIDE DEF diskBytes
  <2>3. j \in Index
    BY <1>3, <1>8, <1>9, <1>12, <2>1, <2>2 DEF Index
  <2> QED
    BY <1>14, <1>15, <1>16, <2>3 DEF Sound
<1>18. Filled(j)
  BY <1>7, <1>8, <1>12, EntriesOfNone DEF Filled, NewEntry
<1>19. ASSUME NEW n \in 1..Len(recs)
       PROVE  j.entries[recs[n].vkey] = [mem |-> None, disk |-> recs[n].slot, pending |-> None]
  <2>1. recs[n].vkey \in keys
    BY DEF keys
  <2>2. recs[n].vkey \in VKeys
    BY <1>6, <2>1
  <2> QED
    BY <1>5, <1>7, <1>8, <1>12, <2>1, <2>2
<1>20. ASSUME NEW k \in VKeys, j.entries[k] # None
       PROVE  /\ j.entries[k].mem = None /\ j.entries[k].pending = None
              /\ \E n \in 1..Len(recs) : recs[n].vkey = k /\ j.entries[k].disk = recs[n].slot
  <2>1. k \in keys
    BY <1>8, <1>12, <1>20
  <2>2. j.entries[k] = [NewEntry EXCEPT !.disk = slot(k)]
    BY <1>8, <1>12, <2>1
  <2>3. j.entries[k].mem = None /\ j.entries[k].disk = slot(k) /\ j.entries[k].pending = None
    BY <1>7, <2>1, <2>2
  <2>4. PICK n \in 1..Len(recs) : recs[n].vkey = k /\ slot(k) = recs[n].slot
    BY <1>6, <2>1
  <2> QED
    BY <2>3, <2>4
<1> QED
  BY <1>3, <1>12, <1>17, <1>18, <1>19, <1>20 DEF recs, j

(* The index and the jobs HttpCache::open starts with: every slot comes from
   index.bin, nothing is in memory or pending, and the files of the slots
   it evicts at once are deleted after the clean-up. *)
OpenedEntry(entry, recs, k) ==
  /\ entry.mem = None /\ entry.pending = None /\ entry.disk # None
  /\ \E n \in 1..Len(recs) : recs[n].vkey = k /\ entry.disk = recs[n].slot

LEMMA SlotPathsTyped ==
  ASSUME NEW i \in Index, NEW ks \in SUBSET VKeys
  PROVE  SlotPaths(i, ks) \in SUBSET Paths
<1>1. ASSUME NEW k \in ks, OnDisk(i, k) PROVE <<k, i.entries[k].disk.gen>> \in Paths
  <2>1. i.entries[k].disk \in Slots
    BY <1>1, EntryTyped
  <2> QED
    BY <2>1 DEF Slots, Paths
<1> QED
  BY <1>1 DEF SlotPaths

LEMMA DeleteJobsTyped ==
  ASSUME NEW paths \in SUBSET Paths
  PROVE  DeleteJobs(paths) \in Seq(Jobs) /\ Len(DeleteJobs(paths)) <= 1
<1>1. [op |-> "delete", paths |-> paths] \in Jobs
  BY DEF Jobs
<1> QED
  BY <1>1 DEF DeleteJobs

(* The jobs HttpCache::open leaves when the index before its eviction was
   loaded: what the clean-up spares is a slot or deleted after it. *)
LEMMA OpenedSettled ==
  ASSUME NEW snap \in Snapshots \cup {None}
  PROVE  LET i == Opened(snap).idx
         IN  /\ Settled(i) /\ Opened(snap).queue \in Seq(Jobs)
             /\ \A k \in VKeys : i.entries[k] # None =>
                  HasDisk /\ snap # None /\ OpenedEntry(i.entries[k], snap.entries, k)
             /\ HasDisk /\ snap # None =>
                  \A n \in 1..Len(snap.entries) : snap.entries[n].slot.gen <= i.nextGen
             /\ ~HasDisk => Opened(snap).queue = << >>
             /\ HasDisk => \E keep, gone \in SUBSET Paths :
                  /\ Opened(snap).queue = <<[op |-> "cleanup", keep |-> keep]>> \o DeleteJobs(gone)
                  /\ keep = SlotPaths(i, VKeys) \cup gone
                  /\ SlotPaths(i, VKeys) \cap gone = {}
                  /\ \A path \in keep : path[2] <= i.nextGen
                  /\ snap = None => keep = {}
<1> DEFINE loaded == IF HasDisk /\ snap # None THEN LoadedIndex(snap) ELSE EmptyIndex
           ev == EvictDisk(loaded)
           keep == SlotPaths(loaded, VKeys)
<1>1. /\ Sound(loaded) /\ Filled(loaded) /\ loaded.memBytes = 0
      /\ \A k \in VKeys : loaded.entries[k] # None =>
           /\ HasDisk /\ snap # None
           /\ loaded.entries[k].mem = None /\ loaded.entries[k].pending = None
           /\ \E n \in 1..Len(snap.entries) : /\ snap.entries[n].vkey = k
                                              /\ loaded.entries[k].disk = snap.entries[n].slot
      /\ HasDisk /\ snap # None =>
           \A n \in 1..Len(snap.entries) : snap.entries[n].slot.gen <= loaded.nextGen
  <2>1. CASE HasDisk /\ snap # None
    <3>1. snap \in Snapshots /\ loaded = LoadedIndex(snap)
      BY <2>1
    <3> HIDE DEF loaded
    <3> QED
      BY <2>1, <3>1, LoadedSound
  <2>2. CASE ~(HasDisk /\ snap # None)
    <3>1. loaded = EmptyIndex
      BY <2>2
    <3>2. EmptyIndex.memBytes = 0
      BY DEF EmptyIndex
    <3> HIDE DEF loaded
    <3> QED
      BY <2>2, <3>1, <3>2, EmptySound DEF Settled
  <2> QED
    BY <2>1, <2>2
<1>2. Opened(snap) = IF HasDisk
                     THEN [idx |-> ev.idx,
                           queue |-> <<[op |-> "cleanup", keep |-> keep]>> \o DeleteJobs(ev.deletes)]
                     ELSE [idx |-> loaded, queue |-> << >>]
  BY DEF Opened
<1>3. ASSUME NEW k \in VKeys, loaded.entries[k] # None
      PROVE  OpenedEntry(loaded.entries[k], snap.entries, k)
  <2>1. loaded.entries[k] # NewEntry /\ loaded.entries[k] \in Entries
    BY <1>1, <1>3, EntryTyped DEF Filled, Sound
  <2>2. loaded.entries[k].disk # None
    BY <1>1, <1>3, <2>1 DEF Entries, NewEntry
  <2> QED
    BY <1>1, <1>3, <2>2 DEF OpenedEntry
<1>4. CASE ~HasDisk
  <2>1. Opened(snap).idx = EmptyIndex /\ Opened(snap).queue = << >>
    BY <1>2, <1>4
  <2> QED
    BY <1>4, <2>1, EmptySound
<1>5. CASE HasDisk
  <2>1. /\ Opened(snap).idx = ev.idx
        /\ Opened(snap).queue = <<[op |-> "cleanup", keep |-> keep]>> \o DeleteJobs(ev.deletes)
    BY <1>2, <1>5
  <2>2. snap = None => \A k \in VKeys : loaded.entries[k] = None
    BY <1>1
  <2> HIDE DEF loaded
  <2>3. /\ Settled(ev.idx) /\ ev.idx.nextGen = loaded.nextGen
        /\ \A k \in VKeys : LosesSlot(loaded.entries[k], ev.idx.entries[k])
        /\ ev.deletes = SlotPaths(loaded, {k \in VKeys : ~OnDisk(ev.idx, k)})
    <3>1. 0 <= MemBudget
      BY CacheAssumption
    <3>2. loaded.memBytes <= MemBudget
      BY <1>1, <3>1
    <3> QED
      BY <1>1, <3>2, EvictDiskSettles
  <2> HIDE DEF ev
  <2>4. loaded \in Index /\ ev.idx \in Index
    BY <1>1, <2>3 DEF Settled, Sound
  <2>5. ASSUME NEW k \in VKeys, ev.idx.entries[k] # None
        PROVE  loaded.entries[k] # None /\ ev.idx.entries[k] = loaded.entries[k]
    <3>1. LosesSlot(loaded.entries[k], ev.idx.entries[k])
      BY <2>3
    <3>2. loaded.entries[k] # None => loaded.entries[k].mem = None /\ loaded.entries[k].pending = None
      BY <1>1
    <3> QED
      BY <2>5, <3>1, <3>2 DEF LosesSlot
  <2>6. SlotPaths(loaded, VKeys) = SlotPaths(ev.idx, VKeys) \cup ev.deletes
    <3>1. \A k \in VKeys : OnDisk(ev.idx, k) => /\ OnDisk(loaded, k)
                                                /\ ev.idx.entries[k].disk = loaded.entries[k].disk
      BY <2>5 DEF OnDisk
    <3> QED
      BY <2>3, <3>1 DEF SlotPaths
  <2>7. SlotPaths(ev.idx, VKeys) \cap ev.deletes = {}
    BY <2>3 DEF SlotPaths
  <2>8. keep \in SUBSET Paths /\ ev.deletes \in SUBSET Paths
    BY <2>3, <2>4, SlotPathsTyped
  <2>9. snap = None => keep = {}
    BY <2>2 DEF SlotPaths, OnDisk
  <2>10. Opened(snap).queue \in Seq(Jobs)
    <3>1. [op |-> "cleanup", keep |-> keep] \in Jobs
      BY <2>8 DEF Jobs
    <3> HIDE DEF keep
    <3>2. <<[op |-> "cleanup", keep |-> keep]>> \in Seq(Jobs)
      BY <3>1
    <3> QED
      BY <2>1, <2>8, <3>2, DeleteJobsTyped, ConcatProperties
  <2>11. ASSUME NEW k \in VKeys, ev.idx.entries[k] # None
         PROVE  HasDisk /\ snap # None /\ OpenedEntry(ev.idx.entries[k], snap.entries, k)
    BY <1>1, <1>3, <2>5, <2>11
  <2>12. \E kept, gone \in SUBSET Paths :
           /\ Opened(snap).queue = <<[op |-> "cleanup", keep |-> kept]>> \o DeleteJobs(gone)
           /\ kept = SlotPaths(ev.idx, VKeys) \cup gone
           /\ SlotPaths(ev.idx, VKeys) \cap gone = {}
           /\ \A path \in kept : path[2] <= ev.idx.nextGen
           /\ snap = None => kept = {}
    <3>1. keep = SlotPaths(ev.idx, VKeys) \cup ev.deletes
      BY <2>6
    <3>2. ASSUME NEW path \in keep PROVE path[2] <= ev.idx.nextGen
      <4>1. PICK k \in VKeys : OnDisk(loaded, k) /\ path = <<k, loaded.entries[k].disk.gen>>
        BY DEF SlotPaths
      <4>2. /\ HasDisk /\ snap # None
            /\ \E n \in 1..Len(snap.entries) : loaded.entries[k].disk = snap.entries[n].slot
        BY <1>1, <4>1 DEF OnDisk
      <4> QED
        BY <1>1, <2>3, <4>1, <4>2
    <3> HIDE DEF keep
    <3> QED
      BY <2>1, <2>7, <2>8, <2>9, <3>1, <3>2
  <2>13. HasDisk /\ snap # None =>
           \A n \in 1..Len(snap.entries) : snap.entries[n].slot.gen <= ev.idx.nextGen
    BY <1>1, <2>3
  <2> QED
    BY <1>5, <2>1, <2>3, <2>10, <2>11, <2>12, <2>13
<1> QED
  BY <1>4, <1>5

-----------------------------------------------------------------------------
(***************************************************************************)
(* Removing entries, and clearing the dirty mark                           *)
(***************************************************************************)
LEMMA RemovedSettled ==
  ASSUME NEW i, Settled(i), NEW ks \in SUBSET VKeys
  PROVE  LET j == RemoveEntries(i, ks)
         IN  /\ Settled(j) /\ j.nextGen = i.nextGen
             /\ \A k \in VKeys : j.entries[k] = IF k \in ks THEN None ELSE i.entries[k]
<1> DEFINE j == RemoveEntries(i, ks)
<1>1. /\ Sound(i) /\ Filled(i)
      /\ i.memBytes <= MemBudget /\ i.diskBytes <= DiskBudget
  BY DEF Settled, InBudget
<1>2. /\ Sound(j)
      /\ j.memBytes <= i.memBytes /\ j.diskBytes <= i.diskBytes /\ j.nextGen = i.nextGen
      /\ \A k \in VKeys : j.entries[k] = IF k \in ks THEN None ELSE i.entries[k]
  BY <1>1, RemoveSound
<1> HIDE DEF j
<1>3. Filled(j)
  BY <1>1, <1>2, EntriesOfNone DEF Filled
<1>4. i.memBytes \in Nat /\ i.diskBytes \in Nat /\ j.memBytes \in Nat /\ j.diskBytes \in Nat
  BY <1>1, <1>2 DEF Sound, Index
<1>5. InBudget(j)
  BY <1>1, <1>2, <1>4, CacheAssumption DEF InBudget
<1> QED
  BY <1>2, <1>3, <1>5 DEF Settled, j

LEMMA CleanSettled ==
  ASSUME NEW i, Settled(i)
  PROVE  LET j == [i EXCEPT !.dirty = FALSE]
         IN  Settled(j) /\ j.nextGen = i.nextGen /\ j.entries = i.entries
<1> DEFINE j == [i EXCEPT !.dirty = FALSE]
<1>1. Sound(i) /\ Filled(i) /\ InBudget(i) /\ i \in Index
  BY DEF Settled, Sound
<1>2. /\ j.entries = i.entries /\ j.primaries = i.primaries /\ j.memLru = i.memLru
      /\ j.diskLru = i.diskLru /\ j.memBytes = i.memBytes /\ j.diskBytes = i.diskBytes
      /\ j.nextGen = i.nextGen /\ j \in Index
  BY <1>1 DEF Index
<1> HIDE DEF j
<1>3. \A k \in VKeys : (HasMem(j, k) <=> HasMem(i, k)) /\ (OnDisk(j, k) <=> OnDisk(i, k))
  BY <1>2 DEF HasMem, OnDisk
<1>4. MemKeys(j) = MemKeys(i) /\ DiskKeys(j) = DiskKeys(i)
  BY <1>3 DEF MemKeys, DiskKeys
<1>5. MemCost(j) = MemCost(i) /\ DiskCost(j) = DiskCost(i)
  BY <1>2, <1>3 DEF MemCost, DiskCost
<1>6. MemTier(j) /\ DiskTier(j)
  BY <1>1, <1>2, <1>4, <1>5 DEF Sound, MemTier, DiskTier
<1>7. Reachable(j) /\ Filled(j) /\ InBudget(j)
  BY <1>1, <1>2 DEF Sound, Reachable, Filled, InBudget
<1> QED
  BY <1>2, <1>6, <1>7 DEF Settled, Sound, j

-----------------------------------------------------------------------------
(***************************************************************************)
(* The shapes of jobs and thread states                                    *)
(***************************************************************************)
LEMMA JobShape ==
  ASSUME NEW job \in Jobs
  PROVE  /\ job.op = "write" => /\ job.key \in VKeys /\ job.gen \in Nat \ {0} /\ job.value \in Values
                                /\ job = [op |-> "write", key |-> job.key, gen |-> job.gen,
                                          value |-> job.value]
         /\ job.op = "delete" => job.paths \in SUBSET Paths
         /\ job.op = "cleanup" => job.keep \in SUBSET Paths
         /\ job.op = "index" => job.snap \in Snapshots
         /\ job.op = "flush" => job.thread \in Closers /\ job.wait \in {"flush1", "flush2"}
<1>1. CASE job \in WriteJobs
  BY <1>1 DEF WriteJobs
<1>2. CASE job \in [op : {"delete"}, paths : SUBSET Paths]
  BY <1>2
<1>3. CASE job \in [op : {"cleanup"}, keep : SUBSET Paths]
  BY <1>3
<1>4. CASE job \in [op : {"index"}, snap : Snapshots]
  BY <1>4
<1>5. CASE job \in [op : {"flush"}, thread : Closers, wait : {"flush1", "flush2"}]
  BY <1>5
<1> QED
  BY <1>1, <1>2, <1>3, <1>4, <1>5 DEF Jobs

LEMMA ThreadShape ==
  ASSUME NEW pc \in ThreadStates
  PROVE  /\ pc.at = "reading" => pc.key \in VKeys /\ pc.gen \in Nat \ {0}
         /\ pc.at = "enqueue" => pc.jobs \in Seq(Jobs) /\ pc = [at |-> "enqueue", jobs |-> pc.jobs]
         /\ pc.at = "save" => pc.snap \in Snapshots
         /\ pc.at = "idle" => pc = Idle
<1>1. CASE pc \in [at : {"idle", "flush1", "flushed1", "flush2", "persisted"}]
  BY <1>1 DEF Idle
<1>2. CASE pc \in [at : {"reading"}, key : VKeys, gen : Nat \ {0}]
  BY <1>2
<1>3. CASE pc \in [at : {"enqueue"}, jobs : Seq(Jobs)]
  BY <1>3
<1>4. CASE pc \in [at : {"save"}, snap : Snapshots]
  BY <1>4
<1> QED
  BY <1>1, <1>2, <1>3, <1>4 DEF ThreadStates

LEMMA ThreadStateShapes ==
  /\ Idle \in ThreadStates
  /\ \A l \in {"flush1", "flushed1", "flush2", "persisted"} : [at |-> l] \in ThreadStates
  /\ \A k \in VKeys, g \in Nat \ {0} : [at |-> "reading", key |-> k, gen |-> g] \in ThreadStates
  /\ \A jobs \in Seq(Jobs) : [at |-> "enqueue", jobs |-> jobs] \in ThreadStates
  /\ \A snap \in Snapshots : [at |-> "save", snap |-> snap] \in ThreadStates
<1>1. Idle \in ThreadStates /\ \A l \in {"flush1", "flushed1", "flush2", "persisted"} : [at |-> l] \in ThreadStates
  BY DEF Idle, ThreadStates
<1>2. \A k \in VKeys, g \in Nat \ {0} : [at |-> "reading", key |-> k, gen |-> g] \in ThreadStates
  BY DEF ThreadStates
<1>3. \A jobs \in Seq(Jobs) : [at |-> "enqueue", jobs |-> jobs] \in ThreadStates
  BY DEF ThreadStates
<1>4. \A snap \in Snapshots : [at |-> "save", snap |-> snap] \in ThreadStates
  BY DEF ThreadStates
<1> QED
  BY <1>1, <1>2, <1>3, <1>4

LEMMA FlushedTyped ==
  ASSUME NEW pc \in ThreadStates
  PROVE  Flushed(pc) \in ThreadStates
BY ThreadStateShapes DEF Flushed

LEMMA WriterShape ==
  ASSUME NEW w \in WriterStates
  PROVE  /\ w.at = "written" => /\ w.key \in VKeys /\ w.gen \in Nat \ {0}
                                /\ w.value \in Values /\ w.ok \in BOOLEAN
         /\ w.at = "deleting" => w.paths \in SUBSET Paths /\ w = [at |-> "deleting", paths |-> w.paths]
<1>1. CASE w = Idle
  BY <1>1 DEF Idle
<1>2. CASE w \in [at : {"written"}, key : VKeys, gen : Nat \ {0}, value : Values, ok : BOOLEAN]
  BY <1>2
<1>3. CASE w \in [at : {"deleting"}, paths : SUBSET Paths]
  BY <1>3
<1> QED
  BY <1>1, <1>2, <1>3 DEF WriterStates

LEMMA StoreJobsTyped ==
  ASSUME NEW i \in Index, NEW k \in VKeys, NEW value \in Values
  PROVE  StoreJobs(i, k, value) \in Seq(Jobs)
<1> DEFINE gone == IF ~ToDisk(value) /\ OnDisk(i, k)
                   THEN DeleteJobs({<<k, i.entries[k].disk.gen>>}) ELSE << >>
           write == IF ToDisk(value)
                    THEN <<[op |-> "write", key |-> k, gen |-> i.nextGen + 1, value |-> value]>>
                    ELSE << >>
<1>1. gone \in Seq(Jobs)
  <2>1. CASE OnDisk(i, k)
    <3>1. i.entries[k].disk \in Slots
      BY <2>1, EntryTyped
    <3>2. {<<k, i.entries[k].disk.gen>>} \in SUBSET Paths
      BY <3>1 DEF Slots, Paths
    <3> QED
      BY <3>2, DeleteJobsTyped
  <2>2. CASE ~OnDisk(i, k)
    BY <2>2
  <2> QED
    BY <2>1, <2>2
<1>2. write \in Seq(Jobs)
  <2>1. i.nextGen + 1 \in Nat \ {0}
    BY DEF Index
  <2>2. [op |-> "write", key |-> k, gen |-> i.nextGen + 1, value |-> value] \in Jobs
    BY <2>1 DEF Jobs, WriteJobs
  <2> QED
    BY <2>2
<1> HIDE DEF gone, write
<1>3. gone \o write \in Seq(Jobs)
  BY <1>1, <1>2, ConcatProperties
<1> QED
  BY <1>3 DEF StoreJobs, gone, write

-----------------------------------------------------------------------------
(***************************************************************************)
(* The invariant holds at the start and is preserved by every critical     *)
(* section, every other step of a thread and a restart                     *)
(***************************************************************************)
LEMMA IndexInvariantHolds == Init => IndexInvariant
<1> SUFFICES ASSUME Init PROVE IndexInvariant
  OBVIOUS
<1>1. Settled(idx) /\ queue \in Seq(Jobs)
  BY OpenedSettled DEF Init
<1>2. idx \in Index
  BY <1>1 DEF Settled, Sound
<1>3. files \in [DOMAIN files -> Values] /\ DOMAIN files \subseteq Paths
  BY DEF Init
<1>4. th \in [Threads -> ThreadStates]
  BY ThreadStateShapes DEF Init
<1>5. writer \in WriterStates /\ saved \in Snapshots \cup {None}
  BY DEF Init, WriterStates
<1>6. stored \in 0..MaxStores /\ restarts \in 0..MaxRestarts
  BY CacheAssumption DEF Init
<1> QED
  BY <1>1, <1>2, <1>3, <1>4, <1>5, <1>6 DEF IndexInvariant, TypeOK

LEMMA SendsKeepIndex ==
  ASSUME IndexInvariant, NEW t \in Threads, Enqueue(t) \/ Return(t)
  PROVE  IndexInvariant'
<1>1. /\ TypeOK /\ Settled(idx)
      /\ th \in [Threads -> ThreadStates] /\ th[t] \in ThreadStates
  BY DEF IndexInvariant, TypeOK
<1>2. CASE Enqueue(t)
  <2>1. /\ th[t].at = "enqueue" /\ th[t].jobs # << >>
        /\ queue' = Append(queue, Head(th[t].jobs))
        /\ th' = [th EXCEPT ![t].jobs = Tail(@)]
        /\ UNCHANGED <<idx, files, saved, writer, stored, restarts>>
    BY <1>2 DEF Enqueue
  <2>2. th[t].jobs \in Seq(Jobs) /\ th[t] = [at |-> "enqueue", jobs |-> th[t].jobs]
    BY <1>1, <2>1, ThreadShape
  <2>3. Head(th[t].jobs) \in Jobs /\ Tail(th[t].jobs) \in Seq(Jobs)
    BY <2>1, <2>2, HeadTailProperties
  <2>4. queue' \in Seq(Jobs)
    BY <1>1, <2>1, <2>3, AppendProperties DEF TypeOK
  <2>5. th' = [th EXCEPT ![t] = [at |-> "enqueue", jobs |-> Tail(th[t].jobs)]]
    <3> DEFINE pc == th[t]
    <3>1. th' = [th EXCEPT ![t] = [pc EXCEPT !.jobs = Tail(pc.jobs)]]
      BY <1>1, <2>1
    <3>2. PICK jobs : pc = [at |-> "enqueue", jobs |-> jobs]
      BY <2>2
    <3>3. pc.jobs = jobs
      BY <3>2
    <3> HIDE DEF pc
    <3>4. [pc EXCEPT !.jobs = Tail(pc.jobs)] = [at |-> "enqueue", jobs |-> Tail(pc.jobs)]
      <4>1. \A a, b : [[at |-> "enqueue", jobs |-> a] EXCEPT !.jobs = b] = [at |-> "enqueue", jobs |-> b]
        OBVIOUS
      <4> QED
        BY <3>2, <3>3, <4>1, Zenon
    <3> QED
      BY <3>1, <3>4 DEF pc
  <2>6. th' \in [Threads -> ThreadStates]
    BY <1>1, <2>3, <2>5, ThreadStateShapes
  <2> QED
    BY <1>1, <2>1, <2>4, <2>6 DEF IndexInvariant, TypeOK
<1>3. CASE Return(t)
  <2>1. /\ th' = [th EXCEPT ![t] = Idle]
        /\ UNCHANGED <<idx, files, saved, queue, writer, stored, restarts>>
    BY <1>3 DEF Return
  <2>2. th' \in [Threads -> ThreadStates]
    BY <1>1, <2>1, ThreadStateShapes
  <2> QED
    BY <1>1, <2>1, <2>2 DEF IndexInvariant, TypeOK
<1> QED
  BY <1>2, <1>3

LEMMA TaskKeepsIndex ==
  ASSUME IndexInvariant, NEW t \in Tasks, Task(t)
  PROVE  IndexInvariant'
<1>1. /\ TypeOK /\ Settled(idx) /\ idx \in Index /\ t \in Threads
      /\ th \in [Threads -> ThreadStates] /\ th[t] \in ThreadStates
  BY DEF IndexInvariant, TypeOK, Threads
<1>2. ASSUME NEW r \in Requests, Lookup(t, r) PROVE IndexInvariant'
  <2> DEFINE p == PrimaryKey(r)
             k == VariantKey(p, idx.primaries[p].varies, r)
             e == idx.entries[k]
  <2>1. /\ e # None
        /\ InMemory(e) # None \/ e.disk # None
        /\ idx' = Touch(idx, k)
        /\ th' = IF InMemory(e) # None THEN th
                 ELSE [th EXCEPT ![t] = [at |-> "reading", key |-> k, gen |-> e.disk.gen]]
        /\ UNCHANGED <<files, saved, queue, writer, stored, restarts>>
    BY <1>2 DEF Lookup
  <2>2. k \in VKeys
    BY KeysTyped
  <2> HIDE DEF p, k
  <2>3. e \in Entries
    BY <1>1, <2>1, <2>2, EntryTyped
  <2> HIDE DEF e
  <2>4. Settled(idx')
    BY <1>1, <2>1, <2>2, TouchSettled
  <2>5. th' \in [Threads -> ThreadStates]
    <3>1. CASE InMemory(e) # None
      BY <1>1, <2>1, <3>1
    <3>2. CASE InMemory(e) = None
      <4>1. e.disk \in Slots
        BY <2>1, <2>3, <3>2 DEF Entries
      <4>2. [at |-> "reading", key |-> k, gen |-> e.disk.gen] \in ThreadStates
        BY <2>2, <4>1, ThreadStateShapes DEF Slots
      <4> QED
        BY <1>1, <2>1, <3>2, <4>2
    <3> QED
      BY <3>1, <3>2
  <2> QED
    BY <1>1, <2>1, <2>4, <2>5 DEF IndexInvariant, TypeOK, Settled, Sound
<1>3. ASSUME ReadSucceeds(t) PROVE IndexInvariant'
  <2>1. /\ th[t].at = "reading" /\ <<th[t].key, th[t].gen>> \in DOMAIN files
        /\ idx' = Promoted(idx, th[t].key, th[t].gen, files[<<th[t].key, th[t].gen>>])
        /\ th' = [th EXCEPT ![t] = Idle]
        /\ UNCHANGED <<files, saved, queue, writer, stored, restarts>>
    BY <1>3 DEF ReadSucceeds
  <2>2. th[t].key \in VKeys
    BY <1>1, <2>1, ThreadShape
  <2>3. files[<<th[t].key, th[t].gen>>] \in Values
    BY <1>1, <2>1 DEF TypeOK
  <2>4. Settled(idx')
    BY <1>1, <2>1, <2>2, <2>3, PromotedSettled
  <2>5. th' \in [Threads -> ThreadStates]
    BY <2>1, <1>1, ThreadStateShapes
  <2> QED
    BY <1>1, <2>1, <2>4, <2>5 DEF IndexInvariant, TypeOK, Settled, Sound
<1>4. ASSUME ReadFails(t) PROVE IndexInvariant'
  <2> DEFINE k == th[t].key
             jobs == DeleteJobs({<<k, th[t].gen>>})
  <2>1. /\ th[t].at = "reading"
        /\ idx' = RemoveEntries(idx, {k}) \/ idx' = idx
        /\ \/ th' = [th EXCEPT ![t] = [at |-> "enqueue", jobs |-> jobs]]
           \/ th' = [th EXCEPT ![t] = Idle]
        /\ UNCHANGED <<files, saved, queue, writer, stored, restarts>>
    <3> DEFINE same == OnDisk(idx, k) /\ idx.entries[k].disk.gen = th[t].gen
    <3>1. /\ th[t].at = "reading"
          /\ idx' = IF same THEN RemoveEntries(idx, {k}) ELSE idx
          /\ th' = [th EXCEPT ![t] = IF same THEN [at |-> "enqueue", jobs |-> jobs] ELSE Idle]
          /\ UNCHANGED <<files, saved, queue, writer, stored, restarts>>
      BY <1>4 DEF ReadFails
    <3> HIDE DEF same, jobs
    <3> QED
      BY <3>1
  <2>2. k \in VKeys /\ th[t].gen \in Nat \ {0} /\ {k} \in SUBSET VKeys
    BY <1>1, <2>1, ThreadShape
  <2>9. jobs \in Seq(Jobs)
    <3>1. {<<k, th[t].gen>>} \in SUBSET Paths
      BY <2>2 DEF Paths
    <3> QED
      BY <3>1, DeleteJobsTyped
  <2> HIDE DEF k, jobs
  <2>3. Settled(idx')
    BY <1>1, <2>1, <2>2, RemovedSettled
  <2>4. th' \in [Threads -> ThreadStates]
    BY <2>1, <2>9, <1>1, ThreadStateShapes
  <2> QED
    BY <1>1, <2>1, <2>3, <2>4 DEF IndexInvariant, TypeOK, Settled, Sound
<1>5. ASSUME NEW r \in Requests, NEW kind \in Kinds, Store(t, r, kind) PROVE IndexInvariant'
  <2> DEFINE value == [ver |-> stored + 1, kind |-> kind]
             k == VariantKey(PrimaryKey(r), value.kind.varies, r)
             jobs == StoredIndex(idx, r, value).jobs
  <2>1. /\ stored < MaxStores /\ stored' = stored + 1
        /\ idx' = StoredIndex(idx, r, value).idx
        /\ th' = [th EXCEPT ![t] = [at |-> "enqueue", jobs |-> jobs]]
        /\ UNCHANGED <<files, saved, queue, writer, restarts>>
    BY <1>5 DEF Store
  <2>2. stored + 1 \in Versions /\ stored + 1 \in 0..MaxStores
    BY <1>1, <2>1, CacheAssumption DEF TypeOK, Versions
  <2>3. value \in Values
    BY <2>2 DEF Values
  <2>4. k \in VKeys
    BY KeysTyped
  <2> HIDE DEF value
  <2>5. Settled(idx') /\ jobs = StoreJobs(idx, k, value)
    <3>1. StoreOutcome(idx, k, value, StoredIndex(idx, r, value).idx, jobs)
      BY <1>1, <2>3, StoredSettled
    <3> HIDE DEF k, jobs
    <3>2. /\ Settled(StoredIndex(idx, r, value).idx)
          /\ jobs = StoreJobs(idx, k, value)
      BY <3>1 DEF StoreOutcome
    <3> QED
      BY <2>1, <3>2
  <2>6. jobs \in Seq(Jobs)
    BY <1>1, <2>3, <2>4, <2>5, StoreJobsTyped
  <2> HIDE DEF jobs
  <2>7. th' \in [Threads -> ThreadStates]
    BY <1>1, <2>1, <2>6, ThreadStateShapes
  <2> QED
    BY <1>1, <2>1, <2>2, <2>5, <2>7 DEF IndexInvariant, TypeOK, Settled, Sound
<1>6. ASSUME NEW u \in Urls, Invalidate(t, u) PROVE IndexInvariant'
  <2> DEFINE variants == UNION {idx.primaries[<<u, c>>].variants :
                                  c \in {b \in BOOLEAN : idx.primaries[<<u, b>>] # None}}
             jobs == DeleteJobs(SlotPaths(idx, variants))
  <2>1. /\ idx' = RemoveEntries(idx, variants)
        /\ th' = [th EXCEPT ![t] = [at |-> "enqueue", jobs |-> jobs]]
        /\ UNCHANGED <<files, saved, queue, writer, stored, restarts>>
    BY <1>6 DEF Invalidate
  <2>2. variants \in SUBSET VKeys
    <3>1. ASSUME NEW c \in BOOLEAN, idx.primaries[<<u, c>>] # None
          PROVE  idx.primaries[<<u, c>>].variants \in SUBSET VKeys
      BY <1>1, <3>1 DEF Index, PrimaryEntries, Primaries
    <3> QED
      BY <3>1
  <2> HIDE DEF variants
  <2>3. Settled(idx')
    BY <1>1, <2>1, <2>2, RemovedSettled
  <2>4. jobs \in Seq(Jobs)
    BY <1>1, <2>2, SlotPathsTyped, DeleteJobsTyped
  <2> HIDE DEF jobs
  <2>5. th' \in [Threads -> ThreadStates]
    BY <1>1, <2>1, <2>4, ThreadStateShapes
  <2> QED
    BY <1>1, <2>1, <2>3, <2>5 DEF IndexInvariant, TypeOK, Settled, Sound
<1>7. ASSUME Enqueue(t) \/ Return(t) PROVE IndexInvariant'
  BY <1>1, <1>7, SendsKeepIndex
<1> QED
  BY <1>2, <1>3, <1>4, <1>5, <1>6, <1>7 DEF Task

LEMMA SaverKeepsIndex ==
  ASSUME IndexInvariant, NEW t \in Savers, Saver(t)
  PROVE  IndexInvariant'
<1>1. /\ TypeOK /\ Settled(idx) /\ Sound(idx) /\ t \in Threads /\ th \in [Threads -> ThreadStates]
  BY DEF IndexInvariant, TypeOK, Threads, Settled
<1>2. CASE SaveIndex(t)
  <2> DEFINE jobs == <<[op |-> "index", snap |-> Snapshot(idx)]>>
  <2>1. /\ idx' = [idx EXCEPT !.dirty = FALSE]
        /\ th' = [th EXCEPT ![t] = [at |-> "enqueue", jobs |-> jobs]]
        /\ UNCHANGED <<files, saved, queue, writer, stored, restarts>>
    BY <1>2 DEF SaveIndex
  <2>2. Settled(idx')
    BY <1>1, <2>1, CleanSettled
  <2>3. jobs \in Seq(Jobs)
    <3>1. Snapshot(idx) \in Snapshots
      BY <1>1, SnapshotTyped
    <3>2. [op |-> "index", snap |-> Snapshot(idx)] \in Jobs
      BY <3>1 DEF Jobs
    <3> QED
      BY <3>2
  <2> HIDE DEF jobs
  <2>4. th' \in [Threads -> ThreadStates]
    BY <1>1, <2>1, <2>3, ThreadStateShapes
  <2> QED
    BY <1>1, <2>1, <2>2, <2>4 DEF IndexInvariant, TypeOK, Settled, Sound
<1>3. CASE Enqueue(t) \/ Return(t)
  BY <1>1, <1>3, SendsKeepIndex
<1> QED
  BY <1>2, <1>3 DEF Saver

LEMMA CloserKeepsIndex ==
  ASSUME IndexInvariant, NEW t \in Closers, Closer(t)
  PROVE  IndexInvariant'
<1>1. /\ TypeOK /\ Settled(idx) /\ Sound(idx) /\ t \in Threads
      /\ th \in [Threads -> ThreadStates] /\ th[t] \in ThreadStates
      /\ queue \in Seq(Jobs)
  BY DEF IndexInvariant, TypeOK, Threads, Settled
<1>2. \A l \in {"flush1", "flush2"} : [op |-> "flush", thread |-> t, wait |-> l] \in Jobs
  BY DEF Jobs
<1>3. CASE PersistBegin(t)
  <2> DEFINE job == [op |-> "flush", thread |-> t, wait |-> "flush1"]
  <2>1. /\ queue' = Append(queue, job)
        /\ th' = [th EXCEPT ![t] = [at |-> "flush1"]]
        /\ UNCHANGED <<idx, files, saved, writer, stored, restarts>>
    BY <1>3 DEF PersistBegin
  <2>2. job \in Jobs
    BY <1>2
  <2> HIDE DEF job
  <2>3. queue' \in Seq(Jobs)
    BY <1>1, <2>1, <2>2, AppendProperties
  <2>4. th' \in [Threads -> ThreadStates]
    BY <1>1, <2>1, ThreadStateShapes
  <2> QED
    BY <1>1, <2>1, <2>3, <2>4 DEF IndexInvariant, TypeOK
<1>4. CASE PersistSnapshot(t)
  <2>1. /\ idx' = [idx EXCEPT !.dirty = FALSE]
        /\ th' = [th EXCEPT ![t] = [at |-> "save", snap |-> Snapshot(idx)]]
        /\ UNCHANGED <<files, saved, queue, writer, stored, restarts>>
    BY <1>4 DEF PersistSnapshot
  <2>2. Settled(idx')
    BY <1>1, <2>1, CleanSettled
  <2>3. Snapshot(idx) \in Snapshots
    BY <1>1, SnapshotTyped
  <2>4. th' \in [Threads -> ThreadStates]
    BY <1>1, <2>1, <2>3, ThreadStateShapes
  <2> QED
    BY <1>1, <2>1, <2>2, <2>4 DEF IndexInvariant, TypeOK, Settled, Sound
<1>5. CASE PersistSave(t)
  <2> DEFINE save == [op |-> "index", snap |-> th[t].snap]
             flush == [op |-> "flush", thread |-> t, wait |-> "flush2"]
  <2>1. /\ th[t].at = "save" /\ queue' = queue \o <<save, flush>>
        /\ th' = [th EXCEPT ![t] = [at |-> "flush2"]]
        /\ UNCHANGED <<idx, files, saved, writer, stored, restarts>>
    BY <1>5 DEF PersistSave
  <2>2. save \in Jobs /\ flush \in Jobs
    <3>1. th[t].snap \in Snapshots
      BY <1>1, <2>1, ThreadShape
    <3> QED
      BY <1>2, <3>1 DEF Jobs
  <2> HIDE DEF save, flush
  <2>3. queue' \in Seq(Jobs)
    <3>1. <<save, flush>> \in Seq(Jobs)
      BY <2>2
    <3> QED
      BY <1>1, <2>1, <3>1, ConcatProperties
  <2>4. th' \in [Threads -> ThreadStates]
    BY <1>1, <2>1, ThreadStateShapes
  <2> QED
    BY <1>1, <2>1, <2>3, <2>4 DEF IndexInvariant, TypeOK
<1>6. CASE FlushTimeout(t)
  <2>1. /\ th' = [th EXCEPT ![t] = Flushed(th[t])]
        /\ UNCHANGED <<idx, files, saved, queue, writer, stored, restarts>>
    BY <1>1, <1>6 DEF FlushTimeout
  <2>2. th' \in [Threads -> ThreadStates]
    BY <1>1, <2>1, FlushedTyped
  <2> QED
    BY <1>1, <2>1, <2>2 DEF IndexInvariant, TypeOK
<1> QED
  BY <1>3, <1>4, <1>5, <1>6 DEF Closer

LEMMA WriterKeepsIndex ==
  ASSUME IndexInvariant, Writer
  PROVE  IndexInvariant'
<1>1. /\ TypeOK /\ Settled(idx) /\ idx \in Index
      /\ th \in [Threads -> ThreadStates] /\ queue \in Seq(Jobs) /\ writer \in WriterStates
      /\ files \in [DOMAIN files -> Values] /\ DOMAIN files \subseteq Paths
  BY DEF IndexInvariant, TypeOK
<1>2. ASSUME NEW op, NextJob(op)
      PROVE  Head(queue) \in Jobs /\ Head(queue).op = op /\ queue' \in Seq(Jobs)
  BY <1>1, <1>2, HeadTailProperties DEF NextJob
<1>3. \A paths \in SUBSET Paths : [at |-> "deleting", paths |-> paths] \in WriterStates
  BY DEF WriterStates
<1>4. ASSUME NEW ok \in BOOLEAN, WriteEntry(ok) PROVE IndexInvariant'
  <2> DEFINE job == Head(queue)
             path == <<job.key, job.gen>>
  <2>1. /\ NextJob("write")
        /\ files' = Written(path, job.value) \/ files' = files
        /\ writer' = [at |-> "written", key |-> job.key, gen |-> job.gen, value |-> job.value, ok |-> ok]
        /\ UNCHANGED <<idx, saved, th, stored, restarts>>
    BY <1>4 DEF WriteEntry
  <2>2. job.key \in VKeys /\ job.gen \in Nat \ {0} /\ job.value \in Values /\ queue' \in Seq(Jobs)
    BY <1>2, <2>1, JobShape
  <2> HIDE DEF job
  <2>3. writer' \in WriterStates
    BY <2>1, <2>2 DEF WriterStates
  <2>4. path \in Paths
    BY <2>2 DEF Paths
  <2> HIDE DEF path
  <2>5. DOMAIN files' \subseteq Paths /\ files' \in [DOMAIN files' -> Values]
    BY <1>1, <2>1, <2>2, <2>4 DEF Written
  <2> QED
    BY <1>1, <2>1, <2>2, <2>3, <2>5 DEF IndexInvariant, TypeOK
<1>5. ASSUME WriteDone PROVE IndexInvariant'
  <2> DEFINE k == writer.key
             current == AwaitsWrite(idx.entries[k], writer.gen)
             slot == [gen |-> writer.gen, size |-> writer.value.kind.size, ver |-> writer.value.ver]
             c == Committed(idx, k, slot)
             ev == EvictDisk(c)
             paths == IF ~writer.ok THEN {}
                      ELSE IF current THEN SlotPaths(idx, {k}) \cup ev.deletes ELSE {<<k, writer.gen>>}
  <2>1. /\ writer.at = "written"
        /\ idx' = IF ~current THEN idx ELSE IF writer.ok THEN ev.idx ELSE WriteFailed(idx, k)
        /\ writer' = [at |-> "deleting", paths |-> paths]
        /\ UNCHANGED <<files, saved, queue, th, stored, restarts>>
    BY <1>5 DEF WriteDone
  <2>2. k \in VKeys /\ writer.gen \in Nat \ {0} /\ writer.value \in Values
    BY <1>1, <2>1, WriterShape
  <2>3. slot \in Slots
    <3>1. writer.value.kind.size \in Nat /\ writer.value.ver \in Versions
      BY <2>2, CacheAssumption DEF Values, KindType
    <3> QED
      BY <2>2, <3>1 DEF Slots
  <2>4. current => idx.entries[k] # None
    BY DEF AwaitsWrite
  <2> HIDE DEF slot, k, current
  <2>5. ASSUME current
        PROVE  /\ Settled(ev.idx) /\ ev.deletes \in SUBSET Paths
               /\ Settled(WriteFailed(idx, k))
    <3>1. Sound(c) /\ Filled(c) /\ c.memBytes <= MemBudget
      BY <1>1, <2>2, <2>3, <2>4, <2>5, CommittedSound
    <3>2. Settled(WriteFailed(idx, k))
      BY <1>1, <2>2, <2>4, <2>5, WriteFailedSettled
    <3> HIDE DEF c
    <3>3. Settled(ev.idx) /\ ev.deletes = SlotPaths(c, {l \in VKeys : ~OnDisk(ev.idx, l)})
      BY <3>1, EvictDiskSettles
    <3> HIDE DEF ev
    <3>4. ev.deletes \in SUBSET Paths
      BY <3>1, <3>3, SlotPathsTyped DEF Sound
    <3> QED
      BY <3>2, <3>3, <3>4
  <2>6. SlotPaths(idx, {k}) \in SUBSET Paths /\ {<<k, writer.gen>>} \in SUBSET Paths
    BY <1>1, <2>2, SlotPathsTyped DEF Paths
  <2> HIDE DEF c, ev
  <2>7. paths \in SUBSET Paths
    BY <2>5, <2>6
  <2>8. Settled(idx')
    BY <1>1, <2>1, <2>5
  <2> HIDE DEF paths
  <2>9. writer' \in WriterStates
    BY <1>3, <2>1, <2>7
  <2> QED
    BY <1>1, <2>1, <2>8, <2>9 DEF IndexInvariant, TypeOK, Settled, Sound
<1>6. ASSUME DeleteJob PROVE IndexInvariant'
  <2>1. /\ NextJob("delete") /\ writer' = [at |-> "deleting", paths |-> Head(queue).paths]
        /\ UNCHANGED <<idx, files, saved, th, stored, restarts>>
    BY <1>6 DEF DeleteJob
  <2>2. Head(queue).paths \in SUBSET Paths /\ queue' \in Seq(Jobs)
    BY <1>2, <2>1, JobShape
  <2>3. writer' \in WriterStates
    BY <1>3, <2>1, <2>2
  <2> QED
    BY <1>1, <2>1, <2>2, <2>3 DEF IndexInvariant, TypeOK
<1>7. ASSUME CleanupJob PROVE IndexInvariant'
  <2>1. /\ NextJob("cleanup") /\ writer' = [at |-> "deleting", paths |-> Unknown(Head(queue).keep)]
        /\ UNCHANGED <<idx, files, saved, th, stored, restarts>>
    BY <1>7 DEF CleanupJob
  <2>2. Unknown(Head(queue).keep) \in SUBSET Paths /\ queue' \in Seq(Jobs)
    BY <1>1, <1>2, <2>1 DEF Unknown
  <2>3. writer' \in WriterStates
    BY <1>3, <2>1, <2>2
  <2> QED
    BY <1>1, <2>1, <2>2, <2>3 DEF IndexInvariant, TypeOK
<1>8. ASSUME writer.at = "deleting", NEW path \in writer.paths, NEW ok \in BOOLEAN, DeleteFile(path, ok)
      PROVE  IndexInvariant'
  <2> DEFINE paths == writer.paths
  <2>1. /\ files' = [p \in DOMAIN files \ {path} |-> files[p]] \/ files' = files
        /\ writer' = [writer EXCEPT !.paths = paths \ {path}]
        /\ UNCHANGED <<idx, saved, queue, th, stored, restarts>>
    BY <1>8 DEF DeleteFile
  <2>2. paths \in SUBSET Paths /\ writer = [at |-> "deleting", paths |-> paths]
    BY <1>1, <1>8, WriterShape
  <2> HIDE DEF paths
  <2>3. writer' = [at |-> "deleting", paths |-> paths \ {path}]
    BY <2>1, <2>2
  <2>4. writer' \in WriterStates
    BY <1>3, <2>2, <2>3
  <2>5. DOMAIN files' \subseteq Paths /\ files' \in [DOMAIN files' -> Values]
    BY <1>1, <2>1
  <2> QED
    BY <1>1, <2>1, <2>4, <2>5 DEF IndexInvariant, TypeOK
<1>9. ASSUME DeletesDone PROVE IndexInvariant'
  <2>1. writer' = Idle /\ UNCHANGED <<idx, files, saved, queue, th, stored, restarts>>
    BY <1>9 DEF DeletesDone
  <2>2. writer' \in WriterStates
    BY <2>1 DEF WriterStates
  <2> QED
    BY <1>1, <2>1, <2>2 DEF IndexInvariant, TypeOK
<1>10. ASSUME NEW ok \in BOOLEAN, SaveIndexJob(ok) PROVE IndexInvariant'
  <2>1. /\ NextJob("index")
        /\ saved' = Head(queue).snap \/ saved' = saved
        /\ UNCHANGED <<idx, files, writer, th, stored, restarts>>
    BY <1>10 DEF SaveIndexJob
  <2>2. Head(queue).snap \in Snapshots /\ queue' \in Seq(Jobs)
    BY <1>2, <2>1, JobShape
  <2> QED
    BY <1>1, <2>1, <2>2 DEF IndexInvariant, TypeOK
<1>11. ASSUME FlushJob PROVE IndexInvariant'
  <2> DEFINE t == Head(queue).thread
  <2>1. /\ NextJob("flush")
        /\ th' = [th EXCEPT ![t] = Flushed(@)] \/ th' = th
        /\ UNCHANGED <<idx, files, saved, writer, stored, restarts>>
    BY <1>11 DEF FlushJob
  <2>2. t \in Threads /\ queue' \in Seq(Jobs)
    BY <1>2, <2>1, JobShape DEF Threads
  <2> HIDE DEF t
  <2>3. th' \in [Threads -> ThreadStates]
    BY <1>1, <2>1, <2>2, FlushedTyped
  <2> QED
    BY <1>1, <2>1, <2>2, <2>3 DEF IndexInvariant, TypeOK
<1> QED
  BY <1>4, <1>5, <1>6, <1>7, <1>8, <1>9, <1>10, <1>11 DEF Writer

LEMMA RestartKeepsIndex ==
  ASSUME IndexInvariant, Restart
  PROVE  IndexInvariant'
<1>1. TypeOK /\ saved \in Snapshots \cup {None} /\ restarts \in 0..MaxRestarts
  BY DEF IndexInvariant, TypeOK
<1>2. /\ restarts < MaxRestarts /\ restarts' = restarts + 1
      /\ idx' = Opened(saved).idx /\ queue' = Opened(saved).queue
      /\ writer' = Idle /\ th' = [t \in Threads |-> Idle]
      /\ UNCHANGED <<files, saved, stored>>
  BY DEF Restart
<1>3. Settled(idx') /\ queue' \in Seq(Jobs)
  BY <1>1, <1>2, OpenedSettled
<1>4. restarts' \in 0..MaxRestarts
  BY <1>1, <1>2, CacheAssumption
<1>5. th' \in [Threads -> ThreadStates] /\ writer' \in WriterStates
  BY <1>2, ThreadStateShapes DEF WriterStates
<1> QED
  BY <1>1, <1>2, <1>3, <1>4, <1>5 DEF IndexInvariant, TypeOK, Settled, Sound

LEMMA IndexInvariantPreserved == IndexInvariant /\ [Next]_vars => IndexInvariant'
<1> SUFFICES ASSUME IndexInvariant, [Next]_vars PROVE IndexInvariant'
  OBVIOUS
<1>1. ASSUME NEW t \in Tasks, Task(t) PROVE IndexInvariant'
  BY <1>1, TaskKeepsIndex
<1>2. ASSUME NEW t \in Savers, Saver(t) PROVE IndexInvariant'
  BY <1>2, SaverKeepsIndex
<1>3. ASSUME NEW t \in Closers, Closer(t) PROVE IndexInvariant'
  BY <1>3, CloserKeepsIndex
<1>4. ASSUME Writer PROVE IndexInvariant'
  BY <1>4, WriterKeepsIndex
<1>5. ASSUME Restart PROVE IndexInvariant'
  BY <1>5, RestartKeepsIndex
<1>6. ASSUME UNCHANGED vars PROVE IndexInvariant'
  BY <1>6 DEF vars, IndexInvariant, TypeOK
<1> QED
  BY <1>1, <1>2, <1>3, <1>4, <1>5, <1>6 DEF Next

-----------------------------------------------------------------------------
(* In every reachable state the index is settled between two critical
   sections: the invariant the two theorems below rest on. *)
THEOREM IndexAlwaysSettled == Spec => []IndexInvariant
BY IndexInvariantHolds, IndexInvariantPreserved, PTL DEF Spec

(* The byte counters of both tiers (Index::mem_bytes, Index::disk_bytes) are
   the sums of what the LRU maps list, the maps list each entry of their
   tier once, and neither tier is over its budget after an operation. *)
THEOREM CacheAccounted == Spec => []TiersAccounted
<1>1. IndexInvariant => TiersAccounted
  BY SettledAccounted
<1> QED
  BY <1>1, IndexAlwaysSettled, PTL

(* Every entry is listed under its primary key and holds something, so that
   invalidate() reaches each variant and no empty entry stays behind. *)
THEOREM CacheReachable == Spec => []EntriesReachable
<1>1. IndexInvariant => EntriesReachable
  BY SettledAccounted
<1> QED
  BY <1>1, IndexAlwaysSettled, PTL

-----------------------------------------------------------------------------
(***************************************************************************)
(* The files of the HTTP cache: a slot names the file its version was      *)
(* written to and finds it there until the process restarts, and no file   *)
(* is left behind, whatever overtakes what.                                *)
(*                                                                         *)
(* The argument is about the jobs on their way to the writer thread: a     *)
(* generation is handed out once, so an outstanding write is about a file  *)
(* that no slot, no saved index and no delete is about; a delete is about  *)
(* a file that no slot names any more.                                     *)
(***************************************************************************)

(* The jobs a thread still has to send, and those the writer thread has not
   taken yet. *)
Debts(pc) == IF pc.at = "enqueue" THEN {pc.jobs[n] : n \in 1..Len(pc.jobs)} ELSE {}
Owed(t) == Debts(th[t])
Queued == {queue[n] : n \in 1..Len(queue)}
JobsLeft == Queued \cup UNION {Owed(t) : t \in Threads}

(* A write that was issued and has not been reported to the index. *)
IsWrite(job) == job.op = "write"
Writing == writer.at = "written"

(* Generations are handed out once: no two outstanding writes share one. *)
GenerationsDistinct ==
  /\ \A m, n \in 1..Len(queue) :
       IsWrite(queue[m]) /\ IsWrite(queue[n]) /\ queue[m].gen = queue[n].gen => m = n
  /\ \A job \in Queued, t \in Threads : \A debt \in Owed(t) :
       IsWrite(job) /\ IsWrite(debt) => job.gen # debt.gen
  /\ \A t, u \in Threads : \A debt \in Owed(t), other \in Owed(u) :
       IsWrite(debt) /\ IsWrite(other) /\ debt.gen = other.gen => t = u
  /\ Writing => \A job \in JobsLeft : IsWrite(job) => job.gen # writer.gen

(* The files of the writes not reported yet. *)
OutstandingWrites ==
  {<<job.key, job.gen>> : job \in {j \in JobsLeft : IsWrite(j)}}
  \cup (IF Writing THEN {<<writer.key, writer.gen>>} ELSE {})

(* The generations of outstanding writes were handed out by this process. *)
WritesKnown == \A path \in OutstandingWrites : path[2] <= idx.nextGen /\ HasDisk

(* What refers to a file: the slots, and the records of every saved index. *)
Names(k, slot) ==
  /\ slot.gen <= idx.nextGen
  /\ <<k, slot.gen>> \notin OutstandingWrites
  /\ <<k, slot.gen>> \in DOMAIN files => files[<<k, slot.gen>>].ver = slot.ver
RecordsName(snap) ==
  HasDisk => \A n \in 1..Len(snap.entries) : Names(snap.entries[n].vkey, snap.entries[n].slot)
ReferencesName ==
  /\ \A k \in VKeys : OnDisk(idx, k) => Names(k, idx.entries[k].disk)
  /\ saved # None => RecordsName(saved)
  /\ \A job \in JobsLeft : job.op = "index" => RecordsName(job.snap)
  /\ \A t \in Threads : th[t].at = "save" => RecordsName(th[t].snap)

(* A store leaves one job at most, an invalidation and a failed read too. *)
OneDebt == \A t \in Threads : th[t].at = "enqueue" => Len(th[t].jobs) <= 1

(* The file of a write that succeeded and is not reported yet. *)
WrittenThere ==
  Writing /\ writer.ok =>
    <<writer.key, writer.gen>> \in DOMAIN files /\ files[<<writer.key, writer.gen>>] = writer.value

(* A delete is about a file nothing refers to any more. *)
DeletesSpent ==
  /\ \A job \in JobsLeft : job.op = "delete" =>
       \A path \in job.paths : /\ path[2] <= idx.nextGen
                               /\ path \notin OutstandingWrites
                               /\ path \notin SlotPaths(idx, VKeys)
  /\ writer.at = "deleting" => writer.paths \cap SlotPaths(idx, VKeys) = {}

(* The clean-up comes before every other job. *)
CleanupFirst ==
  /\ \A n \in 1..Len(queue) : queue[n].op = "cleanup" =>
       /\ n = 1 /\ writer = Idle
       /\ SlotPaths(idx, VKeys) \subseteq queue[n].keep
       /\ restarts = 0 => DOMAIN files = {}
  /\ \A t \in Threads : \A debt \in Owed(t) : debt.op # "cleanup"

(* Files the writer thread deletes or reports next. *)
Leaving ==
  (UNION {job.paths : job \in {j \in JobsLeft : j.op = "delete"}})
  \cup (IF writer.at = "deleting" THEN writer.paths ELSE {})
  \cup (IF Writing /\ writer.ok THEN {<<writer.key, writer.gen>>} ELSE {})

(* Every file is a slot's, is about to be deleted or to be reported, or was
   left by an earlier process and will be found by the clean-up, unless a
   delete may fail. *)
FilesKnown ==
  /\ DOMAIN files # {} => HasDisk
  /\ ~DeletesFail =>
       \A path \in DOMAIN files : \/ path \in SlotPaths(idx, VKeys)
                                 \/ path \in Leaving
                                 \/ \E job \in Queued : job.op = "cleanup" /\ path \notin job.keep

FilesInvariant ==
  /\ OneDebt /\ GenerationsDistinct /\ WritesKnown /\ ReferencesName /\ WrittenThere
  /\ DeletesSpent /\ CleanupFirst /\ SlotsReadable /\ FilesKnown

LEMMA LeavingMember ==
  ASSUME NEW path
  PROVE  path \in Leaving <=>
           \/ \E job \in JobsLeft : job.op = "delete" /\ path \in job.paths
           \/ writer.at = "deleting" /\ path \in writer.paths
           \/ Writing /\ writer.ok /\ path = <<writer.key, writer.gen>>
BY DEF Leaving

-----------------------------------------------------------------------------
(***************************************************************************)
(* Jobs and the files they are about                                       *)
(***************************************************************************)
LEMMA DebtsTyped ==
  ASSUME NEW pc \in ThreadStates, pc.at = "enqueue"
  PROVE  Len(pc.jobs) \in Nat /\ \A n \in 1..Len(pc.jobs) : pc.jobs[n] \in Jobs
<1>1. pc.jobs \in Seq(Jobs)
  BY ThreadShape
<1> QED
  BY <1>1

LEMMA JobsTyped ==
  ASSUME IndexInvariant
  PROVE  /\ Queued \subseteq Jobs /\ \A n \in 1..Len(queue) : queue[n] \in Jobs
         /\ \A t \in Threads : Owed(t) \subseteq Jobs
         /\ JobsLeft \subseteq Jobs
         /\ OutstandingWrites \subseteq Paths
<1>1. queue \in Seq(Jobs) /\ \A t \in Threads : th[t] \in ThreadStates
  BY DEF IndexInvariant, TypeOK
<1>2. \A n \in 1..Len(queue) : queue[n] \in Jobs
  BY <1>1
<1>3. Queued \subseteq Jobs
  BY <1>2 DEF Queued
<1>4. ASSUME NEW t \in Threads PROVE Owed(t) \subseteq Jobs
  <2>1. CASE th[t].at = "enqueue"
    <3>1. \A n \in 1..Len(th[t].jobs) : th[t].jobs[n] \in Jobs
      BY <1>1, <2>1, DebtsTyped
    <3> QED
      BY <2>1, <3>1 DEF Owed, Debts
  <2>2. CASE th[t].at # "enqueue"
    BY <2>2 DEF Owed, Debts
  <2> QED
    BY <2>1, <2>2
<1>5. JobsLeft \subseteq Jobs
  BY <1>3, <1>4 DEF JobsLeft
<1>6. OutstandingWrites \subseteq Paths
  <2>1. ASSUME NEW job \in JobsLeft, IsWrite(job) PROVE <<job.key, job.gen>> \in Paths
    <3>1. job.key \in VKeys /\ job.gen \in Nat \ {0}
      BY <1>5, <2>1, JobShape DEF IsWrite
    <3> QED
      BY <3>1 DEF Paths
  <2>2. ASSUME Writing PROVE <<writer.key, writer.gen>> \in Paths
    <3>1. writer.key \in VKeys /\ writer.gen \in Nat \ {0}
      BY <2>2, WriterShape DEF Writing, IndexInvariant, TypeOK
    <3> QED
      BY <3>1 DEF Paths
  <2> QED
    BY <2>1, <2>2 DEF OutstandingWrites
<1> QED
  BY <1>2, <1>3, <1>4, <1>5, <1>6

LEMMA SlotPathsMember ==
  ASSUME NEW i, NEW ks \in SUBSET VKeys, NEW path
  PROVE  path \in SlotPaths(i, ks) <=>
           \E k \in ks : OnDisk(i, k) /\ path = <<k, i.entries[k].disk.gen>>
BY DEF SlotPaths

LEMMA OutstandingMember ==
  ASSUME NEW path
  PROVE  path \in OutstandingWrites <=>
           \/ \E job \in JobsLeft : IsWrite(job) /\ path = <<job.key, job.gen>>
           \/ Writing /\ path = <<writer.key, writer.gen>>
BY DEF OutstandingWrites

(* A file stays named while the generations grow, new writes take new ones
   and only files of outstanding writes change. *)
LEMMA NamesKept ==
  ASSUME IndexInvariant, IndexInvariant',
         idx.nextGen <= idx'.nextGen,
         \A path \in OutstandingWrites' : path \in OutstandingWrites \/ path[2] > idx.nextGen,
         \A path \in DOMAIN files' : \/ path \in OutstandingWrites
                                     \/ path \in DOMAIN files /\ files'[path] = files[path],
         NEW k \in VKeys, NEW slot \in Slots, Names(k, slot)
  PROVE  Names(k, slot)'
<1>1. idx.nextGen \in Nat /\ idx'.nextGen \in Nat /\ slot.gen \in Nat
  BY DEF IndexInvariant, TypeOK, Index, Slots
<1> DEFINE path == <<k, slot.gen>>
<1>2. path[2] = slot.gen
  OBVIOUS
<1>3. /\ slot.gen <= idx.nextGen /\ path \notin OutstandingWrites
      /\ path \in DOMAIN files => files[path].ver = slot.ver
  BY DEF Names
<1> HIDE DEF path
<1>4. slot.gen <= idx'.nextGen /\ path \notin OutstandingWrites'
  BY <1>1, <1>2, <1>3
<1>5. path \in DOMAIN files' => files'[path].ver = slot.ver
  BY <1>3
<1> QED
  BY <1>4, <1>5 DEF Names, path

LEMMA RecordsKept ==
  ASSUME IndexInvariant, IndexInvariant',
         idx.nextGen <= idx'.nextGen,
         \A path \in OutstandingWrites' : path \in OutstandingWrites \/ path[2] > idx.nextGen,
         \A path \in DOMAIN files' : \/ path \in OutstandingWrites
                                     \/ path \in DOMAIN files /\ files'[path] = files[path],
         NEW snap \in Snapshots, RecordsName(snap)
  PROVE  RecordsName(snap)'
<1>1. \A n \in 1..Len(snap.entries) :
        snap.entries[n].vkey \in VKeys /\ snap.entries[n].slot \in Slots
  <2>1. snap.entries \in Seq(Records)
    BY DEF Snapshots
  <2>2. \A n \in 1..Len(snap.entries) : snap.entries[n] \in Records
    BY <2>1
  <2> QED
    BY <2>2 DEF Records
<1>2. ASSUME HasDisk, NEW n \in 1..Len(snap.entries)
      PROVE  Names(snap.entries[n].vkey, snap.entries[n].slot)'
  BY <1>1, <1>2, NamesKept DEF RecordsName
<1> QED
  BY <1>2 DEF RecordsName

-----------------------------------------------------------------------------
(***************************************************************************)
(* Steps of the threads that share the index                               *)
(***************************************************************************)
(* What a thread's step may leave: no slot is new, generations only grow,
   its new jobs (new) write under a generation of its own, delete the slots
   it took away, and save records that name their files. *)
Spends(t, new) ==
  /\ UNCHANGED <<queue, writer, files, saved, restarts>>
  /\ Owed(t) = {} /\ Owed(t)' = new
  /\ \A u \in Threads \ {t} : Owed(u)' = Owed(u) /\ th'[u] = th[u]
  /\ th'[t].at = "enqueue" => Len(th'[t].jobs) <= 1
  /\ \A k \in VKeys : OnDisk(idx', k) => OnDisk(idx, k) /\ idx'.entries[k].disk = idx.entries[k].disk
  /\ idx.nextGen <= idx'.nextGen
  /\ \A job, other \in new : job = other
  /\ \A job \in new : IsWrite(job) => HasDisk /\ job.gen > idx.nextGen /\ job.gen <= idx'.nextGen
  /\ \A job \in new : job.op = "delete" =>
       \A path \in job.paths : /\ path \in SlotPaths(idx, VKeys)
                               /\ path \notin SlotPaths(idx', VKeys)
  /\ \A path \in SlotPaths(idx, VKeys) :
       \/ path \in SlotPaths(idx', VKeys)
       \/ \E job \in new : job.op = "delete" /\ path \in job.paths
  /\ \A job \in new : job.op # "cleanup" /\ (job.op = "index" => RecordsName(job.snap))
  /\ th'[t].at = "save" => RecordsName(th'[t].snap)

LEMMA SpendsKeepsFiles ==
  ASSUME IndexInvariant, IndexInvariant', FilesInvariant, NEW t \in Threads, NEW new, Spends(t, new)
  PROVE  FilesInvariant'
<1>1. /\ UNCHANGED <<queue, writer, files, saved, restarts>>
      /\ Owed(t) = {} /\ Owed(t)' = new
      /\ \A u \in Threads \ {t} : Owed(u)' = Owed(u) /\ th'[u] = th[u]
      /\ \A job, other \in new : job = other
      /\ \A job \in new : IsWrite(job) => HasDisk /\ job.gen > idx.nextGen /\ job.gen <= idx'.nextGen
  BY DEF Spends
<1>2. /\ OneDebt /\ GenerationsDistinct /\ WritesKnown /\ ReferencesName /\ WrittenThere
      /\ DeletesSpent /\ CleanupFirst /\ SlotsReadable /\ FilesKnown
  BY DEF FilesInvariant
<1>3. /\ idx.nextGen \in Nat /\ idx'.nextGen \in Nat /\ idx.nextGen <= idx'.nextGen
      /\ idx \in Index /\ idx' \in Index
  BY DEF Spends, IndexInvariant, TypeOK, Index
<1>4. Queued' = Queued /\ Writing' = Writing
  BY <1>1 DEF Queued, Writing
<1>5. /\ new \subseteq Jobs /\ JobsLeft \subseteq Jobs
      /\ JobsLeft' = JobsLeft \cup new
  <2>1. Owed(t)' \subseteq Jobs
    <3>1. th'[t] \in ThreadStates
      BY DEF IndexInvariant, TypeOK
    <3> QED
      BY <3>1, DebtsTyped DEF Owed, Debts
  <2>2. JobsLeft' = JobsLeft \cup new
    BY <1>1, <1>4 DEF JobsLeft
  <2> QED
    BY <1>1, <2>1, <2>2, JobsTyped
<1>6. /\ \A job \in JobsLeft : IsWrite(job) => /\ job.gen <= idx.nextGen /\ job.gen \in Nat
                                               /\ <<job.key, job.gen>> \in OutstandingWrites
      /\ Writing => writer.gen <= idx.nextGen /\ writer.gen \in Nat
      /\ \A job \in new : IsWrite(job) => job.gen \in Nat
  <2>1. ASSUME NEW job \in JobsLeft, IsWrite(job)
        PROVE  /\ job.gen <= idx.nextGen /\ job.gen \in Nat
               /\ <<job.key, job.gen>> \in OutstandingWrites
    BY <1>2, <1>5, <2>1, JobShape, OutstandingMember DEF WritesKnown, IsWrite
  <2>2. ASSUME Writing PROVE writer.gen <= idx.nextGen /\ writer.gen \in Nat
    <3>1. <<writer.key, writer.gen>> \in OutstandingWrites
      BY <2>2, OutstandingMember
    <3>2. writer.gen \in Nat \ {0}
      BY <2>2, WriterShape DEF Writing, IndexInvariant, TypeOK
    <3> QED
      BY <1>2, <3>1, <3>2 DEF WritesKnown
  <2> QED
    BY <1>5, <2>1, <2>2, JobShape DEF IsWrite
<1>7. \A path : path \in OutstandingWrites' <=>
        \/ path \in OutstandingWrites
        \/ \E job \in new : IsWrite(job) /\ path = <<job.key, job.gen>>
  BY <1>1, <1>4, <1>5 DEF OutstandingWrites
<1>8. \A path \in OutstandingWrites' : path \in OutstandingWrites \/ path[2] > idx.nextGen
  BY <1>1, <1>7
<1>9. \A path \in SlotPaths(idx', VKeys) : path \in SlotPaths(idx, VKeys)
  BY SlotPathsMember DEF Spends
<1>10. \A path \in SlotPaths(idx, VKeys) : path \notin OutstandingWrites /\ path[2] <= idx.nextGen
  BY <1>2, SlotPathsMember DEF ReferencesName, Names
<1>11. OneDebt'
  BY <1>2 DEF OneDebt, Spends
<1>12. GenerationsDistinct'
  <2>1. \A m, n \in 1..Len(queue') :
          IsWrite(queue'[m]) /\ IsWrite(queue'[n]) /\ queue'[m].gen = queue'[n].gen => m = n
    BY <1>1, <1>2 DEF GenerationsDistinct
  <2>2. ASSUME NEW job \in Queued, NEW u \in Threads, NEW debt \in Owed(u)', IsWrite(job), IsWrite(debt)
        PROVE  job.gen # debt.gen
    <3>1. CASE u = t
      <4>1. job \in JobsLeft /\ debt \in new
        BY <1>1, <3>1 DEF JobsLeft
      <4>2. debt.gen > idx.nextGen /\ debt.gen \in Nat
        BY <1>1, <1>6, <2>2, <4>1
      <4>3. job.gen <= idx.nextGen /\ job.gen \in Nat
        BY <1>6, <2>2, <4>1
      <4> QED
        BY <1>3, <4>2, <4>3
    <3>2. CASE u # t
      BY <1>1, <1>2, <2>2, <3>2 DEF GenerationsDistinct
    <3> QED
      BY <3>1, <3>2
  <2>3. ASSUME NEW u \in Threads \ {t}, NEW debt \in new, NEW other \in Owed(u), IsWrite(debt), IsWrite(other)
        PROVE  debt.gen # other.gen
    <3>1. other \in JobsLeft
      BY DEF JobsLeft
    <3>2. debt.gen > idx.nextGen /\ debt.gen \in Nat
      BY <1>1, <1>6, <2>3
    <3>3. other.gen <= idx.nextGen /\ other.gen \in Nat
      BY <1>6, <2>3, <3>1
    <3> QED
      BY <1>3, <3>2, <3>3
  <2>4. ASSUME NEW u \in Threads, NEW v \in Threads, NEW debt \in Owed(u)', NEW other \in Owed(v)',
               IsWrite(debt), IsWrite(other), debt.gen = other.gen
        PROVE  u = v
    BY <1>1, <1>2, <2>3, <2>4 DEF GenerationsDistinct
  <2>5. ASSUME Writing, NEW job \in JobsLeft', IsWrite(job) PROVE job.gen # writer.gen
    <3>1. CASE job \in JobsLeft
      BY <1>2, <2>5, <3>1 DEF GenerationsDistinct
    <3>2. CASE job \in new
      BY <1>1, <1>3, <1>6, <2>5, <3>2
    <3> QED
      BY <1>5, <3>1, <3>2
  <2> QED
    BY <1>1, <1>4, <2>1, <2>2, <2>4, <2>5 DEF GenerationsDistinct
<1>13. WritesKnown'
  <2>1. ASSUME NEW path \in OutstandingWrites PROVE path[2] <= idx'.nextGen /\ HasDisk
    <3>1. path[2] \in Nat
      BY JobsTyped DEF Paths
    <3> QED
      BY <1>2, <1>3, <3>1 DEF WritesKnown
  <2> QED
    BY <1>1, <1>7, <2>1 DEF WritesKnown
<1>14. ReferencesName'
  <2>1. \A path \in DOMAIN files' : path \in DOMAIN files /\ files'[path] = files[path]
    BY <1>1
  <2>2. ASSUME NEW k \in VKeys, OnDisk(idx, k)' PROVE Names(k, idx.entries[k].disk)'
    <3>1. /\ OnDisk(idx, k) /\ idx'.entries[k].disk = idx.entries[k].disk
          /\ idx.entries[k].disk \in Slots
      BY <1>3, <2>2, EntryTyped DEF Spends
    <3>2. PICK slot \in Slots : slot = idx.entries[k].disk
      BY <3>1
    <3>3. Names(k, slot)
      BY <1>2, <3>1, <3>2 DEF ReferencesName
    <3>4. Names(k, slot)'
      BY <1>3, <1>8, <2>1, <3>3, NamesKept
    <3> QED
      BY <3>1, <3>2, <3>4 DEF Names
  <2>3. ASSUME NEW snap \in Snapshots, RecordsName(snap) PROVE RecordsName(snap)'
    BY <1>3, <1>8, <2>1, <2>3, RecordsKept
  <2>4. ASSUME saved' # None PROVE RecordsName(saved)'
    <3>1. saved' = saved /\ saved \in Snapshots
      BY <1>1, <2>4 DEF IndexInvariant, TypeOK
    <3>2. PICK snap \in Snapshots : snap = saved
      BY <3>1
    <3>3. RecordsName(snap)'
      BY <1>1, <1>2, <2>3, <2>4, <3>2 DEF ReferencesName
    <3> QED
      BY <3>1, <3>2, <3>3 DEF RecordsName
  <2>5. ASSUME NEW job \in JobsLeft', job.op = "index" PROVE RecordsName(job.snap)'
    <3>1. job.snap \in Snapshots
      BY <1>5, <2>5, JobShape
    <3>2. RecordsName(job.snap)
      BY <1>2, <1>5, <2>5 DEF ReferencesName, Spends
    <3> QED
      BY <2>3, <3>1, <3>2
  <2>6. ASSUME NEW u \in Threads, th'[u].at = "save" PROVE RecordsName(th[u].snap)'
    <3>1. th'[u].snap \in Snapshots
      BY <2>6, ThreadShape DEF IndexInvariant, TypeOK
    <3>2. PICK snap \in Snapshots : snap = th'[u].snap
      BY <3>1
    <3>3. RecordsName(snap)
      BY <1>1, <1>2, <2>6, <3>2 DEF ReferencesName, Spends
    <3>4. RecordsName(snap)'
      BY <2>3, <3>3
    <3> QED
      BY <3>2, <3>4 DEF RecordsName
  <2> QED
    BY <2>2, <2>4, <2>5, <2>6 DEF ReferencesName
<1>15. WrittenThere'
  BY <1>1, <1>2, <1>4 DEF WrittenThere
<1>16. DeletesSpent'
  <2>1. ASSUME NEW job \in JobsLeft', job.op = "delete", NEW path \in job.paths
        PROVE  /\ path[2] <= idx'.nextGen /\ path \notin OutstandingWrites'
               /\ path \notin SlotPaths(idx', VKeys)
    <3>1. path[2] \in Nat
      BY <1>5, <2>1, JobShape DEF Paths
    <3>2. path[2] <= idx.nextGen /\ path \notin OutstandingWrites /\ path \notin SlotPaths(idx', VKeys)
      <4>1. CASE job \in JobsLeft
        BY <1>2, <1>9, <2>1, <4>1 DEF DeletesSpent
      <4>2. CASE job \in new
        BY <1>10, <2>1, <4>2 DEF Spends
      <4> QED
        BY <1>5, <4>1, <4>2
    <3> QED
      BY <1>3, <1>8, <3>1, <3>2
  <2>2. writer'.at = "deleting" => writer'.paths \cap SlotPaths(idx', VKeys) = {}
    BY <1>1, <1>2, <1>9 DEF DeletesSpent
  <2> QED
    BY <2>1, <2>2 DEF DeletesSpent
<1>17. CleanupFirst'
  <2>1. ASSUME NEW u \in Threads, NEW debt \in Owed(u)' PROVE debt.op # "cleanup"
    BY <1>1, <1>2 DEF CleanupFirst, Spends
  <2>2. ASSUME NEW n \in 1..Len(queue'), queue'[n].op = "cleanup"
        PROVE  /\ n = 1 /\ writer' = Idle
               /\ SlotPaths(idx', VKeys) \subseteq queue'[n].keep
               /\ restarts' = 0 => DOMAIN files' = {}
    BY <1>1, <1>2, <1>9, <2>2 DEF CleanupFirst
  <2> QED
    BY <2>1, <2>2 DEF CleanupFirst
<1>18. SlotsReadable'
  BY <1>1, <1>2, <1>9 DEF SlotsReadable
<1>19. FilesKnown'
  <2>1. ASSUME ~DeletesFail, NEW path \in DOMAIN files', path \notin SlotPaths(idx', VKeys), path \notin Leaving'
        PROVE  \E job \in Queued' : job.op = "cleanup" /\ path \notin job.keep
    <3>1. path \in DOMAIN files
      BY <1>1
    <3>2. \A job \in JobsLeft' : job.op = "delete" => path \notin job.paths
      BY <2>1 DEF Leaving
    <3>3. path \notin SlotPaths(idx, VKeys)
      BY <1>5, <2>1, <3>2 DEF Spends
    <3>4. path \notin Leaving
      BY <1>1, <1>4, <1>5, <2>1, <3>2 DEF Leaving
    <3> QED
      BY <1>2, <1>4, <2>1, <3>1, <3>3, <3>4 DEF FilesKnown
  <2> QED
    BY <1>1, <1>2, <2>1 DEF FilesKnown
<1> QED
  BY <1>11, <1>12, <1>13, <1>14, <1>15, <1>16, <1>17, <1>18, <1>19 DEF FilesInvariant

LEMMA KeptSlots ==
  ASSUME NEW i, NEW j, \A k \in VKeys : KeepsDisk(i.entries[k], j.entries[k])
  PROVE  /\ \A k \in VKeys : OnDisk(j, k) => OnDisk(i, k) /\ j.entries[k].disk = i.entries[k].disk
         /\ \A path \in SlotPaths(i, VKeys) : path \in SlotPaths(j, VKeys)
<1>1. ASSUME NEW k \in VKeys
      PROVE  /\ OnDisk(j, k) <=> OnDisk(i, k)
             /\ OnDisk(i, k) => j.entries[k].disk = i.entries[k].disk
  BY DEF KeepsDisk, KeepEntry, OnDisk
<1> QED
  BY <1>1, SlotPathsMember

LEMMA RemovedSlots ==
  ASSUME NEW i, Settled(i), NEW ks \in SUBSET VKeys
  PROVE  LET j == RemoveEntries(i, ks)
         IN  /\ \A k \in VKeys : OnDisk(j, k) => OnDisk(i, k) /\ j.entries[k].disk = i.entries[k].disk
             /\ \A path : path \in SlotPaths(j, VKeys) <=>
                            path \in SlotPaths(i, VKeys) /\ path \notin SlotPaths(i, ks)
             /\ SlotPaths(i, ks) \subseteq SlotPaths(i, VKeys)
<1> DEFINE j == RemoveEntries(i, ks)
<1>1. \A k \in VKeys : j.entries[k] = IF k \in ks THEN None ELSE i.entries[k]
  BY RemovedSettled
<1> HIDE DEF j
<1>2. ASSUME NEW k \in VKeys
      PROVE  /\ OnDisk(j, k) <=> OnDisk(i, k) /\ k \notin ks
             /\ OnDisk(j, k) => j.entries[k].disk = i.entries[k].disk
  BY <1>1 DEF OnDisk
<1>3. \A path : path \in SlotPaths(j, VKeys) <=>
                  path \in SlotPaths(i, VKeys) /\ path \notin SlotPaths(i, ks)
  BY <1>2, SlotPathsMember
<1>4. SlotPaths(i, ks) \subseteq SlotPaths(i, VKeys)
  BY SlotPathsMember
<1> QED
  BY <1>2, <1>3, <1>4 DEF j

LEMMA DeleteJobsMember ==
  ASSUME NEW paths, NEW job, NEW n \in 1..Len(DeleteJobs(paths)), job = DeleteJobs(paths)[n]
  PROVE  n = 1 /\ paths # {} /\ job = [op |-> "delete", paths |-> paths]
<1>1. CASE paths = {}
  BY <1>1 DEF DeleteJobs
<1>2. CASE paths # {}
  BY <1>2 DEF DeleteJobs
<1> QED
  BY <1>1, <1>2

(* A step of t that leaves the slots and owes no job. *)
LEMMA OwesNothing ==
  ASSUME IndexInvariant, FilesInvariant, NEW t \in Threads, NEW pc,
         pc.at # "enqueue", pc.at # "save",
         th' = th \/ th' = [th EXCEPT ![t] = pc],
         Owed(t) = {}, th[t].at # "save",
         th[t].at = "enqueue" => Len(th[t].jobs) <= 1,
         UNCHANGED <<queue, writer, files, saved, restarts>>,
         idx.nextGen <= idx'.nextGen,
         \A k \in VKeys : OnDisk(idx', k) => OnDisk(idx, k) /\ idx'.entries[k].disk = idx.entries[k].disk,
         \A path \in SlotPaths(idx, VKeys) : path \in SlotPaths(idx', VKeys)
  PROVE  Spends(t, {})
<1>1. th \in [Threads -> ThreadStates]
  BY DEF IndexInvariant, TypeOK
<1>2. /\ \A u \in Threads \ {t} : Owed(u)' = Owed(u) /\ th'[u] = th[u]
      /\ Owed(t)' = {} /\ th'[t].at # "save"
      /\ th'[t].at = "enqueue" => Len(th'[t].jobs) <= 1
  <2>1. CASE th' = th
    BY <2>1 DEF Owed, Debts
  <2>2. CASE th' = [th EXCEPT ![t] = pc]
    <3>1. th'[t] = pc /\ \A u \in Threads \ {t} : th'[u] = th[u]
      BY <1>1, <2>2
    <3>2. Owed(t)' = {}
      BY <3>1 DEF Owed, Debts
    <3>3. \A u \in Threads \ {t} : Owed(u)' = Owed(u)
      BY <3>1 DEF Owed
    <3> QED
      BY <3>1, <3>2, <3>3
  <2> QED
    BY <2>1, <2>2
<1> QED
  BY <1>2 DEF Spends

(* A step of t, which was idle, that owes the jobs of a sequence. *)
LEMMA Owes ==
  ASSUME IndexInvariant, NEW t \in Threads, NEW jobs \in Seq(Jobs),
         th' = [th EXCEPT ![t] = [at |-> "enqueue", jobs |-> jobs]]
  PROVE  /\ \A u \in Threads \ {t} : Owed(u)' = Owed(u) /\ th'[u] = th[u]
         /\ Owed(t)' = {jobs[n] : n \in 1..Len(jobs)}
         /\ th'[t].at = "enqueue" /\ th'[t].jobs = jobs
<1>1. th \in [Threads -> ThreadStates]
  BY DEF IndexInvariant, TypeOK
<1>2. th'[t] = [at |-> "enqueue", jobs |-> jobs] /\ \A u \in Threads \ {t} : th'[u] = th[u]
  BY <1>1
<1> QED
  BY <1>2 DEF Owed, Debts

LEMMA IdleOwesNothing ==
  ASSUME NEW t \in Threads, th[t].at \in {"idle", "reading", "flush1", "flushed1", "flush2", "persisted"}
  PROVE  Owed(t) = {} /\ th[t].at # "save" /\ th[t].at # "enqueue"
BY DEF Owed, Debts

LEMMA LookupKeepsFiles ==
  ASSUME IndexInvariant, IndexInvariant', FilesInvariant,
         NEW t \in Tasks, NEW r \in Requests, Lookup(t, r)
  PROVE  FilesInvariant'
<1> DEFINE k == VariantKey(PrimaryKey(r), idx.primaries[PrimaryKey(r)].varies, r)
           e == idx.entries[k]
           pc == [at |-> "reading", key |-> k, gen |-> e.disk.gen]
<1>1. /\ th[t] = Idle /\ idx' = Touch(idx, k)
      /\ th' = th \/ th' = [th EXCEPT ![t] = pc]
      /\ UNCHANGED <<queue, writer, files, saved, restarts>>
  BY DEF Lookup
<1>2. k \in VKeys
  BY KeysTyped
<1>3. pc.at = "reading"
  OBVIOUS
<1> HIDE DEF k, pc
<1>4. idx'.entries = idx.entries /\ idx'.nextGen = idx.nextGen
  BY <1>1, <1>2, TouchSettled DEF IndexInvariant
<1>5. /\ \A l \in VKeys : OnDisk(idx', l) => OnDisk(idx, l) /\ idx'.entries[l].disk = idx.entries[l].disk
      /\ \A path \in SlotPaths(idx, VKeys) : path \in SlotPaths(idx', VKeys)
      /\ idx.nextGen <= idx'.nextGen
  BY <1>4 DEF OnDisk, SlotPaths, IndexInvariant, TypeOK, Index
<1>6. t \in Threads /\ Owed(t) = {} /\ th[t].at # "save" /\ th[t].at # "enqueue"
  BY <1>1, IdleOwesNothing DEF Threads, Idle
<1>7. Spends(t, {})
  BY <1>1, <1>3, <1>5, <1>6, OwesNothing
<1> QED
  BY <1>6, <1>7, SpendsKeepsFiles

LEMMA ReadSucceedsKeepsFiles ==
  ASSUME IndexInvariant, IndexInvariant', FilesInvariant, NEW t \in Tasks, ReadSucceeds(t)
  PROVE  FilesInvariant'
<1> DEFINE k == th[t].key
           value == files[<<k, th[t].gen>>]
<1>1. /\ th[t].at = "reading" /\ <<k, th[t].gen>> \in DOMAIN files
      /\ idx' = Promoted(idx, k, th[t].gen, value)
      /\ th' = [th EXCEPT ![t] = Idle]
      /\ UNCHANGED <<queue, writer, files, saved, restarts>>
  BY DEF ReadSucceeds
<1>2. k \in VKeys /\ value \in Values /\ t \in Threads
  BY <1>1, ThreadShape DEF IndexInvariant, TypeOK, Threads
<1> HIDE DEF k, value
<1>3. idx'.nextGen = idx.nextGen /\ \A l \in VKeys : KeepsDisk(idx.entries[l], idx'.entries[l])
  BY <1>1, <1>2, PromotedSettled DEF IndexInvariant
<1>4. /\ \A l \in VKeys : OnDisk(idx', l) => OnDisk(idx, l) /\ idx'.entries[l].disk = idx.entries[l].disk
      /\ \A path \in SlotPaths(idx, VKeys) : path \in SlotPaths(idx', VKeys)
      /\ idx.nextGen <= idx'.nextGen
  <2>1. idx.nextGen <= idx'.nextGen
    BY <1>3 DEF IndexInvariant, TypeOK, Index
  <2> QED
    BY <1>3, <2>1, KeptSlots
<1>5. Owed(t) = {} /\ th[t].at # "save" /\ th[t].at # "enqueue"
  BY <1>1, <1>2, IdleOwesNothing
<1>6. Idle.at = "idle"
  BY DEF Idle
<1>7. Spends(t, {})
  BY <1>1, <1>2, <1>4, <1>5, <1>6, OwesNothing
<1> QED
  BY <1>2, <1>7, SpendsKeepsFiles

(* The jobs that delete the slots of ks, which a step takes away. *)
LEMMA DropsSlots ==
  ASSUME IndexInvariant, IndexInvariant', FilesInvariant,
         NEW t \in Threads, th[t] = Idle \/ th[t].at = "reading", NEW ks \in SUBSET VKeys,
         idx' = RemoveEntries(idx, ks),
         th' = [th EXCEPT ![t] = [at |-> "enqueue", jobs |-> DeleteJobs(SlotPaths(idx, ks))]],
         UNCHANGED <<queue, writer, files, saved, restarts>>
  PROVE  FilesInvariant'
<1> DEFINE gone == SlotPaths(idx, ks)
           jobs == DeleteJobs(gone)
           new == {jobs[n] : n \in 1..Len(jobs)}
<1>1. idx \in Index /\ gone \in SUBSET Paths
  BY SlotPathsTyped DEF IndexInvariant, TypeOK
<1>2. /\ idx'.nextGen = idx.nextGen
      /\ \A k \in VKeys : OnDisk(idx', k) => OnDisk(idx, k) /\ idx'.entries[k].disk = idx.entries[k].disk
      /\ \A path : path \in SlotPaths(idx', VKeys) <=> path \in SlotPaths(idx, VKeys) /\ path \notin gone
      /\ gone \subseteq SlotPaths(idx, VKeys)
  <2>1. Settled(idx)
    BY DEF IndexInvariant
  <2> QED
    BY <2>1, RemovedSettled, RemovedSlots
<1> HIDE DEF gone
<1>3. jobs \in Seq(Jobs) /\ Len(jobs) <= 1
  BY <1>1, DeleteJobsTyped
<1>4. /\ \A job \in new : gone # {} /\ job = [op |-> "delete", paths |-> gone]
      /\ gone # {} => [op |-> "delete", paths |-> gone] \in new
  <2>1. \A n \in 1..Len(jobs) : gone # {} /\ jobs[n] = [op |-> "delete", paths |-> gone]
    BY DeleteJobsMember
  <2>2. gone # {} => 1 \in 1..Len(jobs)
    BY DEF DeleteJobs
  <2> HIDE DEF jobs
  <2> QED
    BY <2>1, <2>2
<1> HIDE DEF jobs
<1>5. /\ \A u \in Threads \ {t} : Owed(u)' = Owed(u) /\ th'[u] = th[u]
      /\ Owed(t)' = new /\ th'[t].at = "enqueue" /\ th'[t].jobs = jobs
  <2>1. th' = [th EXCEPT ![t] = [at |-> "enqueue", jobs |-> jobs]]
    BY DEF jobs, gone
  <2> QED
    BY <1>3, <2>1, Owes
<1> HIDE DEF new
<1>6. Owed(t) = {}
  BY IdleOwesNothing DEF Idle
<1>7. \A job \in new : job.op = "delete" /\ job.paths = gone
  BY <1>4
<1>8. ASSUME NEW path \in gone PROVE \E job \in new : job.op = "delete" /\ path \in job.paths
  BY <1>4, <1>7, <1>8
<1>9. idx.nextGen <= idx'.nextGen
  BY <1>1, <1>2 DEF Index
<1>10. Spends(t, new)
  <2>1. \A job \in new : ~IsWrite(job) /\ job.op # "cleanup" /\ job.op # "index"
    BY <1>7 DEF IsWrite
  <2>2. \A job, other \in new : job = other
    BY <1>4
  <2>3. Len(th'[t].jobs) <= 1 /\ th'[t].at # "save"
    <3>1. Len(jobs) <= 1
      BY <1>3
    <3>2. th'[t].jobs = jobs /\ th'[t].at = "enqueue"
      BY <1>5
    <3> QED
      BY <3>1, <3>2, Zenon
  <2>4. /\ \A job \in new : \A path \in job.paths : /\ path \in SlotPaths(idx, VKeys)
                                                    /\ path \notin SlotPaths(idx', VKeys)
        /\ \A path \in SlotPaths(idx, VKeys) : \/ path \in SlotPaths(idx', VKeys)
                                               \/ \E job \in new : job.op = "delete" /\ path \in job.paths
    BY <1>2, <1>7, <1>8
  <2> QED
    BY <1>2, <1>5, <1>6, <1>9, <2>1, <2>2, <2>3, <2>4 DEF Spends
<1> QED
  BY <1>10, SpendsKeepsFiles

LEMMA ReadFailsKeepsFiles ==
  ASSUME IndexInvariant, IndexInvariant', FilesInvariant, NEW t \in Tasks, ReadFails(t)
  PROVE  FilesInvariant'
<1> DEFINE k == th[t].key
           same == OnDisk(idx, k) /\ idx.entries[k].disk.gen = th[t].gen
           jobs == DeleteJobs({<<k, th[t].gen>>})
<1>1. /\ th[t].at = "reading"
      /\ idx' = IF same THEN RemoveEntries(idx, {k}) ELSE idx
      /\ th' = [th EXCEPT ![t] = IF same THEN [at |-> "enqueue", jobs |-> jobs] ELSE Idle]
      /\ UNCHANGED <<queue, writer, files, saved, restarts>>
  BY DEF ReadFails
<1>2. k \in VKeys /\ t \in Threads
  BY <1>1, ThreadShape DEF IndexInvariant, TypeOK, Threads
<1>3. CASE same
  <2>1. SlotPaths(idx, {k}) = {<<k, th[t].gen>>}
    BY <1>3 DEF SlotPaths
  <2> HIDE DEF k
  <2>2. /\ idx' = RemoveEntries(idx, {k})
        /\ th' = [th EXCEPT ![t] = [at |-> "enqueue", jobs |-> DeleteJobs(SlotPaths(idx, {k}))]]
    BY <1>1, <1>3, <2>1
  <2>3. {k} \in SUBSET VKeys
    BY <1>2
  <2> QED
    BY <1>1, <1>2, <2>2, <2>3, DropsSlots
<1>4. CASE ~same
  <2>1. idx' = idx /\ th' = [th EXCEPT ![t] = Idle]
    BY <1>1, <1>4
  <2>2. Owed(t) = {} /\ th[t].at # "save" /\ th[t].at # "enqueue" /\ Idle.at = "idle"
    BY <1>1, <1>2, IdleOwesNothing DEF Idle
  <2>3. idx.nextGen <= idx'.nextGen
    BY <2>1 DEF IndexInvariant, TypeOK, Index
  <2>4. Spends(t, {})
    BY <1>1, <1>2, <2>1, <2>2, <2>3, OwesNothing
  <2> QED
    BY <1>2, <2>4, SpendsKeepsFiles
<1> QED
  BY <1>3, <1>4

LEMMA InvalidateKeepsFiles ==
  ASSUME IndexInvariant, IndexInvariant', FilesInvariant,
         NEW t \in Tasks, NEW u \in Urls, Invalidate(t, u)
  PROVE  FilesInvariant'
<1> DEFINE variants == UNION {idx.primaries[<<u, c>>].variants :
                                c \in {b \in BOOLEAN : idx.primaries[<<u, b>>] # None}}
<1>1. /\ th[t] = Idle /\ idx' = RemoveEntries(idx, variants)
      /\ th' = [th EXCEPT ![t] = [at |-> "enqueue", jobs |-> DeleteJobs(SlotPaths(idx, variants))]]
      /\ UNCHANGED <<queue, writer, files, saved, restarts>>
  BY DEF Invalidate
<1>2. variants \in SUBSET VKeys
  <2>1. ASSUME NEW c \in BOOLEAN, idx.primaries[<<u, c>>] # None
        PROVE  idx.primaries[<<u, c>>].variants \in SUBSET VKeys
    BY <2>1 DEF IndexInvariant, TypeOK, Index, PrimaryEntries, Primaries
  <2> QED
    BY <2>1
<1> HIDE DEF variants
<1>3. t \in Threads
  BY DEF Threads
<1> QED
  BY <1>1, <1>2, <1>3, DropsSlots

LEMMA ReturnKeepsFiles ==
  ASSUME IndexInvariant, IndexInvariant', FilesInvariant, NEW t \in Threads, Return(t)
  PROVE  FilesInvariant'
<1>1. /\ th[t] = [at |-> "enqueue", jobs |-> << >>]
      /\ th' = [th EXCEPT ![t] = Idle]
      /\ UNCHANGED <<idx, queue, writer, files, saved, restarts>>
  BY DEF Return
<1>2. th[t].at = "enqueue" /\ th[t].jobs = << >> /\ Idle.at = "idle"
  BY <1>1 DEF Idle
<1>3. Owed(t) = {}
  BY <1>2 DEF Owed, Debts
<1>4. /\ idx.nextGen <= idx'.nextGen
      /\ \A k \in VKeys : OnDisk(idx', k) => OnDisk(idx, k) /\ idx'.entries[k].disk = idx.entries[k].disk
      /\ \A path \in SlotPaths(idx, VKeys) : path \in SlotPaths(idx', VKeys)
      /\ th[t].at # "save" /\ Len(th[t].jobs) <= 1
  BY <1>1, <1>2 DEF IndexInvariant, TypeOK, Index
<1>5. Spends(t, {})
  BY <1>1, <1>2, <1>3, <1>4, OwesNothing
<1> QED
  BY <1>5, SpendsKeepsFiles

(* A store that writes supersedes nothing on disk; one that does not deletes
   the slot it drops. *)
LEMMA StoreJobsAre ==
  ASSUME NEW i \in Index, NEW k \in VKeys, NEW value
  PROVE  LET jobs == StoreJobs(i, k, value)
         IN  /\ Len(jobs) <= 1
             /\ \A n \in 1..Len(jobs) :
                  \/ /\ ToDisk(value)
                     /\ jobs[n] = [op |-> "write", key |-> k, gen |-> i.nextGen + 1, value |-> value]
                  \/ /\ ~ToDisk(value) /\ OnDisk(i, k)
                     /\ jobs[n] = [op |-> "delete", paths |-> {<<k, i.entries[k].disk.gen>>}]
             /\ ~ToDisk(value) /\ OnDisk(i, k) =>
                  Len(jobs) = 1 /\ jobs[1] = [op |-> "delete", paths |-> {<<k, i.entries[k].disk.gen>>}]
<1> DEFINE gone == {<<k, i.entries[k].disk.gen>>}
           write == [op |-> "write", key |-> k, gen |-> i.nextGen + 1, value |-> value]
           drop == [op |-> "delete", paths |-> gone]
<1>1. DeleteJobs(gone) = <<drop>>
  BY DEF DeleteJobs
<1>2. StoreJobs(i, k, value) = (IF ~ToDisk(value) /\ OnDisk(i, k) THEN DeleteJobs(gone) ELSE << >>)
                               \o (IF ToDisk(value) THEN <<write>> ELSE << >>)
  BY DEF StoreJobs
<1> HIDE DEF write, drop, gone
<1>3. StoreJobs(i, k, value) = IF ToDisk(value) THEN <<write>>
                               ELSE IF OnDisk(i, k) THEN <<drop>> ELSE << >>
  <2>1. CASE ToDisk(value)
    BY <1>2, <2>1
  <2>2. CASE ~ToDisk(value) /\ OnDisk(i, k)
    BY <1>1, <1>2, <2>2
  <2>3. CASE ~ToDisk(value) /\ ~OnDisk(i, k)
    BY <1>2, <2>3
  <2> QED
    BY <2>1, <2>2, <2>3
<1> DEFINE jobs == StoreJobs(i, k, value)
<1>4. CASE ToDisk(value)
  <2>1. jobs = <<write>>
    BY <1>3, <1>4
  <2> HIDE DEF jobs
  <2>2. Len(jobs) <= 1 /\ \A n \in 1..Len(jobs) : jobs[n] = write
    BY <2>1
  <2> QED
    BY <1>4, <2>2 DEF jobs, write
<1>5. CASE ~ToDisk(value) /\ OnDisk(i, k)
  <2>1. jobs = <<drop>>
    BY <1>3, <1>5
  <2> HIDE DEF jobs
  <2>2. Len(jobs) = 1 /\ Len(jobs) <= 1 /\ jobs[1] = drop /\ \A n \in 1..Len(jobs) : jobs[n] = drop
    BY <2>1
  <2> QED
    BY <1>5, <2>2 DEF jobs, drop, gone
<1>6. CASE ~ToDisk(value) /\ ~OnDisk(i, k)
  <2>1. jobs = << >>
    BY <1>3, <1>6
  <2> HIDE DEF jobs
  <2>2. Len(jobs) <= 1 /\ \A n \in 1..Len(jobs) : FALSE
    BY <2>1
  <2> QED
    BY <1>6, <2>2 DEF jobs
<1> QED
  BY <1>4, <1>5, <1>6

LEMMA StoreKeepsFiles ==
  ASSUME IndexInvariant, IndexInvariant', FilesInvariant,
         NEW t \in Tasks, NEW r \in Requests, NEW kind \in Kinds, Store(t, r, kind)
  PROVE  FilesInvariant'
<1> DEFINE value == [ver |-> stored + 1, kind |-> kind]
           k == VariantKey(PrimaryKey(r), value.kind.varies, r)
           jobs == StoredIndex(idx, r, value).jobs
           new == {jobs[n] : n \in 1..Len(jobs)}
<1>1. /\ th[t] = Idle /\ stored < MaxStores
      /\ idx' = StoredIndex(idx, r, value).idx
      /\ th' = [th EXCEPT ![t] = [at |-> "enqueue", jobs |-> jobs]]
      /\ UNCHANGED <<queue, writer, files, saved, restarts>>
  BY DEF Store
<1>2. value \in Values /\ k \in VKeys /\ t \in Threads
  <2>1. stored + 1 \in Versions
    BY <1>1, CacheAssumption DEF IndexInvariant, TypeOK, Versions
  <2> QED
    BY <2>1, KeysTyped DEF Values, Threads
<1>3. /\ idx \in Index /\ idx' \in Index /\ Settled(idx)
      /\ idx.nextGen \in Nat
  BY DEF IndexInvariant, TypeOK, Index
<1> HIDE DEF value
<1>4. StoreOutcome(idx, k, value, StoredIndex(idx, r, value).idx, jobs)
  BY <1>2, <1>3, StoredSettled
<1> HIDE DEF k, jobs
<1>5. /\ idx'.nextGen = idx.nextGen + 1
      /\ \A l \in VKeys \ {k} : KeepsDisk(idx.entries[l], idx'.entries[l])
      /\ ToDisk(value) =>
           /\ idx'.entries[k] # None
           /\ idx'.entries[k].disk = IF idx.entries[k] = None THEN None ELSE idx.entries[k].disk
      /\ ~ToDisk(value) => ~OnDisk(idx', k)
      /\ jobs = StoreJobs(idx, k, value)
  BY <1>1, <1>4 DEF StoreOutcome
<1>6. /\ jobs \in Seq(Jobs) /\ Len(jobs) <= 1
      /\ \A n \in 1..Len(jobs) :
           \/ /\ ToDisk(value)
              /\ jobs[n] = [op |-> "write", key |-> k, gen |-> idx.nextGen + 1, value |-> value]
           \/ /\ ~ToDisk(value) /\ OnDisk(idx, k)
              /\ jobs[n] = [op |-> "delete", paths |-> {<<k, idx.entries[k].disk.gen>>}]
      /\ ~ToDisk(value) /\ OnDisk(idx, k) =>
           Len(jobs) = 1 /\ jobs[1] = [op |-> "delete", paths |-> {<<k, idx.entries[k].disk.gen>>}]
  BY <1>2, <1>3, <1>5, StoreJobsTyped, StoreJobsAre
<1>7. /\ \A u \in Threads \ {t} : Owed(u)' = Owed(u) /\ th'[u] = th[u]
      /\ Owed(t)' = new /\ th'[t].at = "enqueue" /\ th'[t].jobs = jobs
  BY <1>1, <1>2, <1>6, Owes
<1>8. Owed(t) = {}
  BY <1>1, <1>2, IdleOwesNothing DEF Idle
<1>9. ASSUME NEW l \in VKeys
      PROVE  /\ OnDisk(idx', l) => OnDisk(idx, l) /\ idx'.entries[l].disk = idx.entries[l].disk
             /\ OnDisk(idx, l) /\ ~(l = k /\ ~ToDisk(value)) => OnDisk(idx', l)
  <2>1. CASE l = k
    BY <1>5, <2>1 DEF OnDisk
  <2>2. CASE l # k
    BY <1>5, <2>2 DEF KeepsDisk, KeepEntry, OnDisk
  <2> QED
    BY <2>1, <2>2
<1>10. ASSUME NEW job \in new
       PROVE  \/ ToDisk(value) /\ job.op = "write" /\ job.gen = idx.nextGen + 1
              \/ /\ ~ToDisk(value) /\ OnDisk(idx, k) /\ job.op = "delete"
                 /\ job.paths = {<<k, idx.entries[k].disk.gen>>}
  BY <1>6
<1>11. \A job, other \in new : job = other
  BY <1>6
<1>12. ~ToDisk(value) /\ OnDisk(idx, k) =>
         \E job \in new : job.op = "delete" /\ job.paths = {<<k, idx.entries[k].disk.gen>>}
  BY <1>6
<1>13. Len(th'[t].jobs) <= 1 /\ th'[t].at # "save"
  BY <1>6, <1>7, Zenon
<1> HIDE DEF new
<1>14. \A path \in SlotPaths(idx, VKeys) :
         \/ path \in SlotPaths(idx', VKeys)
         \/ \E job \in new : job.op = "delete" /\ path \in job.paths
  <2> SUFFICES ASSUME NEW path \in SlotPaths(idx, VKeys), path \notin SlotPaths(idx', VKeys)
               PROVE  \E job \in new : job.op = "delete" /\ path \in job.paths
    OBVIOUS
  <2>1. PICK l \in VKeys : OnDisk(idx, l) /\ path = <<l, idx.entries[l].disk.gen>>
    BY SlotPathsMember
  <2>2. ~OnDisk(idx', l)
    BY <1>9, <2>1, SlotPathsMember
  <2> QED
    BY <1>9, <1>12, <2>1, <2>2
<1>15. \A job \in new : job.op = "delete" =>
         \A path \in job.paths : path \in SlotPaths(idx, VKeys) /\ path \notin SlotPaths(idx', VKeys)
  <2> SUFFICES ASSUME NEW job \in new, job.op = "delete", NEW path \in job.paths
               PROVE  path \in SlotPaths(idx, VKeys) /\ path \notin SlotPaths(idx', VKeys)
    OBVIOUS
  <2>1. ~ToDisk(value) /\ OnDisk(idx, k) /\ path = <<k, idx.entries[k].disk.gen>>
    BY <1>10
  <2>2. path \in SlotPaths(idx, VKeys)
    BY <1>2, <2>1, SlotPathsMember
  <2>3. ~OnDisk(idx', k)
    BY <1>5, <2>1
  <2> QED
    BY <2>1, <2>2, <2>3, SlotPathsMember
<1>16. \A job \in new : /\ IsWrite(job) => HasDisk /\ job.gen > idx.nextGen /\ job.gen <= idx'.nextGen
                        /\ job.op # "cleanup" /\ job.op # "index"
  <2> SUFFICES ASSUME NEW job \in new
               PROVE  /\ IsWrite(job) => HasDisk /\ job.gen > idx.nextGen /\ job.gen <= idx'.nextGen
                      /\ job.op # "cleanup" /\ job.op # "index"
    OBVIOUS
  <2>1. CASE ToDisk(value) /\ job.op = "write" /\ job.gen = idx.nextGen + 1
    BY <1>3, <1>5, <2>1 DEF ToDisk
  <2>2. CASE job.op = "delete"
    BY <2>2 DEF IsWrite
  <2> QED
    BY <1>10, <2>1, <2>2
<1>17. idx.nextGen <= idx'.nextGen
  BY <1>3, <1>5
<1>18. Spends(t, new)
  BY <1>1, <1>7, <1>8, <1>9, <1>11, <1>13, <1>14, <1>15, <1>16, <1>17 DEF Spends
<1> QED
  BY <1>2, <1>18, SpendsKeepsFiles

(* What the index saves refers to files by the versions of its slots. *)
LEMMA SnapshotNames ==
  ASSUME IndexInvariant, FilesInvariant
  PROVE  Snapshot(idx) \in Snapshots /\ RecordsName(Snapshot(idx))
<1> DEFINE recs == Snapshot(idx).entries
<1>1. /\ Snapshot(idx) \in Snapshots
      /\ \A n \in 1..Len(recs) : /\ recs[n].vkey \in VKeys
                                 /\ OnDisk(idx, recs[n].vkey)
                                 /\ recs[n].slot = idx.entries[recs[n].vkey].disk
  BY SnapshotTyped DEF IndexInvariant, Settled
<1> HIDE DEF recs
<1>2. \A n \in 1..Len(recs) : Names(recs[n].vkey, recs[n].slot)
  BY <1>1 DEF FilesInvariant, ReferencesName
<1> QED
  BY <1>1, <1>2 DEF RecordsName, recs

LEMMA CleanKeepsSlots ==
  ASSUME IndexInvariant, idx' = [idx EXCEPT !.dirty = FALSE]
  PROVE  /\ idx.nextGen <= idx'.nextGen
         /\ \A k \in VKeys : OnDisk(idx', k) => OnDisk(idx, k) /\ idx'.entries[k].disk = idx.entries[k].disk
         /\ \A path \in SlotPaths(idx, VKeys) : path \in SlotPaths(idx', VKeys)
<1>1. idx'.nextGen = idx.nextGen /\ idx'.entries = idx.entries /\ idx.nextGen \in Nat
  BY CleanSettled DEF IndexInvariant, TypeOK, Index
<1> QED
  BY <1>1 DEF OnDisk, SlotPaths

LEMMA SaveIndexKeepsFiles ==
  ASSUME IndexInvariant, IndexInvariant', FilesInvariant, NEW t \in Savers, SaveIndex(t)
  PROVE  FilesInvariant'
<1> DEFINE job == [op |-> "index", snap |-> Snapshot(idx)]
<1>1. /\ th[t] = Idle /\ idx' = [idx EXCEPT !.dirty = FALSE]
      /\ th' = [th EXCEPT ![t] = [at |-> "enqueue", jobs |-> <<job>>]]
      /\ UNCHANGED <<queue, writer, files, saved, restarts>>
      /\ t \in Threads
  BY DEF SaveIndex, Threads
<1>2. job.op = "index" /\ RecordsName(job.snap) /\ job \in Jobs
  BY SnapshotNames DEF Jobs
<1> HIDE DEF job
<1>3. <<job>> \in Seq(Jobs) /\ Len(<<job>>) = 1 /\ {<<job>>[n] : n \in 1..Len(<<job>>)} = {job}
  BY <1>2
<1>4. /\ \A u \in Threads \ {t} : Owed(u)' = Owed(u) /\ th'[u] = th[u]
      /\ Owed(t)' = {job} /\ th'[t].at = "enqueue" /\ th'[t].jobs = <<job>>
  BY <1>1, <1>3, Owes, Zenon
<1>5. Owed(t) = {}
  BY <1>1, IdleOwesNothing DEF Idle
<1>6. Len(th'[t].jobs) <= 1 /\ th'[t].at # "save"
  <2>1. Len(th'[t].jobs) = 1
    BY <1>3, <1>4, Zenon
  <2> QED
    BY <1>4, <2>1
<1>7. Spends(t, {job})
  BY <1>1, <1>2, <1>4, <1>5, <1>6, CleanKeepsSlots DEF Spends, IsWrite
<1> QED
  BY <1>1, <1>7, SpendsKeepsFiles

LEMMA PersistSnapshotKeepsFiles ==
  ASSUME IndexInvariant, IndexInvariant', FilesInvariant, NEW t \in Closers, PersistSnapshot(t)
  PROVE  FilesInvariant'
<1> DEFINE pc == [at |-> "save", snap |-> Snapshot(idx)]
<1>1. /\ th[t].at = "flushed1" /\ idx' = [idx EXCEPT !.dirty = FALSE]
      /\ th' = [th EXCEPT ![t] = pc]
      /\ UNCHANGED <<queue, writer, files, saved, restarts>>
      /\ t \in Threads /\ th \in [Threads -> ThreadStates]
  BY DEF PersistSnapshot, Threads, IndexInvariant, TypeOK
<1>2. pc.at = "save" /\ RecordsName(pc.snap)
  BY SnapshotNames
<1> HIDE DEF pc
<1>3. th'[t] = pc /\ \A u \in Threads \ {t} : th'[u] = th[u]
  BY <1>1
<1>4. Owed(t) = {} /\ Owed(t)' = {} /\ \A u \in Threads \ {t} : Owed(u)' = Owed(u)
  BY <1>1, <1>2, <1>3 DEF Owed, Debts
<1>5. Spends(t, {})
  BY <1>1, <1>2, <1>3, <1>4, CleanKeepsSlots DEF Spends
<1> QED
  BY <1>1, <1>5, SpendsKeepsFiles

LEMMA FlushTimeoutKeepsFiles ==
  ASSUME IndexInvariant, IndexInvariant', FilesInvariant, NEW t \in Closers, FlushTimeout(t)
  PROVE  FilesInvariant'
<1>1. /\ th[t].at \in {"flush1", "flush2"}
      /\ th' = [th EXCEPT ![t] = Flushed(th[t])]
      /\ UNCHANGED <<idx, queue, writer, files, saved, restarts>>
      /\ t \in Threads
  BY DEF FlushTimeout, Threads, IndexInvariant, TypeOK
<1>2. Flushed(th[t]).at # "enqueue" /\ Flushed(th[t]).at # "save"
  BY DEF Flushed
<1>3. Owed(t) = {} /\ th[t].at # "save" /\ th[t].at # "enqueue"
  BY <1>1, IdleOwesNothing
<1>4. idx.nextGen <= idx'.nextGen
  BY <1>1 DEF IndexInvariant, TypeOK, Index
<1>5. Spends(t, {})
  BY <1>1, <1>2, <1>3, <1>4, OwesNothing
<1> QED
  BY <1>1, <1>5, SpendsKeepsFiles

-----------------------------------------------------------------------------
(***************************************************************************)
(* Jobs that reach the queue of the writer thread                          *)
(***************************************************************************)
(* A thread's step that queues more jobs, the one it owed among them. *)
Sends(t, more) ==
  /\ UNCHANGED <<idx, writer, files, saved, restarts>>
  /\ queue' = queue \o more
  /\ Owed(t)' = {} /\ \A u \in Threads \ {t} : Owed(u)' = Owed(u) /\ th'[u] = th[u]
  /\ th'[t].at = "enqueue" => Len(th'[t].jobs) <= 1
  /\ th'[t].at # "save"
  /\ \A job \in Owed(t) : \E n \in 1..Len(more) : more[n] = job
  /\ \A n \in 1..Len(more) :
       /\ more[n].op # "cleanup"
       /\ IsWrite(more[n]) \/ more[n].op = "delete" => more[n] \in Owed(t)
       /\ more[n].op = "index" => RecordsName(more[n].snap)
  /\ \A m, n \in 1..Len(more) : IsWrite(more[m]) /\ IsWrite(more[n]) => m = n

LEMMA SendsKeepsFiles ==
  ASSUME IndexInvariant, IndexInvariant', FilesInvariant,
         NEW t \in Threads, NEW more \in Seq(Jobs), Sends(t, more)
  PROVE  FilesInvariant'
<1>1. /\ UNCHANGED <<idx, writer, files, saved, restarts>>
      /\ queue' = queue \o more
      /\ Owed(t)' = {} /\ \A u \in Threads \ {t} : Owed(u)' = Owed(u) /\ th'[u] = th[u]
      /\ \A job \in Owed(t) : \E n \in 1..Len(more) : more[n] = job
      /\ \A n \in 1..Len(more) :
           /\ more[n].op # "cleanup"
           /\ IsWrite(more[n]) \/ more[n].op = "delete" => more[n] \in Owed(t)
           /\ more[n].op = "index" => RecordsName(more[n].snap)
  BY DEF Sends
<1>2. /\ OneDebt /\ GenerationsDistinct /\ WritesKnown /\ ReferencesName /\ WrittenThere
      /\ DeletesSpent /\ CleanupFirst /\ SlotsReadable /\ FilesKnown
  BY DEF FilesInvariant
<1>3. queue \in Seq(Jobs)
  BY DEF IndexInvariant, TypeOK
<1>4. /\ Len(queue) \in Nat /\ Len(more) \in Nat /\ Len(queue') = Len(queue) + Len(more)
      /\ \A n \in 1..Len(queue) : n \in 1..Len(queue') /\ queue'[n] = queue[n]
      /\ \A n \in 1..Len(more) : /\ n + Len(queue) \in 1..Len(queue')
                                 /\ queue'[n + Len(queue)] = more[n]
  BY <1>1, <1>3
<1>5. \A n \in 1..Len(queue') : \/ n \in 1..Len(queue)
                                \/ n - Len(queue) \in 1..Len(more) /\ queue'[n] = more[n - Len(queue)]
  BY <1>1, <1>3
<1> DEFINE sent == {more[n] : n \in 1..Len(more)}
<1>6. Queued' = Queued \cup sent
  <2>1. \A job \in Queued' : job \in Queued \cup sent
    BY <1>4, <1>5 DEF Queued
  <2>2. \A job \in Queued : job \in Queued'
    BY <1>4 DEF Queued
  <2>3. \A job \in sent : job \in Queued'
    BY <1>4 DEF Queued
  <2> QED
    BY <2>1, <2>2, <2>3
<1>7. /\ \A job \in JobsLeft : job \in JobsLeft'
      /\ \A job \in JobsLeft' : job \in JobsLeft \/ (job \in sent /\ job \notin Owed(t))
      /\ \A job \in sent : job \notin JobsLeft => ~IsWrite(job) /\ job.op # "delete"
  <2>1. \A u \in Threads : u # t => Owed(u)' = Owed(u)
    BY <1>1
  <2>2. ASSUME NEW job \in Owed(t) PROVE job \in sent
    BY <1>1
  <2>3. ASSUME NEW job \in JobsLeft PROVE job \in JobsLeft'
    <3>1. CASE job \in Queued
      BY <1>6, <3>1 DEF JobsLeft
    <3>2. ASSUME NEW u \in Threads, job \in Owed(u) PROVE job \in JobsLeft'
      BY <1>6, <2>1, <2>2, <3>2 DEF JobsLeft
    <3> QED
      BY <3>1, <3>2 DEF JobsLeft
  <2>4. ASSUME NEW job \in sent, job \notin JobsLeft
        PROVE  ~IsWrite(job) /\ job.op # "delete" /\ job \notin Owed(t)
    <3>1. job \notin Owed(t)
      BY <2>4 DEF JobsLeft
    <3> QED
      BY <1>1, <3>1
  <2>5. ASSUME NEW job \in JobsLeft' PROVE job \in JobsLeft \/ (job \in sent /\ job \notin Owed(t))
    <3>1. CASE job \in Queued'
      <4>1. CASE job \in Queued
        BY <4>1 DEF JobsLeft
      <4>2. CASE job \in sent
        BY <2>4, <4>2
      <4> QED
        BY <1>6, <3>1, <4>1, <4>2
    <3>2. ASSUME NEW u \in Threads, job \in Owed(u)' PROVE job \in JobsLeft
      <4>1. u # t /\ job \in Owed(u)
        BY <1>1, <2>1, <3>2
      <4> QED
        BY <4>1 DEF JobsLeft
    <3> QED
      BY <3>1, <3>2 DEF JobsLeft
  <2> HIDE DEF sent
  <2> QED
    BY <2>3, <2>4, <2>5
<1>8. OutstandingWrites' = OutstandingWrites
  <2>1. \A job : IsWrite(job) => (job \in JobsLeft' <=> job \in JobsLeft)
    BY <1>7
  <2> QED
    BY <1>1, <2>1 DEF OutstandingWrites, Writing
<1>9. \A k, slot : Names(k, slot)' <=> Names(k, slot)
  BY <1>1, <1>8 DEF Names
<1>10. OneDebt'
  BY <1>2 DEF OneDebt, Sends
<1>11. GenerationsDistinct'
  <2>1. ASSUME NEW m \in 1..Len(queue'), NEW n \in 1..Len(queue'),
               IsWrite(queue'[m]), IsWrite(queue'[n]), queue'[m].gen = queue'[n].gen
        PROVE  m = n
    <3>1. CASE m \in 1..Len(queue) /\ n \in 1..Len(queue)
      BY <1>2, <1>4, <2>1, <3>1 DEF GenerationsDistinct
    <3>2. CASE m \in 1..Len(queue) /\ n \notin 1..Len(queue)
      <4>1. queue[m] \in Queued /\ queue'[m] = queue[m]
        BY <1>4, <3>2 DEF Queued
      <4>2. queue'[n] \in Owed(t)
        BY <1>1, <1>5, <2>1, <3>2
      <4> QED
        BY <1>2, <2>1, <4>1, <4>2 DEF GenerationsDistinct
    <3>3. CASE m \notin 1..Len(queue) /\ n \in 1..Len(queue)
      <4>1. queue[n] \in Queued /\ queue'[n] = queue[n]
        BY <1>4, <3>3 DEF Queued
      <4>2. queue'[m] \in Owed(t)
        BY <1>1, <1>5, <2>1, <3>3
      <4> QED
        BY <1>2, <2>1, <4>1, <4>2 DEF GenerationsDistinct
    <3>4. CASE m \notin 1..Len(queue) /\ n \notin 1..Len(queue)
      <4>1. m - Len(queue) = n - Len(queue)
        BY <1>5, <2>1, <3>4 DEF Sends
      <4> QED
        BY <1>4, <4>1
    <3> QED
      BY <3>1, <3>2, <3>3, <3>4
  <2>2. ASSUME NEW job \in Queued', NEW u \in Threads, NEW debt \in Owed(u)', IsWrite(job), IsWrite(debt)
        PROVE  job.gen # debt.gen
    <3>1. u # t /\ debt \in Owed(u)
      BY <1>1
    <3>2. CASE job \in Queued
      BY <1>2, <2>2, <3>1, <3>2 DEF GenerationsDistinct
    <3>3. CASE job \in sent
      <4>1. job \in Owed(t)
        BY <1>1, <2>2, <3>3
      <4> QED
        BY <1>2, <2>2, <3>1, <4>1 DEF GenerationsDistinct
    <3> QED
      BY <1>6, <3>2, <3>3
  <2>3. ASSUME NEW u \in Threads, NEW v \in Threads, NEW debt \in Owed(u)', NEW other \in Owed(v)',
               IsWrite(debt), IsWrite(other), debt.gen = other.gen
        PROVE  u = v
    BY <1>1, <1>2, <2>3 DEF GenerationsDistinct
  <2>4. Writing' => \A job \in JobsLeft' : IsWrite(job) => job.gen # writer'.gen
    BY <1>1, <1>2, <1>7 DEF GenerationsDistinct, Writing
  <2> QED
    BY <2>1, <2>2, <2>3, <2>4 DEF GenerationsDistinct
<1>12. WritesKnown'
  BY <1>1, <1>2, <1>8 DEF WritesKnown
<1>13. ReferencesName'
  <2>1. \A snap : RecordsName(snap)' <=> RecordsName(snap)
    BY <1>9 DEF RecordsName
  <2>3. \A k \in VKeys : OnDisk(idx, k)' => Names(k, idx.entries[k].disk)'
    BY <1>1, <1>2, <1>8 DEF ReferencesName, Names
  <2>4. saved' # None => RecordsName(saved)'
    BY <1>1, <1>2, <1>8 DEF ReferencesName, RecordsName, Names
  <2>5. \A job \in JobsLeft' : job.op = "index" => RecordsName(job.snap)'
    <3>1. \A job \in JobsLeft' : job.op = "index" => RecordsName(job.snap)
      BY <1>1, <1>2, <1>7 DEF ReferencesName
    <3> QED
      BY <2>1, <3>1
  <2>6. ASSUME NEW u \in Threads, th'[u].at = "save" PROVE RecordsName(th[u].snap)'
    <3>1. u # t /\ th'[u] = th[u]
      BY <1>1, <2>6 DEF Sends
    <3>2. RecordsName(th[u].snap)
      BY <1>2, <2>6, <3>1 DEF ReferencesName
    <3>3. idx' = idx /\ files' = files
      BY <1>1
    <3> QED
      BY <1>8, <3>1, <3>2, <3>3 DEF RecordsName, Names
  <2> QED
    BY <2>3, <2>4, <2>5, <2>6 DEF ReferencesName
<1>14. WrittenThere'
  BY <1>1, <1>2 DEF WrittenThere, Writing
<1>15. DeletesSpent'
  BY <1>1, <1>2, <1>7, <1>8 DEF DeletesSpent
<1>16. CleanupFirst'
  <2>1. ASSUME NEW n \in 1..Len(queue'), queue'[n].op = "cleanup"
        PROVE  n \in 1..Len(queue) /\ queue[n] = queue'[n]
    BY <1>1, <1>4, <1>5, <2>1
  <2>2. \A u \in Threads : \A debt \in Owed(u)' : debt.op # "cleanup"
    BY <1>1, <1>2 DEF CleanupFirst
  <2> QED
    BY <1>1, <1>2, <2>1, <2>2 DEF CleanupFirst
<1>17. SlotsReadable'
  BY <1>1, <1>2 DEF SlotsReadable
<1>18. FilesKnown'
  <2>1. \A path \in Leaving : path \in Leaving'
    BY <1>1, <1>7 DEF Leaving, Writing
  <2> QED
    BY <1>1, <1>2, <1>6, <2>1 DEF FilesKnown
<1> QED
  BY <1>10, <1>11, <1>12, <1>13, <1>14, <1>15, <1>16, <1>17, <1>18 DEF FilesInvariant

LEMMA EnqueueKeepsFiles ==
  ASSUME IndexInvariant, IndexInvariant', FilesInvariant, NEW t \in Threads, Enqueue(t)
  PROVE  FilesInvariant'
<1> DEFINE jobs == th[t].jobs
           job == Head(jobs)
           more == <<job>>
<1>1. /\ th[t].at = "enqueue" /\ jobs # << >> /\ queue' = Append(queue, job)
      /\ th' = [th EXCEPT ![t].jobs = Tail(@)]
      /\ UNCHANGED <<idx, writer, files, saved, restarts>>
      /\ th \in [Threads -> ThreadStates] /\ queue \in Seq(Jobs)
  BY DEF Enqueue, IndexInvariant, TypeOK
<1>2. jobs \in Seq(Jobs) /\ Len(jobs) = 1
  <2>1. jobs \in Seq(Jobs) /\ Len(jobs) <= 1
    BY <1>1, ThreadShape DEF FilesInvariant, OneDebt
  <2>2. jobs # << >>
    BY <1>1
  <2> HIDE DEF jobs
  <2>3. Len(jobs) \in Nat /\ Len(jobs) # 0
    BY <2>1, <2>2, EmptySeq, LenProperties
  <2>4. \A n \in Nat : n # 0 /\ n <= 1 => n = 1
    OBVIOUS
  <2>5. Len(jobs) = 1
    BY <2>1, <2>3, <2>4, Zenon
  <2> QED
    BY <2>1, <2>5
<1>3. job \in Jobs /\ job = jobs[1] /\ Tail(jobs) = << >>
  <2> HIDE DEF jobs
  <2>1. job = jobs[1] /\ job \in Jobs
    BY <1>2
  <2>2. Tail(jobs) \in Seq(Jobs) /\ Len(Tail(jobs)) = 0
    BY <1>2
  <2> HIDE DEF job
  <2> QED
    BY <2>1, <2>2, EmptySeq
<1>4. Owed(t) = {job}
  <2>1. Owed(t) = {jobs[n] : n \in 1..Len(jobs)}
    BY <1>1 DEF Owed, Debts
  <2> HIDE DEF jobs, job
  <2> QED
    BY <1>2, <1>3, <2>1
<1>5. th'[t].jobs = << >> /\ th'[t].at = "enqueue"
  <2> DEFINE pc == th[t]
  <2>1. th'[t] = [pc EXCEPT !.jobs = Tail(pc.jobs)]
    BY <1>1
  <2>2. PICK js : pc = [at |-> "enqueue", jobs |-> js]
    BY <1>1, ThreadShape
  <2>3. pc.jobs = js
    BY <2>2
  <2>4. Tail(pc.jobs) = << >>
    BY <1>3
  <2> HIDE DEF pc
  <2>5. \A a, b : /\ [[at |-> "enqueue", jobs |-> a] EXCEPT !.jobs = b].jobs = b
                  /\ [[at |-> "enqueue", jobs |-> a] EXCEPT !.jobs = b].at = "enqueue"
    OBVIOUS
  <2> QED
    BY <2>1, <2>2, <2>4, <2>5, Zenon
<1>6. \A u \in Threads \ {t} : th'[u] = th[u]
  BY <1>1
<1>7. Owed(t)' = {} /\ \A u \in Threads \ {t} : Owed(u)' = Owed(u)
  <2>1. {<< >>[n] : n \in 1..Len(<< >>)} = {}
    OBVIOUS
  <2>2. Owed(t)' = {}
    BY <1>5, <2>1 DEF Owed, Debts
  <2> QED
    BY <1>6, <2>2 DEF Owed
<1>8. /\ job.op # "cleanup"
      /\ job.op = "index" => RecordsName(job.snap)
  <2>1. job \in JobsLeft
    BY <1>4 DEF JobsLeft
  <2> QED
    BY <1>4, <2>1 DEF FilesInvariant, CleanupFirst, ReferencesName
<1> HIDE DEF job
<1>9. more \in Seq(Jobs) /\ Len(more) = 1 /\ queue' = queue \o more /\ \A n \in 1..Len(more) : n = 1 /\ more[n] = job
  BY <1>1, <1>3
<1>10. more[1] = job /\ 1 \in 1..Len(more)
  BY <1>9
<1> HIDE DEF more
<1>11. th'[t].at = "enqueue" => Len(th'[t].jobs) <= 1
  BY <1>5
<1>12. Sends(t, more)
  BY <1>1, <1>4, <1>5, <1>6, <1>7, <1>8, <1>9, <1>10, <1>11 DEF Sends
<1> QED
  BY <1>9, <1>12, SendsKeepsFiles

LEMMA PersistBeginKeepsFiles ==
  ASSUME IndexInvariant, IndexInvariant', FilesInvariant, NEW t \in Closers, PersistBegin(t)
  PROVE  FilesInvariant'
<1> DEFINE job == [op |-> "flush", thread |-> t, wait |-> "flush1"]
           more == <<job>>
<1>1. /\ th[t] = Idle /\ queue' = Append(queue, job)
      /\ th' = [th EXCEPT ![t] = [at |-> "flush1"]]
      /\ UNCHANGED <<idx, writer, files, saved, restarts>>
      /\ th \in [Threads -> ThreadStates] /\ queue \in Seq(Jobs) /\ t \in Threads
  BY DEF PersistBegin, IndexInvariant, TypeOK, Threads
<1>2. job \in Jobs /\ job.op = "flush"
  BY DEF Jobs
<1> HIDE DEF job
<1>3. more \in Seq(Jobs) /\ queue' = queue \o more /\ \A n \in 1..Len(more) : more[n] = job
  BY <1>1, <1>2
<1>4. th'[t] = [at |-> "flush1"] /\ \A u \in Threads \ {t} : th'[u] = th[u]
  BY <1>1
<1>5. Owed(t)' = {} /\ \A u \in Threads \ {t} : Owed(u)' = Owed(u)
  <2>1. Owed(t)' = {}
    BY <1>4 DEF Owed, Debts
  <2> QED
    BY <1>4, <2>1 DEF Owed
<1>6. Owed(t) = {}
  BY <1>1, IdleOwesNothing DEF Idle
<1> HIDE DEF more
<1>7. Sends(t, more)
  BY <1>1, <1>2, <1>3, <1>4, <1>5, <1>6 DEF Sends, IsWrite
<1> QED
  BY <1>1, <1>3, <1>7, SendsKeepsFiles

LEMMA PersistSaveKeepsFiles ==
  ASSUME IndexInvariant, IndexInvariant', FilesInvariant, NEW t \in Closers, PersistSave(t)
  PROVE  FilesInvariant'
<1> DEFINE save == [op |-> "index", snap |-> th[t].snap]
           flush == [op |-> "flush", thread |-> t, wait |-> "flush2"]
           more == <<save, flush>>
<1>1. /\ th[t].at = "save" /\ queue' = queue \o more
      /\ th' = [th EXCEPT ![t] = [at |-> "flush2"]]
      /\ UNCHANGED <<idx, writer, files, saved, restarts>>
      /\ th \in [Threads -> ThreadStates] /\ queue \in Seq(Jobs) /\ t \in Threads
  BY DEF PersistSave, IndexInvariant, TypeOK, Threads
<1>2. save \in Jobs /\ flush \in Jobs
  <2>1. th[t].snap \in Snapshots
    BY <1>1, ThreadShape
  <2> QED
    BY <2>1 DEF Jobs
<1>3. /\ save.op = "index" /\ RecordsName(save.snap)
      /\ flush.op = "flush"
  BY <1>1 DEF FilesInvariant, ReferencesName
<1> HIDE DEF save, flush
<1>4. more \in Seq(Jobs) /\ \A n \in 1..Len(more) : more[n] = save \/ more[n] = flush
  BY <1>2
<1>5. th'[t] = [at |-> "flush2"] /\ \A u \in Threads \ {t} : th'[u] = th[u]
  BY <1>1
<1>6. Owed(t)' = {} /\ \A u \in Threads \ {t} : Owed(u)' = Owed(u)
  <2>1. Owed(t)' = {}
    BY <1>5 DEF Owed, Debts
  <2> QED
    BY <1>5, <2>1 DEF Owed
<1>7. Owed(t) = {}
  BY <1>1 DEF Owed, Debts
<1> HIDE DEF more
<1>8. \A n \in 1..Len(more) : ~IsWrite(more[n]) /\ more[n].op # "delete" /\ more[n].op # "cleanup"
                              /\ (more[n].op = "index" => RecordsName(more[n].snap))
  BY <1>3, <1>4 DEF IsWrite
<1>9. Sends(t, more)
  BY <1>1, <1>5, <1>6, <1>7, <1>8 DEF Sends
<1> QED
  BY <1>1, <1>4, <1>9, SendsKeepsFiles

-----------------------------------------------------------------------------
(***************************************************************************)
(* Steps of the writer thread                                              *)
(***************************************************************************)
LEMMA JobTaken ==
  ASSUME IndexInvariant, FilesInvariant, NEW op, NextJob(op),
         \A t \in Threads : Owed(t)' = Owed(t)
  PROVE  /\ writer = Idle /\ ~Writing
         /\ Head(queue) \in Queued /\ Head(queue) \in Jobs /\ Head(queue).op = op
         /\ Queued = Queued' \cup {Head(queue)}
         /\ JobsLeft = JobsLeft' \cup {Head(queue)}
         /\ \A job \in Queued' : job.op # "cleanup"
         /\ \A job \in Queued : job.op = "cleanup" => job = Head(queue)
         /\ \A m, n \in 1..Len(queue') :
              IsWrite(queue'[m]) /\ IsWrite(queue'[n]) /\ queue'[m].gen = queue'[n].gen => m = n
         /\ \A job \in JobsLeft' : IsWrite(job) /\ IsWrite(Head(queue)) => job.gen # Head(queue).gen
<1>1. /\ writer = Idle /\ queue # << >> /\ Head(queue).op = op /\ queue' = Tail(queue)
      /\ queue \in Seq(Jobs)
      /\ GenerationsDistinct /\ CleanupFirst
  BY DEF NextJob, IndexInvariant, TypeOK, FilesInvariant
<1>2. /\ Len(queue) \in Nat \ {0} /\ Len(queue') = Len(queue) - 1
      /\ \A n \in 1..Len(queue') : queue'[n] = queue[n + 1]
      /\ Head(queue) \in Jobs
  BY <1>1, HeadTailProperties, EmptySeq
<1>3. Head(queue) = queue[1]
  BY <1>1
<1>4. /\ 1 \in 1..Len(queue)
      /\ \A n \in 1..Len(queue') : n + 1 \in 1..Len(queue) /\ n + 1 # 1 /\ n \in Nat
      /\ \A n \in 1..Len(queue) : n = 1 \/ (n - 1 \in 1..Len(queue') /\ queue'[n - 1] = queue[n])
  BY <1>2
<1>5. Queued = Queued' \cup {Head(queue)}
  <2>1. \A job \in Queued' : job \in Queued
    BY <1>2, <1>4 DEF Queued
  <2>2. \A job \in Queued : job = Head(queue) \/ job \in Queued'
    BY <1>3, <1>4 DEF Queued
  <2>3. Head(queue) \in Queued
    BY <1>3, <1>4 DEF Queued
  <2> QED
    BY <2>1, <2>2, <2>3
<1>6. JobsLeft = JobsLeft' \cup {Head(queue)}
  BY <1>5 DEF JobsLeft
<1>7. /\ \A job \in Queued' : job.op # "cleanup"
      /\ \A job \in Queued : job.op = "cleanup" => job = Head(queue)
  <2>1. \A job \in Queued' : job.op # "cleanup"
    BY <1>1, <1>2, <1>4 DEF CleanupFirst, Queued
  <2> QED
    BY <1>5, <2>1
<1>8. \A m, n \in 1..Len(queue') :
        IsWrite(queue'[m]) /\ IsWrite(queue'[n]) /\ queue'[m].gen = queue'[n].gen => m = n
  <2> SUFFICES ASSUME NEW m \in 1..Len(queue'), NEW n \in 1..Len(queue'),
                      IsWrite(queue'[m]), IsWrite(queue'[n]), queue'[m].gen = queue'[n].gen
               PROVE  m = n
    OBVIOUS
  <2>1. m + 1 = n + 1
    BY <1>1, <1>2, <1>4 DEF GenerationsDistinct
  <2> QED
    BY <1>4, <2>1
<1>9. ASSUME NEW job \in JobsLeft', IsWrite(job), IsWrite(Head(queue)) PROVE job.gen # Head(queue).gen
  <2>1. CASE job \in Queued'
    <3>1. PICK n \in 1..Len(queue') : job = queue'[n]
      BY <2>1 DEF Queued
    <3>2. n + 1 # 1 /\ n + 1 \in 1..Len(queue) /\ job = queue[n + 1]
      BY <1>2, <1>4, <3>1
    <3> QED
      BY <1>1, <1>3, <1>4, <1>9, <3>2 DEF GenerationsDistinct
  <2>2. CASE \E t \in Threads : job \in Owed(t)
    BY <1>1, <1>5, <1>9, <2>2 DEF GenerationsDistinct
  <2> QED
    BY <2>1, <2>2 DEF JobsLeft
<1> QED
  BY <1>1, <1>2, <1>5, <1>6, <1>7, <1>8, <1>9 DEF Writing, Idle

(* What a step of the writer thread may do: it takes one job at most, a slot
   it makes names the file it has just written, it removes no file of a slot,
   and what it has not put right is still on its list. *)
Works ==
  /\ restarts' = restarts /\ idx'.nextGen = idx.nextGen
  /\ (queue' = queue /\ writer # Idle) \/ \E op : NextJob(op)
  /\ \A t \in Threads : Owed(t)' = Owed(t) /\ (th'[t].at \in {"enqueue", "save"} => th'[t] = th[t])
  /\ \A path \in OutstandingWrites' : path \in OutstandingWrites
  /\ Writing' => \A job \in JobsLeft' : IsWrite(job) => job.gen # writer'.gen
  /\ WrittenThere'
  /\ \A path \in DOMAIN files' : \/ path \in OutstandingWrites
                                 \/ path \in DOMAIN files /\ files'[path] = files[path]
  /\ \A path \in SlotPaths(idx, VKeys) : path \in DOMAIN files => path \in DOMAIN files'
  /\ \A k \in VKeys : OnDisk(idx', k) =>
       \/ OnDisk(idx, k) /\ idx'.entries[k].disk = idx.entries[k].disk
       \/ /\ Names(k, idx.entries[k].disk)'
          /\ <<k, idx'.entries[k].disk.gen>> \in OutstandingWrites
          /\ <<k, idx'.entries[k].disk.gen>> \in DOMAIN files'
  /\ saved' = saved \/ \E job \in JobsLeft : job.op = "index" /\ saved' = job.snap
  /\ writer'.at = "deleting" => writer'.paths \cap SlotPaths(idx', VKeys) = {}
  /\ ~DeletesFail => \A path \in DOMAIN files' : path \in SlotPaths(idx', VKeys) \/ path \in Leaving'

LEMMA WorksKeepsFiles ==
  ASSUME IndexInvariant, IndexInvariant', FilesInvariant, Works
  PROVE  FilesInvariant'
<1>1. /\ restarts' = restarts /\ idx'.nextGen = idx.nextGen
      /\ \A t \in Threads : Owed(t)' = Owed(t) /\ (th'[t].at \in {"enqueue", "save"} => th'[t] = th[t])
      /\ \A path \in OutstandingWrites' : path \in OutstandingWrites
      /\ \A path \in DOMAIN files' : \/ path \in OutstandingWrites
                                     \/ path \in DOMAIN files /\ files'[path] = files[path]
  BY DEF Works
<1>2. /\ OneDebt /\ GenerationsDistinct /\ WritesKnown /\ ReferencesName /\ WrittenThere
      /\ DeletesSpent /\ CleanupFirst /\ SlotsReadable /\ FilesKnown
  BY DEF FilesInvariant
<1>3. /\ idx.nextGen \in Nat /\ idx.nextGen <= idx'.nextGen /\ idx \in Index /\ idx' \in Index
  BY <1>1 DEF IndexInvariant, TypeOK, Index
<1>4. /\ \A job \in Queued' : job \in Queued /\ job.op # "cleanup"
      /\ \A m, n \in 1..Len(queue') :
           IsWrite(queue'[m]) /\ IsWrite(queue'[n]) /\ queue'[m].gen = queue'[n].gen => m = n
  <2>1. CASE queue' = queue /\ writer # Idle
    BY <1>2, <2>1 DEF CleanupFirst, GenerationsDistinct, Queued
  <2>2. ASSUME NEW op, NextJob(op)
        PROVE  /\ \A job \in Queued' : job \in Queued /\ job.op # "cleanup"
               /\ \A m, n \in 1..Len(queue') :
                    IsWrite(queue'[m]) /\ IsWrite(queue'[n]) /\ queue'[m].gen = queue'[n].gen => m = n
    BY <1>1, <2>2, JobTaken
  <2> QED
    BY <2>1, <2>2 DEF Works
<1>5. \A job \in JobsLeft' : job \in JobsLeft
  BY <1>1, <1>4 DEF JobsLeft
<1>6. OneDebt'
  BY <1>1, <1>2 DEF OneDebt
<1>7. GenerationsDistinct'
  BY <1>1, <1>2, <1>4 DEF GenerationsDistinct, Works
<1>8. WritesKnown'
  BY <1>1, <1>2 DEF WritesKnown
<1>9. \A path \in OutstandingWrites' : path \in OutstandingWrites \/ path[2] > idx.nextGen
  BY <1>1
<1>10. ReferencesName'
  <2>1. ASSUME NEW k \in VKeys, OnDisk(idx, k)' PROVE Names(k, idx.entries[k].disk)'
    <3>1. CASE OnDisk(idx, k) /\ idx'.entries[k].disk = idx.entries[k].disk
      <4>1. idx.entries[k].disk \in Slots
        BY <1>3, <3>1, EntryTyped
      <4>2. PICK slot \in Slots : slot = idx.entries[k].disk
        BY <4>1
      <4>3. Names(k, slot)
        BY <1>2, <3>1, <4>2 DEF ReferencesName
      <4>4. Names(k, slot)'
        BY <1>1, <1>3, <1>9, <4>3, NamesKept
      <4> QED
        BY <3>1, <4>2, <4>4 DEF Names
    <3> QED
      BY <2>1, <3>1 DEF Works
  <2>2. ASSUME NEW snap \in Snapshots, RecordsName(snap) PROVE RecordsName(snap)'
    BY <1>1, <1>3, <1>9, <2>2, RecordsKept
  <2>3. ASSUME saved' # None PROVE RecordsName(saved)'
    <3>1. saved' \in Snapshots
      BY <2>3 DEF IndexInvariant, TypeOK
    <3>2. PICK snap \in Snapshots : snap = saved'
      BY <3>1
    <3>3. RecordsName(snap)
      BY <1>2, <2>3, <3>2 DEF ReferencesName, Works
    <3>4. RecordsName(snap)'
      BY <2>2, <3>3
    <3> QED
      BY <3>2, <3>4 DEF RecordsName
  <2>4. ASSUME NEW job \in JobsLeft', job.op = "index" PROVE RecordsName(job.snap)'
    <3>1. job.snap \in Snapshots
      BY <1>5, <2>4, JobsTyped, JobShape
    <3>2. RecordsName(job.snap)
      BY <1>2, <1>5, <2>4 DEF ReferencesName
    <3> QED
      BY <2>2, <3>1, <3>2
  <2>5. ASSUME NEW u \in Threads, th'[u].at = "save" PROVE RecordsName(th[u].snap)'
    <3>1. th'[u].snap \in Snapshots
      BY <2>5, ThreadShape DEF IndexInvariant, TypeOK
    <3>2. PICK snap \in Snapshots : snap = th'[u].snap
      BY <3>1
    <3>3. RecordsName(snap)
      BY <1>1, <1>2, <2>5, <3>2 DEF ReferencesName
    <3>4. RecordsName(snap)'
      BY <2>2, <3>3
    <3> QED
      BY <3>2, <3>4 DEF RecordsName
  <2> QED
    BY <2>1, <2>3, <2>4, <2>5 DEF ReferencesName
<1>11. WrittenThere'
  BY DEF Works
<1>12. ASSUME NEW path \in SlotPaths(idx', VKeys)
       PROVE  \/ path \in SlotPaths(idx, VKeys)
              \/ path \in OutstandingWrites /\ path \in DOMAIN files'
  <2>1. PICK k \in VKeys : OnDisk(idx', k) /\ path = <<k, idx'.entries[k].disk.gen>>
    BY SlotPathsMember
  <2>2. CASE OnDisk(idx, k) /\ idx'.entries[k].disk = idx.entries[k].disk
    BY <2>1, <2>2, SlotPathsMember
  <2> QED
    BY <2>1, <2>2 DEF Works
<1>13. DeletesSpent'
  <2>1. ASSUME NEW job \in JobsLeft', job.op = "delete", NEW path \in job.paths
        PROVE  /\ path[2] <= idx'.nextGen /\ path \notin OutstandingWrites'
               /\ path \notin SlotPaths(idx', VKeys)
    <3>1. /\ path[2] <= idx.nextGen /\ path \notin OutstandingWrites
          /\ path \notin SlotPaths(idx, VKeys)
      BY <1>2, <1>5, <2>1 DEF DeletesSpent
    <3> QED
      BY <1>1, <1>12, <3>1
  <2> QED
    BY <2>1 DEF DeletesSpent, Works
<1>14. CleanupFirst'
  <2>1. \A n \in 1..Len(queue') : queue'[n].op # "cleanup"
    BY <1>4 DEF Queued
  <2> QED
    BY <1>1, <1>2, <2>1 DEF CleanupFirst
<1>15. SlotsReadable'
  BY <1>1, <1>2, <1>12 DEF SlotsReadable, Works
<1>16. FilesKnown'
  <2>1. ASSUME NEW path \in DOMAIN files' PROVE HasDisk
    BY <1>1, <1>2 DEF WritesKnown, FilesKnown
  <2> QED
    BY <2>1 DEF FilesKnown, Works
<1> QED
  BY <1>6, <1>7, <1>8, <1>10, <1>11, <1>13, <1>14, <1>15, <1>16 DEF FilesInvariant

LEMMA WriteEntryKeepsFiles ==
  ASSUME IndexInvariant, IndexInvariant', FilesInvariant, NEW ok \in BOOLEAN, WriteEntry(ok)
  PROVE  FilesInvariant'
<1> DEFINE job == Head(queue)
           path == <<job.key, job.gen>>
<1>1. /\ NextJob("write")
      /\ files' = IF ok THEN Written(path, job.value) ELSE files
      /\ writer' = [at |-> "written", key |-> job.key, gen |-> job.gen, value |-> job.value, ok |-> ok]
      /\ UNCHANGED <<idx, saved, th, restarts>>
  BY DEF WriteEntry
<1>2. \A t \in Threads : Owed(t)' = Owed(t)
  BY <1>1 DEF Owed
<1>3. /\ writer = Idle /\ ~Writing /\ job \in JobsLeft /\ IsWrite(job)
      /\ JobsLeft = JobsLeft' \cup {job}
      /\ \A other \in Queued : other.op # "cleanup"
      /\ \A other \in JobsLeft' : IsWrite(other) => other.gen # job.gen
  BY <1>1, <1>2, JobTaken DEF IsWrite
<1>4. /\ writer'.at = "written" /\ writer'.gen = job.gen /\ writer'.key = job.key
      /\ writer'.value = job.value /\ writer'.ok = ok
  BY <1>1
<1> HIDE DEF job
<1>5. path \in OutstandingWrites
  BY <1>3, OutstandingMember
<1>6. \A p \in OutstandingWrites' : p \in OutstandingWrites
  BY <1>3, <1>4 DEF OutstandingWrites, Writing
<1> HIDE DEF path
<1>7. /\ \A p \in DOMAIN files' : \/ p \in OutstandingWrites
                                  \/ p \in DOMAIN files /\ files'[p] = files[p]
      /\ \A p \in DOMAIN files : p \in DOMAIN files'
      /\ \A p \in DOMAIN files' : p \in DOMAIN files \/ (ok /\ p = path)
      /\ ok => path \in DOMAIN files' /\ files'[path] = job.value
  BY <1>1, <1>5 DEF Written
<1>8. WrittenThere'
  BY <1>4, <1>7 DEF WrittenThere, path
<1>9. ASSUME ~DeletesFail, NEW p \in DOMAIN files' PROVE p \in SlotPaths(idx, VKeys) \/ p \in Leaving'
  <2>1. CASE p \in DOMAIN files
    <3>1. p \in SlotPaths(idx, VKeys) \/ p \in Leaving
      BY <1>3, <1>9, <2>1 DEF FilesInvariant, FilesKnown
    <3>2. p \in Leaving => \E other \in JobsLeft : other.op = "delete" /\ p \in other.paths
      BY <1>3 DEF Leaving, Idle
    <3>3. p \in Leaving => p \in Leaving'
      BY <1>3, <3>2 DEF Leaving, IsWrite
    <3> QED
      BY <3>1, <3>3
  <2>2. CASE ok /\ p = path
    BY <1>4, <2>2 DEF Leaving, Writing, path
  <2> QED
    BY <1>7, <2>1, <2>2
<1>10. Works
  BY <1>1, <1>2, <1>3, <1>4, <1>6, <1>7, <1>8, <1>9 DEF Works, OnDisk
<1> QED
  BY <1>10, WorksKeepsFiles

LEMMA DeletingKeepsWrites ==
  ASSUME ~Writing, ~Writing', \A job \in JobsLeft' : job \in JobsLeft
  PROVE  /\ \A path \in OutstandingWrites' : path \in OutstandingWrites
         /\ WrittenThere'
BY DEF OutstandingWrites, WrittenThere

LEMMA DeleteJobKeepsFiles ==
  ASSUME IndexInvariant, IndexInvariant', FilesInvariant, DeleteJob
  PROVE  FilesInvariant'
<1> DEFINE job == Head(queue)
<1>1. /\ NextJob("delete") /\ writer' = [at |-> "deleting", paths |-> job.paths]
      /\ UNCHANGED <<idx, files, saved, th, restarts>>
  BY DEF DeleteJob
<1>2. \A t \in Threads : Owed(t)' = Owed(t)
  BY <1>1 DEF Owed
<1>3. /\ writer = Idle /\ ~Writing /\ job \in JobsLeft /\ job.op = "delete"
      /\ JobsLeft = JobsLeft' \cup {job}
      /\ \A other \in Queued : other.op # "cleanup"
  BY <1>1, <1>2, JobTaken
<1>4. writer'.at = "deleting" /\ writer'.paths = job.paths /\ ~Writing'
  BY <1>1 DEF Writing
<1> HIDE DEF job
<1>5. writer'.paths \cap SlotPaths(idx, VKeys) = {}
  BY <1>3, <1>4 DEF FilesInvariant, DeletesSpent
<1>6. ASSUME ~DeletesFail, NEW p \in DOMAIN files PROVE p \in SlotPaths(idx, VKeys) \/ p \in Leaving'
  <2>1. p \in SlotPaths(idx, VKeys) \/ p \in Leaving
    BY <1>3, <1>6 DEF FilesInvariant, FilesKnown
  <2>2. p \in Leaving => \E other \in JobsLeft : other.op = "delete" /\ p \in other.paths
    BY <1>3 DEF Leaving, Idle
  <2>3. p \in Leaving => p \in Leaving'
    BY <1>3, <1>4, <2>2 DEF Leaving
  <2> QED
    BY <2>1, <2>3
<1>7. Works
  BY <1>1, <1>2, <1>3, <1>4, <1>5, <1>6, DeletingKeepsWrites DEF Works, OnDisk
<1> QED
  BY <1>7, WorksKeepsFiles

(* The clean-up finds every file that is neither a slot's nor deleted by a
   job behind it. *)
LEMMA CleanupJobKeepsFiles ==
  ASSUME IndexInvariant, IndexInvariant', FilesInvariant, CleanupJob
  PROVE  FilesInvariant'
<1> DEFINE job == Head(queue)
<1>1. /\ NextJob("cleanup") /\ writer' = [at |-> "deleting", paths |-> DOMAIN files \ job.keep]
      /\ UNCHANGED <<idx, files, saved, th, restarts>>
  BY DEF CleanupJob, Unknown
<1>2. \A t \in Threads : Owed(t)' = Owed(t)
  BY <1>1 DEF Owed
<1>3. /\ writer = Idle /\ ~Writing /\ job \in Queued /\ job \in JobsLeft /\ job.op = "cleanup"
      /\ JobsLeft = JobsLeft' \cup {job}
      /\ \A other \in Queued : other.op = "cleanup" => other = job
  BY <1>1, <1>2, JobTaken
<1>4. writer'.at = "deleting" /\ writer'.paths = DOMAIN files \ job.keep /\ ~Writing'
  BY <1>1 DEF Writing
<1> HIDE DEF job
<1>5. SlotPaths(idx, VKeys) \subseteq job.keep
  BY <1>3 DEF FilesInvariant, CleanupFirst, Queued
<1>6. ASSUME ~DeletesFail, NEW p \in DOMAIN files PROVE p \in SlotPaths(idx, VKeys) \/ p \in Leaving'
  <2>1. p \in SlotPaths(idx, VKeys) \/ p \in Leaving \/ p \notin job.keep
    BY <1>3, <1>6 DEF FilesInvariant, FilesKnown
  <2>2. p \in Leaving => \E other \in JobsLeft : other.op = "delete" /\ p \in other.paths
    BY <1>3 DEF Leaving, Idle
  <2>3. p \in Leaving => p \in Leaving'
    BY <1>3, <1>4, <2>2 DEF Leaving
  <2>4. p \notin job.keep => p \in Leaving'
    BY <1>4 DEF Leaving
  <2> QED
    BY <2>1, <2>3, <2>4
<1>7. Works
  BY <1>1, <1>2, <1>3, <1>4, <1>5, <1>6, DeletingKeepsWrites DEF Works, OnDisk
<1> QED
  BY <1>7, WorksKeepsFiles

LEMMA DeleteFileKeepsFiles ==
  ASSUME IndexInvariant, IndexInvariant', FilesInvariant,
         writer.at = "deleting", NEW path \in writer.paths, NEW ok \in BOOLEAN, DeleteFile(path, ok)
  PROVE  FilesInvariant'
<1> DEFINE paths == writer.paths
<1>1. /\ files' = IF ok THEN [p \in DOMAIN files \ {path} |-> files[p]] ELSE files
      /\ ok \/ DeletesFail
      /\ writer' = [writer EXCEPT !.paths = paths \ {path}]
      /\ UNCHANGED <<idx, saved, queue, th, restarts>>
  BY DEF DeleteFile
<1>2. writer = [at |-> "deleting", paths |-> paths]
  BY WriterShape DEF IndexInvariant, TypeOK
<1> HIDE DEF paths
<1>3. writer'.at = "deleting" /\ writer'.paths = paths \ {path}
  <2>1. writer' = [at |-> "deleting", paths |-> paths \ {path}]
    BY <1>1, <1>2
  <2> QED
    BY <2>1
<1>4. ~Writing /\ ~Writing' /\ writer # Idle
  BY <1>3 DEF Writing, Idle
<1>5. \A t \in Threads : Owed(t)' = Owed(t)
  BY <1>1 DEF Owed
<1>6. JobsLeft' = JobsLeft
  BY <1>1, <1>5 DEF JobsLeft, Queued
<1>7. paths \cap SlotPaths(idx, VKeys) = {} /\ path \in paths
  BY DEF FilesInvariant, DeletesSpent, paths
<1>8. \A job \in Queued : job.op # "cleanup"
  BY <1>4 DEF FilesInvariant, CleanupFirst, Queued
<1>9. ASSUME ~DeletesFail, NEW p \in DOMAIN files' PROVE p \in SlotPaths(idx, VKeys) \/ p \in Leaving'
  <2>1. p \in DOMAIN files /\ p # path
    BY <1>1, <1>9
  <2>2. p \in SlotPaths(idx, VKeys) \/ p \in Leaving
    BY <1>8, <1>9, <2>1 DEF FilesInvariant, FilesKnown
  <2>3. p \in Leaving => p \in Leaving'
    BY <1>3, <1>4, <1>6, <2>1 DEF Leaving, paths
  <2> QED
    BY <2>2, <2>3
<1>10. Works
  BY <1>1, <1>3, <1>4, <1>5, <1>6, <1>7, <1>9, DeletingKeepsWrites DEF Works, OnDisk
<1> QED
  BY <1>10, WorksKeepsFiles

LEMMA DeletesDoneKeepsFiles ==
  ASSUME IndexInvariant, IndexInvariant', FilesInvariant, DeletesDone
  PROVE  FilesInvariant'
<1>1. /\ writer.at = "deleting" /\ writer.paths = {}
      /\ writer'.at = "idle" /\ ~Writing /\ ~Writing' /\ writer # Idle
      /\ UNCHANGED <<idx, files, saved, queue, th, restarts>>
  <2>1. writer = [at |-> "deleting", paths |-> {}] /\ writer' = Idle
    BY DEF DeletesDone
  <2> QED
    BY <2>1 DEF DeletesDone, Writing, Idle
<1>2. \A t \in Threads : Owed(t)' = Owed(t)
  BY <1>1 DEF Owed
<1>3. JobsLeft' = JobsLeft
  BY <1>1, <1>2 DEF JobsLeft, Queued
<1>4. \A job \in Queued : job.op # "cleanup"
  BY <1>1 DEF FilesInvariant, CleanupFirst, Queued
<1>5. ASSUME ~DeletesFail, NEW p \in DOMAIN files PROVE p \in SlotPaths(idx, VKeys) \/ p \in Leaving'
  <2>1. p \in SlotPaths(idx, VKeys) \/ p \in Leaving
    BY <1>4, <1>5 DEF FilesInvariant, FilesKnown
  <2>2. p \in Leaving => p \in Leaving'
    BY <1>1, <1>3 DEF Leaving
  <2> QED
    BY <2>1, <2>2
<1>6. Works
  BY <1>1, <1>2, <1>3, <1>5, DeletingKeepsWrites DEF Works, OnDisk
<1> QED
  BY <1>6, WorksKeepsFiles

LEMMA SaveIndexJobKeepsFiles ==
  ASSUME IndexInvariant, IndexInvariant', FilesInvariant, NEW ok \in BOOLEAN, SaveIndexJob(ok)
  PROVE  FilesInvariant'
<1> DEFINE job == Head(queue)
<1>1. /\ NextJob("index")
      /\ saved' = saved \/ saved' = job.snap
      /\ UNCHANGED <<idx, files, writer, th, restarts>>
  BY DEF SaveIndexJob
<1>2. \A t \in Threads : Owed(t)' = Owed(t)
  BY <1>1 DEF Owed
<1>3. /\ NextJob("index") /\ writer = Idle /\ ~Writing /\ job \in JobsLeft /\ job.op = "index"
      /\ JobsLeft = JobsLeft' \cup {job}
      /\ \A other \in Queued : other.op # "cleanup"
  <2>1. NextJob("index")
    BY DEF SaveIndexJob
  <2> QED
    BY <1>2, <2>1, JobTaken
<1> HIDE DEF job
<1>4. saved' = saved \/ \E other \in JobsLeft : other.op = "index" /\ saved' = other.snap
  <2>1. saved' = saved \/ saved' = job.snap
    BY DEF SaveIndexJob, job
  <2> QED
    BY <1>3, <2>1
<1>5. ~Writing' /\ writer' = Idle /\ writer'.at # "deleting" /\ UNCHANGED <<idx, files, writer, th, restarts>>
  BY <1>1, <1>3 DEF Writing, Idle
<1>6. ASSUME ~DeletesFail, NEW p \in DOMAIN files PROVE p \in SlotPaths(idx, VKeys) \/ p \in Leaving'
  <2>1. p \in SlotPaths(idx, VKeys) \/ p \in Leaving
    BY <1>3, <1>6 DEF FilesInvariant, FilesKnown
  <2>2. p \in Leaving => \E other \in JobsLeft : other.op = "delete" /\ p \in other.paths
    BY <1>3, LeavingMember DEF Idle
  <2>3. p \in Leaving => p \in Leaving'
    BY <1>3, <2>2 DEF Leaving
  <2> QED
    BY <2>1, <2>3
<1>7. Works
  BY <1>2, <1>3, <1>4, <1>5, <1>6, DeletingKeepsWrites DEF Works, OnDisk
<1> QED
  BY <1>7, WorksKeepsFiles

LEMMA FlushJobKeepsFiles ==
  ASSUME IndexInvariant, IndexInvariant', FilesInvariant, FlushJob
  PROVE  FilesInvariant'
<1>1. /\ NextJob("flush") /\ UNCHANGED <<idx, files, saved, writer, restarts>>
      /\ th \in [Threads -> ThreadStates] /\ queue \in Seq(Jobs)
  BY DEF FlushJob, IndexInvariant, TypeOK
<1>2. PICK t \in Threads :
        \/ th' = th
        \/ th[t].at \in {"flush1", "flush2"} /\ th' = [th EXCEPT ![t] = Flushed(th[t])]
  <2> DEFINE job == Head(queue)
  <2>1. job \in Jobs /\ job.op = "flush"
    BY <1>1, HeadTailProperties DEF NextJob
  <2>2. th' = IF th[job.thread].at = job.wait
              THEN [th EXCEPT ![job.thread] = Flushed(@)] ELSE th
    BY DEF FlushJob
  <2> HIDE DEF job
  <2>3. job.thread \in Threads /\ job.wait \in {"flush1", "flush2"}
    BY <2>1, JobShape DEF Threads
  <2>4. th' = IF th[job.thread].at = job.wait
              THEN [th EXCEPT ![job.thread] = Flushed(th[job.thread])] ELSE th
    BY <1>1, <2>2, <2>3
  <2> QED
    BY <2>3, <2>4
<1>3. \A u \in Threads : Owed(u)' = Owed(u) /\ (th'[u].at \in {"enqueue", "save"} => th'[u] = th[u])
  <2>1. CASE th' = th
    BY <2>1 DEF Owed
  <2>2. CASE th[t].at \in {"flush1", "flush2"} /\ th' = [th EXCEPT ![t] = Flushed(th[t])]
    <3>1. th'[t] = Flushed(th[t]) /\ \A u \in Threads \ {t} : th'[u] = th[u]
      BY <1>1, <1>2, <2>2
    <3>2. th'[t].at \in {"flushed1", "persisted"}
      BY <3>1 DEF Flushed
    <3>3. Owed(t)' = {}
      BY <3>2 DEF Owed, Debts
    <3>4. Owed(t) = {}
      BY <2>2 DEF Owed, Debts
    <3>5. \A u \in Threads \ {t} : Owed(u)' = Owed(u)
      BY <3>1 DEF Owed
    <3> QED
      BY <3>1, <3>2, <3>3, <3>4, <3>5
  <2> QED
    BY <1>2, <2>1, <2>2
<1>4. /\ writer = Idle /\ ~Writing
      /\ \E other : other.op = "flush" /\ JobsLeft = JobsLeft' \cup {other}
      /\ \A other \in Queued : other.op # "cleanup"
  BY <1>1, <1>3, JobTaken
<1>5. ~Writing' /\ writer'.at # "deleting"
  BY <1>1, <1>4 DEF Writing, Idle
<1>6. ASSUME ~DeletesFail, NEW p \in DOMAIN files PROVE p \in SlotPaths(idx, VKeys) \/ p \in Leaving'
  <2>1. p \in SlotPaths(idx, VKeys) \/ p \in Leaving
    BY <1>4, <1>6 DEF FilesInvariant, FilesKnown
  <2>2. p \in Leaving => \E other \in JobsLeft : other.op = "delete" /\ p \in other.paths
    BY <1>4, LeavingMember DEF Idle
  <2>3. p \in Leaving => p \in Leaving'
    BY <1>4, <2>2 DEF Leaving
  <2> QED
    BY <2>1, <2>3
<1>7. Works
  BY <1>1, <1>3, <1>4, <1>5, <1>6, DeletingKeepsWrites DEF Works, OnDisk
<1> QED
  BY <1>7, WorksKeepsFiles

(* on_write_done: the slot of a write that succeeded names the new file, the
   files of the slot before it and of the evicted slots are deleted; a write
   that was superseded leaves its file to be deleted. *)
LEMMA WriteDoneKeepsFiles ==
  ASSUME IndexInvariant, IndexInvariant', FilesInvariant, WriteDone
  PROVE  FilesInvariant'
<1>1. /\ writer.at = "written" /\ writer \in WriterStates
      /\ idx \in Index /\ idx' \in Index /\ Settled(idx) /\ idx.nextGen \in Nat
      /\ UNCHANGED <<files, saved, queue, th, restarts>>
  BY DEF WriteDone, IndexInvariant, TypeOK, Index
<1>2. PICK k \in VKeys, gen \in Nat \ {0}, value \in Values, ok \in BOOLEAN :
        writer.key = k /\ writer.gen = gen /\ writer.value = value /\ writer.ok = ok
  BY <1>1, WriterShape
<1> DEFINE current == AwaitsWrite(idx.entries[k], gen)
           slot == [gen |-> gen, size |-> value.kind.size, ver |-> value.ver]
           c == Committed(idx, k, slot)
           ev == EvictDisk(c)
           paths == IF ~ok THEN {}
                    ELSE IF current THEN SlotPaths(idx, {k}) \cup ev.deletes ELSE {<<k, gen>>}
           path == <<k, gen>>
<1>3. /\ idx' = IF ~current THEN idx ELSE IF ok THEN ev.idx ELSE WriteFailed(idx, k)
      /\ writer' = [at |-> "deleting", paths |-> paths]
  BY <1>2 DEF WriteDone
<1>4. writer'.at = "deleting" /\ writer'.paths = paths
  <2> HIDE DEF paths
  <2> QED
    BY <1>3
<1>5. slot \in Slots /\ slot.gen = gen /\ slot.ver = value.ver
  BY <1>2, CacheAssumption DEF Values, KindType, Slots
<1>6. current => idx.entries[k] # None
  BY DEF AwaitsWrite
<1> HIDE DEF slot, current
<1>7. \A t \in Threads : Owed(t)' = Owed(t)
  BY <1>1 DEF Owed
<1>8. JobsLeft' = JobsLeft /\ Writing /\ ~Writing' /\ writer # Idle
  BY <1>1, <1>4, <1>7 DEF JobsLeft, Queued, Writing, Idle
<1>9. /\ path \in OutstandingWrites /\ path \notin OutstandingWrites'
      /\ path \notin SlotPaths(idx, VKeys) /\ gen <= idx.nextGen
      /\ \A p \in OutstandingWrites' : p \in OutstandingWrites
      /\ \A p \in SlotPaths(idx, VKeys) : p \notin OutstandingWrites
  <2>1. path \in OutstandingWrites
    BY <1>2, <1>8, OutstandingMember
  <2>2. path \notin OutstandingWrites'
    <3>1. \A job \in JobsLeft : IsWrite(job) => job.gen # gen
      BY <1>2, <1>8 DEF FilesInvariant, GenerationsDistinct
    <3> QED
      BY <1>8, <3>1 DEF OutstandingWrites
  <2>3. \A p \in OutstandingWrites' : p \in OutstandingWrites
    BY <1>8 DEF OutstandingWrites
  <2>4. \A p \in SlotPaths(idx, VKeys) : p \notin OutstandingWrites
    BY SlotPathsMember DEF FilesInvariant, ReferencesName, Names
  <2>5. gen <= idx.nextGen
    BY <2>1 DEF FilesInvariant, WritesKnown
  <2> QED
    BY <2>1, <2>2, <2>3, <2>4, <2>5
<1>10. ok => path \in DOMAIN files /\ files[path] = value
  BY <1>2, <1>8 DEF FilesInvariant, WrittenThere
<1> HIDE DEF path
<1>11. ASSUME ~DeletesFail, NEW p \in DOMAIN files
       PROVE  \/ p \in SlotPaths(idx, VKeys)
              \/ ok /\ p = path
              \/ \E job \in JobsLeft : job.op = "delete" /\ p \in job.paths
  <2>1. \A job \in Queued : job.op # "cleanup"
    BY <1>8 DEF FilesInvariant, CleanupFirst, Queued
  <2>2. p \in SlotPaths(idx, VKeys) \/ p \in Leaving
    BY <1>11, <2>1 DEF FilesInvariant, FilesKnown
  <2>3. p \in Leaving => (ok /\ p = path) \/ \E job \in JobsLeft : job.op = "delete" /\ p \in job.paths
    BY <1>1, <1>2, LeavingMember DEF path
  <2> QED
    BY <2>2, <2>3
<1>12. \A p : (\E job \in JobsLeft : job.op = "delete" /\ p \in job.paths) => p \in Leaving'
  BY <1>8 DEF Leaving
<1>13. \A p \in paths : p \in Leaving'
  <2> HIDE DEF paths
  <2> QED
    BY <1>4 DEF Leaving
<1>14. CASE ~current \/ ~ok
  <2>1. /\ idx'.nextGen = idx.nextGen
        /\ \A l \in VKeys : /\ OnDisk(idx', l) <=> OnDisk(idx, l)
                            /\ OnDisk(idx, l) => idx'.entries[l].disk = idx.entries[l].disk
    <3>1. CASE ~current
      BY <1>3, <3>1 DEF OnDisk
    <3>2. CASE current /\ ~ok
      <4>1. idx' = WriteFailed(idx, k)
        BY <1>3, <3>2
      <4>2. /\ idx'.nextGen = idx.nextGen
            /\ \A l \in VKeys \ {k} : idx'.entries[l] = idx.entries[l]
            /\ \/ idx'.entries[k] = None /\ idx.entries[k].disk = None
               \/ idx'.entries[k] # None /\ idx'.entries[k].disk = idx.entries[k].disk
        BY <1>1, <1>2, <1>6, <3>2, <4>1, WriteFailedSettled
      <4> QED
        BY <1>6, <3>2, <4>2 DEF OnDisk
    <3> QED
      BY <1>14, <3>1, <3>2
  <2>2. \A p : p \in SlotPaths(idx', VKeys) <=> p \in SlotPaths(idx, VKeys)
    BY <2>1, SlotPathsMember
  <2>3. paths = IF ok THEN {path} ELSE {}
    BY <1>14 DEF path
  <2> HIDE DEF paths
  <2>4. writer'.paths \cap SlotPaths(idx', VKeys) = {}
    BY <1>4, <1>9, <2>2, <2>3
  <2>5. ~DeletesFail => \A p \in DOMAIN files : p \in SlotPaths(idx', VKeys) \/ p \in Leaving'
    BY <1>11, <1>12, <1>13, <2>2, <2>3
  <2>6. WrittenThere'
    BY <1>8 DEF WrittenThere
  <2>7. Works
    BY <1>1, <1>7, <1>8, <1>9, <2>1, <2>4, <2>5, <2>6 DEF Works
  <2> QED
    BY <2>7, WorksKeepsFiles
<1>15. CASE current /\ ok
  <2>1. /\ Sound(c) /\ Filled(c) /\ c.memBytes <= MemBudget /\ c.nextGen = idx.nextGen
        /\ \A l \in VKeys \ {k} : c.entries[l] = idx.entries[l]
        /\ c.entries[k] # None /\ c.entries[k].disk = slot
    <3>1. c.entries[k] = [mem |-> idx.entries[k].mem, disk |-> slot, pending |-> None]
      BY <1>1, <1>2, <1>5, <1>6, <1>15, CommittedSound
    <3> QED
      BY <1>1, <1>2, <1>5, <1>6, <1>15, <3>1, CommittedSound
  <2> HIDE DEF c
  <2>2. /\ idx' = ev.idx /\ idx'.nextGen = idx.nextGen
        /\ \A l \in VKeys : LosesSlot(c.entries[l], idx'.entries[l])
        /\ ev.deletes = SlotPaths(c, {l \in VKeys : ~OnDisk(idx', l)})
    BY <1>3, <1>15, <2>1, EvictDiskSettles
  <2>3. paths = SlotPaths(idx, {k}) \cup ev.deletes
    BY <1>15
  <2> HIDE DEF ev, paths
  <2>4. ASSUME NEW l \in VKeys, OnDisk(idx', l)
        PROVE  OnDisk(c, l) /\ idx'.entries[l].disk = c.entries[l].disk
    <3>1. c.entries[l] \in Entries \cup {None}
      BY <2>1 DEF Sound, Index
    <3>2. CASE c.entries[l] # None /\ idx'.entries[l] = [c.entries[l] EXCEPT !.disk = None]
      <4>1. c.entries[l] \in Entries
        BY <3>1, <3>2
      <4>2. idx'.entries[l].disk = None
        BY <3>2, <4>1 DEF Entries
      <4> QED
        BY <2>4, <4>2 DEF OnDisk
    <3>3. CASE idx'.entries[l] = c.entries[l]
      BY <2>4, <3>3 DEF OnDisk
    <3>4. idx'.entries[l] # None
      BY <2>4 DEF OnDisk
    <3> QED
      BY <2>2, <3>2, <3>3, <3>4 DEF LosesSlot
  <2>5. /\ \A p : p \in SlotPaths(idx, {k}) <=> OnDisk(idx, k) /\ p = <<k, idx.entries[k].disk.gen>>
        /\ \A p \in SlotPaths(idx, {k}) : p \in SlotPaths(idx, VKeys)
    BY <1>2 DEF SlotPaths
  <2>6. \A p : p \in ev.deletes <=>
                 \E l \in VKeys : /\ OnDisk(c, l) /\ ~OnDisk(idx', l)
                                  /\ p = <<l, c.entries[l].disk.gen>>
    BY <2>2 DEF SlotPaths
  <2>7. \A l \in VKeys : l # k => (OnDisk(c, l) <=> OnDisk(idx, l))
    BY <2>1 DEF OnDisk
  <2>8. OnDisk(c, k) /\ c.entries[k].disk.gen = gen
    BY <1>5, <2>1, NoneAssumption DEF OnDisk
  <2>9. ASSUME NEW p \in SlotPaths(idx, VKeys)
        PROVE  p \in SlotPaths(idx', VKeys) \/ p \in paths
    <3>1. PICK l \in VKeys : OnDisk(idx, l) /\ p = <<l, idx.entries[l].disk.gen>>
      BY SlotPathsMember
    <3>2. CASE l = k
      BY <2>3, <2>5, <3>1, <3>2
    <3>3. CASE l # k /\ OnDisk(idx', l)
      BY <2>1, <2>4, <3>1, <3>3, SlotPathsMember
    <3>4. CASE l # k /\ ~OnDisk(idx', l)
      BY <2>1, <2>3, <2>6, <2>7, <3>1, <3>4
    <3> QED
      BY <3>2, <3>3, <3>4
  <2>10. path \in SlotPaths(idx', VKeys) \/ path \in paths
    <3>1. CASE OnDisk(idx', k)
      BY <1>2, <2>4, <2>8, <3>1, SlotPathsMember DEF path
    <3>2. CASE ~OnDisk(idx', k)
      BY <1>2, <2>3, <2>6, <2>8, <3>2 DEF path
    <3> QED
      BY <3>1, <3>2
  <2>11. ASSUME NEW l \in VKeys, OnDisk(idx', l)
         PROVE  \/ OnDisk(idx, l) /\ idx'.entries[l].disk = idx.entries[l].disk
                \/ /\ Names(l, idx.entries[l].disk)'
                   /\ <<l, idx'.entries[l].disk.gen>> \in OutstandingWrites
                   /\ <<l, idx'.entries[l].disk.gen>> \in DOMAIN files'
    <3>1. CASE l # k
      BY <2>1, <2>4, <2>7, <2>11, <3>1
    <3>2. CASE l = k
      <4>1. idx'.entries[l].disk = slot /\ l = k
        BY <2>1, <2>4, <2>11, <3>2
      <4>2. Names(k, slot)'
        <5>1. path \notin OutstandingWrites' /\ path \in DOMAIN files' /\ files'[path].ver = slot.ver
          BY <1>1, <1>5, <1>9, <1>10, <1>15
        <5>2. slot.gen <= idx'.nextGen
          BY <1>5, <1>9, <2>2
        <5>3. path = <<k, slot.gen>>
          BY <1>5 DEF path
        <5>4. path' = path /\ slot' = slot
          BY DEF path, slot
        <5> QED
          BY <5>1, <5>2, <5>3, <5>4 DEF Names
      <4>3. Names(l, idx.entries[l].disk)'
        BY <4>1, <4>2 DEF Names, slot
      <4>4. <<l, idx'.entries[l].disk.gen>> = path
        BY <1>5, <4>1 DEF path
      <4> QED
        BY <1>1, <1>9, <1>10, <1>15, <4>3, <4>4
    <3> QED
      BY <3>1, <3>2
  <2>12. writer'.paths \cap SlotPaths(idx', VKeys) = {}
    <3> SUFFICES ASSUME NEW p \in paths, p \in SlotPaths(idx', VKeys) PROVE FALSE
      BY <1>4
    <3>1. PICK l \in VKeys : OnDisk(idx', l) /\ p = <<l, idx'.entries[l].disk.gen>>
      BY SlotPathsMember
    <3>2. p = <<l, c.entries[l].disk.gen>>
      BY <2>4, <3>1
    <3>3. p \notin ev.deletes
      BY <2>6, <3>1
    <3>4. p \in SlotPaths(idx, VKeys) /\ l = k
      <4>1. p \in SlotPaths(idx, {k})
        BY <2>3, <3>3
      <4>2. p \in SlotPaths(idx, VKeys) /\ p = <<k, idx.entries[k].disk.gen>>
        BY <2>5, <4>1
      <4> QED
        BY <3>1, <4>2
    <3>5. p = path
      BY <2>8, <3>2, <3>4 DEF path
    <3> QED
      BY <1>9, <3>4, <3>5
  <2>13. ~DeletesFail => \A p \in DOMAIN files : p \in SlotPaths(idx', VKeys) \/ p \in Leaving'
    BY <1>11, <1>12, <1>13, <2>9, <2>10
  <2>14. WrittenThere'
    BY <1>8 DEF WrittenThere
  <2>15. Works
    BY <1>1, <1>7, <1>8, <1>9, <2>2, <2>11, <2>12, <2>13, <2>14 DEF Works
  <2> QED
    BY <2>15, WorksKeepsFiles
<1> QED
  BY <1>14, <1>15

-----------------------------------------------------------------------------
(***************************************************************************)
(* Opening the cache                                                       *)
(***************************************************************************)
LEMMA TupleFacts ==
  ASSUME NEW a, NEW b
  PROVE  /\ <<a>> \o << >> = <<a>> /\ <<a>> \o <<b>> = <<a, b>>
         /\ Len(<<a>>) = 1 /\ <<a>>[1] = a
         /\ Len(<<a, b>>) = 2 /\ <<a, b>>[1] = a /\ <<a, b>>[2] = b
<1>1. <<a>> \in Seq({a, b}) /\ <<b>> \in Seq({a, b}) /\ <<a, b>> \in Seq({a, b})
  OBVIOUS
<1>2. <<a>> \o << >> = <<a>>
  BY <1>1, ConcatEmptySeq
<1>3. Len(<<a>>) = 1 /\ <<a>>[1] = a /\ Len(<<b>>) = 1 /\ <<b>>[1] = b
  BY <1>1
<1>4. Len(<<a, b>>) = 2 /\ <<a, b>>[1] = a /\ <<a, b>>[2] = b
  BY <1>1
<1>5. <<a>> \o <<b>> = <<a, b>>
  <2>1. <<a>> \o <<b>> \in Seq({a, b}) /\ Len(<<a>> \o <<b>>) = 2
    BY <1>1, <1>3, ConcatProperties
  <2>2. (<<a>> \o <<b>>)[1] = a /\ (<<a>> \o <<b>>)[2] = b
    BY <1>1, <1>3, ConcatProperties
  <2>3. \A n \in 1..2 : (<<a>> \o <<b>>)[n] = <<a, b>>[n]
    BY <1>4, <2>2
  <2> QED
    BY <1>1, <1>4, <2>1, <2>3, SeqEqual
<1> QED
  BY <1>2, <1>3, <1>4, <1>5

CleansUpFirst(jobs, keep, gone) ==
  /\ \A n \in 1..Len(jobs) :
       \/ n = 1 /\ jobs[n] = [op |-> "cleanup", keep |-> keep]
       \/ n # 1 /\ jobs[n] = [op |-> "delete", paths |-> gone]
  /\ \E n \in 1..Len(jobs) : jobs[n] = [op |-> "cleanup", keep |-> keep]
  /\ gone # {} => \E n \in 1..Len(jobs) : jobs[n] = [op |-> "delete", paths |-> gone]

LEMMA OpenedJobs ==
  ASSUME NEW keep, NEW gone, NEW jobs,
         jobs = <<[op |-> "cleanup", keep |-> keep]>> \o DeleteJobs(gone)
  PROVE  CleansUpFirst(jobs, keep, gone)
<1> DEFINE first == [op |-> "cleanup", keep |-> keep]
           second == [op |-> "delete", paths |-> gone]

<1>1. CASE gone = {}
  <2>1. jobs = <<first>>
    BY <1>1, TupleFacts, Zenon DEF DeleteJobs
  <2>2. Len(jobs) = 1 /\ jobs[1] = first
    <3> HIDE DEF first
    <3>1. Len(<<first>>) = 1 /\ <<first>>[1] = first
      OBVIOUS
    <3> QED
      BY <2>1, <3>1, Zenon
  <2> QED
    BY <1>1, <2>2 DEF CleansUpFirst
<1>2. CASE gone # {}
  <2>1. jobs = <<first, second>>
    BY <1>2, TupleFacts, Zenon DEF DeleteJobs
  <2>2. Len(jobs) = 2 /\ jobs[1] = first /\ jobs[2] = second
    <3> HIDE DEF first, second
    <3>1. Len(<<first, second>>) = 2 /\ <<first, second>>[1] = first /\ <<first, second>>[2] = second
      BY TupleFacts
    <3> QED
      BY <2>1, <3>1, Zenon
  <2> QED
    BY <2>2 DEF CleansUpFirst
<1> QED
  BY <1>1, <1>2

(* The state in which HttpCache::open leaves the cache: index.bin and the
   files are what the processes before it left. *)
Fresh ==
  /\ saved \in Snapshots \cup {None}
  /\ idx = Opened(saved).idx /\ queue = Opened(saved).queue
  /\ writer = Idle /\ \A t \in Threads : th[t] = Idle
  /\ HasDisk /\ saved # None =>
       \A n \in 1..Len(saved.entries) :
         LET path == <<saved.entries[n].vkey, saved.entries[n].slot.gen>>
         IN  path \in DOMAIN files => files[path].ver = saved.entries[n].slot.ver
  /\ DOMAIN files # {} => HasDisk
  /\ restarts = 0 => saved = None /\ DOMAIN files = {}

LEMMA FreshFiles == Fresh => FilesInvariant
<1> SUFFICES ASSUME Fresh PROVE FilesInvariant
  OBVIOUS
<1>1. /\ idx = Opened(saved).idx /\ queue = Opened(saved).queue
      /\ writer = Idle /\ \A t \in Threads : th[t] = Idle
      /\ DOMAIN files # {} => HasDisk
      /\ restarts = 0 => saved = None /\ DOMAIN files = {}
  BY DEF Fresh
<1>2. /\ \A k \in VKeys : idx.entries[k] # None =>
           HasDisk /\ saved # None /\ OpenedEntry(idx.entries[k], saved.entries, k)
      /\ HasDisk /\ saved # None =>
           \A n \in 1..Len(saved.entries) : saved.entries[n].slot.gen <= idx.nextGen
      /\ ~HasDisk => queue = << >>
      /\ HasDisk => \E keep, gone \in SUBSET Paths :
           /\ queue = <<[op |-> "cleanup", keep |-> keep]>> \o DeleteJobs(gone)
           /\ keep = SlotPaths(idx, VKeys) \cup gone
           /\ SlotPaths(idx, VKeys) \cap gone = {}
           /\ \A path \in keep : path[2] <= idx.nextGen
           /\ saved = None => keep = {}
  BY OpenedSettled DEF Fresh
<1>3. ~Writing /\ writer.at # "deleting" /\ \A t \in Threads : Owed(t) = {} /\ th[t].at = "idle"
  BY <1>1 DEF Writing, Idle, Owed, Debts
<1>4. JobsLeft = Queued
  BY <1>3 DEF JobsLeft
<1> DEFINE Leaves(keep, gone) ==
             /\ \A n \in 1..Len(queue) :
                  \/ HasDisk /\ n = 1 /\ queue[n] = [op |-> "cleanup", keep |-> keep]
                  \/ n # 1 /\ queue[n] = [op |-> "delete", paths |-> gone]
             /\ HasDisk => \E n \in 1..Len(queue) : queue[n] = [op |-> "cleanup", keep |-> keep]
             /\ gone # {} => \E n \in 1..Len(queue) : queue[n] = [op |-> "delete", paths |-> gone]
             /\ HasDisk => keep = SlotPaths(idx, VKeys) \cup gone
             /\ SlotPaths(idx, VKeys) \cap gone = {}
             /\ \A path \in gone : path[2] <= idx.nextGen
             /\ HasDisk /\ saved = None => keep = {}
<1>5. PICK keep \in SUBSET Paths, gone \in SUBSET Paths : Leaves(keep, gone)
  <2>1. CASE HasDisk
    <3>1. PICK keep \in SUBSET Paths, gone \in SUBSET Paths :
           /\ queue = <<[op |-> "cleanup", keep |-> keep]>> \o DeleteJobs(gone)
           /\ keep = SlotPaths(idx, VKeys) \cup gone
           /\ SlotPaths(idx, VKeys) \cap gone = {}
           /\ \A path \in keep : path[2] <= idx.nextGen
           /\ saved = None => keep = {}
      BY <1>2, <2>1
    <3>2. CleansUpFirst(queue, keep, gone)
      <4>1. queue = <<[op |-> "cleanup", keep |-> keep]>> \o DeleteJobs(gone)
        BY <3>1
      <4> QED
        BY <4>1, OpenedJobs, Zenon
    <3>3. \A path \in gone : path[2] <= idx.nextGen
      BY <3>1
    <3>4. Leaves(keep, gone)
      BY <2>1, <3>1, <3>2, <3>3 DEF CleansUpFirst
    <3> HIDE DEF Leaves
    <3> QED
      BY <3>4
  <2>2. CASE ~HasDisk
    <3>1. Len(queue) = 0
      BY <1>2, <2>2
    <3>2. Leaves({}, {})
      BY <2>2, <3>1
    <3> HIDE DEF Leaves
    <3> QED
      BY <3>2
  <2> QED
    BY <2>1, <2>2
<1>6. /\ \A job \in Queued : \/ HasDisk /\ job = [op |-> "cleanup", keep |-> keep]
                             \/ job = [op |-> "delete", paths |-> gone]
      /\ HasDisk => [op |-> "cleanup", keep |-> keep] \in Queued
      /\ gone # {} => [op |-> "delete", paths |-> gone] \in Queued
  BY <1>5 DEF Queued
<1>7. /\ \A job \in Queued : /\ ~IsWrite(job) /\ job.op # "index"
                             /\ job.op = "delete" => job.paths = gone
                             /\ job.op = "cleanup" => job.keep = keep
      /\ HasDisk => \E job \in Queued : job.op = "cleanup" /\ job.keep = keep
      /\ gone # {} => \E job \in Queued : job.op = "delete" /\ job.paths = gone
  BY <1>6 DEF IsWrite
<1>8. OutstandingWrites = {}
  BY <1>3, <1>4, <1>7 DEF OutstandingWrites
<1>9. ASSUME HasDisk, saved # None, NEW n \in 1..Len(saved.entries)
      PROVE  Names(saved.entries[n].vkey, saved.entries[n].slot)
  BY <1>2, <1>8, <1>9 DEF Names, Fresh
<1>10. ReferencesName
  <2>1. ASSUME NEW k \in VKeys, OnDisk(idx, k) PROVE Names(k, idx.entries[k].disk)
    <3>1. HasDisk /\ saved # None /\ OpenedEntry(idx.entries[k], saved.entries, k)
      BY <1>2, <2>1 DEF OnDisk
    <3>2. PICK n \in 1..Len(saved.entries) :
            saved.entries[n].vkey = k /\ idx.entries[k].disk = saved.entries[n].slot
      BY <3>1 DEF OpenedEntry
    <3> QED
      BY <1>9, <3>1, <3>2
  <2>2. saved # None => RecordsName(saved)
    BY <1>9 DEF RecordsName
  <2> QED
    BY <1>3, <1>4, <1>7, <2>1, <2>2 DEF ReferencesName
<1>11. GenerationsDistinct
  <2>1. \A n \in 1..Len(queue) : ~IsWrite(queue[n])
    BY <1>7 DEF Queued
  <2> QED
    BY <1>3, <2>1 DEF GenerationsDistinct
<1>12. DeletesSpent
  BY <1>3, <1>4, <1>5, <1>7, <1>8 DEF DeletesSpent
<1>13. CleanupFirst
  <2>1. ASSUME NEW n \in 1..Len(queue), queue[n].op = "cleanup"
        PROVE  HasDisk /\ n = 1 /\ queue[n].keep = keep
    BY <1>5, <2>1
  <2> QED
    BY <1>1, <1>3, <1>5, <2>1 DEF CleanupFirst
<1>14. SlotsReadable
  <2>1. saved = None => \A k \in VKeys : ~OnDisk(idx, k)
    BY <1>2 DEF OnDisk
  <2> QED
    BY <1>1, <2>1, SlotPathsMember DEF SlotsReadable
<1>15. FilesKnown
  <2>1. ASSUME NEW path \in DOMAIN files, path \notin SlotPaths(idx, VKeys), path \in keep
        PROVE  path \in Leaving
    BY <1>1, <1>4, <1>5, <1>7, <2>1, LeavingMember
  <2> QED
    BY <1>1, <1>7, <2>1 DEF FilesKnown
<1>16. OneDebt /\ WritesKnown /\ WrittenThere
  BY <1>3, <1>8 DEF OneDebt, WritesKnown, WrittenThere
<1> QED
  BY <1>10, <1>11, <1>12, <1>13, <1>14, <1>15, <1>16 DEF FilesInvariant

LEMMA FilesInvariantHolds == Init => FilesInvariant
<1> SUFFICES ASSUME Init PROVE Fresh
  BY FreshFiles
<1> QED
  BY DEF Init, Fresh

LEMMA RestartKeepsFiles == IndexInvariant /\ FilesInvariant /\ Restart => FilesInvariant'
<1>1. Fresh' => FilesInvariant'
  BY FreshFiles, PTL
<1> SUFFICES ASSUME IndexInvariant, FilesInvariant, Restart PROVE Fresh'
  BY <1>1
<1>2. /\ saved' = saved /\ files' = files /\ saved \in Snapshots \cup {None}
      /\ idx' = Opened(saved').idx /\ queue' = Opened(saved').queue
      /\ writer' = Idle /\ th' = [t \in Threads |-> Idle]
      /\ restarts' = restarts + 1 /\ restarts \in Nat
  BY CacheAssumption DEF Restart, IndexInvariant, TypeOK
<1>3. HasDisk /\ saved # None =>
        \A n \in 1..Len(saved.entries) :
          LET path == <<saved.entries[n].vkey, saved.entries[n].slot.gen>>
          IN  path \in DOMAIN files => files[path].ver = saved.entries[n].slot.ver
  BY DEF FilesInvariant, ReferencesName, RecordsName, Names
<1>4. restarts' # 0
  BY <1>2
<1>5. DOMAIN files # {} => HasDisk
  BY DEF FilesInvariant, FilesKnown
<1> QED
  BY <1>2, <1>3, <1>4, <1>5 DEF Fresh

LEMMA FilesInvariantPreserved ==
  IndexInvariant /\ IndexInvariant' /\ FilesInvariant /\ [Next]_vars => FilesInvariant'
<1> SUFFICES ASSUME IndexInvariant, IndexInvariant', FilesInvariant, [Next]_vars
             PROVE  FilesInvariant'
  OBVIOUS
<1>1. ASSUME NEW t \in Tasks, Task(t) PROVE FilesInvariant'
  <2>1. t \in Threads
    BY DEF Threads
  <2> QED
    BY <1>1, <2>1, LookupKeepsFiles, ReadSucceedsKeepsFiles, ReadFailsKeepsFiles, StoreKeepsFiles,
       InvalidateKeepsFiles, EnqueueKeepsFiles, ReturnKeepsFiles DEF Task
<1>2. ASSUME NEW t \in Savers, Saver(t) PROVE FilesInvariant'
  <2>1. t \in Threads
    BY DEF Threads
  <2> QED
    BY <1>2, <2>1, SaveIndexKeepsFiles, EnqueueKeepsFiles, ReturnKeepsFiles DEF Saver
<1>3. ASSUME NEW t \in Closers, Closer(t) PROVE FilesInvariant'
  BY <1>3, PersistBeginKeepsFiles, PersistSnapshotKeepsFiles, PersistSaveKeepsFiles,
     FlushTimeoutKeepsFiles DEF Closer
<1>4. ASSUME Writer PROVE FilesInvariant'
  BY <1>4, WriteEntryKeepsFiles, WriteDoneKeepsFiles, DeleteJobKeepsFiles, CleanupJobKeepsFiles,
     DeleteFileKeepsFiles, DeletesDoneKeepsFiles, SaveIndexJobKeepsFiles, FlushJobKeepsFiles DEF Writer
<1>5. ASSUME Restart PROVE FilesInvariant'
  BY <1>5, RestartKeepsFiles
<1>6. ASSUME UNCHANGED vars PROVE FilesInvariant'
  <2>1. UNCHANGED <<idx, files, saved, queue, writer, th, restarts>>
    BY <1>6 DEF vars
  <2>2. Queued' = Queued /\ Writing' = Writing /\ \A t : Owed(t)' = Owed(t)
    BY <2>1 DEF Queued, Writing, Owed
  <2>3. JobsLeft' = JobsLeft
    BY <2>2 DEF JobsLeft
  <2>4. OutstandingWrites' = OutstandingWrites /\ Leaving' = Leaving
    BY <2>1, <2>2, <2>3 DEF OutstandingWrites, Leaving
  <2>5. /\ OneDebt /\ GenerationsDistinct /\ WritesKnown /\ ReferencesName /\ WrittenThere
        /\ DeletesSpent /\ CleanupFirst /\ SlotsReadable /\ FilesKnown
    BY DEF FilesInvariant
  <2>6. OneDebt' /\ GenerationsDistinct' /\ WritesKnown' /\ WrittenThere'
    BY <2>1, <2>2, <2>3, <2>4, <2>5 DEF OneDebt, GenerationsDistinct, WritesKnown, WrittenThere
  <2>7. ReferencesName'
    BY <2>1, <2>2, <2>3, <2>4, <2>5 DEF ReferencesName, RecordsName, Names, OnDisk
  <2>8. DeletesSpent' /\ CleanupFirst' /\ SlotsReadable' /\ FilesKnown'
    BY <2>1, <2>2, <2>3, <2>4, <2>5 DEF DeletesSpent, CleanupFirst, SlotsReadable, FilesKnown
  <2> QED
    BY <2>6, <2>7, <2>8 DEF FilesInvariant
<1> QED
  BY <1>1, <1>2, <1>3, <1>4, <1>5, <1>6 DEF Next

-----------------------------------------------------------------------------
(* Between two steps every job on its way to the writer thread, every saved
   index and every slot agree on the files they are about: the invariant
   the three theorems below rest on. *)
THEOREM FilesAlwaysAccounted == Spec => []FilesInvariant
<1>1. Init => IndexInvariant /\ FilesInvariant
  BY IndexInvariantHolds, FilesInvariantHolds
<1>2. IndexInvariant /\ FilesInvariant /\ [Next]_vars => IndexInvariant' /\ FilesInvariant'
  BY IndexInvariantPreserved, FilesInvariantPreserved
<1> QED
  BY <1>1, <1>2, PTL DEF Spec

(* The file a disk slot refers to holds the version the slot was made for:
   the generation in its name is new whenever store() runs, and the writes,
   deletes and saved indexes under way are about other files (disk.rs: "a
   slow write can never clobber a newer one"). *)
THEOREM CacheFilesNamed == Spec => []SlotsNameTheirFile
<1>1. FilesInvariant => SlotsNameTheirFile
  BY DEF FilesInvariant, ReferencesName, Names, SlotsNameTheirFile
<1> QED
  BY <1>1, FilesAlwaysAccounted, PTL

(* Until the process restarts no slot has lost its file: on_write_done makes
   the slot after the rename, and every delete is queued or run after the
   slot is gone. *)
THEOREM CacheFilesReadable == Spec => []SlotsReadable
<1>1. FilesInvariant => SlotsReadable
  BY DEF FilesInvariant
<1> QED
  BY <1>1, FilesAlwaysAccounted, PTL

(* Whenever the writer thread has caught up, every file in the cache
   directory is a slot's, whatever was superseded, evicted, invalidated,
   failed or left behind by a process that was killed, if deletes succeed. *)
THEOREM CacheFilesOwned == Spec => []NoOrphanFiles
<1>1. FilesInvariant => NoOrphanFiles
  <2> SUFFICES ASSUME FilesInvariant, Quiet, ~DeletesFail, NEW path \in DOMAIN files
               PROVE  path \in SlotPaths(idx, VKeys)
    BY DEF NoOrphanFiles
  <2>1. queue = << >> /\ writer.at = "idle" /\ \A t \in Threads : th[t].at = "idle"
    BY DEF Quiet, Idle
  <2>2. Queued = {} /\ \A t \in Threads : Owed(t) = {}
    BY <2>1 DEF Queued, Owed, Debts
  <2>3. JobsLeft = {}
    BY <2>2 DEF JobsLeft
  <2>4. path \notin Leaving
    BY <2>1, <2>3, LeavingMember DEF Writing
  <2> QED
    BY <2>2, <2>4 DEF FilesInvariant, FilesKnown
<1> QED
  BY <1>1, FilesAlwaysAccounted, PTL
=============================================================================
