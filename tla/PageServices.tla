----------------------------- MODULE PageServices -----------------------------
(***************************************************************************)
(* Services a window offers its scripts, of crates/script/js/40_webapi.js: *)
(* Web Locks, the observers of the performance timeline, and the keys of   *)
(* SubtleCrypto.  Each has its variables, its initial states and its steps.*)
(***************************************************************************)
EXTENDS Integers, Sequences, FiniteSets, Functions, FiniteSetTheorems, SequenceTheorems, WellFoundedInduction, TLAPS

-----------------------------------------------------------------------------
(***************************************************************************)
(* Web Locks: one name of lockState.  Requests are numbered in the order   *)
(* of the calls.  A callback and the settling of its promise are           *)
(* microtasks; a promise the page keeps is settled when the page likes.    *)
(***************************************************************************)

CONSTANT MaxLockCalls

VARIABLES
  lockCount,   \* requests made
  lockMode,    \* of each: "shared" or "exclusive"
  lockStage,   \* of each: where it has got
  lockHeld,    \* st.held
  lockQueue,   \* st.queue
  lockTasks    \* microtasks, by the request each is of

lockVars == <<lockCount, lockMode, lockStage, lockHeld, lockQueue, lockTasks>>

LockIds == 1 .. MaxLockCalls
LockAssumption == MaxLockCalls \in Nat
LockModes == {"shared", "exclusive"}
Holding == {"granted", "running", "settling"}
LockStages == {"none", "refused", "offered", "queued", "done"} \union Holding

(* A lock goes with what is held.                                          *)
Compatible(mode, r, held) == held = {} \/ (mode[r] = "shared" /\ \A h \in held : mode[h] = "shared")
(* processLocks(): a request that does not go with what is held, and with  *)
(* what is granted before it, blocks itself and all behind it.             *)
Ahead(queue, i) == {queue[j] : j \in 1 .. i - 1}
\* mutant of Blocked
BlockedAlone(mode, held, queue, i) == i > Len(queue) \/ ~Compatible(mode, queue[i], held)
Blocked(mode, held, queue, i) == i > Len(queue) \/ ~Compatible(mode, queue[i], held \union Ahead(queue, i))
GrantedLength(mode, held, queue) ==
  CHOOSE n \in 0 .. Len(queue) : Blocked(mode, held, queue, n + 1) /\ \A i \in 1 .. n : ~Blocked(mode, held, queue, i)
\* mutant of ProcessLocks
ProcessLocksFirst(mode, held, queue, stage, tasks) ==
  LET n == GrantedLength(mode, held, queue) IN
  /\ lockHeld' = held \union Ahead(queue, n + 1)
  /\ lockQueue' = SubSeq(queue, n + 1, Len(queue))
  /\ lockStage' = [r \in LockIds |-> IF r \in Ahead(queue, n + 1) THEN "granted" ELSE stage[r]]
  /\ lockTasks' = tasks \o SubSeq(queue, 1, IF n > 1 THEN 1 ELSE n)
ProcessLocks(mode, held, queue, stage, tasks) ==
  LET n == GrantedLength(mode, held, queue) IN
  /\ lockHeld' = held \union Ahead(queue, n + 1)
  /\ lockQueue' = SubSeq(queue, n + 1, Len(queue))
  /\ lockStage' = [r \in LockIds |-> IF r \in Ahead(queue, n + 1) THEN "granted" ELSE stage[r]]
  /\ lockTasks' = tasks \o SubSeq(queue, 1, n)

LockInit ==
  /\ lockCount = 0 /\ lockMode = [r \in LockIds |-> "exclusive"] /\ lockStage = [r \in LockIds |-> "none"]
  /\ lockHeld = {} /\ lockQueue = << >> /\ lockTasks = << >>

NewLock == lockCount + 1
NewRequest(mode) == lockCount < MaxLockCalls /\ lockCount' = NewLock /\ lockMode' = [lockMode EXCEPT ![NewLock] = mode]
Stage(s) == [lockStage EXCEPT ![NewLock] = s]
Grantable(mode) == lockQueue = << >> /\ (lockHeld = {} \/ (mode = "shared" /\ \A h \in lockHeld : lockMode[h] = "shared"))
(* LockManager.request(): what is wanted only if it can be had at once is  *)
(* offered null; a signal that is aborted already comes after that.        *)
RequestUnavailable(mode) ==
  /\ ~Grantable(mode) /\ NewRequest(mode)
  /\ lockStage' = Stage("offered") /\ lockTasks' = Append(lockTasks, NewLock)
  /\ UNCHANGED <<lockHeld, lockQueue>>
RequestAborted(mode, ifAvailable) ==
  /\ ifAvailable => Grantable(mode)
  /\ NewRequest(mode) /\ lockStage' = Stage("refused") /\ UNCHANGED <<lockHeld, lockQueue, lockTasks>>
Request(mode, ifAvailable) ==
  /\ ifAvailable => Grantable(mode)
  /\ NewRequest(mode)
  /\ ProcessLocks(lockMode', lockHeld, Append(lockQueue, NewLock), Stage("queued"), lockTasks)

(* A microtask: the callback is called, and returns or throws, or keeps a  *)
(* promise; or the promise has settled, and the lock is released.          *)
Offered(r) == lockStage[r] = "offered" /\ lockStage' = [lockStage EXCEPT ![r] = "done"] /\ lockTasks' = Tail(lockTasks) /\ UNCHANGED <<lockHeld, lockQueue>>
Callback(r) ==
  /\ lockStage[r] = "granted" /\ UNCHANGED <<lockHeld, lockQueue>>
  /\ \/ lockStage' = [lockStage EXCEPT ![r] = "running"] /\ lockTasks' = Tail(lockTasks)
     \/ lockStage' = [lockStage EXCEPT ![r] = "settling"] /\ lockTasks' = Append(Tail(lockTasks), r)
\* mutant of Release
ReleaseOnly(r) ==
  /\ lockStage[r] = "settling"
  /\ lockHeld' = lockHeld \ {r} /\ lockStage' = [lockStage EXCEPT ![r] = "done"] /\ lockTasks' = Tail(lockTasks) /\ UNCHANGED lockQueue
Release(r) ==
  /\ lockStage[r] = "settling"
  /\ ProcessLocks(lockMode, lockHeld \ {r}, lockQueue, [lockStage EXCEPT ![r] = "done"], Tail(lockTasks))
LockMicrotask ==
  /\ lockTasks # << >>
  /\ LET r == Head(lockTasks) IN Offered(r) \/ Callback(r) \/ Release(r)
  /\ UNCHANGED <<lockCount, lockMode>>
PageSettles(r) ==
  /\ lockStage[r] = "running"
  /\ lockStage' = [lockStage EXCEPT ![r] = "settling"] /\ lockTasks' = Append(lockTasks, r)
  /\ UNCHANGED <<lockCount, lockMode, lockHeld, lockQueue>>

LockNext ==
  \/ \E mode \in LockModes : RequestUnavailable(mode) \/ \E a \in BOOLEAN : RequestAborted(mode, a) \/ Request(mode, a)
  \/ LockMicrotask
  \/ \E r \in LockIds : PageSettles(r)
LockSpec == LockInit /\ [][LockNext]_lockVars

LockTypeOK ==
  /\ lockCount \in 0 .. MaxLockCalls
  /\ lockMode \in [LockIds -> LockModes] /\ lockStage \in [LockIds -> LockStages]
  /\ lockHeld \subseteq LockIds /\ lockQueue \in Seq(LockIds) /\ lockTasks \in Seq(LockIds)

(* Who holds a lock that is not shared holds it alone, from the moment it  *)
(* is granted until its callback's promise has settled.                    *)
LockExclusion ==
  /\ lockHeld = {r \in LockIds : lockStage[r] \in Holding}
  /\ \A g, h \in lockHeld : g # h => lockMode[g] = "shared" /\ lockMode[h] = "shared"

(* Locks are granted in the order they were asked for, whatever was        *)
(* released in between; and who waits, waits for one that holds.           *)
LockOrder ==
  /\ \A i, j \in 1 .. Len(lockQueue) : i < j => lockQueue[i] < lockQueue[j]
  /\ \A r \in LockIds, i \in 1 .. Len(lockQueue) : lockStage[r] \in Holding => r < lockQueue[i]
  /\ lockQueue # << >> => ~Compatible(lockMode, lockQueue[1], lockHeld)

(* Every callback gets its turn: in the end all that is left to wait for   *)
(* is a promise of the page's.                                             *)
LocksSettle == lockTasks = << >> /\ \A r \in LockIds : lockStage[r] \in {"none", "refused", "running", "done"} \/ \E h \in LockIds : lockStage[h] = "running"

(* What a name's requests are in, whatever is done with it: the part of the*)
(* invariant that granting what can be granted keeps.                      *)
InOrder(mode, held, queue, stage) ==
  /\ held = {r \in LockIds : stage[r] \in Holding}
  /\ \A g, h \in held : g # h => mode[g] = "shared" /\ mode[h] = "shared"
  /\ \A i, j \in 1 .. Len(queue) : i < j => queue[i] < queue[j]
  /\ \A r \in held, i \in 1 .. Len(queue) : r < queue[i]
  /\ \A i \in 1 .. Len(queue) : stage[queue[i]] = "queued"
Proper(mode, held, queue, stage, tasks) ==
  /\ mode \in [LockIds -> LockModes] /\ held \in SUBSET LockIds /\ queue \in Seq(LockIds)
  /\ stage \in [LockIds -> LockStages] /\ tasks \in Seq(LockIds)
  /\ InOrder(mode, held, queue, stage)
OnlyQueuedMove(stage, stage2) == \A r \in LockIds : stage2[r] # stage[r] => stage[r] = "queued"
Grants(mode, held, queue, stage, tasks, held2, queue2, stage2, tasks2) ==
  LET n == GrantedLength(mode, held, queue) IN
  /\ held2 = held \union Ahead(queue, n + 1) /\ queue2 = SubSeq(queue, n + 1, Len(queue))
  /\ stage2 = [r \in LockIds |-> IF r \in Ahead(queue, n + 1) THEN "granted" ELSE stage[r]]
  /\ tasks2 = tasks \o SubSeq(queue, 1, n)
HeadWaits(mode, held, queue) == queue # << >> => ~Compatible(mode, queue[1], held)
LockInvariant ==
  /\ LockTypeOK
  /\ InOrder(lockMode, lockHeld, lockQueue, lockStage)
  /\ HeadWaits(lockMode, lockHeld, lockQueue)
  /\ \A r \in LockIds : r > lockCount => lockStage[r] = "none"

(* Every non-empty set of natural numbers has a least element.             *)
LEMMA LeastNumber ==
  ASSUME NEW N \in SUBSET Nat, N # {}
  PROVE  \E least \in N : \A n \in N : least <= n
<1> DEFINE Intervals == {0 .. n : n \in N}
<1>1. IsWellFoundedOn(StrictSubsetOrdering(Nat), FiniteSubsetsOf(Nat))
  BY FS_StrictSubsetOrderingWellFounded
<1>2. \A n \in N : 0 .. n \in SUBSET Nat /\ IsFiniteSet(0 .. n)
  BY FS_Interval
<1>3. Intervals \subseteq FiniteSubsetsOf(Nat) /\ Intervals # {}
  BY <1>2 DEF FiniteSubsetsOf
<1>4. PICK I \in Intervals : \A J \in Intervals : <<J, I>> \notin StrictSubsetOrdering(Nat)
  BY <1>1, <1>3, WFMin
<1>5. PICK least \in N : I = 0 .. least
  OBVIOUS
<1>6. ASSUME NEW n \in N, n < least
      PROVE  FALSE
  <2>1. 0 .. n \in SUBSET Nat /\ 0 .. least \in SUBSET Nat /\ 0 .. n \subseteq 0 .. least
    BY <1>5, <1>6
  <2>2. least \in 0 .. least /\ least \notin 0 .. n
    BY <1>5, <1>6
  <2>3. <<0 .. n, I>> \in StrictSubsetOrdering(Nat)
    BY <1>5, <2>1, <2>2 DEF StrictSubsetOrdering
  <2> QED
    BY <1>4, <1>6, <2>3
<1> QED
  BY <1>5, <1>6

(* The loop of processLocks() stops, at the first request that is blocked. *)
LEMMA GrantedUpToBlocked ==
  ASSUME NEW mode, NEW held, NEW queue \in Seq(LockIds)
  PROVE  /\ GrantedLength(mode, held, queue) \in 0 .. Len(queue)
         /\ Blocked(mode, held, queue, GrantedLength(mode, held, queue) + 1)
         /\ \A i \in 1 .. GrantedLength(mode, held, queue) : ~Blocked(mode, held, queue, i)
<1> DEFINE N == {n \in Nat : Blocked(mode, held, queue, n + 1)}
<1>1. Len(queue) \in N
  BY DEF Blocked
<1>2. PICK n \in N : \A m \in N : n <= m
  BY <1>1, LeastNumber
<1>3. n \in 0 .. Len(queue) /\ Blocked(mode, held, queue, n + 1)
  BY <1>1, <1>2
<1>4. ASSUME NEW i \in 1 .. n
      PROVE  ~Blocked(mode, held, queue, i)
  <2>1. i - 1 \in Nat /\ (i - 1) + 1 = i /\ ~(n <= i - 1)
    BY <1>3
  <2> QED
    BY <1>2, <2>1
<1> QED
  BY <1>3, <1>4 DEF GrantedLength

(* processLocks() grants in order, and only what goes with what is held.   *)
LEMMA GrantingKeepsOrder ==
  ASSUME LockAssumption, NEW mode, NEW held, NEW queue, NEW stage, NEW tasks, NEW held2, NEW queue2, NEW stage2, NEW tasks2,
         Proper(mode, held, queue, stage, tasks), Grants(mode, held, queue, stage, tasks, held2, queue2, stage2, tasks2)
  PROVE  Proper(mode, held2, queue2, stage2, tasks2) /\ HeadWaits(mode, held2, queue2) /\ OnlyQueuedMove(stage, stage2)
<1>0. /\ mode \in [LockIds -> LockModes] /\ held \in SUBSET LockIds /\ queue \in Seq(LockIds)
      /\ stage \in [LockIds -> LockStages] /\ tasks \in Seq(LockIds) /\ InOrder(mode, held, queue, stage)
  BY DEF Proper
<1> DEFINE n == GrantedLength(mode, held, queue)
           granted == Ahead(queue, n + 1)
<1>1. n \in 0 .. Len(queue) /\ Blocked(mode, held, queue, n + 1) /\ \A i \in 1 .. n : ~Blocked(mode, held, queue, i)
  BY <1>0, GrantedUpToBlocked
<1>2. /\ held2 = held \union granted
      /\ queue2 = SubSeq(queue, n + 1, Len(queue))
      /\ stage2 = [r \in LockIds |-> IF r \in granted THEN "granted" ELSE stage[r]]
      /\ tasks2 = tasks \o SubSeq(queue, 1, n)
  BY DEF Grants
<1> HIDE DEF n
<1>3. \A r : r \in granted <=> \E j \in 1 .. n : r = queue[j]
  BY <1>0, <1>1 DEF Ahead
<1>4. \A j \in 1 .. Len(queue) : queue[j] \in LockIds /\ queue[j] \in Int
  <2>1. \A j \in 1 .. Len(queue) : queue[j] \in LockIds
    BY <1>0
  <2>2. \A r \in LockIds : r \in Int
    BY DEF LockAssumption, LockIds
  <2> QED
    BY <1>0, <2>1, <2>2
<1>5. granted \subseteq LockIds
  BY <1>0, <1>1, <1>3, <1>4
<1>6. queue2 \in Seq(LockIds) /\ Len(queue2) = Len(queue) - n /\ \A i \in 1 .. Len(queue) - n : queue2[i] = queue[n + i]
  <2>1. n + 1 \in 1 .. Len(queue) + 1 /\ Len(queue) \in n .. Len(queue)
    BY <1>0, <1>1
  <2> QED
    BY <1>0, <1>1, <1>2, <2>1, SubSeqProperties
<1>7. tasks2 \in Seq(LockIds)
  <2>1. SubSeq(queue, 1, n) \in Seq(LockIds)
    BY <1>0, <1>1, SubSeqProperties
  <2> QED
    BY <1>0, <1>2, <2>1
<1>8. stage2 \in [LockIds -> LockStages] /\ held2 \in SUBSET LockIds
  BY <1>0, <1>2, <1>5 DEF LockStages, Holding
<1>9. held2 = {r \in LockIds : stage2[r] \in Holding}
  BY <1>0, <1>2, <1>5 DEF InOrder, Holding
<1>10. ASSUME NEW g \in held2, NEW j \in 1 .. n, g \in held \/ \E k \in 1 .. j - 1 : g = queue[k]
       PROVE  mode[g] = "shared" /\ mode[queue[j]] = "shared"
  <2>1. ~Blocked(mode, held, queue, j)
    BY <1>0, <1>1
  <2>2. Compatible(mode, queue[j], held \union Ahead(queue, j))
    BY <1>0, <2>1 DEF Blocked
  <2>3. g \in held \union Ahead(queue, j)
    BY <1>0, <1>10 DEF Ahead
  <2> QED
    BY <1>0, <2>2, <2>3 DEF Compatible
<1>11. ASSUME NEW g \in held2, NEW h \in held2, g # h
       PROVE  mode[g] = "shared" /\ mode[h] = "shared"
  <2>1. (g \in held \/ \E j \in 1 .. n : g = queue[j]) /\ (h \in held \/ \E j \in 1 .. n : h = queue[j])
    BY <1>0, <1>2, <1>3
  <2>2. CASE g \in held /\ h \in held
    BY <1>0, <1>11, <2>2 DEF InOrder
  <2>3. CASE g \in held /\ \E j \in 1 .. n : h = queue[j]
    BY <1>0, <1>10, <2>3
  <2>4. CASE h \in held /\ \E j \in 1 .. n : g = queue[j]
    BY <1>0, <1>10, <2>4
  <2>5. CASE (\E j \in 1 .. n : g = queue[j]) /\ \E j \in 1 .. n : h = queue[j]
    <3>1. PICK j \in 1 .. n, k \in 1 .. n : g = queue[j] /\ h = queue[k]
      BY <1>0, <2>5
    <3>2. CASE j < k
      <4>1. j \in 1 .. k - 1
        BY <1>0, <1>1, <3>2
      <4> QED
        BY <1>0, <1>10, <3>1, <4>1
    <3>3. CASE k < j
      <4>1. k \in 1 .. j - 1
        BY <1>0, <1>1, <3>3
      <4> QED
        BY <1>0, <1>10, <3>1, <4>1
    <3> QED
      BY <1>0, <1>1, <1>11, <3>1, <3>2, <3>3
  <2> QED
    BY <1>0, <2>1, <2>2, <2>3, <2>4, <2>5
<1>12. ASSUME NEW r \in held2, NEW i \in 1 .. Len(queue2)
       PROVE  r < queue2[i]
  <2>1. n + i \in 1 .. Len(queue) /\ queue2[i] = queue[n + i]
    BY <1>0, <1>1, <1>6
  <2>2. r \in held \/ \E j \in 1 .. n : r = queue[j]
    BY <1>0, <1>2, <1>3
  <2>3. \A j \in 1 .. n : j \in 1 .. Len(queue) /\ j < n + i
    BY <1>0, <1>1, <1>6
  <2> QED
    BY <1>0, <2>1, <2>2, <2>3 DEF InOrder
<1>13. ASSUME NEW i \in 1 .. Len(queue2)
       PROVE  stage2[queue2[i]] = "queued"
  <2>1. n + i \in 1 .. Len(queue) /\ queue2[i] = queue[n + i] /\ queue[n + i] \in LockIds
    BY <1>0, <1>1, <1>4, <1>6
  <2>2. queue[n + i] \notin granted
    <3>1. \A j \in 1 .. n : queue[j] < queue[n + i] /\ queue[j] \in Int /\ queue[n + i] \in Int
      BY <1>0, <1>1, <1>4, <1>6, <2>1 DEF InOrder
    <3> QED
      BY <1>0, <1>3, <3>1
  <2> QED
    BY <1>0, <1>2, <2>1, <2>2 DEF InOrder
<1>14. \A i, j \in 1 .. Len(queue2) : i < j => queue2[i] < queue2[j]
  <2>1. \A i \in 1 .. Len(queue2) : n + i \in 1 .. Len(queue) /\ queue2[i] = queue[n + i]
    BY <1>0, <1>1, <1>6
  <2>2. \A i, j \in 1 .. Len(queue2) : i < j => n + i < n + j
    BY <1>0, <1>1, <1>6
  <2> QED
    BY <1>0, <2>1, <2>2 DEF InOrder
<1>15. HeadWaits(mode, held2, queue2)
  <2> SUFFICES ASSUME queue2 # << >> PROVE ~Compatible(mode, queue2[1], held2)
    BY DEF HeadWaits
  <2>1. Len(queue2) > 0
    BY <1>0, <1>6
  <2>2. n + 1 <= Len(queue) /\ queue2[1] = queue[n + 1]
    BY <1>0, <1>1, <1>6, <2>1
  <2> QED
    BY <1>0, <1>1, <1>2, <2>2 DEF Blocked
<1>16. \A r \in LockIds : stage2[r] # stage[r] => stage[r] = "queued"
  <2>1. \A r \in granted : stage[r] = "queued"
    BY <1>0, <1>1, <1>3 DEF InOrder
  <2> QED
    BY <1>0, <1>2, <2>1
<1> QED
  BY <1>0, <1>6, <1>7, <1>8, <1>9, <1>11, <1>12, <1>13, <1>14, <1>15, <1>16 DEF Proper, InOrder, OnlyQueuedMove

(* A new request of a name, in the order it is in.                         *)
LEMMA AskedLast ==
  ASSUME LockAssumption, LockInvariant, lockCount < MaxLockCalls, NEW mode \in LockModes, NewRequest(mode)
  PROVE  /\ NewLock \in LockIds /\ lockCount' \in 0 .. MaxLockCalls /\ lockMode' \in [LockIds -> LockModes]
         /\ lockStage[NewLock] = "none" /\ NewLock \notin lockHeld
         /\ \A r \in LockIds : r # NewLock => lockMode'[r] = lockMode[r]
         /\ \A i \in 1 .. Len(lockQueue) : lockQueue[i] \in LockIds /\ lockQueue[i] < NewLock
         /\ \A r \in lockHeld : r < NewLock
<1>1. lockCount \in Nat /\ NewLock \in LockIds /\ NewLock > lockCount /\ lockCount' \in 0 .. MaxLockCalls
  BY DEF LockAssumption, LockInvariant, LockTypeOK, LockIds, NewLock, NewRequest
<1>2. lockMode' = [lockMode EXCEPT ![NewLock] = mode] /\ lockMode \in [LockIds -> LockModes]
  BY DEF NewRequest, LockInvariant, LockTypeOK
<1>3. ASSUME NEW r \in LockIds, lockStage[r] # "none"
      PROVE  r < NewLock
  BY <1>1, <1>3 DEF LockInvariant, LockIds, NewLock
<1>4. \A i \in 1 .. Len(lockQueue) : lockQueue[i] \in LockIds /\ lockStage[lockQueue[i]] = "queued"
  BY DEF LockInvariant, LockTypeOK, InOrder
<1>5. \A r \in lockHeld : r \in LockIds /\ lockStage[r] # "none"
  BY DEF LockInvariant, InOrder, Holding
<1>6. lockStage[NewLock] = "none"
  BY <1>1 DEF LockInvariant
<1> QED
  BY <1>1, <1>2, <1>3, <1>4, <1>5, <1>6

LEMMA LockStep ==
  ASSUME LockAssumption, LockInvariant, [LockNext]_lockVars
  PROVE  LockInvariant'
<1> USE DEF LockInvariant
<1>1. ASSUME NEW mode \in LockModes, NEW s \in {"offered", "refused"}, lockCount < MaxLockCalls, NewRequest(mode),
             lockStage' = Stage(s), lockTasks' \in {lockTasks, Append(lockTasks, NewLock)}, UNCHANGED <<lockHeld, lockQueue>>
      PROVE  LockInvariant'
  <2>1. /\ NewLock \in LockIds /\ lockCount' \in 0 .. MaxLockCalls /\ lockMode' \in [LockIds -> LockModes]
        /\ lockStage[NewLock] = "none" /\ NewLock \notin lockHeld
        /\ \A r \in LockIds : r # NewLock => lockMode'[r] = lockMode[r]
        /\ \A i \in 1 .. Len(lockQueue) : lockQueue[i] \in LockIds /\ lockQueue[i] < NewLock
    BY <1>1, AskedLast
  <2>2. /\ lockStage' \in [LockIds -> LockStages] /\ lockStage'[NewLock] = s
        /\ \A r \in LockIds : r # NewLock => lockStage'[r] = lockStage[r]
    BY <1>1, <2>1 DEF Stage, LockTypeOK, LockStages
  <2>3. LockTypeOK'
    BY <1>1, <2>1, <2>2, SMTT(30) DEF LockTypeOK
  <2>4. lockHeld' = {r \in LockIds : lockStage'[r] \in Holding}
    <3>1. s \notin Holding /\ lockStage[NewLock] \notin Holding
      BY <2>1 DEF Holding
    <3> QED
      BY <1>1, <2>1, <2>2, <3>1 DEF InOrder
  <2>5. \A i \in 1 .. Len(lockQueue) : lockQueue[i] \in LockIds /\ lockQueue[i] # NewLock
    BY <2>1 DEF LockAssumption, LockIds
  <2>6. \A i \in 1 .. Len(lockQueue') : lockStage'[lockQueue'[i]] = "queued"
    BY <1>1, <2>2, <2>5 DEF InOrder
  <2>7. \A g \in lockHeld : g \in LockIds /\ lockMode'[g] = lockMode[g]
    BY <2>1 DEF LockTypeOK
  <2>8. InOrder(lockMode', lockHeld', lockQueue', lockStage')
    BY <1>1, <2>4, <2>6, <2>7 DEF InOrder
  <2>9. HeadWaits(lockMode', lockHeld', lockQueue')
    <3>1. lockQueue # << >> => lockMode'[lockQueue[1]] = lockMode[lockQueue[1]]
      <4>1. lockQueue # << >> => 1 \in 1 .. Len(lockQueue)
        BY DEF LockTypeOK
      <4> QED
        BY <2>1, <2>5, <4>1
    <3> QED
      BY <1>1, <2>7, <3>1 DEF HeadWaits, Compatible
  <2>10. \A r \in LockIds : r > lockCount' => lockStage'[r] = "none"
    BY <1>1, <2>1, <2>2 DEF NewRequest, NewLock, LockTypeOK, LockIds
  <2> QED
    BY <2>3, <2>8, <2>9, <2>10
<1>2. ASSUME NEW mode \in LockModes, NEW a \in BOOLEAN, Request(mode, a)
      PROVE  LockInvariant'
  <2> DEFINE queue == Append(lockQueue, NewLock)
             stage == Stage("queued")
  <2>1. lockCount < MaxLockCalls /\ NewRequest(mode) /\ ProcessLocks(lockMode', lockHeld, queue, stage, lockTasks)
    BY <1>2 DEF Request, NewRequest
  <2>2. /\ NewLock \in LockIds /\ lockCount' \in 0 .. MaxLockCalls /\ lockMode' \in [LockIds -> LockModes]
        /\ lockStage[NewLock] = "none" /\ NewLock \notin lockHeld
        /\ \A r \in LockIds : r # NewLock => lockMode'[r] = lockMode[r]
        /\ \A i \in 1 .. Len(lockQueue) : lockQueue[i] \in LockIds /\ lockQueue[i] < NewLock
        /\ \A r \in lockHeld : r < NewLock
    BY <2>1, AskedLast
  <2>3. /\ stage \in [LockIds -> LockStages] /\ stage[NewLock] = "queued"
        /\ \A r \in LockIds : r # NewLock => stage[r] = lockStage[r]
    BY <2>2 DEF Stage, LockTypeOK, LockStages
  <2>4. /\ queue \in Seq(LockIds) /\ Len(queue) = Len(lockQueue) + 1 /\ queue[Len(queue)] = NewLock
        /\ Len(lockQueue) \in Nat /\ \A i \in 1 .. Len(lockQueue) : queue[i] = lockQueue[i]
    BY <2>2 DEF LockTypeOK
  <2> HIDE DEF queue, stage
  <2>5. InOrder(lockMode', lockHeld, queue, stage)
    <3>1. lockHeld = {r \in LockIds : stage[r] \in Holding}
      BY <2>2, <2>3 DEF InOrder, Holding
    <3>2. \A g, h \in lockHeld : g # h => lockMode'[g] = "shared" /\ lockMode'[h] = "shared"
      BY <2>2 DEF InOrder, LockTypeOK
    <3>3. \A i \in 1 .. Len(queue) : i \in 1 .. Len(lockQueue) \/ i = Len(queue)
      BY <2>4
    <3>4. ASSUME NEW i \in 1 .. Len(queue), NEW j \in 1 .. Len(queue), i < j
          PROVE  queue[i] < queue[j]
      <4>1. i \in 1 .. Len(lockQueue)
        BY <2>4, <3>4
      <4> QED
        BY <2>2, <2>4, <3>3, <3>4, <4>1 DEF InOrder
    <3>5. \A r \in lockHeld, i \in 1 .. Len(queue) : r < queue[i]
      BY <2>2, <2>4, <3>3 DEF InOrder
    <3>6. ASSUME NEW i \in 1 .. Len(queue)
          PROVE  stage[queue[i]] = "queued"
      <4>1. CASE i \in 1 .. Len(lockQueue)
        <5>1. queue[i] = lockQueue[i] /\ lockQueue[i] \in LockIds /\ lockQueue[i] # NewLock
          BY <2>2, <2>4, <4>1 DEF LockAssumption, LockIds
        <5> QED
          BY <2>3, <4>1, <5>1 DEF InOrder
      <4> QED
        BY <2>3, <2>4, <3>3, <4>1
    <3> QED
      BY <3>1, <3>2, <3>4, <3>5, <3>6 DEF InOrder
  <2>6. /\ lockHeld' \in SUBSET LockIds /\ lockQueue' \in Seq(LockIds) /\ lockTasks' \in Seq(LockIds)
        /\ lockStage' \in [LockIds -> LockStages]
        /\ InOrder(lockMode', lockHeld', lockQueue', lockStage') /\ HeadWaits(lockMode', lockHeld', lockQueue')
        /\ \A r \in LockIds : lockStage'[r] # stage[r] => stage[r] = "queued"
    <3>1. Proper(lockMode', lockHeld, queue, stage, lockTasks)
      BY <2>2, <2>3, <2>4, <2>5 DEF LockTypeOK, Proper
    <3>2. Grants(lockMode', lockHeld, queue, stage, lockTasks, lockHeld', lockQueue', lockStage', lockTasks')
      BY <2>1 DEF ProcessLocks, Grants
    <3>3. Proper(lockMode', lockHeld', lockQueue', lockStage', lockTasks') /\ HeadWaits(lockMode', lockHeld', lockQueue') /\ OnlyQueuedMove(stage, lockStage')
      BY <3>1, <3>2, GrantingKeepsOrder
    <3> QED
      BY <3>3 DEF Proper, OnlyQueuedMove
  <2>7. LockTypeOK'
    BY <2>2, <2>6 DEF LockTypeOK
  <2>8. \A r \in LockIds : r > lockCount' => lockStage'[r] = "none"
    <3>1. ASSUME NEW r \in LockIds, r > lockCount' PROVE r # NewLock /\ r > lockCount
      BY <2>1, <3>1 DEF NewRequest, NewLock, LockTypeOK, LockIds
    <3>2. ASSUME NEW r \in LockIds, r > lockCount' PROVE stage[r] = "none"
      BY <2>3, <3>1, <3>2
    <3> QED
      BY <2>6, <3>2
  <2> QED
    BY <2>6, <2>7, <2>8
<1>3. ASSUME NEW r \in LockIds, lockStage[r] # "none",
             NEW s \in LockStages, lockStage[r] \in Holding <=> s \in Holding, lockStage[r] # "queued",
             lockStage' = [lockStage EXCEPT ![r] = s], lockTasks' \in Seq(LockIds),
             UNCHANGED <<lockCount, lockMode, lockHeld, lockQueue>>
      PROVE  LockInvariant'
  <2>1. /\ lockStage' \in [LockIds -> LockStages] /\ lockStage'[r] = s
        /\ \A q \in LockIds : q # r => lockStage'[q] = lockStage[q]
    BY <1>3 DEF LockTypeOK
  <2>2. lockHeld' = {q \in LockIds : lockStage'[q] \in Holding}
    BY <1>3, <2>1 DEF InOrder
  <2>3. \A i \in 1 .. Len(lockQueue') : lockStage'[lockQueue'[i]] = "queued"
    <3>1. \A i \in 1 .. Len(lockQueue) : lockQueue[i] \in LockIds /\ lockQueue[i] # r
      BY <1>3 DEF LockTypeOK, InOrder
    <3> QED
      BY <1>3, <2>1, <3>1 DEF InOrder
  <2>4. LockTypeOK' /\ InOrder(lockMode', lockHeld', lockQueue', lockStage')
    BY <1>3, <2>1, <2>2, <2>3 DEF LockTypeOK, InOrder
  <2>5. \A q \in LockIds : q > lockCount' => lockStage'[q] = "none"
    BY <1>3, <2>1
  <2> QED
    BY <1>3, <2>4, <2>5 DEF HeadWaits, Compatible
<1>4. ASSUME NEW r \in LockIds, lockTasks \in Seq(LockIds), lockTasks # << >>, Release(r), UNCHANGED <<lockCount, lockMode>>
      PROVE  LockInvariant'
  <2> DEFINE stage == [lockStage EXCEPT ![r] = "done"]
             held == lockHeld \ {r}
  <2>1. /\ stage \in [LockIds -> LockStages] /\ stage[r] = "done" /\ lockStage[r] = "settling"
        /\ \A q \in LockIds : q # r => stage[q] = lockStage[q]
    BY <1>4 DEF Release, LockTypeOK, LockStages
  <2>2. ProcessLocks(lockMode, held, lockQueue, stage, Tail(lockTasks))
    BY <1>4 DEF Release
  <2> HIDE DEF stage
  <2>3. held \in SUBSET LockIds /\ held = {q \in LockIds : stage[q] \in Holding}
    BY <2>1 DEF InOrder, Holding
  <2>4. \A i \in 1 .. Len(lockQueue) : stage[lockQueue[i]] = "queued"
    <3>1. \A i \in 1 .. Len(lockQueue) : lockQueue[i] \in LockIds /\ lockQueue[i] # r
      BY <2>1 DEF LockTypeOK, InOrder
    <3> QED
      BY <2>1, <3>1 DEF InOrder
  <2>5. InOrder(lockMode, held, lockQueue, stage)
    BY <2>3, <2>4 DEF InOrder
  <2>6. lockMode \in [LockIds -> LockModes] /\ lockQueue \in Seq(LockIds) /\ Tail(lockTasks) \in Seq(LockIds)
    BY <1>4 DEF LockTypeOK
  <2> HIDE DEF held
  <2>7. /\ lockHeld' \in SUBSET LockIds /\ lockQueue' \in Seq(LockIds) /\ lockTasks' \in Seq(LockIds)
        /\ lockStage' \in [LockIds -> LockStages]
        /\ InOrder(lockMode, lockHeld', lockQueue', lockStage') /\ HeadWaits(lockMode, lockHeld', lockQueue')
        /\ \A q \in LockIds : lockStage'[q] # stage[q] => stage[q] = "queued"
    <3>1. Proper(lockMode, held, lockQueue, stage, Tail(lockTasks))
      BY <2>1, <2>3, <2>5, <2>6 DEF Proper
    <3>2. Grants(lockMode, held, lockQueue, stage, Tail(lockTasks), lockHeld', lockQueue', lockStage', lockTasks')
      BY <2>2 DEF ProcessLocks, Grants
    <3>3. Proper(lockMode, lockHeld', lockQueue', lockStage', lockTasks') /\ HeadWaits(lockMode, lockHeld', lockQueue') /\ OnlyQueuedMove(stage, lockStage')
      BY <3>1, <3>2, GrantingKeepsOrder
    <3> QED
      BY <3>3 DEF Proper, OnlyQueuedMove
  <2>8. LockTypeOK'
    BY <1>4, <2>7 DEF LockTypeOK
  <2>9. ASSUME NEW q \in LockIds, q > lockCount'
        PROVE  lockStage'[q] = "none"
    <3>1. lockStage[q] = "none" /\ q # r
      BY <1>4, <2>1, <2>9
    <3> QED
      BY <2>1, <2>7, <3>1
  <2> QED
    BY <1>4, <2>7, <2>8, <2>9
<1>5. CASE LockMicrotask
  <2> DEFINE r == Head(lockTasks)
  <2>1. lockTasks \in Seq(LockIds) /\ lockTasks # << >> /\ r \in LockIds /\ Tail(lockTasks) \in Seq(LockIds)
    BY <1>5 DEF LockMicrotask, LockTypeOK
  <2>2. (Offered(r) \/ Callback(r) \/ Release(r)) /\ UNCHANGED <<lockCount, lockMode>>
    BY <1>5 DEF LockMicrotask
  <2> HIDE DEF r
  <2>3. CASE Offered(r)
    <3>1. lockStage[r] = "offered" /\ "done" \in LockStages /\ "done" \notin Holding /\ "offered" \notin Holding
      BY <2>3 DEF Offered, LockStages, Holding
    <3>2. lockStage' = [lockStage EXCEPT ![r] = "done"] /\ lockTasks' \in Seq(LockIds) /\ UNCHANGED <<lockHeld, lockQueue>>
      BY <2>1, <2>3 DEF Offered
    <3> QED
      BY <1>3, <2>1, <2>2, <3>1, <3>2
  <2>4. CASE Callback(r)
    <3>0. /\ Tail(lockTasks) \in Seq(LockIds) /\ Append(Tail(lockTasks), r) \in Seq(LockIds)
          /\ \/ lockStage' = [lockStage EXCEPT ![r] = "running"] /\ lockTasks' = Tail(lockTasks)
             \/ lockStage' = [lockStage EXCEPT ![r] = "settling"] /\ lockTasks' = Append(Tail(lockTasks), r)
      BY <2>1, <2>4 DEF Callback
    <3>1. PICK s \in {"running", "settling"} : lockStage' = [lockStage EXCEPT ![r] = s] /\ lockTasks' \in Seq(LockIds)
      BY <3>0
    <3>2. lockStage[r] = "granted" /\ s \in LockStages /\ s \in Holding /\ "granted" \in Holding /\ UNCHANGED <<lockHeld, lockQueue>>
      BY <2>4 DEF Callback, LockStages, Holding
    <3> QED
      BY <1>3, <2>1, <2>2, <3>1, <3>2
  <2> QED
    BY <1>4, <2>1, <2>2, <2>3, <2>4
<1>6. ASSUME NEW r \in LockIds, PageSettles(r)
      PROVE  LockInvariant'
  <2>1. lockStage[r] = "running" /\ "settling" \in LockStages /\ "settling" \in Holding /\ "running" \in Holding
    BY <1>6 DEF PageSettles, LockStages, Holding
  <2>2. lockTasks' \in Seq(LockIds) /\ lockStage' = [lockStage EXCEPT ![r] = "settling"] /\ UNCHANGED <<lockCount, lockMode, lockHeld, lockQueue>>
    BY <1>6 DEF PageSettles, LockTypeOK
  <2> QED
    BY <1>3, <2>1, <2>2
<1>7. ASSUME NEW mode \in LockModes, RequestUnavailable(mode) \/ \E a \in BOOLEAN : RequestAborted(mode, a)
      PROVE  LockInvariant'
  <2>1. lockCount < MaxLockCalls /\ NewRequest(mode) /\ UNCHANGED <<lockHeld, lockQueue>>
    BY <1>7 DEF RequestUnavailable, RequestAborted, NewRequest
  <2>2. PICK s \in {"offered", "refused"} : lockStage' = Stage(s) /\ lockTasks' \in {lockTasks, Append(lockTasks, NewLock)}
    BY <1>7 DEF RequestUnavailable, RequestAborted
  <2> QED
    BY <1>1, <2>1, <2>2
<1>8. CASE UNCHANGED lockVars
  BY <1>8 DEF lockVars, LockTypeOK, InOrder, HeadWaits, Compatible
<1> QED
  BY <1>2, <1>5, <1>6, <1>7, <1>8 DEF LockNext

LEMMA LockStart ==
  ASSUME LockAssumption, LockInit
  PROVE  LockInvariant
<1>1. lockQueue = << >> /\ Len(lockQueue) = 0 /\ lockQueue \in Seq(LockIds) /\ lockTasks \in Seq(LockIds) /\ lockHeld = {}
  BY DEF LockInit
<1>2. LockTypeOK
  BY <1>1 DEF LockAssumption, LockInit, LockTypeOK, LockModes, LockStages
<1>3. InOrder(lockMode, lockHeld, lockQueue, lockStage)
  BY <1>1 DEF LockInit, InOrder, Holding
<1> QED
  BY <1>1, <1>2, <1>3 DEF LockInit, LockInvariant, HeadWaits

(* Of any number of requests, shared and exclusive, with callbacks that    *)
(* return at once, throw or keep a promise: a lock that is not shared is   *)
(* held alone.                                                             *)
THEOREM ExclusiveHeldAlone ==
  ASSUME LockAssumption
  PROVE  LockSpec => [](LockTypeOK /\ LockExclusion)
<1>1. LockInvariant => LockTypeOK /\ LockExclusion
  BY DEF LockInvariant, InOrder, LockExclusion
<1>2. LockInit => LockInvariant
  BY LockStart
<1>3. LockInvariant /\ [LockNext]_lockVars => LockInvariant'
  BY LockStep
<1> QED
  BY <1>1, <1>2, <1>3, PTL DEF LockSpec

(* And locks are granted in the order of the requests, to as many as go    *)
(* with what is held: nobody overtakes, and nobody waits for nothing.      *)
THEOREM GrantedInOrder ==
  ASSUME LockAssumption
  PROVE  LockSpec => []LockOrder
<1>1. LockInvariant => LockOrder
  BY DEF LockInvariant, LockTypeOK, InOrder, HeadWaits, LockOrder
<1>2. LockInit => LockInvariant
  BY LockStart
<1>3. LockInvariant /\ [LockNext]_lockVars => LockInvariant'
  BY LockStep
<1> QED
  BY <1>1, <1>2, <1>3, PTL DEF LockSpec
-----------------------------------------------------------------------------
(***************************************************************************)
(* The performance timeline and one PerformanceObserver.  An entry is the  *)
(* number of its making; its time is the number of entries made before it. *)
(***************************************************************************)

CONSTANTS EntryTypes, MaxPerfOps, MaxMade, BufferMaxima

VARIABLES
  perfMade,      \* the type of every entry made
  perfEntries,   \* those kept
  perfTypes,     \* #types of the observer, which is one of perfObservers while it has any
  perfBuffer,    \* #buffer
  perfQueued,    \* #queued, and its task
  perfTold,      \* what the page was given, by the callback or takeRecords()
  perfSince,     \* for each type: how many were made when it began to be observed, -1 while it is not
  perfOnce,      \* the page has asked for buffered entries only when it had no others
  fullFired,     \* bufferFullFired
  fullTasks,     \* tasks that will fire resourcetimingbufferfull
  bufferMaximum, \* resourceBufferSize
  perfOps

perfVars == <<perfMade, perfEntries, perfTypes, perfBuffer, perfQueued, perfTold, perfSince, perfOnce, fullFired, fullTasks, bufferMaximum, perfOps>>
observer == <<perfTypes, perfSince, perfOnce, perfTold>>
resourceBuffer == <<fullFired, fullTasks, bufferMaximum>>

OfType(t) == SelectSeq(perfEntries, LAMBDA e : perfMade[e] = t)
PerfInit ==
  /\ perfMade = << >> /\ perfEntries = << >> /\ perfTypes = {} /\ perfBuffer = << >> /\ perfQueued = FALSE /\ perfTold = << >>
  /\ perfSince = [t \in EntryTypes |-> -1] /\ perfOnce = TRUE
  /\ fullFired = FALSE /\ fullTasks = 0 /\ bufferMaximum \in BufferMaxima /\ perfOps = 0
PerfAct == perfOps < MaxPerfOps /\ perfOps' = perfOps + 1

(* poQueue(): the task is posted with the first entry of the buffer.       *)
PoQueue(types, list) ==
  LET wanted == SelectSeq(list, LAMBDA e : perfMade'[e] \in types)
  IN perfBuffer' = perfBuffer \o wanted /\ perfQueued' = (perfQueued \/ wanted # << >>)
Made(t) == Len(perfMade) < MaxMade /\ perfMade' = Append(perfMade, t) /\ PoQueue(perfTypes, <<Len(perfMade) + 1>>) /\ UNCHANGED observer
Kept == perfEntries' = Append(perfEntries, Len(perfMade) + 1)
Mark == PerfAct /\ Made("mark") /\ Kept /\ UNCHANGED resourceBuffer
(* A call that names a mark that is not there fails, and makes no entry.   *)
Measure == PerfAct /\ Made("measure") /\ Kept /\ UNCHANGED resourceBuffer
(* A resource too many is not kept, but observed all the same.             *)
\* mutant of AddResourceTiming
AddResourceUnseen ==
  /\ PerfAct /\ UNCHANGED bufferMaximum
  /\ IF Len(OfType("resource")) < bufferMaximum THEN Made("resource") /\ Kept /\ UNCHANGED <<fullFired, fullTasks>>
     ELSE /\ Len(perfMade) < MaxMade /\ perfMade' = Append(perfMade, "resource") /\ fullFired' = TRUE
          /\ fullTasks' = fullTasks + (IF fullFired THEN 0 ELSE 1) /\ UNCHANGED <<perfEntries, perfBuffer, perfQueued, observer>>
AddResourceTiming ==
  /\ PerfAct /\ Made("resource") /\ UNCHANGED bufferMaximum
  /\ IF Len(OfType("resource")) < bufferMaximum THEN Kept /\ UNCHANGED <<fullFired, fullTasks>>
     ELSE fullFired' = TRUE /\ fullTasks' = fullTasks + (IF fullFired THEN 0 ELSE 1) /\ UNCHANGED perfEntries

Observe(types, buffered) ==
  LET observed == perfTypes \union types IN
  /\ PerfAct /\ (buffered => Cardinality(types) = 1)
  /\ perfTypes' = observed
  /\ perfSince' = [t \in EntryTypes |-> IF t \in observed /\ perfSince[t] = -1 THEN Len(perfMade) ELSE perfSince[t]]
  /\ perfOnce' = (perfOnce /\ (buffered => perfTold \o perfBuffer = << >>))
  /\ UNCHANGED <<perfMade, perfEntries, perfTold, resourceBuffer>>
  /\ IF buffered THEN PoQueue(observed, SelectSeq(perfEntries, LAMBDA e : perfMade[e] \in types)) ELSE UNCHANGED <<perfBuffer, perfQueued>>
\* mutant of Disconnect
DisconnectKeeping ==
  /\ PerfAct /\ perfTypes' = {} /\ perfSince' = [t \in EntryTypes |-> -1]
  /\ UNCHANGED <<perfMade, perfEntries, perfBuffer, perfQueued, perfTold, perfOnce, resourceBuffer>>
Disconnect ==
  /\ PerfAct /\ perfTypes' = {} /\ perfBuffer' = << >> /\ perfSince' = [t \in EntryTypes |-> -1]
  /\ UNCHANGED <<perfMade, perfEntries, perfQueued, perfTold, perfOnce, resourceBuffer>>
TakeRecords ==
  /\ PerfAct /\ perfTold' = perfTold \o perfBuffer /\ perfBuffer' = << >>
  /\ UNCHANGED <<perfMade, perfEntries, perfTypes, perfQueued, perfSince, perfOnce, resourceBuffer>>
ObserverTask ==
  /\ perfQueued /\ perfQueued' = FALSE
  /\ perfTold' = perfTold \o perfBuffer /\ perfBuffer' = << >>
  /\ UNCHANGED <<perfMade, perfEntries, perfTypes, perfSince, perfOnce, resourceBuffer, perfOps>>

(* removeEntries()                                                         *)
Removed(t) == perfEntries' = SelectSeq(perfEntries, LAMBDA e : perfMade[e] # t) /\ UNCHANGED <<perfMade, perfBuffer, perfQueued, observer>>
ClearMarks == PerfAct /\ Removed("mark") /\ UNCHANGED resourceBuffer
ClearMeasures == PerfAct /\ Removed("measure") /\ UNCHANGED resourceBuffer
ClearResourceTimings == PerfAct /\ Removed("resource") /\ fullFired' = FALSE /\ UNCHANGED <<fullTasks, bufferMaximum>>
SetBufferSize(n) == PerfAct /\ bufferMaximum' = n /\ fullFired' = FALSE /\ UNCHANGED <<perfMade, perfEntries, perfBuffer, perfQueued, observer, fullTasks>>
FullTask == fullTasks > 0 /\ fullTasks' = fullTasks - 1 /\ UNCHANGED <<perfMade, perfEntries, perfBuffer, perfQueued, observer, fullFired, bufferMaximum, perfOps>>

PerfNext ==
  \/ Mark \/ Measure \/ AddResourceTiming \/ Disconnect \/ TakeRecords \/ ObserverTask \/ ClearMarks \/ ClearMeasures \/ ClearResourceTimings \/ FullTask
  \/ \E types \in SUBSET EntryTypes \ {{}}, buffered \in BOOLEAN : Observe(types, buffered)
  \/ \E n \in BufferMaxima : SetBufferSize(n)

(* What is buffered is on its way, and of a type that is observed.         *)
EntriesOnTheirWay == perfBuffer # << >> => perfQueued /\ \A i \in 1 .. Len(perfBuffer) : perfMade[perfBuffer[i]] \in perfTypes
(* An observer hears of every entry made while it observes its type, kept  *)
(* or not, cleared or not, and of each once and in order.                  *)
EntriesObserved ==
  LET heard == perfTold \o perfBuffer IN
  /\ \A e \in 1 .. Len(perfMade) : perfSince[perfMade[e]] # -1 /\ e > perfSince[perfMade[e]] => e \in Range(heard)
  /\ perfOnce => \A i, j \in 1 .. Len(heard) : i < j => heard[i] < heard[j]
(* In the end the observer has been told.                                  *)
EntriesTold == perfBuffer = << >>
-----------------------------------------------------------------------------
(***************************************************************************)
(* SubtleCrypto: the keys of the page, and what it has been given.  Bytes  *)
(* are named by where they come from: [kind, id, bits, of], "of" being what*)
(* they were made from.  A call that is refused changes nothing.           *)
(***************************************************************************)

CONSTANTS KeyData, KeyAlgs, UsageSets, SealAlgs, MaxKeys, MaxSeen

VARIABLES
  cryptoKeys,   \* KEYS, in the order the keys were made
  seenBytes     \* what calls have answered

keyVars == <<cryptoKeys, seenBytes>>

KeyUsages(name) ==
  CASE name \in {"AES-GCM", "AES-CBC", "AES-CTR"} -> {"encrypt", "decrypt", "wrapKey", "unwrapKey"}
    [] name = "AES-KW" -> {"wrapKey", "unwrapKey"}
    [] name = "HMAC" -> {"sign", "verify"}
    [] OTHER -> {"deriveKey", "deriveBits"}
MayCreate(name, usages) == usages # {} /\ usages \subseteq KeyUsages(name)
Ciphers == {"AES-GCM", "AES-CBC", "AES-CTR", "AES-KW"}
Derivers == {"PBKDF2", "HKDF"}
BlockBits(hash) == IF hash \in {"SHA-1", "SHA-256"} THEN 512 ELSE 1024
NoLength == -1

BytesOf(kind, id, bits, of) == [kind |-> kind, id |-> id, bits |-> bits, of |-> of]
(* A JSON Web Key of some bytes; "id" is 1 when it says they are not to be *)
(* extracted.                                                              *)
Jwk(bytes, inextractable) == BytesOf("jwk", inextractable, 0, <<bytes>>)
Inner(b) == IF b.kind = "jwk" THEN b.of[1] ELSE b

(* importSecret(), which every new key comes through: the key, or none.    *)
\* mutant of ImportSecret
ImportSecretAnyLength(format, data, a, extractable, usages) ==
  LET bytes == Inner(data)
      length == IF a.name = "HMAC" /\ a.length # NoLength THEN a.length ELSE bytes.bits
      fits ==
        CASE a.name = "HMAC" -> bytes.bits > 0 /\ length <= bytes.bits
          [] a.name \in Derivers -> ~extractable
          [] OTHER -> bytes.bits \in {128, 256}
  IN {k \in {[alg |-> a.name, hash |-> IF a.name = "HMAC" THEN a.hash ELSE "", length |-> length,
              extractable |-> extractable, usages |-> usages, bytes |-> bytes]} :
        /\ format \in {"raw", "jwk"}
        /\ format = "jwk" => data.kind = "jwk" /\ a.name \notin Derivers /\ ~(data.id = 1 /\ extractable)
        /\ format = "raw" => data.kind # "jwk"
        /\ MayCreate(a.name, usages)
        /\ fits}
ImportSecret(format, data, a, extractable, usages) ==
  LET bytes == Inner(data)
      length == IF a.name = "HMAC" /\ a.length # NoLength THEN a.length ELSE bytes.bits
      fits ==
        CASE a.name = "HMAC" -> bytes.bits > 0 /\ length <= bytes.bits /\ length > bytes.bits - 8
          [] a.name \in Derivers -> ~extractable
          [] OTHER -> bytes.bits \in {128, 256}
  IN {k \in {[alg |-> a.name, hash |-> IF a.name = "HMAC" THEN a.hash ELSE "", length |-> length,
              extractable |-> extractable, usages |-> usages, bytes |-> bytes]} :
        /\ format \in {"raw", "jwk"}
        /\ format = "jwk" => data.kind = "jwk" /\ a.name \notin Derivers /\ ~(data.id = 1 /\ extractable)
        /\ format = "raw" => data.kind # "jwk"
        /\ MayCreate(a.name, usages)
        /\ fits}
NewKey(keys) == Len(cryptoKeys) < MaxKeys /\ \E k \in keys : cryptoKeys' = Append(cryptoKeys, k)
Answer(bytes) == Cardinality(seenBytes \union bytes) <= MaxSeen /\ seenBytes' = seenBytes \union bytes /\ UNCHANGED cryptoKeys

(* exportSecret(): the bytes given out in a format, or none.               *)
\* mutants of Exported
ExportedAlways(format, k) == IF format = "raw" THEN {k.bytes} ELSE IF format = "jwk" THEN {Jwk(k.bytes, 0)} ELSE {}
ExportedOnce(format, k) == IF ~k.extractable THEN {} ELSE IF format = "raw" THEN {k.bytes} ELSE IF format = "jwk" THEN {Jwk(k.bytes, 1)} ELSE {}
Exported(format, k) ==
  IF ~k.extractable THEN {} ELSE IF format = "raw" THEN {k.bytes} ELSE IF format = "jwk" THEN {Jwk(k.bytes, 0)} ELSE {}
Formats == {"raw", "jwk", "pkcs8"}

(* useKey() of cipher(), for its algorithm and usage, and aesParams(); and *)
(* the host, which wraps with AES-KW what comes in blocks of 64 bits.      *)
AesParams(a) ==
  CASE a.name = "AES-GCM" -> a.iv > 0 /\ a.tag \in {32, 64, 96, 104, 112, 120, 128}
    [] a.name \in {"AES-CBC", "AES-CTR"} -> a.iv = 16
    [] OTHER -> TRUE
UseKey(k, name, usage) == k.alg = name /\ usage \in k.usages
MayUse(a, k, usage) == a.name \in Ciphers /\ UseKey(k, a.name, usage) /\ AesParams(a)
InBlocks(a, data) == a.name = "AES-KW" => data.kind = "jwk" \/ (data.bits % 64 = 0 /\ data.bits >= 128)
Sealed(a, k, data) == BytesOf(a.name, 0, 0, <<k.bytes, data>>)
Unsealed(a, k, data) == IF data.kind = a.name /\ data.of[1] = k.bytes THEN {data.of[2]} ELSE {}

DerivedLength(d) == IF d.name = "HMAC" /\ d.length = NoLength THEN BlockBits(d.hash) ELSE d.length
CanDeriveFor(d) == d.name = "HMAC" \/ (d.name \in Ciphers /\ d.length \in {128, 256})
(* deriveBitsImpl()                                                        *)
Derived(k, bits) == {b \in {BytesOf("derived", 0, bits, <<k.bytes>>)} : bits % 8 = 0 /\ (k.alg = "PBKDF2" => bits > 0)}

KeyInit == cryptoKeys = << >> /\ seenBytes = {}
PageData == KeyData \union {b \in seenBytes : b.kind \notin Ciphers}
ImportKey(format, data, a, extractable, usages) ==
  (format = "jwk" => data.kind = "jwk") /\ NewKey(ImportSecret(format, data, a, extractable, usages)) /\ UNCHANGED seenBytes
(* Whole octets of random bytes, of which a key for HMAC uses fewer bits.  *)
GenerateKey(a, extractable, usages) ==
  /\ a.name \notin Derivers /\ CanDeriveFor(a) /\ UNCHANGED seenBytes
  /\ LET bits == DerivedLength(a)
         bytes == BytesOf("random", Len(cryptoKeys), 8 * ((bits + 7) \div 8), << >>)
     IN NewKey(ImportSecret("raw", bytes, IF a.name = "HMAC" THEN [a EXCEPT !.length = bits] ELSE a, extractable, usages))
ExportKey(format, k) == \E b \in Exported(format, k) : Answer({b} \union (IF b.kind = "jwk" THEN {k.bytes} ELSE {}))
Encrypt(a, k, data) == MayUse(a, k, "encrypt") /\ InBlocks(a, data) /\ Answer({Sealed(a, k, data)})
Decrypt(a, k, data) == MayUse(a, k, "decrypt") /\ \E plain \in Unsealed(a, k, data) : Answer({plain} \union (IF plain.kind = "jwk" THEN {plain.of[1]} ELSE {}))
Sign(k, data) == UseKey(k, "HMAC", "sign") /\ Answer({BytesOf(k.hash, 0, 0, <<k.bytes, data>>)})
DeriveBits(name, k, bits) == name \in Derivers /\ UseKey(k, name, "deriveBits") /\ \E b \in Derived(k, bits) : Answer({b})
DeriveKey(name, k, d, extractable, usages) ==
  /\ name \in Derivers /\ UseKey(k, name, "deriveKey") /\ CanDeriveFor(d) /\ UNCHANGED seenBytes
  /\ \E b \in Derived(k, DerivedLength(d)) : NewKey(ImportSecret("raw", b, d, extractable, usages))
WrapKey(format, k, w, a) == \E b \in Exported(format, k) : MayUse(a, w, "wrapKey") /\ InBlocks(a, b) /\ Answer({Sealed(a, w, b)})
UnwrapKey(format, data, w, a, b, extractable, usages) ==
  /\ MayUse(a, w, "unwrapKey") /\ UNCHANGED seenBytes
  /\ \E plain \in Unsealed(a, w, data) : NewKey(ImportSecret(format, plain, b, extractable, usages))

KeyNext ==
  \/ \E a \in KeyAlgs, extractable \in BOOLEAN, usages \in UsageSets :
       \/ GenerateKey(a, extractable, usages)
       \/ \E format \in Formats, data \in PageData : ImportKey(format, data, a, extractable, usages)
       \/ \E k \in Range(cryptoKeys), name \in Derivers : DeriveKey(name, k, a, extractable, usages)
       \/ \E format \in Formats, data \in seenBytes, w \in Range(cryptoKeys), s \in SealAlgs : UnwrapKey(format, data, w, s, a, extractable, usages)
  \/ \E k \in Range(cryptoKeys) :
       \/ \E format \in Formats : ExportKey(format, k) \/ \E w \in Range(cryptoKeys), s \in SealAlgs : WrapKey(format, k, w, s)
       \/ \E data \in KeyData, s \in SealAlgs : Encrypt(s, k, data)
       \/ \E data \in seenBytes, s \in SealAlgs : Decrypt(s, k, data)
       \/ \E data \in KeyData : Sign(k, data)
       \/ \E bits \in {0, 12, 128}, name \in Derivers : DeriveBits(name, k, bits)

(* Whichever of the five ways a key came to be, it can be used for what its*)
(* algorithm does, and its length is one the algorithm has.                *)
KeysProper ==
  \A k \in Range(cryptoKeys) :
    /\ k.usages # {} /\ k.usages \subseteq KeyUsages(k.alg)
    /\ k.alg \in Ciphers => k.length \in {128, 256} /\ k.length = k.bytes.bits
    /\ k.alg = "HMAC" => k.length > 0 /\ k.bytes.bits = 8 * ((k.length + 7) \div 8)
    /\ k.alg \in Derivers => ~k.extractable

(* Random bytes are given out, plain or in a wrapping, only if a key that  *)
(* can be extracted has them; and derived ones also if the key they come   *)
(* from derives bits for the page.                                         *)
Content(b) == IF b.kind \in Ciphers THEN Inner(b.of[2]) ELSE Inner(b)
ExtractableOnly ==
  \A c \in {Content(b) : b \in seenBytes} :
    \/ c.kind \notin {"random", "derived"}
    \/ \E k \in Range(cryptoKeys) : k.extractable /\ k.bytes = c
    \/ c.kind = "derived" /\ \E k \in Range(cryptoKeys) : k.bytes = c.of[1] /\ "deriveBits" \in k.usages

(* What is exported is imported as the same key, in either format: also one*)
(* of a length that is not of whole octets.                                *)
ExportReadsBack ==
  \A k \in Range(cryptoKeys), format \in {"raw", "jwk"} :
    \A b \in Exported(format, k) : ImportSecret(format, b, [name |-> k.alg, hash |-> k.hash, length |-> k.length], k.extractable, k.usages) = {k}
=============================================================================
