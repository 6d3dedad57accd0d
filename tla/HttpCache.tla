------------------------------ MODULE HttpCache ------------------------------
(***************************************************************************)
(* The two-tier HTTP cache of the network process                          *)
(* (crates/netstack/src/cache/mod.rs) with its writer thread               *)
(* (crates/netstack/src/cache/disk.rs).                                    *)
(*                                                                         *)
(* The index is guarded by one mutex, so each critical section is one      *)
(* action.  What the code does after it unlocks (queueing deletes, the     *)
(* write and the saved index for the writer thread, reading a file) is a   *)
(* later step of the same thread, so that other threads run in between.    *)
(*                                                                         *)
(* A response is a version number and a kind (its weight in memory, the    *)
(* length of its body and its size on disk).  Keys are injective: the      *)
(* 128-bit hashes of the code do not collide.  BTreeMap<seq, vkey> is the  *)
(* sequence of its values, least recently used first.                      *)
(***************************************************************************)
EXTENDS Naturals, FiniteSets, Sequences

CONSTANTS
  Urls,             \* URLs without fragment
  Langs,            \* values of the request header a response may vary on
  Requests,         \* the GET requests made: [url, credentials, lang]
  Kinds,            \* kinds of responses: [weight, body, size, varies]
  Tasks,            \* fetch tasks of the tokio runtime
  Savers,           \* the task that saves the index periodically (core.rs)
  Closers,          \* the thread that runs persist_blocking at shutdown
  MemBudget, MemEntryMax, DiskBudget, DiskEntryMax,        \* Limits
  HasDisk,          \* DiskStore::open succeeded
  WritesFail, ReadsFail, DeletesFail, IndexSavesFail, FlushesTimeOut,   \* I/O faults allowed
  MaxStores, MaxRestarts,                                  \* bounds of the model
  None

KindType == [weight : Nat, body : Nat, size : Nat, varies : BOOLEAN]
RequestType == [url : Urls, credentials : BOOLEAN, lang : Langs]

ASSUME CacheAssumption ==
  /\ Requests \subseteq RequestType
  /\ Kinds \subseteq KindType
  /\ {MemBudget, MemEntryMax, DiskBudget, DiskEntryMax} \subseteq Nat
  /\ MaxStores \in Nat /\ MaxRestarts \in Nat
  /\ {HasDisk, WritesFail, ReadsFail, DeletesFail, IndexSavesFail, FlushesTimeOut} \subseteq BOOLEAN

(***************************************************************************)
(* Keys.  NoVary stands for an empty list of varied headers.               *)
(***************************************************************************)
NoVary == "no-vary"
Primaries == Urls \X BOOLEAN
VKeys == Primaries \X (Langs \cup {NoVary})

PrimaryKey(r) == <<r.url, r.credentials>>
VariantKey(p, varies, r) == <<p, IF varies THEN r.lang ELSE NoVary>>
PrimaryOf(k) == k[1]

Threads == Tasks \cup Savers \cup Closers
Versions == 1..MaxStores
Values == [ver : Versions, kind : Kinds]
Slots == [gen : Nat \ {0}, size : Nat, ver : Versions]
PendingWrites == [gen : Nat \ {0}, value : Values]
Entries == [mem : Values \cup {None}, disk : Slots \cup {None}, pending : PendingWrites \cup {None}]
PrimaryEntries == [varies : BOOLEAN, variants : SUBSET VKeys]
Paths == VKeys \X (Nat \ {0})

(* None is none of the things an Option may hold. *)
ASSUME NoneAssumption ==
  /\ None \notin Values
  /\ None \notin Slots
  /\ None \notin PendingWrites
  /\ None \notin Entries
  /\ None \notin PrimaryEntries

VARIABLES
  idx,      \* Index: what the mutex guards
  files,    \* entry files in the cache directory: path -> value
  saved,    \* index.bin, or None
  queue,    \* jobs of the writer thread, oldest first
  writer,   \* what the writer thread does with its current job
  th,       \* what each other thread does after it unlocked the index
  latest,   \* history: version last stored (and not invalidated) per variant
  stored,   \* number of stores so far; versions are numbered by it
  restarts  \* number of times the process died and the cache was reopened

vars == <<idx, files, saved, queue, writer, th, latest, stored, restarts>>

(* Index: the entries by variant key, the variants by primary key, the two
   LRU maps, the byte counters, the last generation and the dirty mark. *)
Index ==
  [entries : [VKeys -> Entries \cup {None}],
   primaries : [Primaries -> PrimaryEntries \cup {None}],
   memLru : Seq(VKeys), diskLru : Seq(VKeys),
   memBytes : Nat, diskBytes : Nat, nextGen : Nat, dirty : BOOLEAN]

Idle == [at |-> "idle"]
NewEntry == [mem |-> None, disk |-> None, pending |-> None]

(***************************************************************************)
(* Operations on the index.  An entry is None when the map has no such     *)
(* key; pending holds pending_write and pending_value, which the code      *)
(* always sets and clears together.                                        *)
(***************************************************************************)
HasMem(i, k) == i.entries[k] # None /\ i.entries[k].mem # None
OnDisk(i, k) == i.entries[k] # None /\ i.entries[k].disk # None
MemCost(i) == [k \in VKeys |-> IF HasMem(i, k) THEN i.entries[k].mem.kind.weight ELSE 0]
DiskCost(i) == [k \in VKeys |-> IF OnDisk(i, k) THEN i.entries[k].disk.size ELSE 0]

(* The sum of the costs of a set of keys, as the number of bytes they fill. *)
Bytes(cost, ks) == UNION {{k} \X (1..cost[k]) : k \in ks}
Total(cost, ks) == Cardinality(Bytes(cost, ks))
MemWeight(i, ks) == Total(MemCost(i), ks)
DiskSize(i, ks) == Total(DiskCost(i), ks)

(* An LRU map without some of its keys. *)
Without(lru, ks) ==
  LET kept[n \in 0..Len(lru)] ==
        IF n = 0 THEN << >>
        ELSE IF lru[n] \in ks THEN kept[n - 1] ELSE Append(kept[n - 1], lru[n])
  IN  kept[Len(lru)]
SlotPaths(i, ks) == {<<k, i.entries[k].disk.gen>> : k \in {j \in ks : OnDisk(i, j)}}

Touch(i, k) ==
  [i EXCEPT !.memLru = IF HasMem(i, k) THEN Append(Without(@, {k}), k) ELSE @,
            !.diskLru = IF OnDisk(i, k) THEN Append(Without(@, {k}), k) ELSE @]

(* Index::generation *)
NextGenerationUnchanged(i) == i.nextGen
NextGeneration(i) == i.nextGen + 1

(* Whether index.bin changes when the entries of ks go. *)
LosesSlotsUnnoticed(i, ks) == FALSE
LosesSlots(i, ks) == \E k \in ks : OnDisk(i, k)

(* Index::remove of every key of ks; the files to delete are SlotPaths. *)
RemoveEntries(i, ks) ==
  LET gone == {k \in ks : i.entries[k] # None}
      left(p) == i.primaries[p].variants \ gone
  IN [i EXCEPT
        !.entries = [k \in VKeys |-> IF k \in gone THEN None ELSE @[k]],
        !.primaries = [p \in Primaries |->
          IF @[p] = None \/ \A k \in gone : PrimaryOf(k) # p THEN @[p]
          ELSE IF left(p) = {} THEN None ELSE [@[p] EXCEPT !.variants = left(p)]],
        !.memLru = Without(@, {k \in gone : HasMem(i, k)}),
        !.memBytes = @ - MemWeight(i, gone),
        !.diskLru = Without(@, {k \in gone : OnDisk(i, k)}),
        !.diskBytes = @ - DiskSize(i, gone),
        !.dirty = @ \/ LosesSlots(i, gone)]

(* The number of keys popped off an LRU map until what remains fits. *)
PopsNeeded(lru, bytes, target, cost) ==
  LET freed(n) == Total(cost, {lru[j] : j \in 1..n})
      fits(n) == n = Len(lru) \/ bytes - freed(n) <= target
  IN CHOOSE n \in 0..Len(lru) : fits(n) /\ \A m \in 0..(n - 1) : ~fits(m)

(* What remains of an entry whose memory copy is evicted. *)
KeepEntry(e) == e.disk # None \/ (HasDisk /\ e.pending # None)

EvictMemory(i) ==
  LET n == PopsNeeded(i.memLru, i.memBytes, MemBudget, MemCost(i))
      popped == {i.memLru[j] : j \in 1..n}
      victims == {k \in popped : HasMem(i, k)}
      j == [i EXCEPT
              !.memLru = SubSeq(@, n + 1, Len(@)),
              !.memBytes = @ - MemWeight(i, victims),
              !.entries = [k \in VKeys |->
                 IF k \in victims THEN [@[k] EXCEPT !.mem = None] ELSE @[k]]]
  IN RemoveEntries(j, {k \in victims : ~KeepEntry(i.entries[k])})

EvictDiskNever(i) == [idx |-> i, deletes |-> {}]
(* Evicts down to 90% of the budget; also returns the files to delete. *)
EvictDisk(i) ==
  LET n == IF i.diskBytes <= DiskBudget THEN 0
           ELSE PopsNeeded(i.diskLru, i.diskBytes, (DiskBudget \div 10) * 9, DiskCost(i))
      popped == {i.diskLru[j] : j \in 1..n}
      victims == {k \in popped : OnDisk(i, k)}
      j == [i EXCEPT
              !.diskLru = SubSeq(@, n + 1, Len(@)),
              !.diskBytes = @ - DiskSize(i, victims),
              !.dirty = @ \/ \E k \in popped : i.entries[k] # None,
              !.entries = [k \in VKeys |->
                 IF k \in victims THEN [@[k] EXCEPT !.disk = None] ELSE @[k]]]
      empty == {k \in popped : i.entries[k] # None
                               /\ i.entries[k].mem = None /\ i.entries[k].pending = None}
  IN [idx |-> RemoveEntries(j, empty), deletes |-> SlotPaths(i, victims)]

Snapshot(i) ==
  LET recs == Without(i.diskLru, {k \in VKeys : ~OnDisk(i, k)})
  IN [entries |-> [n \in 1..Len(recs) |->
                     [vkey |-> recs[n], slot |-> i.entries[recs[n]].disk]],
      vary |-> [p \in Primaries |->
        /\ i.primaries[p] # None
        /\ i.primaries[p].varies
        /\ \E n \in 1..Len(recs) : PrimaryOf(recs[n]) = p]]

EmptyIndex ==
  [entries |-> [k \in VKeys |-> None], primaries |-> [p \in Primaries |-> None],
   memLru |-> <<>>, diskLru |-> <<>>, memBytes |-> 0, diskBytes |-> 0,
   nextGen |-> 0, dirty |-> FALSE]

(* The last generation index.bin knows of *)
LastGenerationForgotten(recs) == 0
LastGeneration(recs) ==
  LET gens == {0} \cup {recs[n].slot.gen : n \in 1..Len(recs)}
  IN  CHOOSE g \in gens : \A h \in gens : h <= g

(* The index rebuilt from index.bin (HttpCache::open). *)
LoadedIndex(snap) ==
  LET recs == snap.entries
      keys == {recs[n].vkey : n \in 1..Len(recs)}
      slot(k) == recs[CHOOSE n \in 1..Len(recs) : recs[n].vkey = k].slot
      variants(p) == {k \in keys : PrimaryOf(k) = p}
      entries == [k \in VKeys |->
                    IF k \in keys THEN [NewEntry EXCEPT !.disk = slot(k)] ELSE None]
  IN [EmptyIndex EXCEPT
        !.entries = entries,
        !.primaries = [p \in Primaries |->
           IF variants(p) = {} THEN None
           ELSE [varies |-> snap.vary[p], variants |-> variants(p)]],
        !.diskLru = [n \in 1..Len(recs) |-> recs[n].vkey],
        !.diskBytes = Total([k \in keys |-> slot(k).size], keys),
        !.nextGen = LastGeneration(recs)]

DeleteJobs(paths) == IF paths = {} THEN <<>> ELSE <<[op |-> "delete", paths |-> paths]>>

(* HttpCache::open: the index and the jobs it leaves for the writer. *)
Opened(snap) ==
  LET loaded == IF HasDisk /\ snap # None THEN LoadedIndex(snap) ELSE EmptyIndex
      ev == EvictDisk(loaded)
  IN IF HasDisk
     THEN [idx |-> ev.idx,
           queue |-> <<[op |-> "cleanup", keep |-> SlotPaths(loaded, VKeys)]>>
                     \o DeleteJobs(ev.deletes)]
     ELSE [idx |-> loaded, queue |-> <<>>]

Init ==
  /\ saved = None
  /\ idx = Opened(None).idx
  /\ queue = Opened(None).queue
  /\ files = [p \in {} |-> None]
  /\ th = [t \in Threads |-> Idle]
  /\ latest = [k \in VKeys |-> None]
  /\ stored = 0
  /\ writer = Idle
  /\ restarts = 0

(***************************************************************************)
(* lookup: what a request finds under the lock, and the disk read that     *)
(* follows when only the disk tier has it.                                 *)
(***************************************************************************)
InMemory(e) == IF e.mem # None THEN e.mem
               ELSE IF e.pending # None THEN e.pending.value ELSE None

Lookup(t, r) ==
  LET p == PrimaryKey(r)
      k == VariantKey(p, idx.primaries[p].varies, r)
      e == idx.entries[k]
  IN /\ t \in Tasks
     /\ th[t] = Idle
     /\ idx.primaries[p] # None
     /\ e # None
     /\ InMemory(e) # None \/ e.disk # None
     /\ idx' = Touch(idx, k)
     /\ th' = IF InMemory(e) # None THEN th
              ELSE [th EXCEPT ![t] = [at |-> "reading", key |-> k, gen |-> e.disk.gen]]
     /\ UNCHANGED <<files, saved, queue, writer, latest, stored, restarts>>

(* promote *)
PromotableOverMemory(e, gen, value) ==
  value.kind.weight <= MemEntryMax /\ e # None /\ e.disk # None /\ e.disk.gen = gen
Promotable(e, gen, value) ==
  /\ value.kind.weight <= MemEntryMax
  /\ e # None
  /\ e.mem = None
  /\ e.disk # None
  /\ e.disk.gen = gen

Promoted(i, k, gen, value) ==
  LET j == [i EXCEPT !.entries[k].mem = value,
                     !.memLru = Append(@, k),
                     !.memBytes = @ + value.kind.weight]
  IN IF Promotable(i.entries[k], gen, value) THEN EvictMemory(j) ELSE i

ReadSucceeds(t) ==
  LET path == <<th[t].key, th[t].gen>>
  IN /\ th[t].at = "reading"
     /\ path \in DOMAIN files
     /\ idx' = Promoted(idx, th[t].key, th[t].gen, files[path])
     /\ th' = [th EXCEPT ![t] = Idle]
     /\ UNCHANGED <<files, saved, queue, writer, latest, stored, restarts>>

(* The file is gone, unreadable or fails its checksum: the entry is dropped
   if it still refers to that file. *)
ReadFails(t) ==
  LET k == th[t].key
      path == <<k, th[t].gen>>
      same == OnDisk(idx, k) /\ idx.entries[k].disk.gen = th[t].gen
  IN /\ th[t].at = "reading"
     /\ path \notin DOMAIN files \/ ReadsFail
     /\ idx' = IF same THEN RemoveEntries(idx, {k}) ELSE idx
     /\ latest' = IF same THEN [latest EXCEPT ![k] = None] ELSE latest
     /\ th' = [th EXCEPT ![t] = IF same THEN [at |-> "enqueue", jobs |-> DeleteJobs({path})]
                                ELSE Idle]
     /\ UNCHANGED <<files, saved, queue, writer, stored, restarts>>

(***************************************************************************)
(* store: replaces the variant in memory at once and on disk once the      *)
(* writer thread is done; until then the pending value serves it.          *)
(***************************************************************************)
(* The variants known for a primary key *)
SiblingsForgotten(i, p) == {}
Siblings(i, p) == IF i.primaries[p] = None THEN {} ELSE i.primaries[p].variants

StoredIndex(i, r, value) ==
  LET p == PrimaryKey(r)
      k == VariantKey(p, value.kind.varies, r)
      gen == NextGeneration(i)
      inMemory == value.kind.weight <= MemEntryMax
      toDisk == HasDisk /\ value.kind.body <= DiskEntryMax
      old == IF i.entries[k] = None THEN NewEntry ELSE i.entries[k]
      entry == [mem |-> IF inMemory THEN value ELSE None,
                disk |-> IF toDisk THEN old.disk ELSE None,
                pending |-> IF toDisk THEN [gen |-> gen, value |-> value] ELSE None]
      dropDisk == ~toDisk /\ old.disk # None
      j == [i EXCEPT
              !.entries[k] = entry,
              !.primaries[p] = [varies |-> value.kind.varies, variants |-> Siblings(i, p) \cup {k}],
              !.nextGen = gen,
              !.memLru = IF inMemory THEN Append(Without(@, {k}), k) ELSE Without(@, {k}),
              !.memBytes = @ - MemWeight(i, {k}) + (IF inMemory THEN value.kind.weight ELSE 0),
              !.diskLru = IF dropDisk THEN Without(@, {k}) ELSE @,
              !.diskBytes = IF dropDisk THEN @ - old.disk.size ELSE @,
              !.dirty = @ \/ dropDisk]
      orphan == IF entry = NewEntry THEN {k} ELSE {}
  IN [idx |-> EvictMemory(RemoveEntries(j, orphan)),
      jobs |-> (IF dropDisk THEN DeleteJobs({<<k, old.disk.gen>>}) ELSE <<>>)
               \o (IF toDisk THEN <<[op |-> "write", key |-> k, gen |-> gen, value |-> value]>>
                   ELSE <<>>)]

Store(t, r, kind) ==
  LET value == [ver |-> stored + 1, kind |-> kind]
      res == StoredIndex(idx, r, value)
  IN /\ t \in Tasks
     /\ th[t] = Idle
     /\ stored < MaxStores
     /\ stored' = stored + 1
     /\ idx' = res.idx
     /\ th' = [th EXCEPT ![t] = [at |-> "enqueue", jobs |-> res.jobs]]
     /\ latest' = [latest EXCEPT ![VariantKey(PrimaryKey(r), kind.varies, r)] = value.ver]
     /\ UNCHANGED <<files, saved, queue, writer, restarts>>

(* invalidate: every variant of the URL, in both credentials modes. *)
Invalidate(t, u) ==
  LET variants == UNION {idx.primaries[<<u, c>>].variants :
                           c \in {b \in BOOLEAN : idx.primaries[<<u, b>>] # None}}
  IN /\ t \in Tasks
     /\ th[t] = Idle
     /\ variants # {}
     /\ idx' = RemoveEntries(idx, variants)
     /\ th' = [th EXCEPT ![t] = [at |-> "enqueue", jobs |-> DeleteJobs(SlotPaths(idx, variants))]]
     /\ latest' = [k \in VKeys |-> IF PrimaryOf(k)[1] = u THEN None ELSE latest[k]]
     /\ UNCHANGED <<files, saved, queue, writer, stored, restarts>>

(* Sends the next job to the writer thread (crossbeam channel, FIFO). *)
Enqueue(t) ==
  /\ th[t].at = "enqueue"
  /\ th[t].jobs # <<>>
  /\ queue' = Append(queue, Head(th[t].jobs))
  /\ th' = [th EXCEPT ![t].jobs = Tail(@)]
  /\ UNCHANGED <<idx, files, saved, writer, latest, stored, restarts>>

Return(t) ==
  /\ th[t] = [at |-> "enqueue", jobs |-> <<>>]
  /\ th' = [th EXCEPT ![t] = Idle]
  /\ UNCHANGED <<idx, files, saved, queue, writer, latest, stored, restarts>>

(***************************************************************************)
(* Persisting the index: periodically when dirty, and at shutdown between  *)
(* two bounded flushes of the writer queue.                                *)
(***************************************************************************)
SaveIndex(t) ==
  /\ t \in Savers
  /\ th[t] = Idle
  /\ HasDisk
  /\ idx.dirty
  /\ idx' = [idx EXCEPT !.dirty = FALSE]
  /\ th' = [th EXCEPT ![t] = [at |-> "enqueue", jobs |-> <<[op |-> "index", snap |-> Snapshot(idx)]>>]]
  /\ UNCHANGED <<files, saved, queue, writer, latest, stored, restarts>>

PersistBegin(t) ==
  /\ t \in Closers
  /\ th[t] = Idle
  /\ HasDisk
  /\ queue' = Append(queue, [op |-> "flush", thread |-> t, wait |-> "flush1"])
  /\ th' = [th EXCEPT ![t] = [at |-> "flush1"]]
  /\ UNCHANGED <<idx, files, saved, writer, latest, stored, restarts>>

PersistSnapshot(t) ==
  /\ th[t].at = "flushed1"
  /\ idx' = [idx EXCEPT !.dirty = FALSE]
  /\ th' = [th EXCEPT ![t] = [at |-> "save", snap |-> Snapshot(idx)]]
  /\ UNCHANGED <<files, saved, queue, writer, latest, stored, restarts>>

PersistSave(t) ==
  /\ th[t].at = "save"
  /\ queue' = queue \o <<[op |-> "index", snap |-> th[t].snap],
                         [op |-> "flush", thread |-> t, wait |-> "flush2"]>>
  /\ th' = [th EXCEPT ![t] = [at |-> "flush2"]]
  /\ UNCHANGED <<idx, files, saved, writer, latest, stored, restarts>>

Flushed(pc) == [at |-> IF pc.at = "flush1" THEN "flushed1" ELSE "persisted"]

FlushTimeout(t) ==
  /\ FlushesTimeOut
  /\ th[t].at \in {"flush1", "flush2"}
  /\ th' = [th EXCEPT ![t] = Flushed(@)]
  /\ UNCHANGED <<idx, files, saved, queue, writer, latest, stored, restarts>>

(***************************************************************************)
(* The writer thread: one job at a time.                                   *)
(***************************************************************************)
NextJob(op) ==
  /\ writer = Idle
  /\ queue # <<>>
  /\ Head(queue).op = op
  /\ queue' = Tail(queue)

Written(path, value) ==
  [p \in DOMAIN files \cup {path} |-> IF p = path THEN value ELSE files[p]]

WriteEntryUnchecked(ok) ==
  LET job == Head(queue)
  IN /\ NextJob("write")
     /\ ok \/ WritesFail
     /\ files' = IF ok THEN Written(<<job.key, job.gen>>, job.value) ELSE files
     /\ writer' = [at |-> "written", key |-> job.key, gen |-> job.gen, value |-> job.value, ok |-> TRUE]
     /\ UNCHANGED <<idx, saved, th, latest, stored, restarts>>

(* write_entry: temporary file and rename, so the file appears whole or not. *)
WriteEntry(ok) ==
  LET job == Head(queue)
  IN /\ NextJob("write")
     /\ ok \/ WritesFail
     /\ files' = IF ok THEN Written(<<job.key, job.gen>>, job.value) ELSE files
     /\ writer' = [at |-> "written", key |-> job.key, gen |-> job.gen, value |-> job.value, ok |-> ok]
     /\ UNCHANGED <<idx, saved, th, latest, stored, restarts>>

(* on_write_done: the write that ended is still the one the entry waits for *)
AwaitsAnyWrite(e, gen) == e # None /\ e.pending # None
AwaitsNextWrite(e, gen) == e # None /\ e.pending # None /\ e.pending.gen = gen + 1
AwaitsWrite(e, gen) == e # None /\ e.pending # None /\ e.pending.gen = gen

(* The slot of a write that succeeded replaces the pending value. *)
Committed(i, k, slot) ==
  [i EXCEPT !.entries[k] = [mem |-> @.mem, disk |-> slot, pending |-> None],
            !.diskLru = Append(Without(@, {k}), k),
            !.diskBytes = @ - DiskSize(i, {k}) + slot.size,
            !.dirty = TRUE]

(* What is left of an entry whose write failed. *)
WriteFailed(i, k) ==
  LET j == [i EXCEPT !.entries[k].pending = None]
  IN  RemoveEntries(j, IF j.entries[k] = NewEntry THEN {k} ELSE {})

WriteDone ==
  LET k == writer.key
      current == AwaitsWrite(idx.entries[k], writer.gen)
      slot == [gen |-> writer.gen, size |-> writer.value.kind.size, ver |-> writer.value.ver]
      ev == EvictDisk(Committed(idx, k, slot))
  IN /\ writer.at = "written"
     /\ idx' = IF ~current THEN idx
               ELSE IF writer.ok THEN ev.idx
               ELSE WriteFailed(idx, k)
     /\ writer' = [at |-> "deleting",
                   paths |-> IF ~writer.ok THEN {}
                             ELSE IF current THEN SlotPaths(idx, {k}) \cup ev.deletes
                             ELSE {<<k, writer.gen>>}]
     /\ UNCHANGED <<files, saved, queue, th, latest, stored, restarts>>

DeleteJob ==
  /\ NextJob("delete")
  /\ writer' = [at |-> "deleting", paths |-> Head(queue).paths]
  /\ UNCHANGED <<idx, files, saved, th, latest, stored, restarts>>

UnknownIgnored(keep) == {}
Unknown(keep) == DOMAIN files \ keep

(* cleanup: every file the index loaded at open does not know. *)
CleanupJob ==
  /\ NextJob("cleanup")
  /\ writer' = [at |-> "deleting", paths |-> Unknown(Head(queue).keep)]
  /\ UNCHANGED <<idx, files, saved, th, latest, stored, restarts>>

(* remove_file; a file that is already gone is not an error, and an error is
   logged or ignored: the file stays and nothing tries again. *)
DeleteFile(path, ok) ==
  /\ writer.at = "deleting"
  /\ path \in writer.paths
  /\ ok \/ DeletesFail
  /\ files' = IF ok THEN [p \in DOMAIN files \ {path} |-> files[p]] ELSE files
  /\ writer' = [writer EXCEPT !.paths = @ \ {path}]
  /\ UNCHANGED <<idx, saved, queue, th, latest, stored, restarts>>

DeletesDone ==
  /\ writer = [at |-> "deleting", paths |-> {}]
  /\ writer' = Idle
  /\ UNCHANGED <<idx, files, saved, queue, th, latest, stored, restarts>>

(* write_atomic(index.bin): replaced whole, or left as it was. *)
SaveIndexJob(ok) ==
  /\ NextJob("index")
  /\ ok \/ IndexSavesFail
  /\ saved' = IF ok THEN Head(queue).snap ELSE saved
  /\ UNCHANGED <<idx, files, writer, th, latest, stored, restarts>>

FlushJob ==
  LET job == Head(queue)
  IN /\ NextJob("flush")
     /\ th' = IF th[job.thread].at = job.wait
              THEN [th EXCEPT ![job.thread] = Flushed(@)] ELSE th
     /\ UNCHANGED <<idx, files, saved, writer, latest, stored, restarts>>

(***************************************************************************)
(* The process ends (killed, or after persist_blocking) and the cache is   *)
(* opened again from index.bin and the files on disk.                      *)
(***************************************************************************)
Restart ==
  LET opened == Opened(saved)
  IN /\ restarts < MaxRestarts
     /\ restarts' = restarts + 1
     /\ idx' = opened.idx
     /\ queue' = opened.queue
     /\ writer' = Idle
     /\ th' = [t \in Threads |-> Idle]
     /\ latest' = [k \in VKeys |-> IF OnDisk(opened.idx, k) THEN opened.idx.entries[k].disk.ver
                                   ELSE None]
     /\ UNCHANGED <<files, saved, stored>>

Task(t) ==
  \/ \E r \in Requests : Lookup(t, r)
  \/ ReadSucceeds(t)
  \/ ReadFails(t)
  \/ \E r \in Requests, kind \in Kinds : Store(t, r, kind)
  \/ \E u \in Urls : Invalidate(t, u)
  \/ Enqueue(t)
  \/ Return(t)

Saver(t) == SaveIndex(t) \/ Enqueue(t) \/ Return(t)

Closer(t) == PersistBegin(t) \/ PersistSnapshot(t) \/ PersistSave(t) \/ FlushTimeout(t)

Writer ==
  \/ \E ok \in BOOLEAN : WriteEntry(ok)
  \/ WriteDone
  \/ DeleteJob
  \/ CleanupJob
  \/ writer.at = "deleting" /\ \E path \in writer.paths, ok \in BOOLEAN : DeleteFile(path, ok)
  \/ DeletesDone
  \/ \E ok \in BOOLEAN : SaveIndexJob(ok)
  \/ FlushJob

Next ==
  \/ \E t \in Tasks : Task(t)
  \/ \E t \in Savers : Saver(t)
  \/ \E t \in Closers : Closer(t)
  \/ Writer
  \/ Restart

Spec == Init /\ [][Next]_vars

(* The writer thread and the tasks that owe it jobs keep running; nobody has
   to look up, store, invalidate or save anything. *)
Fairness == WF_vars(Writer) /\ \A t \in Threads : WF_vars(Enqueue(t) \/ Return(t))

FairSpec == Spec /\ Fairness

-----------------------------------------------------------------------------
(***************************************************************************)
(* Properties                                                              *)
(***************************************************************************)
(* A saved index: the slots by variant key, each key once, and which
   primary keys vary. *)
Records == [vkey : VKeys, slot : Slots]
Snapshots ==
  [entries : {recs \in Seq(Records) :
                \A m, n \in 1..Len(recs) : recs[m].vkey = recs[n].vkey => m = n},
   vary : [Primaries -> BOOLEAN]]

(* What is sent to the writer thread. *)
WriteJobs == [op : {"write"}, key : VKeys, gen : Nat \ {0}, value : Values]
Jobs ==
  WriteJobs
  \cup [op : {"delete"}, paths : SUBSET Paths]
  \cup [op : {"cleanup"}, keep : SUBSET Paths]
  \cup [op : {"index"}, snap : Snapshots]
  \cup [op : {"flush"}, thread : Closers, wait : {"flush1", "flush2"}]

(* What the threads that share the index are doing, and the writer thread. *)
ThreadStates ==
  [at : {"idle", "flush1", "flushed1", "flush2", "persisted"}]
  \cup [at : {"reading"}, key : VKeys, gen : Nat \ {0}]
  \cup [at : {"enqueue"}, jobs : Seq(Jobs)]
  \cup [at : {"save"}, snap : Snapshots]
WriterStates ==
  {Idle}
  \cup [at : {"written"}, key : VKeys, gen : Nat \ {0}, value : Values, ok : BOOLEAN]
  \cup [at : {"deleting"}, paths : SUBSET Paths]

(* Every piece of cache state has the shape the code gives it; the byte
   counters (u64) never go below zero, and a saved index names a key once. *)
TypeOK ==
  /\ idx \in Index
  /\ DOMAIN files \subseteq Paths /\ files \in [DOMAIN files -> Values]
  /\ saved \in Snapshots \cup {None}
  /\ queue \in Seq(Jobs)
  /\ writer \in WriterStates
  /\ th \in [Threads -> ThreadStates]
  /\ stored \in 0..MaxStores
  /\ restarts \in 0..MaxRestarts

Listed(lru, keys) ==
  /\ Len(lru) = Cardinality(keys)
  /\ {lru[n] : n \in 1..Len(lru)} = keys

(* The memory tier's LRU map lists exactly the entries with a memory copy,
   the byte counter is the sum of their weights and stays within the
   budget (Index::touch, remove, drop_mem_copy, evict_memory, promote,
   store): a slot missing from the map could never be evicted. *)
MemTierAccounted ==
  /\ Listed(idx.memLru, {k \in VKeys : HasMem(idx, k)})
  /\ idx.memBytes = MemWeight(idx, VKeys)
  /\ idx.memBytes <= MemBudget

(* The same for the disk tier (remove, evict_disk, on_write_done, open). *)
DiskTierAccounted ==
  /\ Listed(idx.diskLru, {k \in VKeys : OnDisk(idx, k)})
  /\ idx.diskBytes = DiskSize(idx, VKeys)
  /\ idx.diskBytes <= DiskBudget

(* Both tiers are what the index says, and of the right shape. *)
TiersAccounted == TypeOK /\ MemTierAccounted /\ DiskTierAccounted

(* An entry can be reached from its primary key, and holds something: one
   that is not listed there would survive every invalidate() of its URL,
   one that holds nothing would never be removed. *)
EntriesReachable ==
  /\ \A k \in VKeys : idx.entries[k] # None =>
       /\ idx.primaries[PrimaryOf(k)] # None
       /\ k \in idx.primaries[PrimaryOf(k)].variants
       /\ idx.entries[k] # NewEntry
  /\ \A p \in Primaries : idx.primaries[p] # None =>
       /\ idx.primaries[p].variants # {}
       /\ \A k \in idx.primaries[p].variants : idx.entries[k] # None /\ PrimaryOf(k) = p

(* A file a disk slot refers to holds the version the slot was created for,
   whatever was superseded, evicted, invalidated or lost in a crash since:
   generations of a key are never reused while an index refers to them
   (disk.rs: "a slow write can never clobber a newer one"). *)
SlotsNameTheirFile ==
  \A k \in VKeys : OnDisk(idx, k) =>
    LET path == <<k, idx.entries[k].disk.gen>>
    IN path \in DOMAIN files => files[path].ver = idx.entries[k].disk.ver

(* As long as the process has not been restarted a slot's file exists: no
   delete overtakes the slot. *)
SlotsReadable ==
  restarts = 0 => \A p \in SlotPaths(idx, VKeys) : p \in DOMAIN files

Quiet == queue = <<>> /\ writer = Idle /\ \A t \in Threads : th[t] = Idle

(* No file is leaked unless remove_file fails: once the writer queue has
   drained, the files on disk are those of the index. *)
NoOrphanFiles == Quiet /\ ~DeletesFail => DOMAIN files \subseteq SlotPaths(idx, VKeys)

(* What a lookup finds for a variant, in memory or on disk. *)
Served(k) ==
  IF idx.entries[k] = None THEN None
  ELSE IF InMemory(idx.entries[k]) # None THEN InMemory(idx.entries[k]).ver
  ELSE IF OnDisk(idx, k) THEN idx.entries[k].disk.ver ELSE None

(* store() replaces: a variant is served in the version stored last, or not
   at all, never in an older one. *)
ServesLatest == \A k \in VKeys : Served(k) \in {latest[k], None}

(* index.bin, when no save is under way and the index is not marked dirty,
   describes the disk tier (is_dirty: "Whether the persisted index is out
   of date"). *)
IndexPersisted ==
  LET pending == \/ \E n \in 1..Len(queue) : queue[n].op = "index"
                 \/ \E t \in Threads : \/ th[t].at = "save"
                                       \/ th[t].at = "enqueue"
                                          /\ \E n \in 1..Len(th[t].jobs) : th[t].jobs[n].op = "index"
      recorded == IF saved = None THEN {}
                  ELSE {<<saved.entries[n].vkey, saved.entries[n].slot.gen>> :
                          n \in 1..Len(saved.entries)}
  IN ~idx.dirty /\ ~pending => recorded = SlotPaths(idx, VKeys)

(* A write that was issued is settled, whether it succeeds, fails or is
   superseded: no response stays pinned in memory as pending_value. *)
WritesSettle ==
  \A k \in {VariantKey(PrimaryKey(r), varies, r) : r \in Requests, varies \in BOOLEAN} :
    (idx.entries[k] # None /\ idx.entries[k].pending # None)
      ~> (idx.entries[k] = None \/ idx.entries[k].pending = None)
=============================================================================
