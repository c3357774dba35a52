---------------------------- MODULE LookupCache ----------------------------
(***************************************************************************)
(* The LRU cache in front of a Lookup (glean/rts/cache.h, cache.cpp), as   *)
(* used by several threads.  The index is guarded by a read-write lock     *)
(* with write priority, the LRU list by a mutex, and delete_lock keeps     *)
(* facts alive while a callback reads them.  Hits are recorded in lossy    *)
(* buffers (Touched) that readers fill without synchronisation.  A fact of *)
(* the cache is a heap cell; its contents stand for all of its data.       *)
(***************************************************************************)
EXTENDS Lists, FiniteSets, Functions

CONSTANTS
    Threads,
    Ids,                  \* fact ids; the type, key and value follow from the id
    Cells,                \* heap cells (bound: an allocation waits for a free one)
    factSize,             \* [TYPE |-> .., KEY |-> .., FULL |-> ..]: Fact::size
    capacity, touched_buffer_size,
    ShardCounts,          \* the values of Options::shards
    Nested,               \* may the callback of factById use the cache
    MaxCalls,             \* bound: the calls that are made
    Warm,                 \* what the cache may hold at the start
    None, Missing, Garbage

Tags == {"TYPE", "KEY", "FULL"}
Level(tag) == CASE tag = "TYPE" -> 0 [] tag = "KEY" -> 1 [] tag = "FULL" -> 2
LookupOps == {"idByKey", "typeById", "factById"}
TagOf(op) == CASE op = "idByKey" -> "KEY" [] op = "typeById" -> "TYPE"
               [] op \in {"factById", "bulk"} -> "FULL"

ASSUME CacheAssumption ==
    /\ None \notin Threads /\ None \notin Ids /\ None # Missing
    /\ None \notin LookupOps /\ None \notin LookupOps \X Ids
    /\ None \notin [id : Ids, tag : Tags]
    /\ IsFiniteSet(Cells)
    /\ factSize \in [Tags -> Nat] /\ capacity \in Nat
    /\ touched_buffer_size \in Nat /\ ShardCounts \subseteq Nat
    /\ \A warm \in Warm :
          /\ warm \in Seq([id : Ids, tag : Tags]) /\ DOMAIN warm \subseteq Cells
          /\ \A c, d \in DOMAIN warm : warm[c].id = warm[d].id => c = d
          /\ SumOf([c \in DOMAIN warm |-> factSize[warm[c].tag]], DOMAIN warm) <= capacity

VARIABLES
    known,                \* the facts of the base Lookup
    heap,                 \* cell -> [id, tag], or None when it is free
    ids, keys,            \* Index: the cells in the two hash sets
    lru, bytes,           \* Storage: the list, least recently used first
    shards, facts, next,  \* the Touched buffers
    idxR, idxW, idxWait,  \* the index lock: readers, writer, waiting writers
    stor,                 \* the owner of the storage mutex
    delR, delW,           \* delete_lock
    th,                   \* the threads' local state
    calls                 \* the calls made so far

index == <<ids, keys>>
storage == <<lru, bytes>>
touched == <<shards, facts, next>>
idxLock == <<idxR, idxW, idxWait>>
delLock == <<delR, delW>>
vars == <<known, heap, index, storage, touched, idxLock, stor, delLock, th, calls>>

Idle ==
    [pc |-> "idle", op |-> None, id |-> None, ptr |-> None, shard |-> 1, k |-> 0,
     n |-> 0, dead |-> {}, ans |-> None, todo |-> {}]

Init ==
    /\ known \in SUBSET Ids
    /\ \E warm \in Warm :
          /\ \A c \in DOMAIN warm : warm[c].id \in known
          /\ heap = [c \in Cells |-> IF c \in DOMAIN warm THEN warm[c] ELSE None]
          /\ ids = DOMAIN warm
          /\ keys = {c \in ids : warm[c].tag # "TYPE"}
          /\ lru = [c \in DOMAIN warm |-> c]
          /\ bytes = SumOf([c \in DOMAIN warm |-> factSize[warm[c].tag]], DOMAIN warm)
    /\ shards \in ShardCounts
    /\ facts = [s \in 1 .. shards |-> [i \in 1 .. touched_buffer_size |-> None]]
    /\ next = [s \in 1 .. shards |-> 0]
    /\ idxR = {} /\ idxW = None /\ idxWait = {}
    /\ stor = None
    /\ delR = {} /\ delW = None
    /\ th = [t \in Threads |-> Idle]
    /\ calls = 0

At(t, label) == th[t].pc = label
Goto(t, label) == th' = [th EXCEPT ![t].pc = label]

\* The base Lookup gets a new fact.
Commit(i) ==
    /\ i \notin known
    /\ known' = known \cup {i}
    /\ UNCHANGED <<heap, index, storage, touched, idxLock, stor, delLock, th, calls>>

-----------------------------------------------------------------------------
(* Anchor::idByKey, typeById and factById.                                 *)

Call(t, op, i) ==
    /\ At(t, "idle")
    /\ calls < MaxCalls
    /\ calls' = calls + 1
    /\ th' = [th EXCEPT ![t] = [Idle EXCEPT !.pc = "start", !.op = op, !.id = i]]
    /\ UNCHANGED <<known, heap, index, storage, touched, idxLock, stor, delLock>>

\* index.withRLockPtr: the lock has write priority.
CanRead == idxW = None /\ idxWait = {}
RLock(t) ==
    /\ At(t, "start")
    /\ CanRead
    /\ idxR' = idxR \cup {t}
    /\ Goto(t, "find")
    /\ UNCHANGED <<known, heap, index, storage, touched, idxW, idxWait, stor, delLock, calls>>

\* Mutant: factById is content with a fact that lacks its value.
HitsAnyTag(op, i) == {c \in IF op = "idByKey" THEN keys ELSE ids : heap[c].id = i}

\* The cells that answer the call.
Hits(op, i) ==
    {c \in IF op = "idByKey" THEN keys ELSE ids :
        heap[c].id = i /\ (op = "factById" => heap[c].tag = "FULL")}

Miss(t) ==
    /\ At(t, "find")
    /\ Hits(th[t].op, th[t].id) = {}
    /\ idxR' = idxR \ {t}
    /\ Goto(t, "base")
    /\ UNCHANGED <<known, heap, index, storage, touched, idxW, idxWait, stor, delLock, calls>>


\* The answer is read at once, except that factById only takes delete_lock.
Hit(t) ==
    /\ At(t, "find")
    /\ \E c \in Hits(th[t].op, th[t].id) :
          IF th[t].op = "factById"
          THEN /\ delW = None
               /\ delR' = delR \cup {t}
               /\ th' = [th EXCEPT ![t].pc = "touch", ![t].ptr = c]
          ELSE /\ th' = [th EXCEPT ![t].pc = "touch", ![t].ptr = c, ![t].ans = heap[c].id]
               /\ UNCHANGED delR
    /\ UNCHANGED <<known, heap, index, storage, touched, idxLock, stor, delW, calls>>

FullFact(c) == IF heap[c] # None /\ heap[c].tag = "FULL" THEN heap[c].id ELSE Garbage

\* The callback gets what the cell holds now, and may use the cache itself.
Callback(t) ==
    /\ At(t, "callback")
    /\ Nested => CanRead
    /\ th' = [th EXCEPT ![t].pc = "return",
                        ![t].ans = FullFact(th[t].ptr)]
    /\ delR' = delR \ {t}
    /\ UNCHANGED <<known, heap, index, storage, touched, idxLock, stor, delW, calls>>

\* A miss asks the base.  What it returns is also put into the cache.
AskBase(t) ==
    /\ At(t, "base")
    /\ IF th[t].id \in known
       THEN \E c \in Cells :
               /\ heap[c] = None
               /\ \A d \in Cells : heap[d] = None => c <= d
               /\ heap' = [heap EXCEPT ![c] = [id |-> th[t].id, tag |-> TagOf(th[t].op)]]
               /\ th' = [th EXCEPT ![t].pc = "insert", ![t].ptr = c, ![t].ans = th[t].id]
       ELSE /\ th' = [th EXCEPT ![t].pc = "return", ![t].ans = Missing]
            /\ UNCHANGED heap
    /\ UNCHANGED <<known, index, storage, touched, idxLock, stor, delLock, calls>>

Return(t) ==
    /\ At(t, "return")
    /\ th' = [th EXCEPT ![t] = Idle]
    /\ UNCHANGED <<known, heap, index, storage, touched, idxLock, stor, delLock, calls>>

-----------------------------------------------------------------------------
(* touch and drain.                                                        *)

\* Storage::touch: the fact becomes the most recently used one.
Touch(list, c) == Append(Without(list, {c}), c)

AfterTouch(t) == IF th[t].op = "factById" THEN "callback" ELSE "return"

\* Without shards the list is updated at once.
TouchNow(t) ==
    /\ At(t, "touch")
    /\ shards = 0
    /\ stor = None
    /\ lru' = Touch(lru, th[t].ptr)
    /\ idxR' = idxR \ {t}
    /\ Goto(t, AfterTouch(t))
    /\ UNCHANGED <<known, heap, index, bytes, touched, idxW, idxWait, stor, delLock, calls>>

\* With shards, the hit goes into the buffer of the thread's shard (threads may
\* share one): a load, a store and another store, under the read lock only.
TouchLoad(t) ==
    /\ At(t, "touch")
    /\ \E s \in 1 .. shards :
          /\ th' = [th EXCEPT ![t].shard = s, ![t].k = next[s],
                              ![t].pc = IF next[s] < touched_buffer_size THEN "store" ELSE "trylock"]
          /\ idxR' = IF next[s] < touched_buffer_size THEN idxR ELSE idxR \ {t}
    /\ UNCHANGED <<known, heap, index, storage, touched, idxW, idxWait, stor, delLock, calls>>

TouchStore(t) ==
    /\ At(t, "store")
    /\ facts' = [facts EXCEPT ![th[t].shard][th[t].k + 1] = th[t].ptr]
    /\ Goto(t, "bump")
    /\ UNCHANGED <<known, heap, index, storage, shards, next, idxLock, stor, delLock, calls>>

TouchNext(t) ==
    /\ At(t, "bump")
    /\ next' = [next EXCEPT ![th[t].shard] = th[t].k + 1]
    /\ idxR' = idxR \ {t}
    /\ Goto(t, AfterTouch(t))
    /\ UNCHANGED <<known, heap, index, storage, shards, facts, idxW, idxWait, stor, delLock, calls>>

\* A full buffer is drained, without the index lock, if the mutex is free.
TryLock(t) ==
    /\ At(t, "trylock")
    /\ IF stor = None
       THEN /\ stor' = t
            /\ th' = [th EXCEPT ![t].pc = "drain", ![t].n = next[th[t].shard], ![t].k = 0]
       ELSE Goto(t, AfterTouch(t)) /\ UNCHANGED stor
    /\ UNCHANGED <<known, heap, index, storage, touched, idxLock, delLock, calls>>

Drain(t) ==
    /\ At(t, "drain")
    /\ IF th[t].k < th[t].n
       THEN /\ lru' = Touch(lru, facts[th[t].shard][th[t].k + 1])
            /\ th' = [th EXCEPT ![t].k = @ + 1]
            /\ UNCHANGED <<next, stor>>
       ELSE /\ next' = [next EXCEPT ![th[t].shard] = 0]
            /\ stor' = None
            /\ Goto(t, AfterTouch(t))
            /\ UNCHANGED lru
    /\ UNCHANGED <<known, heap, index, bytes, shards, facts, idxLock, delLock, calls>>

-----------------------------------------------------------------------------
(* insert and withBulkStore.                                               *)

\* withBulkStore inserts a set of facts under one lock of the cache.
Bulk(t, todo) ==
    /\ At(t, "idle")
    /\ calls < MaxCalls
    /\ calls' = calls + 1
    /\ todo \subseteq known
    /\ th' = [th EXCEPT ![t] = [Idle EXCEPT !.pc = "insert", !.op = "bulk", !.todo = todo]]
    /\ UNCHANGED <<known, heap, index, storage, touched, idxLock, stor, delLock>>

\* performUpdate: index.withWLock, then storage.withLock.
WWait(t) ==
    /\ At(t, "insert")
    /\ idxWait' = idxWait \cup {t}
    /\ Goto(t, "wlock")
    /\ UNCHANGED <<known, heap, index, storage, touched, idxR, idxW, stor, delLock, calls>>
WLock(t) ==
    /\ At(t, "wlock")
    /\ idxR = {} /\ idxW = None
    /\ idxW' = t
    /\ idxWait' = idxWait \ {t}
    /\ Goto(t, "slock")
    /\ UNCHANGED <<known, heap, index, storage, touched, idxR, stor, delLock, calls>>
SLock(t) ==
    /\ At(t, "slock")
    /\ stor = None
    /\ stor' = t
    /\ Goto(t, IF th[t].op = "bulk" THEN "bulk" ELSE "insertOne")
    /\ UNCHANGED <<known, heap, index, storage, touched, idxLock, delLock, calls>>

\* The size of a fact, and of several.
Size(c) == factSize[heap[c].tag]
SizeOf(cells) == SumOf([c \in cells |-> Size(c)], cells)

\* The list after the buffer of shard s, and after all buffers have been drained.
DrainedShard(s, list) ==
    LET after[i \in 0 .. next[s]] == IF i = 0 THEN list ELSE Touch(after[i - 1], facts[s][i])
    IN after[next[s]]
Drained ==
    LET after[s \in 0 .. shards] == IF s = 0 THEN lru ELSE DrainedShard(s, after[s - 1])
    IN after[shards]

\* evict: how many facts leave from the front of the list until target is met.
Evicted(list, target) ==
    CHOOSE n \in 0 .. Len(list) :
        /\ n = Len(list) \/ SizeOf(Range(SubSeq(list, n + 1, Len(list)))) <= target
        /\ \A m \in 0 .. n - 1 : SizeOf(Range(SubSeq(list, m + 1, Len(list)))) > target

\* insertOne of the fact in cell c, by the owner of both locks.  refused: the
\* fact is too large, or the cache has as much of it already.
Refused(c) ==
    \/ Size(c) > capacity
    \/ \E x \in ids : heap[x].id = heap[c].id /\ Level(heap[x].tag) >= Level(heap[c].tag)
Replaced(c) == {x \in ids : heap[x].id = heap[c].id}
Wanted(c) == IF 9 * capacity > 10 * Size(c) THEN (9 * capacity - 10 * Size(c)) \div 10 ELSE 0

\* The list without the facts that are gone, and with the new one at its end.
Store(c, draining, list, gone) ==
    /\ ids' = (ids \ gone) \cup {c}
    /\ keys' = (keys \ gone) \cup (IF heap[c].tag = "TYPE" THEN {} ELSE {c})
    /\ lru' = Append(Without(list, gone), c)
    /\ bytes' = bytes + Size(c) - SizeOf(gone)
    /\ next' = IF draining THEN [s \in 1 .. shards |-> 0] ELSE next

\* Mutant: the buffers are drained for an eviction only.
InsertOneNoDrain(c) ==
    LET full == bytes - SizeOf(Replaced(c)) + Size(c) > capacity
        list == Without(IF full THEN Drained ELSE lru, Replaced(c))
    IN Store(c, full, list,
             Replaced(c) \cup IF full THEN Range(SubSeq(list, 1, Evicted(list, Wanted(c)))) ELSE {})
InsertOne(c) ==
    LET draining == Replaced(c) # {} \/ bytes + Size(c) > capacity
        list == Without(IF draining THEN Drained ELSE lru, Replaced(c))
        full == bytes - SizeOf(Replaced(c)) + Size(c) > capacity
    IN Store(c, draining, list,
             Replaced(c) \cup IF full THEN Range(SubSeq(list, 1, Evicted(list, Wanted(c)))) ELSE {})

\* The thread goes on with its next fact, or lets go of the cache.
Unlock(t) ==
    /\ idxW' = None
    /\ stor' = None

InsertRefused(t) ==
    /\ At(t, "insertOne")
    /\ Refused(th[t].ptr)
    /\ heap' = [heap EXCEPT ![th[t].ptr] = None]
    /\ IF th[t].op = "bulk"
       THEN Goto(t, "bulk") /\ UNCHANGED <<idxW, stor>>
       ELSE Goto(t, "return") /\ Unlock(t)
    /\ UNCHANGED <<known, index, storage, touched, idxR, idxWait, delLock, calls>>

Insert(t) ==
    /\ At(t, "insertOne")
    /\ ~Refused(th[t].ptr)
    /\ InsertOne(th[t].ptr)
    /\ IF ids \ ids' # {}
       THEN /\ th' = [th EXCEPT ![t].pc = "dlock", ![t].dead = ids \ ids']
            /\ UNCHANGED <<idxW, stor>>
       ELSE IF th[t].op = "bulk"
       THEN Goto(t, "bulk") /\ UNCHANGED <<idxW, stor>>
       ELSE Goto(t, "return") /\ Unlock(t)
    /\ UNCHANGED <<known, heap, shards, facts, idxR, idxWait, delLock, calls>>

\* delete_lock is taken while the cache is still locked.  insert unlocks the
\* cache before it frees the facts, Inserter::insert keeps it.
DLock(t) ==
    /\ At(t, "dlock")
    /\ delR = {} /\ delW = None
    /\ delW' = t
    /\ IF th[t].op = "bulk" THEN UNCHANGED <<idxW, stor>> ELSE Unlock(t)
    /\ Goto(t, "dispose")
    /\ UNCHANGED <<known, heap, index, storage, touched, idxR, idxWait, delR, calls>>

Dispose(t) ==
    /\ At(t, "dispose")
    /\ heap' = [c \in Cells |-> IF c \in th[t].dead THEN None ELSE heap[c]]
    /\ delW' = None
    /\ th' = [th EXCEPT ![t].pc = IF th[t].op = "bulk" THEN "bulk" ELSE "return", ![t].dead = {}]
    /\ UNCHANGED <<known, index, storage, touched, idxLock, stor, delR, calls>>

BulkInsert(t) ==
    /\ At(t, "bulk")
    /\ \E i \in th[t].todo, c \in Cells :
          /\ heap[c] = None
          /\ \A d \in Cells : heap[d] = None => c <= d
          /\ heap' = [heap EXCEPT ![c] = [id |-> i, tag |-> "FULL"]]
          /\ th' = [th EXCEPT ![t].pc = "insertOne", ![t].ptr = c, ![t].todo = @ \ {i}]
    /\ UNCHANGED <<known, index, storage, touched, idxLock, stor, delLock, calls>>
BulkEnd(t) ==
    /\ At(t, "bulk")
    /\ th[t].todo = {}
    /\ Goto(t, "return")
    /\ Unlock(t)
    /\ UNCHANGED <<known, heap, index, storage, touched, idxR, idxWait, delLock, calls>>

-----------------------------------------------------------------------------
Step(t) ==
    \/ RLock(t) \/ Miss(t) \/ Hit(t) \/ Callback(t) \/ AskBase(t) \/ Return(t)
    \/ TouchNow(t) \/ TouchLoad(t) \/ TouchStore(t) \/ TouchNext(t) \/ TryLock(t) \/ Drain(t)
    \/ WWait(t) \/ WLock(t) \/ SLock(t) \/ InsertRefused(t) \/ Insert(t)
    \/ DLock(t) \/ Dispose(t) \/ BulkInsert(t) \/ BulkEnd(t)

Next ==
    \/ \E i \in Ids : Commit(i)
    \/ \E t \in Threads, op \in LookupOps, i \in Ids : Call(t, op, i)
    \/ \E t \in Threads, todo \in SUBSET Ids \ {{}} : Bulk(t, todo)
    \/ \E t \in Threads : Step(t)

Spec == Init /\ [][Next]_vars

-----------------------------------------------------------------------------
(* Properties.                                                             *)

\* Every variable has its type, and the locks exclude each other.
TypeOK ==
    /\ known \subseteq Ids
    /\ heap \in [Cells -> [id : Ids, tag : Tags] \cup {None}]
    /\ ids \subseteq Cells /\ keys \subseteq ids
    /\ lru \in Seq(Cells) /\ bytes \in 0 .. capacity
    /\ next \in [1 .. shards -> 0 .. touched_buffer_size]
    /\ idxW # None => idxR = {}
    /\ delW # None => delR = {}

\* The index and the LRU list always agree: every cached fact is in the list
\* once and in ids, those that have a key are in keys, no fact is cached twice,
\* none is free, and bytes is their size, within the capacity.
CacheConsistent ==
    /\ Range(lru) = ids /\ Len(lru) = Cardinality(ids)
    /\ \A c \in ids : heap[c] # None
    /\ keys = {c \in ids : heap[c].tag # "TYPE"}
    /\ \A c, d \in ids : heap[c].id = heap[d].id => c = d
    /\ bytes = SizeOf(ids) /\ bytes <= capacity

\* The invariant drain relies on: every buffer has been filled up to next, with
\* facts that are still in the list, although readers overwrite each other's
\* entries and drain without the index lock.
TouchedAlive ==
    \A s \in 1 .. shards : \A i \in 1 .. next[s] : facts[s][i] \in Range(lru)

\* The threads that read a fact with delete_lock and without the index lock.
Reading == {t \in Threads : At(t, "callback")}

\* No fact is freed while a thread reads one outside of the index lock, in the
\* callback of factById.
FreedUnread == \A t \in Threads : At(t, "dispose") => Reading = {}

\* Nobody waits for everybody: while calls are being made, some thread can go on
\* (and every call takes a bounded number of steps, so that it returns).
NoneStuck == (\E t \in Threads : ~At(t, "idle")) => \E t \in Threads : ENABLED Step(t)

\* The cache is transparent: it implements the Lookup it is anchored to.
Promise == INSTANCE AbstractLookup WITH
    Ops <- LookupOps, NoCall <- None, NoAnswer <- None,
    call <- [t \in Threads |-> IF th[t].op \in LookupOps THEN <<th[t].op, th[t].id>> ELSE None],
    answer <- [t \in Threads |-> th[t].ans]

\* Every answer of the cache, from the index or from the base, at any moment of
\* an insertion or an eviction, is one that the base could give (AbstractLookup).
Transparent == Promise!Spec

\* The index, the list and the hit buffers agree whatever was inserted, hit and
\* evicted in between, so that nothing ever follows a pointer to a freed fact
\* (insertOne, drain, evict).
CacheSound == TypeOK /\ CacheConsistent /\ TouchedAlive


=============================================================================
