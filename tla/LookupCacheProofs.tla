------------------------- MODULE LookupCacheProofs -------------------------
(***************************************************************************)
(* Proof that the cache implements AbstractLookup, for any number of       *)
(* threads, facts, cells and shards, any sizes and any capacity; and that  *)
(* no fact is freed while a callback of factById reads it.                 *)
(***************************************************************************)
EXTENDS LookupCache, TLAPS

Fields == {"pc", "op", "id", "ptr", "shard", "k", "n", "dead", "ans", "todo"}

\* The local state of every thread is a record with these fields.
Shape ==
    /\ th = [t \in Threads |-> th[t]]
    /\ \A t \in Threads : th[t] = [f \in Fields |-> th[t][f]]

\* Where a thread is in a call: looking for the fact, recording a hit, inserting.
Asking == {"start", "find", "base"}
Touching == {"touch", "store", "bump", "trylock", "drain"}
Inserting == {"insert", "wlock", "slock", "insertOne"}
Deleting == {"dlock", "dispose"}

\* The answer of a call is there from the step on that decides it; factById
\* decides in the callback.
Local(t) ==
    LET s == th[t] IN
    /\ s.pc = "idle" => s.op = None
    /\ s.op \in LookupOps \cup {"bulk", None}
    /\ s.op \in LookupOps => s.id \in Ids
    /\ s.op \notin LookupOps => s.ans = None
    /\ s.pc \in Asking => s.op \in LookupOps /\ s.ans = None
    /\ s.pc \in Touching => s.op \in LookupOps /\ (s.ans = None <=> s.op = "factById")
    /\ s.pc = "callback" => s.op = "factById" /\ s.ans = None
    /\ s.pc \in Inserting \cup Deleting \cup {"return"} =>
          s.op = "bulk" \/ (s.op \in LookupOps /\ s.ans # None)
    /\ s.pc = "bulk" => s.op = "bulk"
    /\ s.todo \in SUBSET known
Protocol == \A t \in Threads : Local(t)

\* The thread has allocated a cell and not yet given it to the index.
Owning(t) ==
    \/ th[t].pc = "insertOne"
    \/ th[t].pc \in {"insert", "wlock", "slock"} /\ th[t].op # "bulk"
Owns(t, c) == Owning(t) /\ th[t].ptr = c

\* The thread is in factById, after a hit and before the callback has read the
\* fact.
Reads(t) == th[t].op = "factById" /\ th[t].pc \in Touching \cup {"callback"}

\* A cell has one owner: the index, the thread that allocated it, or the thread
\* that is about to free it.  None of these is free.
Cellular ==
    /\ ids \in SUBSET Cells /\ keys \in SUBSET ids
    /\ heap \in [Cells -> [id : Ids, tag : Tags] \cup {None}]
    /\ known \in SUBSET Ids
    /\ \A c \in Cells : heap[c] # None => heap[c].id \in known
    /\ \A c \in ids : heap[c] # None
    /\ \A t \in Threads : th[t].dead \in SUBSET Cells
    /\ \A t \in Threads, c \in Cells : Owns(t, c) => heap[c] # None /\ c \notin ids
    /\ \A t \in Threads : \A c \in th[t].dead : heap[c] # None /\ c \notin ids
    /\ \A t, u \in Threads : \A c \in Cells : Owns(t, c) /\ Owns(u, c) => t = u
    /\ \A t, u \in Threads : \A c \in th[t].dead : ~Owns(u, c)
    /\ \A t, u \in Threads : th[t].dead \cap th[u].dead # {} => t = u
    /\ \A t \in Threads : Owning(t) => th[t].ptr \in Cells

\* delete_lock: the reader of a fact has it, so that nobody may free facts, and
\* the fact is the one that was asked for.
Protected ==
    /\ delW # None => delR = {}
    /\ \A t \in Threads : th[t].pc = "dispose" => delW = t
    /\ \A t \in Threads : Reads(t) =>
          /\ t \in delR
          /\ th[t].ptr \in Cells
          /\ heap[th[t].ptr] = [id |-> th[t].id, tag |-> "FULL"]
          /\ \A u \in Threads : Owning(u) => th[u].ptr # th[t].ptr

IInv == Shape /\ Protocol /\ Cellular /\ Protected

-----------------------------------------------------------------------------
(* The fields of a thread's state after a step.                            *)

Others(t) == \A u \in Threads : u # t => th'[u] = th[u]

\* The facts of the index stay what they are.
SameFacts == \A c \in ids : heap'[c] = heap[c]

Keeps(t, fs) == \A f \in Fields : f \notin fs => th'[t][f] = th[t][f]

\* Only the program counter changes.
LEMMA GotoFields ==
    ASSUME Shape, NEW t \in Threads, NEW label, Goto(t, label)
    PROVE  Shape' /\ Others(t) /\ th'[t].pc = label /\ Keeps(t, {"pc"})
BY DEF Shape, Goto, Others, Fields, Keeps

\* What is said of another thread stays.
LEMMA OthersStay ==
    ASSUME NEW t \in Threads, Others(t), known' = known
    PROVE  \A u \in Threads : u # t => /\ th'[u] = th[u]
                                       /\ Owning(u)' <=> Owning(u)
                                       /\ Reads(u)' <=> Reads(u)
                                       /\ Local(u)' <=> Local(u)
BY DEF Others, Owning, Reads, Local

-----------------------------------------------------------------------------
(* Steps that change nothing but the index lock, the list, the buffers and *)
(* where the thread is.                                                    *)

QuietMove(t) ==
    /\ Shape' /\ Others(t) /\ Keeps(t, {"pc", "shard", "k", "n"})
    /\ UNCHANGED <<known, heap, ids, keys, delR, delW>>
    /\ \/ th[t].pc = "start" /\ th'[t].pc = "find"
       \/ th[t].pc = "find" /\ th'[t].pc = "base"
       \/ th[t].pc \in Touching /\ th'[t].pc \in Touching
       \/ th[t].pc \in Touching /\ th'[t].pc = AfterTouch(t)
       \/ th[t].pc = "insert" /\ th'[t].pc = "wlock"
       \/ th[t].pc = "wlock" /\ th'[t].pc = "slock"
       \/ th[t].pc = "slock" /\ th'[t].pc = IF th[t].op = "bulk" THEN "bulk" ELSE "insertOne"
       \/ th[t].pc = "bulk" /\ th'[t].pc = "return"

\* These are they.
LEMMA QuietSteps ==
    ASSUME IInv, NEW t \in Threads,
           \/ RLock(t) \/ Miss(t) \/ TouchNow(t) \/ TouchLoad(t) \/ TouchStore(t) \/ TouchNext(t)
           \/ TryLock(t) \/ Drain(t) \/ WWait(t) \/ WLock(t) \/ SLock(t) \/ BulkEnd(t)
    PROVE  QuietMove(t)
<1> USE DEF index, storage, touched, idxLock, delLock, At, Touching
<1>0. Shape
  BY DEF IInv
<1>1. CASE RLock(t)
  BY <1>0, <1>1, GotoFields DEF RLock, QuietMove, Keeps
<1>2. CASE Miss(t)
  BY <1>0, <1>2, GotoFields DEF Miss, QuietMove, Keeps
<1>3. CASE TouchNow(t)
  BY <1>0, <1>3, GotoFields DEF TouchNow, QuietMove, Keeps
<1>4. CASE TouchLoad(t)
  <2>1. PICK s \in 1 .. shards :
          th' = [th EXCEPT ![t].shard = s, ![t].k = next[s],
                           ![t].pc = IF next[s] < touched_buffer_size THEN "store" ELSE "trylock"]
    BY ZenonT(30), <1>4 DEF TouchLoad
  <2>2. Shape' /\ Others(t) /\ Keeps(t, {"pc", "shard", "k"}) /\ th'[t].pc \in {"store", "trylock"}
    BY <1>0, <2>1 DEF Shape, Others, Fields, Keeps
  <2> QED BY ZenonT(30), <1>4, <2>2 DEF TouchLoad, QuietMove, Keeps
<1>5. CASE TouchStore(t)
  BY <1>0, <1>5, GotoFields DEF TouchStore, QuietMove, Keeps
<1>6. CASE TouchNext(t)
  BY <1>0, <1>6, GotoFields DEF TouchNext, QuietMove, Keeps
<1>7. CASE TryLock(t)
  <2>1. CASE stor = None
    <3>0. th' = [th EXCEPT ![t].pc = "drain", ![t].n = next[th[t].shard], ![t].k = 0]
      BY <1>7, <2>1 DEF TryLock
    <3>1. Shape' /\ Others(t) /\ Keeps(t, {"pc", "n", "k"}) /\ th'[t].pc = "drain"
      BY ZenonT(30), <1>0, <3>0 DEF Shape, Others, Fields, Keeps
    <3> QED BY <1>7, <3>1 DEF TryLock, QuietMove, Keeps
  <2>2. CASE stor # None
    BY <1>0, <1>7, <2>2, GotoFields DEF TryLock, QuietMove, Keeps
  <2> QED BY <2>1, <2>2
<1>8. CASE Drain(t)
  <2>1. CASE th[t].k < th[t].n
    <3>1. Shape' /\ Others(t) /\ Keeps(t, {"k"})
      BY <1>0, <1>8, <2>1 DEF Drain, Shape, Others, Fields, Keeps
    <3>2. th'[t].pc = th[t].pc
      BY <3>1 DEF Keeps, Fields
    <3> QED BY <1>8, <3>1, <3>2 DEF Drain, QuietMove, Keeps
  <2>2. CASE ~(th[t].k < th[t].n)
    BY <1>0, <1>8, <2>2, GotoFields DEF Drain, QuietMove, Keeps
  <2> QED BY <2>1, <2>2
<1>9. CASE WWait(t)
  BY <1>0, <1>9, GotoFields DEF WWait, QuietMove, Keeps
<1>10. CASE WLock(t)
  BY <1>0, <1>10, GotoFields DEF WLock, QuietMove, Keeps
<1>11. CASE SLock(t)
  BY <1>0, <1>11, GotoFields DEF SLock, QuietMove, Keeps
<1>12. CASE BulkEnd(t)
  BY <1>0, <1>12, GotoFields DEF BulkEnd, QuietMove, Keeps
<1> QED BY <1>1, <1>2, <1>3, <1>4, <1>5, <1>6, <1>7, <1>8, <1>9, <1>10, <1>11, <1>12

\* The other threads' part of the invariant when the shared state stays.
LEMMA QuietInv ==
    ASSUME IInv, NEW t \in Threads, QuietMove(t)
    PROVE  IInv'
<1>1. /\ Shape' /\ Others(t) /\ UNCHANGED <<known, heap, ids, keys, delR, delW>>
      /\ th'[t].op = th[t].op /\ th'[t].id = th[t].id /\ th'[t].ptr = th[t].ptr
      /\ th'[t].dead = th[t].dead /\ th'[t].ans = th[t].ans /\ th'[t].todo = th[t].todo
  BY DEF QuietMove, Keeps, Fields
<1>2. Local(t)
  BY DEF IInv, Protocol
<1>3. Local(t)' /\ (Owning(t)' => Owning(t)) /\ (Reads(t)' => Reads(t)) /\ th'[t].pc # "dispose"
  BY <1>1, <1>2 DEF QuietMove, Local, Owning, Reads, Asking, Touching, Inserting, Deleting, AfterTouch, LookupOps
<1>4. Protocol'
  <2>1. \A u \in Threads : u # t => (Local(u)' <=> Local(u))
    BY <1>1 DEF Others, Local
  <2> QED BY <1>3, <2>1 DEF IInv, Protocol
<1>5. /\ \A u \in Threads : Owning(u)' => Owning(u)
      /\ \A u \in Threads : Reads(u)' => Reads(u)
      /\ \A u \in Threads : /\ th'[u].dead = th[u].dead /\ th'[u].ptr = th[u].ptr
                            /\ th'[u].id = th[u].id
  BY <1>1, <1>3 DEF Others, Owning, Reads
<1>6. \A u \in Threads, c \in Cells : Owns(u, c)' => Owns(u, c)
  BY <1>5 DEF Owns
<1>7. Cellular'
  BY <1>1, <1>5, <1>6 DEF IInv, Cellular
<1>8. Protected'
  BY <1>1, <1>3, <1>5 DEF IInv, Protected, Others
<1> QED BY <1>1, <1>4, <1>7, <1>8 DEF IInv

-----------------------------------------------------------------------------
(* Calls, answers and returns.                                             *)

\* The base gets a fact.
LEMMA CommitInv ==
    ASSUME IInv, NEW i \in Ids, Commit(i)
    PROVE  IInv'
<1> USE DEF Commit, index, delLock
<1>1. Shape' BY DEF IInv, Shape
<1>2. Protocol' BY DEF IInv, Protocol, Local
<1>3. Cellular' BY DEF IInv, Cellular, Owns, Owning
<1>4. Protected' BY DEF IInv, Protected, Reads, Owning
<1> QED BY <1>1, <1>2, <1>3, <1>4 DEF IInv

\* A thread gets to a place where it has no cell.
LEMMA SettleInv ==
    ASSUME IInv, NEW t \in Threads, Shape', Others(t), Local(t)',
           UNCHANGED <<known, heap, ids, keys, delW>>, delR' \in {delR, delR \ {t}},
           th'[t].dead = {} \/ th'[t].dead = th[t].dead,
           ~Owning(t)', ~Reads(t)', th'[t].pc # "dispose"
    PROVE  IInv'
<1>1. \A u \in Threads : u # t => /\ th'[u] = th[u]
                                  /\ Owning(u)' <=> Owning(u)
                                  /\ Reads(u)' <=> Reads(u)
                                  /\ Local(u)' <=> Local(u)
  BY OthersStay
<1>2. Protocol'
  BY <1>1 DEF IInv, Protocol
<1>3. \A u \in Threads, c \in Cells : Owns(u, c)' => u # t /\ Owns(u, c)
  BY ZenonT(30), <1>1 DEF Owns
<1>4. Cellular'
  BY <1>1, <1>3 DEF IInv, Cellular
<1>5. Protected'
  BY <1>1 DEF IInv, Protected
<1> QED BY ZenonT(30), <1>2, <1>4, <1>5 DEF IInv

\* A lookup starts from idle and has no answer yet.
LEMMA CallInv ==
    ASSUME IInv, NEW t \in Threads, NEW op \in LookupOps, NEW i \in Ids, Call(t, op, i)
    PROVE  /\ IInv' /\ Others(t) /\ th'[t].pc = "start"
           /\ th'[t].op = op /\ th'[t].id = i /\ th'[t].ans = None
<1>1. th' = [th EXCEPT ![t] = [Idle EXCEPT !.pc = "start", !.op = op, !.id = i]]
  BY DEF Call
<1>2. /\ Shape' /\ Others(t) /\ th'[t].pc = "start" /\ th'[t].op = op /\ th'[t].id = i
      /\ th'[t].ans = None /\ th'[t].dead = {} /\ th'[t].todo = {}
  BY ZenonT(30), <1>1 DEF IInv, Shape, Others, Fields, Idle
<1>3. Local(t)' /\ ~Owning(t)' /\ ~Reads(t)'
  BY <1>2, CacheAssumption
     DEF Local, Owning, Reads, Asking, Touching, Inserting, Deleting, LookupOps
<1> QED BY <1>2, <1>3, SettleInv DEF Call, index, delLock

\* A bulk load (withBulkStore) starts from idle.
LEMMA BulkInv ==
    ASSUME IInv, NEW t \in Threads, NEW todo \in SUBSET Ids, Bulk(t, todo)
    PROVE  IInv' /\ Others(t) /\ th'[t].pc = "insert" /\ th'[t].op = "bulk" /\ th'[t].ans = None
<1>1. th' = [th EXCEPT ![t] = [Idle EXCEPT !.pc = "insert", !.op = "bulk", !.todo = todo]]
  BY DEF Bulk
<1>2. /\ Shape' /\ Others(t) /\ th'[t].pc = "insert" /\ th'[t].op = "bulk"
      /\ th'[t].ans = None /\ th'[t].dead = {} /\ th'[t].todo = todo
  BY ZenonT(30), <1>1 DEF IInv, Shape, Others, Fields, Idle
<1>3. Local(t)' /\ ~Owning(t)' /\ ~Reads(t)'
  BY <1>2, CacheAssumption
     DEF Bulk, Local, Owning, Reads, Asking, Touching, Inserting, Deleting, LookupOps
<1> QED BY <1>2, <1>3, SettleInv DEF Bulk, index, delLock

\* Returning gives back the answer and leaves the thread idle.
LEMMA ReturnInv ==
    ASSUME IInv, NEW t \in Threads, Return(t)
    PROVE  IInv' /\ Others(t) /\ th'[t].pc = "idle" /\ th'[t].op = None /\ th'[t].ans = None
<1>1. th' = [th EXCEPT ![t] = Idle]
  BY DEF Return
<1>2. /\ Shape' /\ Others(t) /\ th'[t].pc = "idle" /\ th'[t].op = None
      /\ th'[t].ans = None /\ th'[t].dead = {} /\ th'[t].todo = {}
  BY ZenonT(30), <1>1 DEF IInv, Shape, Others, Fields, Idle
<1>3. Local(t)' /\ ~Owning(t)' /\ ~Reads(t)'
  BY <1>2, CacheAssumption
     DEF Return, Local, Owning, Reads, Asking, Touching, Inserting, Deleting, LookupOps
<1> QED BY <1>2, <1>3, SettleInv DEF Return, index, delLock

\* A hit.
LEMMA HitInv ==
    ASSUME IInv, NEW t \in Threads, Hit(t)
    PROVE  /\ IInv' /\ Others(t) /\ th'[t].op = th[t].op /\ th'[t].id = th[t].id
           /\ th[t].op \in LookupOps /\ th[t].ans = None /\ UNCHANGED known
           /\ IF th[t].op = "factById" THEN th'[t].ans = None
              ELSE th'[t].ans = th[t].id /\ th[t].id \in known
           /\ th'[t].pc = "touch" /\ th'[t].ptr \in ids
<1> USE DEF index, delLock
<1>1. PICK c \in Hits(th[t].op, th[t].id) :
        IF th[t].op = "factById"
        THEN /\ delW = None /\ delR' = delR \cup {t}
             /\ th' = [th EXCEPT ![t].pc = "touch", ![t].ptr = c]
        ELSE /\ th' = [th EXCEPT ![t].pc = "touch", ![t].ptr = c, ![t].ans = heap[c].id]
             /\ UNCHANGED delR
  BY ZenonT(30) DEF Hit
<1>2. /\ th[t].pc = "find" /\ UNCHANGED <<known, heap, ids, keys, delW>>
  BY DEF Hit, At
<1>3. /\ c \in ids /\ heap[c].id = th[t].id /\ (th[t].op = "factById" => heap[c].tag = "FULL")
  BY DEF Hits, IInv, Cellular
<1>4. /\ c \in Cells /\ heap[c] \in [id : Ids, tag : Tags] /\ heap[c].id \in known
  BY ZenonT(30), <1>3 DEF IInv, Cellular
<1>5. Local(t) /\ th[t].op \in LookupOps /\ th[t].id \in Ids /\ th[t].ans = None
  BY ZenonT(30), <1>2 DEF IInv, Protocol, Local, Asking
<1>6. /\ Shape' /\ Others(t) /\ Keeps(t, {"pc", "ptr", "ans"})
      /\ th'[t].pc = "touch" /\ th'[t].ptr = c
      /\ th'[t].ans = IF th[t].op = "factById" THEN None ELSE heap[c].id
  <2>1. CASE th[t].op = "factById"
    <3>1. th' = [th EXCEPT ![t].pc = "touch", ![t].ptr = c] BY <1>1, <2>1
    <3> QED BY ZenonT(30), <1>5, <2>1, <3>1 DEF IInv, Shape, Others, Fields, Keeps
  <2>2. CASE th[t].op # "factById"
    <3>1. th' = [th EXCEPT ![t].pc = "touch", ![t].ptr = c, ![t].ans = heap[c].id] BY <1>1, <2>2
    <3> QED BY <2>2, <3>1 DEF IInv, Shape, Others, Fields, Keeps
  <2> QED BY <2>1, <2>2
<1>7. /\ th'[t].op = th[t].op /\ th'[t].id = th[t].id /\ th'[t].dead = th[t].dead
      /\ th'[t].todo = th[t].todo
  BY ZenonT(30), <1>6 DEF Keeps, Fields
<1>8. Local(t)'
  BY ZenonT(30), <1>2, <1>3, <1>5, <1>6, <1>7, CacheAssumption
     DEF Local, Asking, Touching, Inserting, Deleting, LookupOps
<1>9. \A u \in Threads : u # t => /\ th'[u] = th[u]
                                  /\ Owning(u)' <=> Owning(u)
                                  /\ Reads(u)' <=> Reads(u)
                                  /\ Local(u)' <=> Local(u)
  BY ZenonT(30), <1>2, <1>6, OthersStay
<1>10. Protocol'
  BY <1>8, <1>9 DEF IInv, Protocol
<1>11. ~Owning(t)'
  BY <1>6 DEF Owning
<1>12. \A u \in Threads, d \in Cells : Owns(u, d)' => u # t /\ Owns(u, d)
  BY <1>9, <1>11 DEF Owns
<1>13. Cellular'
  <2>1. \A u \in Threads : th'[u].dead = th[u].dead
    BY <1>7, <1>9
  <2>2. \A u \in Threads : Owning(u)' => u # t /\ Owning(u)
    BY <1>9, <1>11
  <2> QED BY ZenonT(30), <1>2, <1>9, <1>12, <2>1, <2>2 DEF IInv, Cellular
<1>14. \A u \in Threads : Owning(u) => th[u].ptr # c
  BY <1>3, <1>4 DEF IInv, Cellular, Owns
<1>15. th[t].op = "factById" => heap[c] = [id |-> th[t].id, tag |-> "FULL"]
  BY <1>3, <1>4
<1>16. Protected'
  <2>1. delW' # None => delR' = {}
    BY ZenonT(30), <1>1, <1>2 DEF IInv, Protected
  <2>2. \A u \in Threads : th'[u].pc = "dispose" => delW' = u
    BY <1>2, <1>6, <1>9 DEF IInv, Protected
  <2>3. delR \in SUBSET delR'
    BY ZenonT(30), <1>1
  <2>4. ASSUME NEW u \in Threads, Reads(u)'
        PROVE  /\ u \in delR' /\ th'[u].ptr \in Cells
               /\ heap'[th'[u].ptr] = [id |-> th'[u].id, tag |-> "FULL"]
               /\ \A v \in Threads : Owning(v)' => th'[v].ptr # th'[u].ptr
    <3>1. CASE u = t
      <4>1. th[t].op = "factById"
        BY <1>7, <2>4, <3>1 DEF Reads
      <4> QED BY <1>1, <1>2, <1>4, <1>6, <1>7, <1>9, <1>11, <1>14, <1>15, <3>1, <4>1
    <3>2. CASE u # t
      <4>1. /\ u \in delR /\ th[u].ptr \in Cells
            /\ heap[th[u].ptr] = [id |-> th[u].id, tag |-> "FULL"]
            /\ \A v \in Threads : Owning(v) => th[v].ptr # th[u].ptr
        BY <1>9, <2>4, <3>2 DEF IInv, Protected
      <4> QED BY ZenonT(30), <1>2, <1>9, <1>11, <2>3, <3>2, <4>1
    <3> QED BY <3>1, <3>2
  <2> QED BY <2>1, <2>2, <2>4 DEF Protected
<1> QED BY <1>2, <1>3, <1>4, <1>5, <1>6, <1>7, <1>10, <1>13, <1>16 DEF IInv

\* The callback reads what was found, whatever happened since.
LEMMA CallbackInv ==
    ASSUME IInv, NEW t \in Threads, Callback(t)
    PROVE  /\ IInv' /\ Others(t) /\ th'[t].op = th[t].op /\ th'[t].id = th[t].id
           /\ th[t].op \in LookupOps /\ th[t].ans = None /\ UNCHANGED known
           /\ th'[t].ans = th[t].id /\ th[t].id \in known /\ th'[t].pc = "return"
<1> USE DEF index, delLock
<1>1. /\ th[t].pc = "callback" /\ UNCHANGED <<known, heap, ids, keys, delW>> /\ delR' = delR \ {t}
      /\ th' = [th EXCEPT ![t].pc = "return", ![t].ans = FullFact(th[t].ptr)]
  BY DEF Callback, At
<1>2. Local(t) /\ th[t].op = "factById" /\ th[t].id \in Ids /\ th[t].ans = None
  BY <1>1 DEF IInv, Protocol, Local, LookupOps
<1>3. heap[th[t].ptr] = [id |-> th[t].id, tag |-> "FULL"] /\ th[t].ptr \in Cells
  BY <1>1, <1>2 DEF IInv, Protected, Reads
<1>4. heap[th[t].ptr] # None /\ heap[th[t].ptr].id = th[t].id /\ heap[th[t].ptr].tag = "FULL"
  <2>1. heap[th[t].ptr] \in [id : Ids, tag : Tags]
    BY <1>2, <1>3 DEF Tags
  <2> QED BY <1>3, <2>1, CacheAssumption
<1>5. FullFact(th[t].ptr) = th[t].id /\ th[t].id \in known
  BY <1>3, <1>4 DEF FullFact, IInv, Cellular
<1>6. /\ Shape' /\ Others(t) /\ Keeps(t, {"pc", "ans"})
      /\ th'[t].pc = "return" /\ th'[t].ans = th[t].id
  BY ZenonT(30), <1>1, <1>5 DEF IInv, Shape, Others, Fields, Keeps
<1>7. /\ th'[t].op = th[t].op /\ th'[t].id = th[t].id /\ th'[t].dead = th[t].dead
      /\ th'[t].todo = th[t].todo
  BY <1>6 DEF Keeps, Fields
<1>8. Local(t)' /\ ~Owning(t)' /\ ~Reads(t)'
  BY ZenonT(30), <1>1, <1>2, <1>6, <1>7, CacheAssumption
     DEF Local, Owning, Reads, Asking, Touching, Inserting, Deleting, LookupOps
<1>9. IInv'
  <2>1. UNCHANGED <<known, heap, ids, keys, delW>> /\ delR' \in {delR, delR \ {t}}
    BY <1>1
  <2> QED BY <1>6, <1>7, <1>8, <2>1, SettleInv
<1> QED BY <1>1, <1>2, <1>5, <1>6, <1>7, <1>9 DEF LookupOps

-----------------------------------------------------------------------------
(* Allocation.                                                             *)

\* A thread puts a fact into a free cell.
LEMMA AllocateInv ==
    ASSUME IInv, NEW t \in Threads, Shape', Others(t), Local(t)',
           UNCHANGED <<known, ids, keys, delR, delW>>,
           NEW c \in Cells, heap[c] = None,
           NEW f \in [id : Ids, tag : Tags], f.id \in known, heap' = [heap EXCEPT ![c] = f],
           th'[t].ptr = c, th'[t].dead = th[t].dead, ~Reads(t)', th'[t].pc # "dispose"
    PROVE  IInv'
<1>1. \A u \in Threads : u # t => /\ th'[u] = th[u]
                                  /\ Owning(u)' <=> Owning(u)
                                  /\ Reads(u)' <=> Reads(u)
                                  /\ Local(u)' <=> Local(u)
  BY OthersStay
<1>2. Protocol'
  BY <1>1 DEF IInv, Protocol
<1>3. /\ heap \in [Cells -> [id : Ids, tag : Tags] \cup {None}] /\ c \notin ids
      /\ \A u \in Threads : ~Owns(u, c) /\ c \notin th[u].dead
  BY DEF IInv, Cellular
<1>4. /\ heap' \in [Cells -> [id : Ids, tag : Tags] \cup {None}] /\ heap'[c] = f /\ f # None
      /\ \A d \in Cells : d # c => heap'[d] = heap[d]
  BY <1>3, CacheAssumption
<1>5. \A u \in Threads, d \in Cells : Owns(u, d)' => (u = t /\ d = c) \/ (u # t /\ Owns(u, d) /\ d # c)
  BY <1>1, <1>3 DEF Owns
<1>6. \A u \in Threads : th'[u].dead = th[u].dead
  BY ZenonT(30), <1>1
<1>7. Cellular'
  <2>1. \A d \in Cells : heap'[d] # None => heap'[d].id \in known
    BY ZenonT(30), <1>4 DEF IInv, Cellular
  <2>2. \A d \in ids : heap'[d] # None
    BY ZenonT(30), <1>3, <1>4 DEF IInv, Cellular
  <2>3. \A u \in Threads, d \in Cells : Owns(u, d)' => heap'[d] # None /\ d \notin ids
    BY ZenonT(30), <1>3, <1>4, <1>5 DEF IInv, Cellular
  <2>4. \A u \in Threads : \A d \in th[u].dead : heap'[d] # None /\ d \notin ids
    BY <1>3, <1>4 DEF IInv, Cellular
  <2>5. \A u, v \in Threads : \A d \in Cells : Owns(u, d)' /\ Owns(v, d)' => u = v
    BY ZenonT(30), <1>5 DEF IInv, Cellular
  <2>6. \A u, v \in Threads : \A d \in th[u].dead : ~Owns(v, d)'
    BY ZenonT(30), <1>3, <1>5 DEF IInv, Cellular
  <2>7. \A u \in Threads : Owning(u)' => th'[u].ptr \in Cells
    BY ZenonT(30), <1>1 DEF IInv, Cellular
  <2> QED BY <1>4, <1>6, <2>1, <2>2, <2>3, <2>4, <2>5, <2>6, <2>7 DEF IInv, Cellular
<1>8. Protected'
  <2>1. \A u \in Threads : Reads(u) => th[u].ptr # c
    <3>1. \A u \in Threads : Reads(u) => heap[th[u].ptr] = [id |-> th[u].id, tag |-> "FULL"]
      BY ZenonT(30) DEF IInv, Protected
    <3>2. \A u \in Threads : Reads(u) => th[u].id \in Ids
      BY DEF IInv, Protocol, Local, Reads, LookupOps
    <3>3. \A i \in Ids : [id |-> i, tag |-> "FULL"] # None
      BY CacheAssumption DEF Tags
    <3> QED BY ZenonT(30), <3>1, <3>2, <3>3
  <2> QED BY <1>1, <1>4, <2>1 DEF IInv, Protected
<1> QED BY <1>2, <1>7, <1>8 DEF IInv

\* A miss asks the base: the answer is what the base knows, and a fact found is
\* cloned into a cell that only this thread has.
LEMMA AskBaseInv ==
    ASSUME IInv, NEW t \in Threads, AskBase(t)
    PROVE  /\ IInv' /\ Others(t) /\ th'[t].op = th[t].op /\ th'[t].id = th[t].id
           /\ th[t].op \in LookupOps /\ th[t].ans = None /\ UNCHANGED known
           /\ th'[t].ans = IF th[t].id \in known THEN th[t].id ELSE Missing
           /\ th'[t].pc \in {"insert", "return"} /\ SameFacts
<1> USE DEF index, delLock
<1>1. th[t].pc = "base" /\ UNCHANGED <<known, ids, keys, delR, delW>>
  BY ZenonT(30) DEF AskBase, At
<1>2. Local(t) /\ th[t].op \in LookupOps /\ th[t].id \in Ids /\ th[t].ans = None
  BY ZenonT(30), <1>1 DEF IInv, Protocol, Local, Asking
<1>3. CASE th[t].id \in known
  <2>1. PICK c \in Cells :
          /\ heap[c] = None
          /\ heap' = [heap EXCEPT ![c] = [id |-> th[t].id, tag |-> TagOf(th[t].op)]]
          /\ th' = [th EXCEPT ![t].pc = "insert", ![t].ptr = c, ![t].ans = th[t].id]
    BY ZenonT(30), <1>3 DEF AskBase
  <2>2. /\ Shape' /\ Others(t) /\ Keeps(t, {"pc", "ptr", "ans"})
        /\ th'[t].pc = "insert" /\ th'[t].ptr = c /\ th'[t].ans = th[t].id
    BY ZenonT(30), <2>1 DEF IInv, Shape, Others, Fields, Keeps
  <2>3. /\ th'[t].op = th[t].op /\ th'[t].id = th[t].id /\ th'[t].dead = th[t].dead
        /\ th'[t].todo = th[t].todo
    BY <2>2 DEF Keeps, Fields
  <2>4. Local(t)' /\ ~Reads(t)'
    BY <1>1, <1>2, <2>2, <2>3, CacheAssumption
       DEF Local, Reads, Asking, Touching, Inserting, Deleting, LookupOps
  <2> DEFINE f == [id |-> th[t].id, tag |-> TagOf(th[t].op)]
  <2>5. f \in [id : Ids, tag : Tags] /\ f.id \in known
    BY <1>2, <1>3 DEF TagOf, Tags, LookupOps
  <2>6. heap' = [heap EXCEPT ![c] = f]
    BY <2>1
  <2> HIDE DEF f
  <2>7. IInv'
    BY ZenonT(30), <1>1, <2>1, <2>2, <2>3, <2>4, <2>5, <2>6, AllocateInv
  <2>8. SameFacts
    BY <2>1 DEF SameFacts, IInv, Cellular
  <2> QED BY <1>1, <1>2, <1>3, <2>2, <2>3, <2>7, <2>8
<1>4. CASE th[t].id \notin known
  <2>1. th' = [th EXCEPT ![t].pc = "return", ![t].ans = Missing] /\ UNCHANGED heap
    BY <1>4 DEF AskBase
  <2>2. /\ Shape' /\ Others(t) /\ Keeps(t, {"pc", "ans"})
        /\ th'[t].pc = "return" /\ th'[t].ans = Missing
    BY ZenonT(30), <2>1 DEF IInv, Shape, Others, Fields, Keeps
  <2>3. /\ th'[t].op = th[t].op /\ th'[t].id = th[t].id /\ th'[t].dead = th[t].dead
        /\ th'[t].todo = th[t].todo
    BY <2>2 DEF Keeps, Fields
  <2>4. Local(t)' /\ ~Reads(t)' /\ ~Owning(t)'
    BY ZenonT(30), <1>1, <1>2, <2>2, <2>3, CacheAssumption
       DEF Local, Reads, Owning, Asking, Touching, Inserting, Deleting, LookupOps
  <2>5. IInv'
    BY ZenonT(30), <1>1, <2>1, <2>2, <2>3, <2>4, SettleInv
  <2> QED BY <1>1, <1>2, <1>4, <2>1, <2>2, <2>3, <2>5 DEF SameFacts
<1> QED BY <1>3, <1>4

\* The bulk load clones the next fact into a cell of its own.
LEMMA BulkInsertInv ==
    ASSUME IInv, NEW t \in Threads, BulkInsert(t)
    PROVE  /\ IInv' /\ Others(t) /\ Keeps(t, {"pc", "ptr", "todo"}) /\ UNCHANGED known
           /\ th'[t].pc = "insertOne" /\ SameFacts
<1> USE DEF index, delLock
<1>1. th[t].pc = "bulk" /\ UNCHANGED <<known, ids, keys, delR, delW>>
  BY ZenonT(30) DEF BulkInsert, At
<1>2. Local(t) /\ th[t].op = "bulk" /\ th[t].ans = None /\ th[t].todo \in SUBSET known
  BY <1>1 DEF IInv, Protocol, Local, LookupOps
<1>3. PICK i \in th[t].todo, c \in Cells :
        /\ heap[c] = None
        /\ heap' = [heap EXCEPT ![c] = [id |-> i, tag |-> "FULL"]]
        /\ th' = [th EXCEPT ![t].pc = "insertOne", ![t].ptr = c, ![t].todo = @ \ {i}]
  BY ZenonT(30) DEF BulkInsert
<1>4. /\ Shape' /\ Others(t) /\ Keeps(t, {"pc", "ptr", "todo"})
      /\ th'[t].pc = "insertOne" /\ th'[t].ptr = c /\ th'[t].todo = th[t].todo \ {i}
  BY ZenonT(30), <1>3 DEF IInv, Shape, Others, Fields, Keeps
<1>5. /\ th'[t].op = th[t].op /\ th'[t].id = th[t].id /\ th'[t].dead = th[t].dead
      /\ th'[t].ans = th[t].ans
  BY <1>4 DEF Keeps, Fields
<1>6. Local(t)' /\ ~Reads(t)'
  BY ZenonT(30), <1>1, <1>2, <1>4, <1>5, CacheAssumption
     DEF Local, Reads, Asking, Touching, Inserting, Deleting, LookupOps
<1> DEFINE f == [id |-> i, tag |-> "FULL"]
<1>7. f \in [id : Ids, tag : Tags] /\ f.id \in known
  BY ZenonT(30), <1>2 DEF Tags, IInv, Cellular
<1>8. heap' = [heap EXCEPT ![c] = f]
  BY <1>3
<1> HIDE DEF f
<1>9. IInv'
  BY ZenonT(30), <1>1, <1>3, <1>4, <1>5, <1>6, <1>7, <1>8, AllocateInv
<1>10. SameFacts
  BY <1>3 DEF SameFacts, IInv, Cellular
<1> QED BY <1>1, <1>4, <1>9, <1>10

-----------------------------------------------------------------------------
(* Insertion and freeing.                                                  *)

\* A thread frees cells that nobody else can reach.
LEMMA FreeInv ==
    ASSUME IInv, NEW t \in Threads, Shape', Others(t), Local(t)',
           UNCHANGED <<known, ids, keys, delR>>,
           delW' = delW \/ (delW' = None /\ th[t].pc = "dispose"),
           NEW F \in SUBSET Cells, heap' = [d \in Cells |-> IF d \in F THEN None ELSE heap[d]],
           F \cap ids = {}, \A u \in Threads : F \cap th'[u].dead = {},
           \A u \in Threads : u # t /\ Owning(u) => th[u].ptr \notin F,
           \A u \in Threads : Reads(u) => th[u].ptr \notin F,
           th'[t].dead \in {{}, th[t].dead}, ~Owning(t)', ~Reads(t)', th'[t].pc # "dispose"
    PROVE  IInv'
<1>1. \A u \in Threads : u # t => /\ th'[u] = th[u]
                                  /\ Owning(u)' <=> Owning(u)
                                  /\ Reads(u)' <=> Reads(u)
                                  /\ Local(u)' <=> Local(u)
  BY ZenonT(30), OthersStay
<1>2. Protocol'
  BY ZenonT(30), <1>1 DEF IInv, Protocol
<1>3. /\ heap' \in [Cells -> [id : Ids, tag : Tags] \cup {None}]
      /\ \A d \in Cells : heap'[d] = IF d \in F THEN None ELSE heap[d]
  BY DEF IInv, Cellular
<1>4. \A u \in Threads, d \in Cells : Owns(u, d)' => u # t /\ Owns(u, d) /\ d \notin F
  BY ZenonT(30), <1>1 DEF Owns
<1>5. \A u \in Threads : th'[u].dead \in {{}, th[u].dead}
  BY <1>1
<1>6. Cellular'
  <2>1. \A d \in Cells : heap'[d] # None => heap'[d].id \in known
    BY ZenonT(30), <1>3 DEF IInv, Cellular
  <2>2. \A d \in ids : heap'[d] # None
    BY ZenonT(30), <1>3 DEF IInv, Cellular
  <2>3. \A u \in Threads, d \in Cells : Owns(u, d)' => heap'[d] # None /\ d \notin ids
    BY ZenonT(30), <1>3, <1>4 DEF IInv, Cellular
  <2>4. \A u \in Threads : \A d \in th'[u].dead : heap'[d] # None /\ d \notin ids
    <3> SUFFICES ASSUME NEW u \in Threads, NEW d \in th'[u].dead
                 PROVE  heap'[d] # None /\ d \notin ids
      OBVIOUS
    <3>1. d \in th[u].dead /\ d \notin F BY ZenonT(30), <1>5
    <3>2. d \in Cells /\ heap[d] # None /\ d \notin ids BY <3>1 DEF IInv, Cellular
    <3> QED BY <1>3, <3>1, <3>2
  <2>5. \A u, v \in Threads : \A d \in Cells : Owns(u, d)' /\ Owns(v, d)' => u = v
    BY ZenonT(30), <1>4 DEF IInv, Cellular
  <2>6. \A u, v \in Threads : \A d \in th'[u].dead : ~Owns(v, d)'
    BY ZenonT(30), <1>4, <1>5 DEF IInv, Cellular
  <2>7. \A u \in Threads : Owning(u)' => th'[u].ptr \in Cells
    BY ZenonT(30), <1>1 DEF IInv, Cellular
  <2>8. /\ \A u \in Threads : th'[u].dead \in SUBSET Cells
        /\ \A u, v \in Threads : th'[u].dead \cap th'[v].dead # {} => u = v
    BY ZenonT(30), <1>5 DEF IInv, Cellular
  <2> QED BY ZenonT(30), <1>3, <2>1, <2>2, <2>3, <2>4, <2>5, <2>6, <2>7, <2>8 DEF IInv, Cellular
<1>7. Protected'
  <2>1. delW' # None => delR' = {}
    BY ZenonT(30) DEF IInv, Protected
  <2>2. \A u \in Threads : th'[u].pc = "dispose" => delW' = u
    BY ZenonT(30), <1>1 DEF IInv, Protected
  <2>3. \A u \in Threads : Reads(u)' => u # t /\ Reads(u)
    BY ZenonT(30), <1>1
  <2>4. ASSUME NEW u \in Threads, Reads(u)'
        PROVE  /\ u \in delR' /\ th'[u].ptr \in Cells
               /\ heap'[th'[u].ptr] = [id |-> th'[u].id, tag |-> "FULL"]
               /\ \A v \in Threads : Owning(v)' => th'[v].ptr # th'[u].ptr
    <3>1. u # t /\ Reads(u) /\ th'[u] = th[u] BY ZenonT(30), <1>1, <2>3, <2>4
    <3>2. /\ u \in delR /\ th[u].ptr \in Cells /\ th[u].ptr \notin F
          /\ heap[th[u].ptr] = [id |-> th[u].id, tag |-> "FULL"]
          /\ \A v \in Threads : Owning(v) => th[v].ptr # th[u].ptr
      BY ZenonT(30), <3>1 DEF IInv, Protected
    <3>3. heap'[th[u].ptr] = heap[th[u].ptr] BY ZenonT(30), <1>3, <3>2
    <3>4. \A v \in Threads : Owning(v)' => Owning(v) /\ th'[v] = th[v] BY ZenonT(30), <1>1
    <3> QED BY ZenonT(30), <3>1, <3>2, <3>3, <3>4
  <2> QED BY ZenonT(30), <2>1, <2>2, <2>4 DEF Protected
<1> QED BY ZenonT(30), <1>2, <1>6, <1>7 DEF IInv

\* A fact that is there already or does not fit is freed by the thread that cloned it.
LEMMA InsertRefusedInv ==
    ASSUME IInv, NEW t \in Threads, InsertRefused(t)
    PROVE  /\ IInv' /\ Others(t) /\ Keeps(t, {"pc"}) /\ UNCHANGED known
           /\ th'[t].pc = (IF th[t].op = "bulk" THEN "bulk" ELSE "return") /\ SameFacts
<1> USE DEF index, delLock
<1>1. /\ th[t].pc = "insertOne" /\ UNCHANGED <<known, ids, keys, delR, delW>>
      /\ heap' = [heap EXCEPT ![th[t].ptr] = None]
  BY ZenonT(30) DEF InsertRefused, At
<1>2. Goto(t, IF th[t].op = "bulk" THEN "bulk" ELSE "return")
  BY DEF InsertRefused
<1>3. /\ Shape' /\ Others(t) /\ Keeps(t, {"pc"})
      /\ th'[t].pc = IF th[t].op = "bulk" THEN "bulk" ELSE "return"
  BY <1>2, GotoFields DEF IInv
<1>4. /\ th'[t].op = th[t].op /\ th'[t].id = th[t].id /\ th'[t].dead = th[t].dead
      /\ th'[t].ans = th[t].ans /\ th'[t].todo = th[t].todo
  BY <1>3 DEF Keeps, Fields
<1>5. Local(t)' /\ ~Reads(t)' /\ ~Owning(t)'
  <2>1. Local(t) BY DEF IInv, Protocol
  <2> QED BY ZenonT(30), <1>1, <1>3, <1>4, <2>1
          DEF Local, Reads, Owning, Asking, Touching, Inserting, Deleting, LookupOps
<1> DEFINE c == th[t].ptr
<1>6. Owns(t, c) /\ c \in Cells
  BY ZenonT(30), <1>1 DEF Owns, Owning, IInv, Cellular
<1>7. /\ {c} \in SUBSET Cells /\ {c} \cap ids = {}
      /\ heap' = [d \in Cells |-> IF d \in {c} THEN None ELSE heap[d]]
  BY ZenonT(30), <1>1, <1>6 DEF IInv, Cellular
<1>8. \A u \in Threads : {c} \cap th'[u].dead = {}
  <2>1. \A u \in Threads : c \notin th[u].dead
    BY <1>6 DEF IInv, Cellular
  <2> QED BY <1>3, <1>4, <2>1 DEF Others
<1>9. \A u \in Threads : u # t /\ Owning(u) => th[u].ptr \notin {c}
  BY <1>6 DEF IInv, Cellular, Owns
<1>10. \A u \in Threads : Reads(u) => th[u].ptr \notin {c}
  BY ZenonT(30), <1>6 DEF IInv, Protected, Owns
<1> HIDE DEF c
<1>11. IInv'
  BY ZenonT(30), <1>1, <1>3, <1>4, <1>5, <1>7, <1>8, <1>9, <1>10, FreeInv
<1>12. SameFacts
  BY ZenonT(30), <1>7 DEF SameFacts, IInv, Cellular
<1> QED BY <1>1, <1>3, <1>11, <1>12

\* Freeing the evicted facts under delete_lock frees no fact that a callback reads.
LEMMA DisposeInv ==
    ASSUME IInv, NEW t \in Threads, Dispose(t)
    PROVE  /\ IInv' /\ Others(t) /\ Keeps(t, {"pc", "dead"}) /\ UNCHANGED known
           /\ th'[t].pc = (IF th[t].op = "bulk" THEN "bulk" ELSE "return") /\ SameFacts
<1> USE DEF index, delLock
<1>1. /\ th[t].pc = "dispose" /\ UNCHANGED <<known, ids, keys, delR>> /\ delW' = None
      /\ heap' = [d \in Cells |-> IF d \in th[t].dead THEN None ELSE heap[d]]
  BY DEF Dispose, At
<1>2. th' = [th EXCEPT ![t].pc = IF th[t].op = "bulk" THEN "bulk" ELSE "return", ![t].dead = {}]
  BY DEF Dispose
<1>3. /\ Shape' /\ Others(t) /\ Keeps(t, {"pc", "dead"}) /\ th'[t].dead = {}
      /\ th'[t].pc = IF th[t].op = "bulk" THEN "bulk" ELSE "return"
  BY ZenonT(30), <1>2 DEF IInv, Shape, Others, Fields, Keeps
<1>4. /\ th'[t].op = th[t].op /\ th'[t].id = th[t].id
      /\ th'[t].ans = th[t].ans /\ th'[t].todo = th[t].todo
  BY <1>3 DEF Keeps, Fields
<1>5. Local(t)' /\ ~Reads(t)' /\ ~Owning(t)'
  <2>1. Local(t) BY DEF IInv, Protocol
  <2> QED BY ZenonT(30), <1>1, <1>3, <1>4, <2>1
          DEF Local, Reads, Owning, Asking, Touching, Inserting, Deleting, LookupOps
<1> DEFINE F == th[t].dead
<1>6. F \in SUBSET Cells /\ F \cap ids = {}
  BY ZenonT(30) DEF IInv, Cellular
<1>7. \A u \in Threads : F \cap th'[u].dead = {}
  <2>1. \A u \in Threads : u # t => F \cap th[u].dead = {}
    BY DEF IInv, Cellular
  <2> QED BY ZenonT(30), <1>3, <2>1 DEF Others
<1>8. \A u \in Threads : u # t /\ Owning(u) => th[u].ptr \notin F
  BY DEF IInv, Cellular, Owns
<1>9. \A u \in Threads : ~Reads(u)
  BY ZenonT(30), <1>1, CacheAssumption DEF IInv, Protected
<1>10. heap' = [d \in Cells |-> IF d \in F THEN None ELSE heap[d]]
  BY ZenonT(30), <1>1
<1> HIDE DEF F
<1>11. IInv'
  BY ZenonT(30), <1>1, <1>3, <1>5, <1>6, <1>7, <1>8, <1>9, <1>10, FreeInv
<1>12. SameFacts
  BY ZenonT(30), <1>6, <1>10 DEF SameFacts, IInv, Cellular
<1> QED BY <1>1, <1>3, <1>11, <1>12

\* delete_lock is taken for the evicted facts when no callback holds it shared.
LEMMA DLockInv ==
    ASSUME IInv, NEW t \in Threads, DLock(t)
    PROVE  IInv' /\ Others(t) /\ Keeps(t, {"pc"}) /\ UNCHANGED known /\ th'[t].pc = "dispose"
<1> USE DEF index, delLock
<1>1. /\ th[t].pc = "dlock" /\ UNCHANGED <<known, heap, ids, keys, delR>>
      /\ delR = {} /\ delW = None /\ delW' = t /\ Goto(t, "dispose")
  BY DEF DLock, At
<1>2. Shape' /\ Others(t) /\ Keeps(t, {"pc"}) /\ th'[t].pc = "dispose"
  BY <1>1, GotoFields DEF IInv
<1>3. /\ th'[t].op = th[t].op /\ th'[t].id = th[t].id /\ th'[t].dead = th[t].dead
      /\ th'[t].ans = th[t].ans /\ th'[t].todo = th[t].todo
  BY ZenonT(30), <1>2 DEF Keeps, Fields
<1>4. Local(t)' /\ ~Reads(t)' /\ ~Owning(t)'
  <2>1. Local(t) BY DEF IInv, Protocol
  <2> QED BY <1>1, <1>2, <1>3, <2>1
          DEF Local, Reads, Owning, Asking, Touching, Inserting, Deleting, LookupOps
<1>5. \A u \in Threads : u # t => /\ th'[u] = th[u]
                                  /\ Owning(u)' <=> Owning(u)
                                  /\ Reads(u)' <=> Reads(u)
                                  /\ Local(u)' <=> Local(u)
  BY ZenonT(30), <1>1, <1>2, OthersStay
<1>6. Protocol'
  BY <1>4, <1>5 DEF IInv, Protocol
<1>7. \A u \in Threads, d \in Cells : Owns(u, d)' => u # t /\ Owns(u, d)
  BY <1>4, <1>5 DEF Owns
<1>8. Cellular'
  <2>1. UNCHANGED <<known, heap, ids, keys>> BY <1>1
  <2>2. \A u \in Threads : th'[u].dead = th[u].dead BY <1>3, <1>5
  <2> QED BY ZenonT(30), <1>4, <1>5, <1>7, <2>1, <2>2 DEF IInv, Cellular
<1>9. Protected'
  <2>1. \A u \in Threads : ~Reads(u)'
    BY ZenonT(30), <1>1, <1>4, <1>5 DEF IInv, Protected
  <2>2. \A u \in Threads : th'[u].pc = "dispose" => u = t
    BY <1>1, <1>5, CacheAssumption DEF IInv, Protected
  <2>3. delR' = {} /\ delW' = t BY <1>1
  <2> QED BY ZenonT(30), <2>1, <2>2, <2>3 DEF Protected
<1> QED BY ZenonT(30), <1>1, <1>2, <1>6, <1>8, <1>9 DEF IInv

\* The thread gives its cell to the index, which lets go of others: those that it
\* replaces and those that are evicted.
LEMMA InsertInv ==
    ASSUME IInv, NEW t \in Threads, Insert(t)
    PROVE  /\ IInv' /\ Others(t) /\ Keeps(t, {"pc", "dead"}) /\ UNCHANGED known
           /\ th'[t].pc \in {"dlock", IF th[t].op = "bulk" THEN "bulk" ELSE "return"}
<1> USE DEF index, delLock
<1> DEFINE c == th[t].ptr
<1>1. th[t].pc = "insertOne" /\ UNCHANGED <<known, heap, delR, delW>>
  BY DEF Insert, At
<1>2. \E gone, new : /\ ids' = (ids \ gone) \cup {c} /\ new \in {{}, {c}}
                     /\ keys' = (keys \ gone) \cup new
  BY ZenonT(30) DEF Insert, InsertOne, Store
<1>3. Owns(t, c) /\ c \in Cells
  BY <1>1 DEF Owns, Owning, IInv, Cellular
<1>4. /\ ids' \in SUBSET Cells /\ keys' \in SUBSET ids' /\ ids' \in SUBSET (ids \cup {c})
  BY ZenonT(30), <1>2, <1>3 DEF IInv, Cellular
<1>5. \/ th' = [th EXCEPT ![t].pc = "dlock", ![t].dead = ids \ ids']
      \/ th' = [th EXCEPT ![t].pc = IF th[t].op = "bulk" THEN "bulk" ELSE "return"]
  BY DEF Insert, Goto
<1>6. /\ Shape' /\ Others(t) /\ Keeps(t, {"pc", "dead"})
      /\ \/ th'[t].dead = ids \ ids' /\ th'[t].pc = "dlock"
         \/ th'[t].dead = th[t].dead /\ th'[t].pc = IF th[t].op = "bulk" THEN "bulk" ELSE "return"
  <2>1. CASE th' = [th EXCEPT ![t].pc = "dlock", ![t].dead = ids \ ids']
    <3> DEFINE D == ids \ ids'
    <3>1. th' = [th EXCEPT ![t].pc = "dlock", ![t].dead = D] BY <2>1
    <3> HIDE DEF D
    <3>2. /\ Shape' /\ Others(t) /\ Keeps(t, {"pc", "dead"})
          /\ th'[t].dead = D /\ th'[t].pc = "dlock"
      BY ZenonT(30), <3>1 DEF IInv, Shape, Others, Fields, Keeps
    <3> QED BY <3>2 DEF D
  <2>2. CASE th' = [th EXCEPT ![t].pc = IF th[t].op = "bulk" THEN "bulk" ELSE "return"]
    <3> DEFINE label == IF th[t].op = "bulk" THEN "bulk" ELSE "return"
    <3>1. Goto(t, label) BY <2>2 DEF Goto
    <3> HIDE DEF label
    <3>2. Shape' /\ Others(t) /\ Keeps(t, {"pc"}) /\ th'[t].pc = label
      BY <3>1, GotoFields DEF IInv
    <3> QED BY <3>2 DEF Keeps, Fields, label
  <2> QED BY ZenonT(30), <1>5, <2>1, <2>2
<1>7. /\ th'[t].op = th[t].op /\ th'[t].id = th[t].id
      /\ th'[t].ans = th[t].ans /\ th'[t].todo = th[t].todo
  BY <1>6 DEF Keeps, Fields
<1>8. Local(t)' /\ ~Reads(t)' /\ ~Owning(t)' /\ th'[t].pc # "dispose"
  <2>1. Local(t) BY DEF IInv, Protocol
  <2> QED BY ZenonT(30), <1>1, <1>6, <1>7, <2>1
          DEF Local, Reads, Owning, Asking, Touching, Inserting, Deleting, LookupOps
<1> HIDE DEF c
<1>9. \A u \in Threads : u # t => /\ th'[u] = th[u]
                                  /\ Owning(u)' <=> Owning(u)
                                  /\ Reads(u)' <=> Reads(u)
                                  /\ Local(u)' <=> Local(u)
  BY ZenonT(30), <1>1, <1>6, OthersStay
<1>10. Protocol'
  BY ZenonT(30), <1>8, <1>9 DEF IInv, Protocol
<1>11. \A u \in Threads, d \in Cells : Owns(u, d)' => u # t /\ Owns(u, d) /\ d # c
  <2>1. \A u \in Threads, d \in Cells : Owns(u, d)' => u # t /\ Owns(u, d)
    BY ZenonT(30), <1>8, <1>9 DEF Owns
  <2> QED BY ZenonT(30), <1>3, <2>1 DEF IInv, Cellular
<1>12. /\ \A u \in Threads : u # t => th'[u].dead = th[u].dead
       /\ th'[t].dead = th[t].dead \/ th'[t].dead = ids \ ids'
       /\ \A u \in Threads : c \notin th[u].dead
       /\ c \notin ids /\ heap[c] # None
  BY ZenonT(30), <1>3, <1>6, <1>9 DEF IInv, Cellular
<1>13. Cellular'
  <2>0. heap' = heap /\ known' = known
    BY <1>1
  <2>1. \A d \in ids' : heap[d] # None
    BY ZenonT(30), <1>4, <1>12 DEF IInv, Cellular
  <2>2. \A u \in Threads : th'[u].dead \in SUBSET Cells
    BY ZenonT(30), <1>12 DEF IInv, Cellular
  <2>3. \A u \in Threads, d \in Cells : Owns(u, d)' => heap[d] # None /\ d \notin ids'
    BY ZenonT(30), <1>4, <1>11 DEF IInv, Cellular
  <2>4. \A u \in Threads : \A d \in th[u].dead : heap[d] # None /\ d \notin ids'
    BY <1>4, <1>12 DEF IInv, Cellular
  <2>5. \A d \in ids \ ids' : heap[d] # None
    BY DEF IInv, Cellular
  <2>6. \A u \in Threads : \A d \in th'[u].dead : heap[d] # None /\ d \notin ids'
    BY <1>12, <2>4, <2>5
  <2>7. \A u, v \in Threads : \A d \in Cells : Owns(u, d)' /\ Owns(v, d)' => u = v
    BY ZenonT(30), <1>11 DEF IInv, Cellular
  <2>8. \A u, v \in Threads : \A d \in th[u].dead \cup ids : d \in Cells => ~Owns(v, d)'
    BY ZenonT(30), <1>11 DEF IInv, Cellular
  <2>9. \A u, v \in Threads : \A d \in th'[u].dead : ~Owns(v, d)'
    BY <1>12, <2>2, <2>8
  <2>10. \A u, v \in Threads : th'[u].dead \cap th'[v].dead # {} => u = v
    <3>1. \A u \in Threads : th[u].dead \cap ids = {}
      BY ZenonT(30) DEF IInv, Cellular
    <3>2. \A u, v \in Threads : th[u].dead \cap th[v].dead # {} => u = v
      BY DEF IInv, Cellular
    <3> QED BY ZenonT(30), <1>12, <3>1, <3>2
  <2>11. \A u \in Threads : Owning(u)' => th'[u].ptr \in Cells
    BY ZenonT(30), <1>8, <1>9 DEF IInv, Cellular
  <2> QED BY ZenonT(30), <1>4, <2>0, <2>1, <2>2, <2>3, <2>6, <2>7, <2>9, <2>10, <2>11 DEF IInv, Cellular
<1>14. Protected'
  <2>1. delW' # None => delR' = {}
    BY ZenonT(30), <1>1 DEF IInv, Protected
  <2>2. \A u \in Threads : th'[u].pc = "dispose" => delW' = u
    BY ZenonT(30), <1>1, <1>8, <1>9 DEF IInv, Protected
  <2>3. \A u \in Threads : (Reads(u)' => u # t /\ Reads(u)) /\ (Owning(u)' => u # t /\ Owning(u))
    BY <1>8, <1>9
  <2> QED BY ZenonT(30), <1>1, <1>9, <2>1, <2>2, <2>3 DEF IInv, Protected
<1> QED BY <1>1, <1>6, <1>10, <1>13, <1>14 DEF IInv

-----------------------------------------------------------------------------
(* The invariant.                                                          *)

\* The cache starts with the facts of some Warm, and every thread is idle.
LEMMA InitInv ==
    ASSUME Init
    PROVE  IInv
<1>1. PICK warm \in Warm :
        /\ \A c \in DOMAIN warm : warm[c].id \in known
        /\ heap = [c \in Cells |-> IF c \in DOMAIN warm THEN warm[c] ELSE None]
        /\ ids = DOMAIN warm
        /\ keys = {c \in ids : warm[c].tag # "TYPE"}
  BY DEF Init
<1>2. /\ known \in SUBSET Ids /\ delR = {} /\ delW = None
      /\ th = [t \in Threads |-> Idle]
  BY DEF Init
<1>3. /\ \A t \in Threads : th[t] = Idle
      /\ Idle = [f \in Fields |-> Idle[f]]
      /\ Idle.pc = "idle" /\ Idle.op = None /\ Idle.ans = None /\ Idle.dead = {} /\ Idle.todo = {}
  BY ZenonT(30), <1>2 DEF Idle, Fields
<1>4. Shape
  BY <1>2, <1>3 DEF Shape
<1>5. Protocol
  BY ZenonT(30), <1>3, CacheAssumption DEF Protocol, Local, Asking, Touching, Inserting, Deleting
<1>6. \A t \in Threads : ~Owning(t) /\ ~Reads(t)
  BY <1>3 DEF Owning, Reads, Touching
<1>7. \A c \in DOMAIN warm : c \in Cells /\ warm[c] \in [id : Ids, tag : Tags] /\ warm[c] # None
  <2>1. warm \in Seq([id : Ids, tag : Tags]) /\ DOMAIN warm \in SUBSET Cells
    BY ZenonT(30), CacheAssumption
  <2>2. \A c \in DOMAIN warm : warm[c] \in [id : Ids, tag : Tags]
    <3> DEFINE S == [id : Ids, tag : Tags]
    <3>1. warm \in Seq(S) BY <2>1
    <3> HIDE DEF S
    <3>2. \A c \in DOMAIN warm : warm[c] \in S BY <3>1
    <3> QED BY <3>2 DEF S
  <2>3. None \notin [id : Ids, tag : Tags]
    BY ZenonT(30), CacheAssumption
  <2> QED BY ZenonT(30), <2>1, <2>2, <2>3
<1>8. Cellular
  BY <1>1, <1>2, <1>3, <1>6, <1>7 DEF Cellular, Owns
<1>9. Protected
  BY <1>2, <1>3, <1>6 DEF Protected
<1> QED BY ZenonT(30), <1>4, <1>5, <1>8, <1>9 DEF IInv

-----------------------------------------------------------------------------
(* The refinement.                                                         *)

\* What the mapping takes for the abstract variables call and answer.
Asked == [t \in Threads |-> IF th[t].op \in LookupOps THEN <<th[t].op, th[t].id>> ELSE None]
Told == [t \in Threads |-> th[t].ans]

\* A thread that keeps its call and its answer takes no abstract step.
LEMMA Stutters ==
    ASSUME NEW t \in Threads, Others(t), UNCHANGED known,
           th'[t].op = th[t].op \/ (th[t].op \notin LookupOps /\ th'[t].op \notin LookupOps),
           th'[t].op \in LookupOps => th'[t].id = th[t].id, th'[t].ans = th[t].ans
    PROVE  UNCHANGED <<known, Asked, Told>>
<1>1. \A u \in Threads : /\ (th'[u].op \in LookupOps) <=> (th[u].op \in LookupOps)
                         /\ th[u].op \in LookupOps => th'[u].op = th[u].op /\ th'[u].id = th[u].id
                         /\ th'[u].ans = th[u].ans
  BY DEF Others
<1>2. Asked' = Asked
  BY <1>1 DEF Asked
<1>3. Told' = Told
  BY <1>1 DEF Told
<1> QED BY <1>2, <1>3

\* The step that decides the answer of a call.
LEMMA Answers ==
    ASSUME NEW t \in Threads, Others(t), UNCHANGED known, th[t].op \in LookupOps, th[t].id \in Ids,
           th'[t].op = th[t].op, th'[t].id = th[t].id, th[t].ans = None,
           th'[t].ans = IF th[t].id \in known THEN th[t].id ELSE Missing
    PROVE  Promise!Next
<1>1. Asked' = Asked /\ Asked[t] = <<th[t].op, th[t].id>>
  BY DEF Asked, Others
<1>2. Told' = [Told EXCEPT ![t] = IF Asked[t][2] \in known THEN Asked[t][2] ELSE Missing]
  <2>1. Asked[t][2] = th[t].id BY <1>1
  <2>2. \A u \in Threads : th'[u].ans = IF u = t THEN th'[t].ans ELSE th[u].ans BY DEF Others
  <2>3. Told' = [Told EXCEPT ![t] = th'[t].ans] BY ZenonT(30), <2>2 DEF Told
  <2> QED BY <2>1, <2>3
<1>3. Asked[t] # None /\ Told[t] = None
  <2>1. <<th[t].op, th[t].id>> \in LookupOps \X Ids OBVIOUS
  <2> QED BY <1>1, <2>1, CacheAssumption DEF Told
<1>4. Promise!Answer(t)
  BY ZenonT(30), <1>1, <1>2, <1>3 DEF Promise!Answer, Asked, Told
<1> QED BY <1>4 DEF Promise!Next

\* Every step keeps the invariant and is, for the threads' calls and answers, a
\* step of AbstractLookup or none.
LEMMA StepSimulates ==
    ASSUME IInv, NEW t \in Threads, Step(t)
    PROVE  IInv' /\ (Promise!Next \/ UNCHANGED <<known, Asked, Told>>)
<1>0. Local(t)
  BY DEF IInv, Protocol
<1>1. CASE \/ RLock(t) \/ Miss(t) \/ TouchNow(t) \/ TouchLoad(t) \/ TouchStore(t) \/ TouchNext(t)
           \/ TryLock(t) \/ Drain(t) \/ WWait(t) \/ WLock(t) \/ SLock(t) \/ BulkEnd(t)
  <2>1. QuietMove(t)
    BY ZenonT(30), <1>1, QuietSteps
  <2>2. /\ Others(t) /\ UNCHANGED known
        /\ th'[t].op = th[t].op /\ th'[t].id = th[t].id /\ th'[t].ans = th[t].ans
    BY <2>1 DEF QuietMove, Keeps, Fields
  <2>3. UNCHANGED <<known, Asked, Told>>
    BY <2>2, Stutters
  <2> QED BY <2>1, <2>3, QuietInv
<1>2. CASE Hit(t)
  <2>1. CASE th[t].op = "factById"
    <3>1. UNCHANGED <<known, Asked, Told>>
      BY <1>2, <2>1, HitInv, Stutters
    <3> QED BY ZenonT(30), <1>2, <3>1, HitInv
  <2>2. CASE th[t].op # "factById"
    <3>1. Promise!Next
      BY ZenonT(30), <1>0, <1>2, <2>2, HitInv, Answers DEF Local
    <3> QED BY ZenonT(30), <1>2, <3>1, HitInv
  <2> QED BY <2>1, <2>2
<1>3. CASE Callback(t)
  <2>1. Promise!Next
    BY ZenonT(30), <1>0, <1>3, CallbackInv, Answers DEF Local
  <2> QED BY ZenonT(30), <1>3, <2>1, CallbackInv
<1>4. CASE AskBase(t)
  <2>1. Promise!Next
    BY <1>0, <1>4, AskBaseInv, Answers DEF Local
  <2> QED BY ZenonT(30), <1>4, <2>1, AskBaseInv
<1>5. CASE Return(t)
  <2>1. /\ IInv' /\ Others(t) /\ th'[t].op = None /\ th'[t].ans = None
        /\ UNCHANGED known /\ th[t].pc = "return"
    BY ZenonT(30), <1>5, ReturnInv DEF Return, At
  <2>2. CASE th[t].op = "bulk"
    <3>1. th[t].ans = None /\ th[t].op \notin LookupOps
      BY <1>0, <2>2 DEF Local, LookupOps
    <3>2. UNCHANGED <<known, Asked, Told>>
      BY ZenonT(30), <2>1, <3>1, CacheAssumption, Stutters
    <3> QED BY ZenonT(30), <2>1, <3>2
  <2>3. CASE th[t].op # "bulk"
    <3>1. th[t].ans # None
      BY ZenonT(30), <1>0, <2>1, <2>3 DEF Local
    <3>2. /\ Asked' = [Asked EXCEPT ![t] = None] /\ Told' = [Told EXCEPT ![t] = None]
          /\ Told[t] # None
      <4>1. Asked' = [Asked EXCEPT ![t] = None]
        <5>1. th'[t].op \notin LookupOps
          BY ZenonT(30), <2>1, CacheAssumption
        <5>2. \A u \in Threads : u # t => th'[u] = th[u]
          BY <2>1 DEF Others
        <5> QED BY ZenonT(30), <5>1, <5>2 DEF Asked
      <4>2. Told' = [Told EXCEPT ![t] = None]
        BY ZenonT(30), <2>1 DEF Told, Others
      <4> QED BY <3>1, <4>1, <4>2 DEF Told
    <3>3. Promise!Return(t)
      BY <2>1, <3>2 DEF Promise!Return, Asked, Told
    <3> QED BY ZenonT(30), <2>1, <3>3 DEF Promise!Next
  <2> QED BY <2>2, <2>3
<1>6. CASE InsertRefused(t) \/ Insert(t) \/ DLock(t) \/ Dispose(t) \/ BulkInsert(t)
  <2>1. IInv' /\ Others(t) /\ Keeps(t, {"pc", "dead", "ptr", "todo"}) /\ UNCHANGED known
    BY ZenonT(30), <1>6, InsertRefusedInv, InsertInv, DLockInv, DisposeInv, BulkInsertInv DEF Keeps
  <2>2. th'[t].op = th[t].op /\ th'[t].id = th[t].id /\ th'[t].ans = th[t].ans
    BY ZenonT(30), <2>1 DEF Keeps, Fields
  <2>3. UNCHANGED <<known, Asked, Told>>
    BY <2>1, <2>2, Stutters
  <2> QED BY <2>1, <2>3
<1> QED BY <1>1, <1>2, <1>3, <1>4, <1>5, <1>6 DEF Step

\* The same for every step of the specification.
LEMMA NextSimulates ==
    ASSUME IInv, [Next]_vars
    PROVE  IInv' /\ (Promise!Next \/ UNCHANGED <<known, Asked, Told>>)
<1>1. CASE \E i \in Ids : Commit(i)
  <2>1. PICK i \in Ids : Commit(i)
    BY <1>1
  <2>2. known' = known \cup {i} /\ UNCHANGED th
    BY <2>1 DEF Commit
  <2>3. Promise!Add(i)
    BY ZenonT(30), <2>2 DEF Promise!Add
  <2> QED BY <2>1, <2>3, CommitInv DEF Promise!Next
<1>2. CASE \E t \in Threads, op \in LookupOps, i \in Ids : Call(t, op, i)
  <2>1. PICK t \in Threads, op \in LookupOps, i \in Ids : Call(t, op, i)
    BY <1>2
  <2>2. /\ IInv' /\ Others(t) /\ th'[t].op = op /\ th'[t].id = i /\ th'[t].ans = None
        /\ UNCHANGED known /\ th[t].pc = "idle"
    BY ZenonT(30), <2>1, CallInv DEF Call, At
  <2>3. th[t].op = None /\ th[t].ans = None
    BY ZenonT(30), <2>2, CacheAssumption DEF IInv, Protocol, Local
  <2>4. Asked' = [Asked EXCEPT ![t] = <<op, i>>] /\ Asked[t] = None
    BY ZenonT(30), <2>2, <2>3, CacheAssumption DEF Asked, Others
  <2>5. Told' = Told
    BY <2>2, <2>3 DEF Told, Others
  <2>6. Promise!Call(t, op, i)
    BY ZenonT(30), <2>2, <2>4, <2>5 DEF Promise!Call, Asked, Told
  <2> QED BY <2>2, <2>6 DEF Promise!Next
<1>3. CASE \E t \in Threads, todo \in SUBSET Ids \ {{}} : Bulk(t, todo)
  <2>1. PICK t \in Threads, todo \in SUBSET Ids \ {{}} : Bulk(t, todo)
    BY <1>3
  <2>2. /\ IInv' /\ Others(t) /\ th'[t].op = "bulk" /\ th'[t].ans = None
        /\ UNCHANGED known /\ th[t].pc = "idle"
    BY ZenonT(30), <2>1, BulkInv DEF Bulk, At
  <2>3. th[t].op \notin LookupOps /\ th[t].ans = None /\ "bulk" \notin LookupOps
    BY ZenonT(30), <2>2, CacheAssumption DEF IInv, Protocol, Local, LookupOps
  <2>4. UNCHANGED <<known, Asked, Told>>
    BY ZenonT(30), <2>2, <2>3, Stutters
  <2> QED BY <2>2, <2>4
<1>4. CASE \E t \in Threads : Step(t)
  BY <1>4, StepSimulates
<1>5. CASE UNCHANGED vars
  <2>1. UNCHANGED <<known, heap, ids, keys, delR, delW, th>>
    BY <1>5 DEF vars, index, delLock
  <2>2. UNCHANGED <<Asked, Told>>
    BY ZenonT(30), <2>1 DEF Asked, Told
  <2>3. Shape' /\ Protocol'
    BY <2>1 DEF IInv, Shape, Protocol, Local
  <2>4. \A u \in Threads : (Reads(u)' <=> Reads(u)) /\ (Owning(u)' <=> Owning(u))
    BY ZenonT(30), <2>1 DEF Owning, Reads
  <2>5. \A u \in Threads, d \in Cells : Owns(u, d)' <=> Owns(u, d)
    BY ZenonT(30), <2>1, <2>4 DEF Owns
  <2>6. Cellular'
    BY ZenonT(30), <2>1, <2>4, <2>5 DEF IInv, Cellular
  <2>7. Protected'
    BY ZenonT(30), <2>1, <2>4 DEF IInv, Protected
  <2> QED BY ZenonT(30), <2>1, <2>2, <2>3, <2>6, <2>7 DEF IInv
<1> QED BY <1>1, <1>2, <1>3, <1>4, <1>5 DEF Next

-----------------------------------------------------------------------------
(* The theorems.                                                           *)

\* A cell always has one owner, and delete_lock protects the fact that a callback
\* reads (Cache::insert, factById, Storage::evict).
THEOREM Invariance == Spec => []IInv
<1>1. Init => IInv
  BY InitInv
<1>2. IInv /\ [Next]_vars => IInv'
  BY NextSimulates
<1> QED BY <1>1, <1>2, PTL DEF Spec

\* Whatever was inserted, hit, evicted and freed in between, the cache answers
\* every call as the base Lookup could have: it implements AbstractLookup, with the
\* thread's call and answer as the abstract ones.
THEOREM Refinement == Spec => Transparent
<1>1. Init => Promise!Init
  <2> SUFFICES ASSUME Init PROVE Promise!Init
    OBVIOUS
  <2>1. known \in SUBSET Ids /\ th = [t \in Threads |-> Idle]
    BY DEF Init
  <2>2. Idle.op = None /\ Idle.ans = None /\ None \notin LookupOps
    BY CacheAssumption DEF Idle
  <2>3. Asked = [t \in Threads |-> None] /\ Told = [t \in Threads |-> None]
    BY <2>1, <2>2 DEF Asked, Told
  <2> QED BY <2>1, <2>3 DEF Promise!Init, Asked, Told
<1>2. IInv /\ [Next]_vars => [Promise!Next]_<<known, Asked, Told>>
  BY NextSimulates
<1>3. IInv /\ [Next]_vars =>
        [Promise!Next]_<<known,
                         [t \in Threads |-> IF th[t].op \in LookupOps THEN <<th[t].op, th[t].id>> ELSE None],
                         [t \in Threads |-> th[t].ans]>>
  BY <1>2 DEF Asked, Told
<1> QED BY <1>1, <1>3, Invariance, PTL DEF Spec, Transparent, Promise!Spec

\* No fact is freed while a thread reads one in the callback of factById, outside
\* of the index lock: the half of LocksSound that is an invariant of the states.
THEOREM NeverFreedWhileRead == Spec => []FreedUnread
<1>1. IInv => FreedUnread
  <2> SUFFICES ASSUME IInv, NEW t \in Threads, th[t].pc = "dispose",
                      NEW u \in Threads, th[u].pc = "callback"
               PROVE  FALSE
    BY DEF FreedUnread, Reading, At
  <2>1. Reads(u)
    BY DEF IInv, Protocol, Local, Reads
  <2> QED BY ZenonT(30), <2>1, CacheAssumption DEF IInv, Protected
<1> QED BY <1>1, Invariance, PTL

=============================================================================
