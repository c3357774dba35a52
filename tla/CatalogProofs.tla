--------------------------- MODULE CatalogProofs ---------------------------
(***************************************************************************)
(* The inductive invariant of Catalog, and what follows from it: no change *)
(* of an entry is forgotten on its way to the store, and nothing is written *)
(* to the store for an entry that has been deleted.                        *)
(***************************************************************************)
EXTENDS Catalog, DataLemmas

\* An entry has one place, and a thread works on it exactly while it is
\* ephemeral, which no entry is any more when the catalog has been closed.
Places ==
    /\ live \cap restoring = {} /\ live \cap ephemeral = {} /\ restoring \cap ephemeral = {}
    /\ \A r \in Repos : r \in ephemeral <=> task[r] # "none"
    /\ ~catOpen => ephemeral = {}

\* A live entry is in the store, and so is one that is about to go live.
Stored ==
    /\ \A r \in live : store[r] # "none"
    /\ \A r \in Repos : task[r] = "created" => store[r] = entryMeta[r]

\* What the committer has in hand: a live entry, which delete waits for.  It was
\* dirty when it was taken; what is put is its metadata, or it is dirty again.
Committing ==
    /\ \A r \in Repos : entryComitting[r] <=> current = r
    /\ current # NoRepo <=> committer \in {"taken", "put", "write", "release"}
    /\ current # NoRepo => current \in live
    /\ committer = "taken" => entryDirty[current]
    /\ committer \in {"put", "write"} => putting \in Completenesses
    /\ committer \in {"put", "write"} => entryDirty[current] \/ putting = entryMeta[current]

\* The queue has the dirty entries, each once, but for the one just taken.
Queued ==
    /\ Distinct(catDirtyQueue)
    /\ \A r \in Repos :
          Occurs(r, catDirtyQueue) <=> entryDirty[r] /\ ~(committer = "taken" /\ current = r)
    /\ \A r \in Repos : entryDirty[r] => r \in live

\* What the store doesn't have is dirty, or is being put.
Saved ==
    \A r \in live :
        store[r] # entryMeta[r] =>
            \/ entryDirty[r]
            \/ current = r /\ committer \in {"put", "write"} /\ putting = entryMeta[r]

\* The committer stops with an empty queue, and nothing gets into it any more.
Stopped == committer = "stopped" => ~catOpen /\ catDirtyQueue = <<>>

\* The inductive invariant.
IInv == TypeOK /\ Places /\ Stored /\ Committing /\ Queued /\ Saved /\ Stopped

-----------------------------------------------------------------------------
(* The steps.  A lemma per action, or for actions that change alike.       *)

\* Nothing is done to the queue and by the committer, and the live entries keep
\* their places, their metadata and what the store has of them.
LEMMA QuietInv ==
    ASSUME IInv, TypeOK', Places', Stored', UNCHANGED <<dirty, commits>>,
           live \subseteq live', \A r \in live : store'[r] = store[r] /\ entryMeta'[r] = entryMeta[r],
           \A r \in live' \ live : store'[r] = entryMeta'[r],
           committer = "stopped" => ~catOpen'
    PROVE  IInv'
<1> USE DEF dirty, commits
<1>1. Committing'
  BY DEF IInv, Committing
<1>2. Queued'
  BY DEF IInv, Queued
<1>3. Saved'
  BY DEF IInv, Saved
<1>4. Stopped'
  BY DEF IInv, Stopped
<1> QED BY <1>1, <1>2, <1>3, <1>4 DEF IInv

\* create, startRestoring and abortRestoring: the entry isn't live.
LEMMA PendingInv ==
    ASSUME IInv, NEW r \in Repos,
           \/ CreateBegin(r) \/ AbortRestoring(r) \/ FinishRestoring(r)
           \/ \E m \in Metas : StartRestoring(r, m)
    PROVE  IInv'
<1> USE DEF entries, dirty, commits
<1>1. Metas \subseteq Completenesses /\ "Incomplete" \in Completenesses
  BY CatalogAssumption DEF Completenesses
<1>2. TypeOK'
  BY <1>1 DEF IInv, TypeOK, CreateBegin, StartRestoring, AbortRestoring, FinishRestoring
<1>3. Places'
  BY DEF IInv, TypeOK, Places, CreateBegin, StartRestoring, AbortRestoring, FinishRestoring, Known
<1>4. Stored'
  BY DEF IInv, TypeOK, Places, Stored, CreateBegin, StartRestoring, AbortRestoring,
         FinishRestoring, Known
<1>5. r \notin live
  BY DEF IInv, Places, CreateBegin, StartRestoring, AbortRestoring, FinishRestoring, Known
<1>6. /\ UNCHANGED <<live, store, dirty, commits, catOpen>> /\ catOpen
      /\ \A x \in live : entryMeta'[x] = entryMeta[x]
  BY <1>5 DEF IInv, TypeOK, CreateBegin, StartRestoring, AbortRestoring, FinishRestoring
<1> QED BY <1>2, <1>3, <1>4, <1>6, QuietInv DEF IInv, Stopped

\* The accesses to the store by a thread that has an ephemeral entry, and the
\* transaction after them.
LEMMA TaskInv ==
    ASSUME IInv, NEW r \in Repos, TaskStep(r)
    PROVE  IInv'
<1> USE DEF entries, status, dirty, commits, TaskStep, StoreCreate, StoreCreateFails, EntryCreated,
            EntryNotCreated, StoreDelete, StoreDeleteFails, EntryDeleted
<1>1. "Incomplete" \in Completenesses
  BY DEF Completenesses
<1>2. r \in ephemeral /\ r \notin live /\ catOpen /\ catOpen' = catOpen
  BY DEF IInv, Places
<1>3. TypeOK'
  BY <1>1 DEF IInv, TypeOK
<1>4. Places'
  BY <1>2 DEF IInv, TypeOK, Places
<1>5. Stored'
  BY <1>2 DEF IInv, TypeOK, Places, Stored, Completenesses
<1>6. /\ UNCHANGED <<dirty, commits>>
      /\ live \subseteq live'
      /\ \A x \in live : store'[x] = store[x] /\ entryMeta'[x] = entryMeta[x]
      /\ \A x \in live' \ live : store'[x] = entryMeta'[x]
  BY <1>2 DEF IInv, TypeOK, Stored
<1> QED BY <1>2, <1>3, <1>4, <1>5, <1>6, QuietInv DEF IInv, Stopped

\* close
LEMMA CloseInv ==
    ASSUME IInv, Close
    PROVE  IInv'
<1> USE DEF entries, dirty, commits, Close
<1>1. TypeOK' /\ Places' /\ Stored'
  BY ZenonT(30) DEF IInv, TypeOK, Places, Stored
<1> QED BY <1>1, QuietInv

\* dirtyEntry on a live entry that the committer hasn't just taken, or that is
\* dirty: the entry is in the queue then, and once.
LEMMA DirtyEntryFacts ==
    ASSUME IInv, NEW r \in live, DirtyEntry(r), live' = live, current' = current,
           committer' = committer \/ (committer' = "release" /\ committer # "taken")
    PROVE  /\ Queued' /\ catDirtyQueue' \in Seq(Repos)
           /\ entryDirty' \in [Repos -> BOOLEAN] /\ entryDirty'[r]
           /\ \A x \in Repos : x # r => entryDirty'[x] = entryDirty[x]
<1>1. /\ r \in Repos /\ entryDirty' = [entryDirty EXCEPT ![r] = TRUE]
      /\ catDirtyQueue \in Seq(Repos) /\ entryDirty \in [Repos -> BOOLEAN]
  BY DEF IInv, TypeOK, DirtyEntry
<1>2. /\ entryDirty' \in [Repos -> BOOLEAN] /\ entryDirty'[r]
      /\ \A x \in Repos : x # r => entryDirty'[x] = entryDirty[x]
  BY <1>1
<1>3. (committer' = "taken") <=> (committer = "taken")
  OBVIOUS
<1>4. CASE entryDirty[r]
  <2>1. catDirtyQueue' = catDirtyQueue
    BY <1>4 DEF DirtyEntry
  <2>2. Queued'
    BY <1>2, <1>3, <1>4, <2>1 DEF IInv, Queued
  <2> QED BY <1>1, <1>2, <2>1, <2>2
<1>5. CASE ~entryDirty[r]
  <2>1. catDirtyQueue' = Append(catDirtyQueue, r)
    BY <1>5 DEF DirtyEntry
  <2>2. ~Occurs(r, catDirtyQueue) /\ ~(committer = "taken" /\ current = r)
    BY <1>1, <1>5 DEF IInv, Queued, Committing
  <2>3. /\ catDirtyQueue' \in Seq(Repos) /\ Distinct(catDirtyQueue')
        /\ \A y : Occurs(y, catDirtyQueue') <=> Occurs(y, catDirtyQueue) \/ y = r
    BY <1>1, <2>1, <2>2, AppendFacts DEF IInv, Queued
  <2>4. Queued'
    BY <1>1, <1>2, <1>3, <2>2, <2>3 DEF IInv, Queued
  <2> QED BY <1>2, <2>3, <2>4
<1> QED BY <1>4, <1>5

\* writeMeta: the metadata is new and the entry dirty.
LEMMA WriteMetaInv ==
    ASSUME IInv, NEW r \in Repos, NEW m \in Metas, WriteMeta(r, m)
    PROVE  IInv'
<1>1. /\ catOpen /\ r \in live /\ DirtyEntry(r) /\ entryMeta' = [entryMeta EXCEPT ![r] = m]
      /\ UNCHANGED <<catOpen, live, restoring, ephemeral, entryComitting, committer, current,
                     putting, task, store, restarts>>
  BY DEF WriteMeta, entries, commits
<1>2. m \in Completenesses
  BY CatalogAssumption
<1>3. /\ Queued' /\ catDirtyQueue' \in Seq(Repos)
      /\ entryDirty' \in [Repos -> BOOLEAN] /\ entryDirty'[r]
      /\ \A x \in Repos : x # r => entryDirty'[x] = entryDirty[x]
  BY <1>1, DirtyEntryFacts
<1>4. /\ entryMeta' \in [Repos -> Completenesses]
      /\ \A x \in Repos : x # r => entryMeta'[x] = entryMeta[x]
  BY <1>1, <1>2 DEF IInv, TypeOK
<1>5. TypeOK'
  BY <1>1, <1>3, <1>4 DEF IInv, TypeOK
<1>6. Places' /\ Stored'
  BY <1>1, <1>4 DEF IInv, Places, Stored
<1>7. Committing'
  BY <1>1, <1>3, <1>4 DEF IInv, Committing, TypeOK
<1>8. Saved'
  BY <1>1, <1>3, <1>4 DEF IInv, Saved, TypeOK
<1>9. Stopped'
  BY <1>1 DEF IInv, Stopped
<1> QED BY <1>3, <1>5, <1>6, <1>7, <1>8, <1>9 DEF IInv

\* The committer takes the first entry of the queue, which is dirty and live.
LEMMA CommitTakeInv ==
    ASSUME IInv, CommitTake
    PROVE  IInv'
<1> DEFINE h == Head(catDirtyQueue)
<1>1. /\ committer = "idle" /\ committer' = "taken" /\ current' = h
      /\ catDirtyQueue # <<>> /\ catDirtyQueue' = Tail(catDirtyQueue)
      /\ entryComitting' = [entryComitting EXCEPT ![h] = TRUE]
      /\ UNCHANGED <<catOpen, live, restoring, ephemeral, entryMeta, entryDirty, putting, task,
                     store, restarts>>
  BY DEF CommitTake, entries
<1>2. /\ h \in Repos /\ catDirtyQueue' \in Seq(Repos)
      /\ \A y : Occurs(y, catDirtyQueue) <=> Occurs(y, catDirtyQueue') \/ y = h
      /\ Distinct(catDirtyQueue') /\ ~Occurs(h, catDirtyQueue')
  BY <1>1, TailFacts DEF IInv, TypeOK, Queued
<1> HIDE DEF h
<1>3. current = NoRepo /\ h # NoRepo /\ entryDirty[h] /\ h \in live
  BY <1>1, <1>2, CatalogAssumption DEF IInv, Committing, Queued
<1>4. TypeOK'
  BY <1>1, <1>2 DEF IInv, TypeOK
<1>5. Places' /\ Stored' /\ Stopped'
  BY <1>1 DEF IInv, Places, Stored, Stopped
<1>6. Committing'
  <2>1. \A r \in Repos : r # NoRepo /\ ~entryComitting[r]
    BY <1>3, CatalogAssumption DEF IInv, Committing
  <2>2. \A r \in Repos : entryComitting'[r] <=> r = h
    BY <1>1, <1>2, <2>1 DEF IInv, TypeOK
  <2> QED BY <1>1, <1>2, <1>3, <2>2 DEF Committing
<1>7. Queued'
  BY <1>1, <1>2, <1>3 DEF IInv, Queued
<1>8. Saved'
  BY <1>1, <1>3 DEF IInv, Saved
<1> QED BY <1>4, <1>5, <1>6, <1>7, <1>8 DEF IInv

\* The committer reads, looks for the file, writes it, or lets go of the entry.
LEMMA CommitStepInv ==
    ASSUME IInv, CommitRead \/ PutExists \/ PutWrite \/ CommitRelease
    PROVE  IInv'
<1> USE DEF entries, status, dirty, CommitRead, PutExists, PutWrite, CommitRelease
<1>1. current \in Repos /\ current \in live /\ current # NoRepo
  BY CatalogAssumption DEF IInv, TypeOK, Committing
<1>2. TypeOK'
  <2>1. CASE CommitRead BY <1>1, <2>1 DEF IInv, TypeOK
  <2>2. CASE PutExists BY <1>1, <2>2 DEF IInv, TypeOK
  <2>3. CASE PutWrite BY <1>1, <2>3 DEF IInv, TypeOK, Committing
  <2>4. CASE CommitRelease BY <1>1, <2>4 DEF IInv, TypeOK
  <2> QED BY <2>1, <2>2, <2>3, <2>4
<1>3. Places'
  BY DEF IInv, Places
<1>4. Stored'
  BY <1>1 DEF IInv, TypeOK, Places, Stored, Committing, Completenesses
<1>5. Committing'
  <2>1. CASE CommitRead BY <1>1, <2>1 DEF IInv, TypeOK, Committing
  <2>2. CASE PutExists BY <1>1, <2>2 DEF IInv, TypeOK, Committing
  <2>3. CASE PutWrite BY <1>1, <2>3 DEF IInv, TypeOK, Committing
  <2>4. CASE CommitRelease
    <3>1. \A r \in Repos : ~entryComitting'[r] /\ r # NoRepo
      BY <1>1, <2>4, CatalogAssumption DEF IInv, TypeOK, Committing
    <3> QED BY <2>4, <3>1 DEF Committing
  <2> QED BY <2>1, <2>2, <2>3, <2>4
<1>6. Queued'
  BY <1>1 DEF IInv, TypeOK, Committing, Queued
<1>7. Saved'
  BY <1>1 DEF IInv, TypeOK, Committing, Stored, Saved
<1>8. Stopped'
  BY DEF IInv, Stopped
<1> QED BY <1>2, <1>3, <1>4, <1>5, <1>6, <1>7, <1>8 DEF IInv

\* A put that fails makes the entry dirty again.
LEMMA PutFailsInv ==
    ASSUME IInv, PutFails
    PROVE  IInv'
<1>1. /\ committer \in {"put", "write"} /\ committer' = "release" /\ DirtyEntry(current)
      /\ UNCHANGED <<catOpen, live, restoring, ephemeral, entryMeta, entryComitting, current,
                     putting, task, store, restarts>>
  BY DEF PutFails, entries
<1>2. current \in live /\ current \in Repos /\ current # NoRepo
  BY <1>1, CatalogAssumption DEF IInv, TypeOK, Committing
<1>3. /\ Queued' /\ catDirtyQueue' \in Seq(Repos)
      /\ entryDirty' \in [Repos -> BOOLEAN] /\ entryDirty'[current]
      /\ \A x \in Repos : x # current => entryDirty'[x] = entryDirty[x]
  BY <1>1, <1>2, DirtyEntryFacts
<1>4. TypeOK'
  BY <1>1, <1>3 DEF IInv, TypeOK
<1>5. Places' /\ Stored' /\ Stopped'
  BY <1>1 DEF IInv, Places, Stored, Stopped
<1>6. Committing'
  BY <1>1, <1>2 DEF IInv, Committing
<1>7. Saved'
  BY <1>1, <1>3 DEF IInv, Saved, TypeOK
<1> QED BY <1>3, <1>4, <1>5, <1>6, <1>7 DEF IInv

\* The committer stops.
LEMMA CommitStopInv ==
    ASSUME IInv, CommitStop
    PROVE  IInv'
<1>1. /\ committer = "idle" /\ committer' = "stopped" /\ ~catOpen /\ catDirtyQueue = <<>>
      /\ UNCHANGED <<catOpen, live, restoring, ephemeral, entryMeta, entryDirty, catDirtyQueue,
                     entryComitting, current, putting, task, store, restarts>>
  BY DEF CommitStop, entries, dirty
<1>2. TypeOK' /\ Places' /\ Stored' /\ Stopped'
  BY <1>1 DEF IInv, TypeOK, Places, Stored, Stopped
<1>3. Committing' /\ Saved'
  BY <1>1 DEF IInv, Committing, Saved
<1>4. Queued'
  BY <1>1 DEF IInv, Queued
<1> QED BY <1>2, <1>3, <1>4 DEF IInv

\* delete takes an entry that is not being committed out of the queue.
LEMMA DeleteBeginInv ==
    ASSUME IInv, NEW r \in Repos, DeleteBegin(r)
    PROVE  IInv'
<1>1. /\ catOpen /\ r \in live /\ ~entryComitting[r]
      /\ catDirtyQueue' = Without(catDirtyQueue, {r})
      /\ entryDirty' = [entryDirty EXCEPT ![r] = FALSE]
      /\ live' = live \ {r} /\ ephemeral' = ephemeral \cup {r}
      /\ entryMeta' = [entryMeta EXCEPT ![r] = "Incomplete"]
      /\ task' = [task EXCEPT ![r] = "delete"]
      /\ UNCHANGED <<catOpen, restoring, entryComitting, committer, current, putting, store,
                     restarts>>
  BY DEF DeleteBegin, commits
<1>2. current # r
  BY <1>1 DEF IInv, Committing
<1>3. /\ catDirtyQueue' \in Seq(Repos) /\ Distinct(catDirtyQueue')
      /\ \A y : Occurs(y, catDirtyQueue') <=> Occurs(y, catDirtyQueue) /\ y # r
  BY <1>1, WithoutFacts DEF IInv, TypeOK, Queued
<1>4. /\ entryDirty' \in [Repos -> BOOLEAN] /\ ~entryDirty'[r]
      /\ \A x \in Repos : x # r => entryDirty'[x] = entryDirty[x]
      /\ entryMeta' \in [Repos -> Completenesses]
      /\ \A x \in Repos : x # r => entryMeta'[x] = entryMeta[x]
  BY <1>1 DEF IInv, TypeOK, Completenesses
<1>5. TypeOK'
  BY <1>1, <1>3, <1>4 DEF IInv, TypeOK
<1>6. Places' /\ Stored'
  BY <1>1, <1>4 DEF IInv, TypeOK, Places, Stored
<1>7. Committing'
  BY <1>1, <1>2, <1>4 DEF IInv, TypeOK, Committing
<1>8. Queued'
  BY ZenonT(30), <1>1, <1>2, <1>3, <1>4 DEF IInv, Queued
<1>9. Saved'
  BY <1>1, <1>4 DEF IInv, TypeOK, Saved
<1>10. Stopped'
  BY <1>1 DEF IInv, Stopped
<1> QED BY <1>5, <1>6, <1>7, <1>8, <1>9, <1>10 DEF IInv

\* The state in which a catalog is opened: all that the store has is live, and
\* nothing is dirty.
Opened ==
    /\ store \in [Repos -> Completenesses \cup {"none"}] /\ restarts \in 0 .. MaxRestarts
    /\ catOpen = TRUE /\ live = OpenedEntries(store) /\ restoring = {} /\ ephemeral = {}
    /\ entryMeta = OpenedMeta(store)
    /\ entryDirty = [r \in Repos |-> FALSE] /\ entryComitting = [r \in Repos |-> FALSE]
    /\ catDirtyQueue = <<>> /\ task = [r \in Repos |-> "none"]
    /\ committer = "idle" /\ current = NoRepo /\ putting = "none"

\* An opened catalog satisfies the invariant, whatever the store has.
LEMMA OpenedInv == Opened => IInv
<1> SUFFICES ASSUME Opened PROVE IInv OBVIOUS
<1> USE DEF Opened
<1>1. /\ entryMeta \in [Repos -> Completenesses] /\ live \in SUBSET Repos
      /\ \A r \in live : store[r] # "none" /\ entryMeta[r] = store[r]
  BY DEF OpenedMeta, OpenedEntries, Completenesses
<1>2. TypeOK
  BY <1>1 DEF TypeOK
<1>3. Places /\ Stored /\ Saved /\ Stopped
  BY <1>1 DEF Places, Stored, Saved, Stopped
<1>4. Committing
  BY CatalogAssumption DEF Committing
<1>5. Queued
  BY DEF Queued, Distinct, Occurs
<1> QED BY <1>2, <1>3, <1>4, <1>5 DEF IInv

\* The server stops anywhere, and the catalog is opened again from the store.
LEMMA RestartInv ==
    ASSUME IInv, Restart
    PROVE  IInv'
<1>1. restarts' \in 0 .. MaxRestarts
  BY CatalogAssumption DEF IInv, TypeOK, Restart
<1>2. /\ store' = store /\ store \in [Repos -> Completenesses \cup {"none"}]
      /\ live' = OpenedEntries(store') /\ entryMeta' = OpenedMeta(store')
  BY DEF IInv, TypeOK, Restart
<1>3. Opened'
  BY <1>1, <1>2 DEF Restart, Opened, OpenedEntries, OpenedMeta
<1>4. Opened' => IInv'
  BY OpenedInv, PTL
<1> QED BY <1>3, <1>4

\* The catalog that is opened first.
LEMMA InitInv == Init => IInv
<1> SUFFICES ASSUME Init PROVE IInv OBVIOUS
<1>1. Opened
  BY CatalogAssumption DEF Init, Opened
<1> QED BY <1>1, OpenedInv

\* Every step keeps the invariant.
LEMMA StepInv == IInv /\ [Next]_vars => IInv'
<1> SUFFICES ASSUME IInv, [Next]_vars PROVE IInv' OBVIOUS
<1>1. ASSUME NEW r \in Repos,
             \/ CreateBegin(r) \/ DeleteBegin(r) \/ TaskStep(r)
             \/ AbortRestoring(r) \/ FinishRestoring(r)
      PROVE  IInv'
  BY <1>1, PendingInv, DeleteBeginInv, TaskInv
<1>2. ASSUME NEW r \in Repos, NEW m \in Metas, WriteMeta(r, m) \/ StartRestoring(r, m)
      PROVE  IInv'
  BY <1>2, WriteMetaInv, PendingInv
<1>3. CASE Commit
  BY <1>3, CommitTakeInv, CommitStepInv, PutFailsInv, CommitStopInv DEF Commit
<1>4. CASE Close \/ Restart
  BY <1>4, CloseInv, RestartInv
<1>5. CASE UNCHANGED vars
  <2> USE <1>5 DEF vars, entries, status, dirty, commits
  <2>1. TypeOK' /\ Places' /\ Stored'
    BY DEF IInv, TypeOK, Places, Stored
  <2> QED BY <2>1, QuietInv DEF IInv, Stopped
<1> QED BY <1>1, <1>2, <1>3, <1>4, <1>5 DEF Next

-----------------------------------------------------------------------------
(* The theorems.                                                           *)

\* The inductive invariant of the catalog, for any stacks of databases, whatever
\* fails and wherever the server stops.
THEOREM Invariance == Spec => []IInv
BY InitInv, StepInv, PTL DEF Spec

\* A queue without duplicates has an entry once or not at all.
LEMMA QueuedOnce ==
    ASSUME NEW r, NEW queue \in Seq(Repos), Distinct(queue)
    PROVE  Cardinality({k \in DOMAIN queue : queue[k] = r}) = IF Occurs(r, queue) THEN 1 ELSE 0
<1> DEFINE S == {k \in DOMAIN queue : queue[k] = r}
<1>1. DOMAIN queue = 1 .. Len(queue) OBVIOUS
<1>2. \A x, y \in S : x = y BY <1>1 DEF Distinct
<1>3. S = {} <=> ~Occurs(r, queue) BY <1>1 DEF Occurs
<1> HIDE DEF S
<1>4. Cardinality(S) = IF S = {} THEN 0 ELSE 1 BY <1>2, AtMostOne
<1> QED BY <1>3, <1>4 DEF S

\* What the store doesn't have yet is in the dirty queue once or in the hands of
\* the committer, and a committer that has stopped has left nothing behind.
THEOREM NoChangeForgotten == Spec => []ChangesSaved
<1>1. ASSUME IInv PROVE ChangesSaved
  <2>1. ChangesQueued
    <3> SUFFICES ASSUME NEW r \in live
                 PROVE  Cardinality({k \in DOMAIN catDirtyQueue : catDirtyQueue[k] = r})
                        = IF entryDirty[r] /\ ~(committer = "taken" /\ current = r) THEN 1 ELSE 0
      BY <1>1 DEF IInv, Saved, ChangesQueued
    <3>1. /\ catDirtyQueue \in Seq(Repos) /\ Distinct(catDirtyQueue)
          /\ Occurs(r, catDirtyQueue) <=> entryDirty[r] /\ ~(committer = "taken" /\ current = r)
      BY <1>1 DEF IInv, TypeOK, Queued
    <3> QED BY <3>1, QueuedOnce
  <2>2. ClosedIsSaved
    <3> SUFFICES ASSUME committer = "stopped", NEW r \in live PROVE store[r] = entryMeta[r]
      BY DEF ClosedIsSaved
    <3>1. catDirtyQueue = <<>> /\ r \in Repos
      BY <1>1 DEF IInv, Stopped, TypeOK
    <3>2. ~Occurs(r, catDirtyQueue)
      BY <3>1 DEF Occurs
    <3> QED BY <1>1, <3>1, <3>2 DEF IInv, Queued, Saved
  <2> QED BY <1>1, <2>1, <2>2 DEF IInv, ChangesSaved
<1> QED BY <1>1, Invariance, PTL

\* The committer and a deletion work at the same time, and still nothing is
\* written to the store for an entry that is neither live nor being created or
\* deleted: a deleted database does not come back.
THEOREM DeletedStaysDeleted == Spec => NotBroughtBack
<1>1. ASSUME IInv, [Next]_vars
      PROVE  [\A r \in Repos : store'[r] # store[r] => r \in live \cup ephemeral]_vars
  <2> SUFFICES ASSUME NEW r \in Repos, store'[r] # store[r] PROVE r \in live \cup ephemeral
    OBVIOUS
  <2>1. store' # store
    OBVIOUS
  <2>2. PutWrite \/ \E x \in Repos : StoreCreate(x) \/ StoreDelete(x)
    BY ZenonT(30), <1>1, <2>1 DEF Next, vars, TaskStep, Commit, CreateBegin, DeleteBegin, StoreCreateFails,
       EntryCreated, EntryNotCreated, StoreDeleteFails, EntryDeleted, AbortRestoring,
       FinishRestoring, WriteMeta, StartRestoring, CommitTake, CommitRead, PutExists, PutFails,
       CommitRelease, CommitStop, Close, Restart
  <2>3. CASE PutWrite
    <3>1. r = current
      BY <1>1, <2>3 DEF IInv, TypeOK, PutWrite
    <3> QED BY <1>1, <2>3, <3>1, CatalogAssumption DEF IInv, Committing, PutWrite
  <2>4. ASSUME NEW x \in Repos, StoreCreate(x) \/ StoreDelete(x) PROVE r \in ephemeral
    <3>1. r = x /\ task[x] # "none"
      BY <1>1, <2>4 DEF IInv, TypeOK, StoreCreate, StoreDelete
    <3> QED BY <1>1, <3>1 DEF IInv, Places
  <2> QED BY <2>2, <2>3, <2>4
<1> QED BY <1>1, Invariance, PTL DEF Spec, NotBroughtBack

=============================================================================
