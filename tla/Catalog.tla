------------------------------ MODULE Catalog ------------------------------
(***************************************************************************)
(* The catalog of databases (glean/db/Glean/Database/Catalog.hs): entries  *)
(* that are live, being restored, or being created or deleted; the status  *)
(* of a database, which depends on the databases it is stacked on; and the *)
(* committer thread, which writes changed metadata to the store.  The      *)
(* server may stop at any time and starts again from the store.            *)
(*                                                                         *)
(* A step is one STM transaction or one access to the store.  An entry is  *)
(* named by its repo: Catalog.delete leaves no reference to the old entry, *)
(* neither in the dirty queue nor in the committer.                        *)
(***************************************************************************)
EXTENDS Lists, FiniteSets, Functions

CONSTANTS
    Repos,
    base,        \* [Repos -> Repos \cup {NoRepo}]: metaDependencies
    NoRepo,
    Metas,       \* the completeness values that entries take (bound)
    MayFail,     \* the accesses to the store that may fail
    MayCrash,    \* may the server stop at any time
    MaxRestarts  \* bound: how often the catalog is opened again

Completenesses == {"Incomplete", "Finalizing", "Complete", "Broken"}

ASSUME CatalogAssumption ==
    /\ IsFiniteSet(Repos)
    /\ NoRepo \notin Repos
    /\ base \in [Repos -> Repos \cup {NoRepo}]
    /\ Metas \subseteq Completenesses
    /\ MayFail \subseteq {"create", "restore", "delete", "put"}
    /\ MayCrash \in BOOLEAN
    /\ MaxRestarts \in Nat

VARIABLES
    catOpen,      \* is catEntries a Just
    live, restoring, ephemeral,
    entryMeta,    \* of the live entries, and of those that are being restored
    entryStatus,
    entryDirty,
    entryComitting,
    dependents,   \* catRepoDependents (its lists as sets)
    catDirtyQueue,
    task,         \* what the thread that made a repo ephemeral does next
    committer,    \* where the committer is, ...
    current,      \* ... its entry, ...
    putting,      \* ... and the metadata it writes
    store,        \* the metadata in the store, or "none"
    restarts

entries == <<live, restoring, ephemeral>>
status == <<entryStatus, dependents>>
dirty == <<entryDirty, catDirtyQueue>>
commits == <<entryComitting, committer, current, putting>>
vars == <<catOpen, entries, entryMeta, status, dirty, commits, task, store, restarts>>

-----------------------------------------------------------------------------
(* The status of an entry.                                                 *)

\* ItemStatus, ordered by increasing severity.
Severity(s) ==
    CASE s = "ItemComplete" -> 0 [] s = "ItemIncomplete" -> 1 [] s = "ItemBroken" -> 2
      [] s = "ItemRestoring" -> 3 [] s = "ItemMissing" -> 4
ItemStatuses == {"ItemComplete", "ItemIncomplete", "ItemBroken", "ItemRestoring", "ItemMissing"}
Worse(s, t) == IF Severity(s) >= Severity(t) THEN s ELSE t

ItemStatusFor(completeness) ==
    CASE completeness \in {"Complete", "Finalizing"} -> "ItemComplete"
      [] completeness = "Incomplete" -> "ItemIncomplete"
      [] completeness = "Broken" -> "ItemBroken"

\* A set of entries: those that are live, those being restored, and metadata.
Entries(l, r, m) == [live |-> l, restoring |-> r, meta |-> m]
MissingStatus(e, r) == IF r \in e.restoring THEN "ItemRestoring" ELSE "ItemMissing"

\* The status of r by itself, and together with what its base has.
OwnStatus(e, r) ==
    IF r \in e.live THEN ItemStatusFor(e.meta[r]) ELSE MissingStatus(e, r)
CombinedStatus(e, r, st) ==
    IF base[r] = NoRepo THEN OwnStatus(e, r)
    ELSE Worse(OwnStatus(e, r),
               IF base[r] \in e.live THEN st[base[r]] ELSE MissingStatus(e, base[r]))

\* What recalculateStatus works on: entryStatus and catRepoDependents.
Statuses == [status : [Repos -> ItemStatuses], dependents : [Repos -> SUBSET Repos]]

\* Registers r with its base, or takes it back.
Registered(e, r, deps) ==
    IF base[r] = NoRepo THEN deps
    ELSE [deps EXCEPT ![base[r]] = IF r \in e.live THEN @ \cup {r} ELSE @ \ {r}]


\* recalculateStatus: goes on to the dependents when the status has changed.
RecalculateStatus(e, repo, statuses) ==
    LET recalculate[r \in Repos, s \in Statuses] ==
            LET new == CombinedStatus(e, r, s.status)
                deps == Registered(e, r, s.dependents)
                changed == [status |-> [s.status EXCEPT ![r] = new], dependents |-> deps]
            IN IF new = s.status[r] THEN changed
               ELSE FoldSet(LAMBDA d, acc : recalculate[d, acc], changed, deps[r] \cap e.live)
    IN recalculate[repo, statuses]

\* recalculateDepsStatus
RecalculateDepsStatus(e, r, s) ==
    FoldSet(LAMBDA d, acc : RecalculateStatus(e, d, acc), s, s.dependents[r] \cap e.live)

SetStatus(s) == entryStatus' = s.status /\ dependents' = s.dependents
CurrentStatus == [status |-> entryStatus, dependents |-> dependents]

-----------------------------------------------------------------------------
(* Opening and closing.                                                    *)

\* open: the entries in the store become live, and their status is calculated
\* one after the other.
OpenedEntries(st) == {r \in Repos : st[r] # "none"}
Orders(l) == Bijection(1 .. Cardinality(l), l)
OpenedStatus(m, l, order) ==
    LET after[i \in 0 .. Cardinality(l)] ==
            IF i = 0
            THEN [status |-> [r \in Repos |-> "ItemMissing"],
                  dependents |-> [r \in Repos |-> {}]]
            ELSE RecalculateStatus(Entries(l, {}, m), order[i], after[i - 1])
    IN after[Cardinality(l)]
OpenedMeta(st) == [r \in Repos |-> IF st[r] = "none" THEN "Incomplete" ELSE st[r]]

\* The catalog is opened on a store with any metadata.
Init ==
    /\ store \in [Repos -> Metas \cup {"none"}]
    /\ catOpen = TRUE
    /\ live = OpenedEntries(store)
    /\ restoring = {}
    /\ ephemeral = {}
    /\ entryMeta = OpenedMeta(store)
    /\ \E order \in Orders(OpenedEntries(store)) :
          LET s == OpenedStatus(OpenedMeta(store), OpenedEntries(store), order)
          IN entryStatus = s.status /\ dependents = s.dependents
    /\ entryDirty = [r \in Repos |-> FALSE]
    /\ entryComitting = [r \in Repos |-> FALSE]
    /\ catDirtyQueue = <<>>
    /\ task = [r \in Repos |-> "none"]
    /\ committer = "idle"
    /\ current = NoRepo
    /\ putting = "none"
    /\ restarts = 0

\* The server has stopped, after closing the catalog or without, and the
\* catalog is opened again.
Restart ==
    /\ restarts < MaxRestarts
    /\ MayCrash \/ committer = "stopped"
    /\ restarts' = restarts + 1
    /\ catOpen' = TRUE
    /\ live' = OpenedEntries(store)
    /\ restoring' = {}
    /\ ephemeral' = {}
    /\ entryMeta' = OpenedMeta(store)
    /\ \E order \in Orders(OpenedEntries(store)) :
          SetStatus(OpenedStatus(OpenedMeta(store), OpenedEntries(store), order))
    /\ entryDirty' = [r \in Repos |-> FALSE]
    /\ entryComitting' = [r \in Repos |-> FALSE]
    /\ catDirtyQueue' = <<>>
    /\ task' = [r \in Repos |-> "none"]
    /\ committer' = "idle"
    /\ current' = NoRepo
    /\ putting' = "none"
    /\ UNCHANGED store

\* close waits until nothing is being created or deleted; then the committer
\* has to finish.
Close ==
    /\ catOpen
    /\ ephemeral = {}
    /\ catOpen' = FALSE
    /\ UNCHANGED <<entries, entryMeta, status, dirty, commits, task, store, restarts>>

-----------------------------------------------------------------------------
(* Metadata and the committer.                                             *)

\* dirtyEntry
DirtyEntry(r) ==
    /\ entryDirty' = [entryDirty EXCEPT ![r] = TRUE]
    /\ catDirtyQueue' = IF entryDirty[r] THEN catDirtyQueue ELSE Append(catDirtyQueue, r)

\* writeMeta and modifyMeta.
WriteMeta(r, m) ==
    LET metas == [entryMeta EXCEPT ![r] = m] IN
    /\ catOpen
    /\ r \in live
    /\ entryMeta' = metas
    /\ SetStatus(RecalculateStatus(Entries(live, restoring, metas), r, CurrentStatus))
    /\ DirtyEntry(r)
    /\ UNCHANGED <<catOpen, entries, commits, task, store, restarts>>

CommitTake ==
    /\ committer = "idle"
    /\ catDirtyQueue # <<>>
    /\ current' = Head(catDirtyQueue)
    /\ catDirtyQueue' = Tail(catDirtyQueue)
    /\ entryComitting' = [entryComitting EXCEPT ![Head(catDirtyQueue)] = TRUE]
    /\ committer' = "taken"
    /\ UNCHANGED <<catOpen, entries, entryMeta, status, entryDirty, putting, task,
                   store, restarts>>

\* Mutant: the entry stays dirty.
CommitReadOnly ==
    /\ committer = "taken"
    /\ putting' = entryMeta[current]
    /\ committer' = "put"
    /\ UNCHANGED <<catOpen, entries, entryMeta, status, dirty, entryComitting,
                   current, task, store, restarts>>

\* The metadata is read and the entry is clean again, in one transaction.
CommitRead ==
    /\ committer = "taken"
    /\ entryDirty' = [entryDirty EXCEPT ![current] = FALSE]
    /\ putting' = entryMeta[current]
    /\ committer' = "put"
    /\ UNCHANGED <<catOpen, entries, entryMeta, status, catDirtyQueue,
                   entryComitting, current, task, store, restarts>>

\* Store.put looks whether the entry exists (else it only logs an error) ...
PutExists ==
    /\ committer = "put"
    /\ committer' = IF store[current] = "none" THEN "release" ELSE "write"
    /\ UNCHANGED <<catOpen, entries, entryMeta, status, dirty, entryComitting,
                   current, putting, task, store, restarts>>

\* ... and replaces its file.
PutWrite ==
    /\ committer = "write"
    /\ store' = [store EXCEPT ![current] = putting]
    /\ committer' = "release"
    /\ UNCHANGED <<catOpen, entries, entryMeta, status, dirty, entryComitting,
                   current, putting, task, restarts>>

\* Any exception in it makes the entry dirty again.
PutFails ==
    /\ "put" \in MayFail
    /\ committer \in {"put", "write"}
    /\ DirtyEntry(current)
    /\ committer' = "release"
    /\ UNCHANGED <<catOpen, entries, entryMeta, status, entryComitting,
                   current, putting, task, store, restarts>>

\* Mutant: the entry is marked as clean after the put.
CommitReleaseClean ==
    /\ committer = "release"
    /\ entryDirty' = [entryDirty EXCEPT ![current] = FALSE]
    /\ entryComitting' = [entryComitting EXCEPT ![current] = FALSE]
    /\ committer' = "idle"
    /\ current' = NoRepo
    /\ putting' = "none"
    /\ UNCHANGED <<catOpen, entries, entryMeta, status, catDirtyQueue, task, store, restarts>>

\* The bracket's release.
CommitRelease ==
    /\ committer = "release"
    /\ entryComitting' = [entryComitting EXCEPT ![current] = FALSE]
    /\ committer' = "idle"
    /\ current' = NoRepo
    /\ putting' = "none"
    /\ UNCHANGED <<catOpen, entries, entryMeta, status, dirty, task, store, restarts>>

\* The catalog is closed and the queue is empty.
CommitStop ==
    /\ committer = "idle"
    /\ catDirtyQueue = <<>>
    /\ ~catOpen
    /\ committer' = "stopped"
    /\ UNCHANGED <<catOpen, entries, entryMeta, status, dirty, entryComitting,
                   current, putting, task, store, restarts>>

-----------------------------------------------------------------------------
(* Creating, restoring and deleting.  The thread that makes a repo ephemeral *)
(* is the only one that works on it: task[r] is what it does next.         *)

Known(r) == r \in live \cup restoring \cup ephemeral

\* create reserves the name, unless it throws EntryAlreadyExists.
CreateBegin(r) ==
    /\ catOpen
    /\ ~Known(r)
    /\ ephemeral' = ephemeral \cup {r}
    /\ task' = [task EXCEPT ![r] = "create"]
    /\ entryMeta' = [entryMeta EXCEPT ![r] = "Incomplete"]
    /\ UNCHANGED <<catOpen, live, restoring, status, dirty, commits, store, restarts>>

\* startRestoring, unless it throws; what is stacked on r is now ItemRestoring.
StartRestoring(r, m) ==
    /\ catOpen
    /\ ~Known(r)
    /\ restoring' = restoring \cup {r}
    /\ entryMeta' = [entryMeta EXCEPT ![r] = m]
    /\ SetStatus(RecalculateDepsStatus(Entries(live, restoring \cup {r}, entryMeta), r,
                                       CurrentStatus))
    /\ UNCHANGED <<catOpen, live, ephemeral, dirty, commits, task, store, restarts>>

\* abortRestoring
AbortRestoring(r) ==
    /\ catOpen
    /\ r \in restoring
    /\ restoring' = restoring \ {r}
    /\ entryMeta' = [entryMeta EXCEPT ![r] = "Incomplete"]
    /\ SetStatus(RecalculateDepsStatus(Entries(live, restoring \ {r}, entryMeta), r,
                                       CurrentStatus))
    /\ UNCHANGED <<catOpen, live, ephemeral, dirty, commits, task, store, restarts>>

\* finishRestoring (it doesn't recalculate any status yet).
FinishRestoring(r) ==
    /\ catOpen
    /\ r \in restoring
    /\ restoring' = restoring \ {r}
    /\ ephemeral' = ephemeral \cup {r}
    /\ task' = [task EXCEPT ![r] = "restore"]
    /\ UNCHANGED <<catOpen, live, entryMeta, status, dirty, commits, store, restarts>>

\* Store.create for both; it refuses to replace an entry that is there.
StoreCreate(r) ==
    /\ task[r] \in {"create", "restore"}
    /\ store[r] = "none"
    /\ store' = [store EXCEPT ![r] = entryMeta[r]]
    /\ task' = [task EXCEPT ![r] = "created"]
    /\ UNCHANGED <<catOpen, entries, entryMeta, status, dirty, commits, restarts>>
StoreCreateFails(r) ==
    /\ task[r] \in {"create", "restore"}
    /\ store[r] # "none" \/ task[r] \in MayFail
    /\ task' = [task EXCEPT ![r] = "failed"]
    /\ UNCHANGED <<catOpen, entries, entryMeta, status, dirty, commits, store, restarts>>

\* The second transaction of create and of finishRestoring, with a new entry
\* that becomes live, or is dropped.
EntryCreated(r) ==
    LET fresh == [CurrentStatus EXCEPT !.status[r] = "ItemMissing"] IN
    /\ task[r] = "created"
    /\ ephemeral' = ephemeral \ {r}
    /\ live' = live \cup {r}
    /\ SetStatus(RecalculateStatus(Entries(live \cup {r}, restoring, entryMeta), r, fresh))
    /\ task' = [task EXCEPT ![r] = "none"]
    /\ UNCHANGED <<catOpen, restoring, entryMeta, dirty, commits, store, restarts>>
EntryNotCreated(r) ==
    LET fresh == [CurrentStatus EXCEPT !.status[r] = "ItemMissing"] IN
    /\ task[r] = "failed"
    /\ ephemeral' = ephemeral \ {r}
    /\ SetStatus(RecalculateStatus(Entries(live, restoring, entryMeta), r, fresh))
    /\ task' = [task EXCEPT ![r] = "none"]
    /\ entryMeta' = [entryMeta EXCEPT ![r] = "Incomplete"]
    /\ UNCHANGED <<catOpen, live, restoring, dirty, commits, store, restarts>>

\* Mutant: delete doesn't wait for the committer.
DeleteCommitting(r) ==
    /\ catOpen
    /\ r \in live
    /\ catDirtyQueue' = Without(catDirtyQueue, {r})
    /\ entryDirty' = [entryDirty EXCEPT ![r] = FALSE]
    /\ live' = live \ {r}
    /\ ephemeral' = ephemeral \cup {r}
    /\ entryMeta' = [entryMeta EXCEPT ![r] = "Incomplete"]
    /\ SetStatus(RecalculateStatus(Entries(live \ {r}, restoring, entryMeta), r, CurrentStatus))
    /\ task' = [task EXCEPT ![r] = "delete"]
    /\ UNCHANGED <<catOpen, restoring, commits, store, restarts>>

\* delete waits while the entry is being committed, and takes it out of the
\* dirty queue.
DeleteBegin(r) ==
    /\ catOpen
    /\ r \in live
    /\ ~entryComitting[r]
    /\ catDirtyQueue' = Without(catDirtyQueue, {r})
    /\ entryDirty' = [entryDirty EXCEPT ![r] = FALSE]
    /\ live' = live \ {r}
    /\ ephemeral' = ephemeral \cup {r}
    /\ entryMeta' = [entryMeta EXCEPT ![r] = "Incomplete"]
    /\ SetStatus(RecalculateStatus(Entries(live \ {r}, restoring, entryMeta), r, CurrentStatus))
    /\ task' = [task EXCEPT ![r] = "delete"]
    /\ UNCHANGED <<catOpen, restoring, commits, store, restarts>>

\* Store.delete, which is the end of the entry also when it fails.
StoreDelete(r) ==
    /\ task[r] = "delete"
    /\ store' = [store EXCEPT ![r] = "none"]
    /\ task' = [task EXCEPT ![r] = "deleted"]
    /\ UNCHANGED <<catOpen, entries, entryMeta, status, dirty, commits, restarts>>
StoreDeleteFails(r) ==
    /\ "delete" \in MayFail
    /\ task[r] = "delete"
    /\ task' = [task EXCEPT ![r] = "deleted"]
    /\ UNCHANGED <<catOpen, entries, entryMeta, status, dirty, commits, store, restarts>>

EntryDeleted(r) ==
    /\ task[r] = "deleted"
    /\ ephemeral' = ephemeral \ {r}
    /\ task' = [task EXCEPT ![r] = "none"]
    /\ UNCHANGED <<catOpen, live, restoring, entryMeta, status, dirty, commits,
                   store, restarts>>

-----------------------------------------------------------------------------
Commit == \/ CommitTake \/ CommitRead \/ PutExists \/ PutWrite \/ PutFails
          \/ CommitRelease \/ CommitStop
TaskStep(r) == \/ StoreCreate(r) \/ StoreCreateFails(r) \/ EntryCreated(r)
               \/ EntryNotCreated(r) \/ StoreDelete(r) \/ StoreDeleteFails(r)
               \/ EntryDeleted(r)

Next ==
    \/ \E r \in Repos : \/ CreateBegin(r) \/ DeleteBegin(r) \/ TaskStep(r)
                        \/ AbortRestoring(r) \/ FinishRestoring(r)
    \/ \E r \in Repos, m \in Metas : WriteMeta(r, m) \/ StartRestoring(r, m)
    \/ Commit \/ Close \/ Restart

Spec == Init /\ [][Next]_vars

\* The committer and the threads with a task run on, and a put that is tried
\* again and again for an entry succeeds.
FairSpec ==
    /\ Spec
    /\ WF_vars(Commit)
    /\ \A r \in Repos : /\ SF_vars(current = r /\ PutExists)
                        /\ SF_vars(current = r /\ PutWrite)
                        /\ WF_vars(TaskStep(r))

-----------------------------------------------------------------------------
(* Properties.                                                             *)

\* Every variable has its type (StatusSound has those of the statuses).
TypeOK ==
    /\ catOpen \in BOOLEAN
    /\ live \in SUBSET Repos /\ restoring \in SUBSET Repos /\ ephemeral \in SUBSET Repos
    /\ entryMeta \in [Repos -> Completenesses]
    /\ entryDirty \in [Repos -> BOOLEAN]
    /\ entryComitting \in [Repos -> BOOLEAN]
    /\ catDirtyQueue \in Seq(Repos)
    /\ task \in [Repos -> {"none", "create", "restore", "created", "failed",
                           "delete", "deleted"}]
    /\ committer \in {"idle", "taken", "put", "write", "release", "stopped"}
    /\ current \in Repos \cup {NoRepo}
    /\ putting \in Completenesses \cup {"none"}
    /\ store \in [Repos -> Completenesses \cup {"none"}]
    /\ restarts \in 0 .. MaxRestarts

\* A change is never forgotten: an entry whose metadata differs from the store
\* is in the dirty queue once, or the committer has it (entryDirty's comment).
ChangesQueued ==
    \A r \in live :
        /\ Cardinality({k \in DOMAIN catDirtyQueue : catDirtyQueue[k] = r})
             = IF entryDirty[r] /\ ~(committer = "taken" /\ current = r) THEN 1 ELSE 0
        /\ store[r] # entryMeta[r] =>
             \/ entryDirty[r]
             \/ current = r /\ committer \in {"put", "write"} /\ putting = entryMeta[r]

\* The store changes only for an entry that is live, or that is being created or
\* deleted: a deleted database doesn't come back in the store, although the
\* committer and delete access it at the same time.
NotBroughtBack ==
    [][\A r \in Repos : store'[r] # store[r] => r \in live \cup ephemeral]_vars

\* When the catalog has been closed and the committer has stopped, all changes
\* are in the store (close waits for the committer).
ClosedIsSaved ==
    committer = "stopped" => \A r \in live : store[r] = entryMeta[r]

\* The repos that r is stacked on, directly or not, up to the first that is not
\* live: what that one is stacked on is not known to the catalog.
Chain(r) ==
    LET reach[n \in 0 .. Cardinality(Repos)] ==
            IF n = 0 THEN {r}
            ELSE reach[n - 1] \cup ({base[x] : x \in reach[n - 1] \cap live} \ {NoRepo})
    IN reach[Cardinality(Repos)]

\* The worst status along r's chain.
ChainSeverity(r) ==
    Max({Severity(OwnStatus(Entries(live, restoring, entryMeta), x)) : x \in Chain(r)})


\* What the comment on entryStatus says: it is the combined status of the entry
\* and its dependencies; asked only when none of them is being added by create
\* or finishRestoring.  It fails: mkEntry starts with ItemMissing, so when that
\* is also what recalculateStatus finds, the dependents are not recalculated.
StatusCurrent ==
    \A r \in live :
        (\A x \in Chain(r) : task[x] \notin {"create", "restore", "created", "failed"}) =>
            Severity(entryStatus[r]) = ChainSeverity(r)

\* The last change of an entry that stays reaches the store, whatever changed
\* while the committer was writing an earlier one, and although puts may fail.
LastChangeSaved ==
    \A r \in Repos, m \in Metas :
        <>[](r \in live /\ entryMeta[r] = m) => <>[](store[r] = m)

\* close returns: the committer stops after the catalog has been closed, however
\* much there is to commit.
CloseEnds == ~catOpen ~> (committer = "stopped" \/ catOpen)

\* No change is forgotten on its way to the store: what the store doesn't have
\* yet is marked dirty or held by the committer, and a catalog whose committer
\* has stopped after close left nothing behind.
ChangesSaved == TypeOK /\ ChangesQueued /\ ClosedIsSaved

\* With a fair committer the changes arrive and close returns.
SavedInTheEnd == LastChangeSaved /\ CloseEnds

=============================================================================
