----------------------------- MODULE Lifecycle -----------------------------
(***************************************************************************)
(* The life of one database (repo) inside a Glean server: threads acquire  *)
(* it, open it on demand, use it, release it, close it when idle, delete   *)
(* it and create it (Open.hs, Close.hs, Delete.hs, Create.hs under         *)
(* glean/db/Glean/Database).                                               *)
(*                                                                         *)
(* A step is one STM transaction or one call into the storage layer, so    *)
(* everything the threads can observe of each other interleaves.  The      *)
(* server keeps a DB object per active repo in envActive; deleting a repo  *)
(* and using it again makes a new object, so several objects for the same  *)
(* repo can be alive at once.  An unreachable object is recycled.          *)
(***************************************************************************)
EXTENDS Integers, FiniteSets

CONSTANTS
    Clients,      \* threads that call withOpenDatabase
    Creators,     \* threads that call kickOffDatabase
    IdleClosers,  \* threads that call closeIdleDatabase (the janitor)
    Closers,      \* threads that call closeDatabase (server shutdown)
    Removers,     \* threads that call deleteDatabase
    Openers,      \* threads spawned by asyncOpenDB (bound: how many at once)
    DBs,          \* DB objects (bound: how many at once)
    NoDB, NoOpener,
    envReadOnly,  \* is the server started read-only
    MayCancel     \* may a thread be cancelled while it waits for its opener

\* The threads that hold a use count (acquireDB .. releaseDB) while they run.
Threads == Clients \cup Creators \cup IdleClosers \cup Closers \cup Openers
Waiters == Clients \cup Creators

ASSUME ThreadsAssumption ==
    /\ IsFiniteSet(Threads)
    /\ Clients \cap (Creators \cup IdleClosers \cup Closers \cup Openers) = {}
    /\ Creators \cap (IdleClosers \cup Closers \cup Openers) = {}
    /\ IdleClosers \cap (Closers \cup Openers) = {}
    /\ Closers \cap Openers = {}
    /\ NoDB \notin DBs
    /\ NoOpener \notin Openers
    /\ envReadOnly \in BOOLEAN
    /\ MayCancel \in BOOLEAN

VARIABLES
    catalog,     \* the repo's place in the catalog
    meta,        \* metaCompleteness of its catalog entry
    active,      \* envActive[repo], or NoDB
    deleting,    \* repo \in envDeleting
    files,       \* does the physical database exist in the storage
    dbState,     \* DBState of each DB object
    odbWriting,  \* is odbWriting of the open database a Just
    dbUsers,     \* use count of each DB object
    handle,      \* is a storage handle open for the DB object
    pc,          \* where each thread is
    held,        \* the DB object that the thread has acquired, or NoDB
    arg,         \* the DB object an opener thread was started for
    opener,      \* the opener thread that a client or creator waits for
    mode,        \* the mode in which the thread opens its DB object
    rpc, rdb     \* where each remover is, and the DB object it deletes

env == <<catalog, meta, active, deleting, files>>
objects == <<dbState, odbWriting, dbUsers, handle>>
local == <<arg, opener, mode>>
threads == <<pc, held, local>>
removers == <<rpc, rdb>>
vars == <<env, objects, threads, removers>>

\* A DB object nothing refers to, not even through an open handle.
Unreachable(d) ==
    /\ d # active
    /\ ~handle[d]
    /\ \A t \in Threads : held[t] # d
    /\ \A o \in Openers : arg[o] # d
    /\ \A r \in Removers : rdb[r] # d

Incomplete == catalog = "live" /\ meta = "Incomplete"

\* mode in withOpenDatabase.
OpenMode ==
    IF envReadOnly \/ meta \in {"Finalizing", "Complete"} THEN "ReadOnly" ELSE "ReadWrite"

\* The server starts with the repo in the catalog, or without it.
Init ==
    /\ \/ catalog = "none" /\ meta = "Incomplete"
       \/ catalog = "live" /\ meta \in {"Incomplete", "Complete"}
    /\ active = NoDB
    /\ deleting = FALSE
    /\ files = (catalog = "live")
    /\ dbState = [d \in DBs |-> "Closed"]
    /\ odbWriting = [d \in DBs |-> FALSE]
    /\ dbUsers = [d \in DBs |-> 0]
    /\ handle = [d \in DBs |-> FALSE]
    /\ mode = [t \in Waiters \cup Openers |-> "ReadOnly"]
    /\ pc = [t \in Threads |-> "idle"]
    /\ held = [t \in Threads |-> NoDB]
    /\ arg = [o \in Openers |-> NoDB]
    /\ opener = [w \in Waiters |-> NoOpener]
    /\ rpc = [r \in Removers |-> "idle"]
    /\ rdb = [r \in Removers |-> NoDB]

-----------------------------------------------------------------------------
(* Acquiring and releasing.                                                *)

\* acquireDB by thread t, which continues at label l.
AcquireDB(t, d, l) ==
    /\ dbUsers' = [dbUsers EXCEPT ![d] = @ + 1]
    /\ held' = [held EXCEPT ![t] = d]
    /\ pc' = [pc EXCEPT ![t] = l]

\* Mutant: the count is not taken back.
ReleaseUncounted(t, l) ==
    /\ held' = [held EXCEPT ![t] = NoDB]
    /\ pc' = [pc EXCEPT ![t] = l]
    /\ UNCHANGED <<dbUsers, active>>

\* releaseDB by thread t.  The last user of a closed database that is not
\* Incomplete takes whatever envActive holds for the repo out of it.
ReleaseDB(t, l) ==
    LET d == held[t] IN
    /\ dbUsers' = [dbUsers EXCEPT ![d] = @ - 1]
    /\ held' = [held EXCEPT ![t] = NoDB]
    /\ active' = IF dbUsers[d] = 1 /\ dbState[d] = "Closed" /\ ~Incomplete
                 THEN NoDB ELSE active
    /\ pc' = [pc EXCEPT ![t] = l]

\* lookupActiveDatabase finds the repo; any thread that uses it acquires it.
AcquireActive(t) ==
    /\ t \in Clients \cup IdleClosers \cup Closers
    /\ pc[t] = "idle"
    /\ active # NoDB
    /\ AcquireDB(t, active, "acquired")
    /\ UNCHANGED <<env, dbState, odbWriting, handle, removers, local>>

\* Mutant: envDeleting isn't looked at.
ActivateDeleting(c) ==
    /\ pc[c] = "idle"
    /\ active = NoDB
    /\ catalog = "live"
    /\ \E d \in DBs :
          /\ Unreachable(d)
          /\ active' = d
          /\ dbState' = [dbState EXCEPT ![d] = "Closed"]
          /\ dbUsers' = [dbUsers EXCEPT ![d] = 1]
          /\ held' = [held EXCEPT ![c] = d]
          /\ pc' = [pc EXCEPT ![c] = "acquired"]
    /\ UNCHANGED <<catalog, meta, deleting, files, odbWriting, handle,
                   removers, local>>

\* withActiveDatabase makes the object when the repo is in the catalog and is
\* not being deleted (in the other cases it throws UnknownDatabase).
ActivateNew(c) ==
    /\ c \in Clients
    /\ pc[c] = "idle"
    /\ active = NoDB
    /\ catalog = "live"
    /\ ~deleting
    /\ \E d \in DBs :
          /\ Unreachable(d)
          /\ active' = d
          /\ dbState' = [dbState EXCEPT ![d] = "Closed"]
          /\ dbUsers' = [dbUsers EXCEPT ![d] = 1]
          /\ held' = [held EXCEPT ![c] = d]
          /\ pc' = [pc EXCEPT ![c] = "acquired"]
    /\ UNCHANGED <<catalog, meta, deleting, files, odbWriting, handle,
                   removers, local>>

-----------------------------------------------------------------------------
(* withOpenDatabase.                                                       *)

\* The transaction finds the database open.
EnterOpen(c) ==
    /\ c \in Clients
    /\ pc[c] = "acquired"
    /\ dbState[held[c]] = "Open"
    /\ pc' = [pc EXCEPT ![c] = "using"]
    /\ UNCHANGED <<env, objects, held, local, removers>>

\* Mutant: the state isn't set to Opening.
ClaimNothing(c) ==
    /\ pc[c] = "acquired"
    /\ dbState[held[c]] = "Closed"
    /\ catalog = "live"
    /\ mode' = [mode EXCEPT ![c] = OpenMode]
    /\ pc' = [pc EXCEPT ![c] = "spawn"]
    /\ UNCHANGED <<env, objects, held, arg, opener, removers>>

\* The transaction finds it closed and claims the right to open it.
ClaimOpening(c) ==
    /\ c \in Clients
    /\ pc[c] = "acquired"
    /\ dbState[held[c]] = "Closed"
    /\ catalog = "live"
    /\ dbState' = [dbState EXCEPT ![held[c]] = "Opening"]
    /\ mode' = [mode EXCEPT ![c] = OpenMode]
    /\ pc' = [pc EXCEPT ![c] = "spawn"]
    /\ UNCHANGED <<env, odbWriting, dbUsers, handle, held, arg, opener,
                   removers>>

\* It finds it closed and throws: the repo isn't in the catalog, or was written
\* by a version of Glean that can't be opened.  Or the repo has left the catalog
\* when its dependencies are read, after the transaction above.
OpenRefused(c) ==
    /\ c \in Clients
    /\ \/ pc[c] = "acquired" /\ dbState[held[c]] = "Closed"
       \/ pc[c] = "spawn" /\ catalog # "live"
    /\ ReleaseDB(c, "idle")
    /\ mode' = [mode EXCEPT ![c] = "ReadOnly"]
    /\ UNCHANGED <<catalog, meta, deleting, files, dbState, odbWriting,
                   handle, arg, opener, removers>>

\* asyncOpenDB: spawn the opener thread and wait for it.
SpawnOpener(w) ==
    /\ w \in Waiters
    /\ pc[w] = "spawn"
    /\ w \in Clients => catalog = "live"
    /\ \E o \in Openers :
          /\ pc[o] = "idle"
          /\ arg' = [arg EXCEPT ![o] = held[w]]
          /\ mode' = [mode EXCEPT ![o] = mode[w], ![w] = "ReadOnly"]
          /\ opener' = [opener EXCEPT ![w] = o]
          /\ pc' = [pc EXCEPT ![o] = "spawned", ![w] = "waiting"]
    /\ UNCHANGED <<env, objects, held, removers>>

\* The opener has finished: a client goes on to use the database, a creator is
\* done, and the exception of a failed opener is rethrown to the waiter.
AwaitClient(c) ==
    /\ c \in Clients
    /\ pc[c] = "waiting"
    /\ pc[opener[c]] = "ok"
    /\ pc' = [pc EXCEPT ![c] = "using", ![opener[c]] = "idle"]
    /\ opener' = [opener EXCEPT ![c] = NoOpener]
    /\ UNCHANGED <<env, objects, held, arg, mode, removers>>
AwaitRelease(w) ==
    /\ w \in Waiters
    /\ pc[w] = "waiting"
    /\ \/ pc[opener[w]] = "failed"
       \/ pc[opener[w]] = "ok" /\ w \in Creators
    /\ pc' = [pc EXCEPT ![w] = "release", ![opener[w]] = "idle"]
    /\ opener' = [opener EXCEPT ![w] = NoOpener]
    /\ UNCHANGED <<env, objects, held, arg, mode, removers>>

\* The waiter is cancelled while it waits: the opener thread runs on.
CancelWait(w) ==
    /\ MayCancel
    /\ w \in Waiters
    /\ pc[w] = "waiting"
    /\ opener' = [opener EXCEPT ![w] = NoOpener]
    /\ pc' = [pc EXCEPT ![w] = "release",
                        ![opener[w]] = IF @ \in {"ok", "failed"} THEN "idle" ELSE @]
    /\ UNCHANGED <<env, objects, held, arg, mode, removers>>

\* The bracket of withActiveDatabase, usingActiveDatabase or kickOffDatabase
\* ends, after the action or after an exception.
Release(t) ==
    /\ t \in Threads \ Openers
    /\ \/ pc[t] = "release"
       \/ pc[t] = "using" /\ t \in Clients
    /\ ReleaseDB(t, "idle")
    /\ UNCHANGED <<catalog, meta, deleting, files, dbState, odbWriting,
                   handle, removers, local>>

-----------------------------------------------------------------------------
(* The opener thread of asyncOpenDB.                                       *)

OpenerAcquire(o) ==
    /\ pc[o] = "spawned"
    /\ AcquireDB(o, arg[o], "opening")
    /\ UNCHANGED <<env, dbState, odbWriting, handle, removers, local>>

\* Storage.open; Create mode makes the physical database.
StorageOpen(o) ==
    /\ pc[o] = "opening"
    /\ files \/ mode[o] = "Create"
    /\ files' = TRUE
    /\ handle' = [handle EXCEPT ![arg[o]] = TRUE]
    /\ pc' = [pc EXCEPT ![o] = "opened"]
    /\ UNCHANGED <<catalog, meta, active, deleting, dbState, odbWriting,
                   dbUsers, held, removers, local>>

\* on_success for a database being created: schedule its tasks, which may be
\* none (Finalizing) or may fail.
OpenOnSuccess(o) ==
    /\ pc[o] = "opened"
    /\ mode[o] = "Create"
    /\ catalog = "live"
    /\ meta' \in {meta} \cup IF meta = "Incomplete" THEN {"Finalizing", "Broken"} ELSE {}
    /\ pc' = [pc EXCEPT ![o] = "scheduled"]
    /\ UNCHANGED <<catalog, active, deleting, files, objects, held, local,
                   removers>>

\* The schema, the write queue and the ownership are set up: publish Open.
OpenDone(o) ==
    /\ \/ pc[o] = "scheduled"
       \/ pc[o] = "opened" /\ mode[o] # "Create"
    /\ dbState' = [dbState EXCEPT ![arg[o]] = "Open"]
    /\ odbWriting' = [odbWriting EXCEPT ![arg[o]] = mode[o] # "ReadOnly"]
    /\ pc' = [pc EXCEPT ![o] = "done"]
    /\ UNCHANGED <<env, dbUsers, handle, held, removers, local>>

\* Opening fails, before or after Storage.open: the handle is closed again
\* (bracketOnError) and handling_failures sets the state back.
OpenFail(o) ==
    /\ pc[o] \in {"opening", "opened"}
    /\ handle' = [handle EXCEPT ![arg[o]] = @ /\ pc[o] = "opening"]
    /\ dbState' = [dbState EXCEPT ![arg[o]] = "Closed"]
    /\ pc' = [pc EXCEPT ![o] = "failing"]
    /\ UNCHANGED <<env, odbWriting, dbUsers, held, removers, local>>

\* on_failure: a database that couldn't be created is marked Broken.
OpenOnFailure(o) ==
    /\ pc[o] = "failing"
    /\ meta' = IF mode[o] = "Create" /\ catalog = "live" THEN "Broken" ELSE meta
    /\ pc' = [pc EXCEPT ![o] = "doneFailing"]
    /\ UNCHANGED <<catalog, active, deleting, files, objects, held, local,
                   removers>>

\* Mutant: the opener ends without an answer.
OpenerSilent(o) ==
    /\ pc[o] \in {"done", "doneFailing"}
    /\ ReleaseDB(o, "idle")
    /\ arg' = [arg EXCEPT ![o] = NoDB]
    /\ mode' = [mode EXCEPT ![o] = "ReadOnly"]
    /\ UNCHANGED <<catalog, meta, deleting, files, dbState, odbWriting,
                   handle, opener, removers>>

\* The opener's own bracket ends; its result stays for a waiter that is left.
OpenerRelease(o) ==
    /\ pc[o] \in {"done", "doneFailing"}
    /\ ReleaseDB(o, IF \E w \in Waiters : opener[w] = o
                    THEN (IF pc[o] = "done" THEN "ok" ELSE "failed")
                    ELSE "idle")
    /\ arg' = [arg EXCEPT ![o] = NoDB]
    /\ mode' = [mode EXCEPT ![o] = "ReadOnly"]
    /\ UNCHANGED <<catalog, meta, deleting, files, dbState, odbWriting,
                   handle, opener, removers>>

-----------------------------------------------------------------------------
(* closeIdleDatabase and closeDatabase, both through closeIf.              *)

\* The closer is the only user, so the database can be closed.  (The write
\* queue is empty and, for the janitor, the database has been idle for long
\* enough; time and queue are not part of this module.)
StartClosing(t) ==
    /\ t \in IdleClosers \cup Closers
    /\ pc[t] = "acquired"
    /\ dbState[held[t]] = "Open"
    /\ dbUsers[held[t]] = 1
    /\ dbState' = [dbState EXCEPT ![held[t]] = "Closing"]
    /\ pc' = [pc EXCEPT ![t] = "closing"]
    /\ UNCHANGED <<env, odbWriting, dbUsers, handle, held, removers, local>>

\* closeIdleDatabase gives up unless the database is open and idle;
\* closeDatabase only when it is closed already (else it waits).
SkipClosing(t) ==
    /\ pc[t] = "acquired"
    /\ \/ t \in IdleClosers
       \/ t \in Closers /\ dbState[held[t]] = "Closed"
    /\ pc' = [pc EXCEPT ![t] = "release"]
    /\ UNCHANGED <<env, objects, held, local, removers>>

\* closeOpenDB.
CloseHandle(t) ==
    /\ pc[t] = "closing"
    /\ handle' = [handle EXCEPT ![held[t]] = FALSE]
    /\ pc' = [pc EXCEPT ![t] = "closed"]
    /\ UNCHANGED <<env, dbState, odbWriting, dbUsers, held, removers, local>>

MarkClosed(t) ==
    /\ pc[t] = "closed"
    /\ dbState' = [dbState EXCEPT ![held[t]] = "Closed"]
    /\ odbWriting' = [odbWriting EXCEPT ![held[t]] = FALSE]
    /\ pc' = [pc EXCEPT ![t] = "release"]
    /\ UNCHANGED <<env, dbUsers, handle, held, removers, local>>

-----------------------------------------------------------------------------
(* deleteDatabase: the transaction of asyncDeleteDatabase, then the remover *)
(* thread running removeDatabase.                                          *)


\* The active object is taken out of envActive ...
DeleteActive(r) ==
    /\ rpc[r] = "idle"
    /\ active # NoDB
    /\ active' = NoDB
    /\ deleting' = TRUE
    /\ rdb' = [rdb EXCEPT ![r] = active]
    /\ rpc' = [rpc EXCEPT ![r] = "waiting"]
    /\ UNCHANGED <<catalog, meta, files, objects, threads>>

\* ... or one is made for a repo that is not active ...
DeleteInactive(r) ==
    /\ rpc[r] = "idle"
    /\ active = NoDB
    /\ ~deleting
    /\ catalog = "live"
    /\ deleting' = TRUE
    /\ \E d \in DBs :
          /\ Unreachable(d)
          /\ dbState' = [dbState EXCEPT ![d] = "Closed"]
          /\ dbUsers' = [dbUsers EXCEPT ![d] = 0]
          /\ rdb' = [rdb EXCEPT ![r] = d]
    /\ rpc' = [rpc EXCEPT ![r] = "waiting"]
    /\ UNCHANGED <<catalog, meta, active, files, odbWriting, handle, threads>>

\* ... or else the remover has nothing to do.
DeleteNothing(r) ==
    /\ rpc[r] = "idle"
    /\ active = NoDB
    /\ deleting \/ catalog # "live"
    /\ rpc' = [rpc EXCEPT ![r] = "finally"]
    /\ UNCHANGED <<env, objects, threads, rdb>>

AsyncDelete(r) == DeleteActive(r) \/ DeleteInactive(r) \/ DeleteNothing(r)

\* Mutant: the remover doesn't wait for the users.
RemoveUsed(r) ==
    /\ rpc[r] = "waiting"
    /\ rpc' = [rpc EXCEPT ![r] = "closing"]
    /\ UNCHANGED <<env, objects, threads, rdb>>

RemoveUnused(r) ==
    /\ rpc[r] = "waiting"
    /\ dbUsers[rdb[r]] = 0
    /\ rpc' = [rpc EXCEPT ![r] = "closing"]
    /\ UNCHANGED <<env, objects, threads, rdb>>

\* An open database is closed first.
RemoveClose(r) ==
    /\ rpc[r] = "closing"
    /\ dbState[rdb[r]] = "Open"
    /\ handle' = [handle EXCEPT ![rdb[r]] = FALSE]
    /\ dbState' = [dbState EXCEPT ![rdb[r]] = "Closed"]
    /\ odbWriting' = [odbWriting EXCEPT ![rdb[r]] = FALSE]
    /\ rpc' = [rpc EXCEPT ![r] = "catalog"]
    /\ UNCHANGED <<env, dbUsers, threads, rdb>>
RemoveNotOpen(r) ==
    /\ rpc[r] = "closing"
    /\ dbState[rdb[r]] # "Open"
    /\ rpc' = [rpc EXCEPT ![r] = "catalog"]
    /\ UNCHANGED <<env, objects, threads, rdb>>

\* Catalog.delete makes the entry ephemeral, then removes it; it throws when
\* there is no live entry.
RemoveEntry(r) ==
    /\ rpc[r] = "catalog"
    /\ IF catalog = "live"
       THEN catalog' = "removing" /\ rpc' = [rpc EXCEPT ![r] = "removing"]
       ELSE catalog' = catalog /\ rpc' = [rpc EXCEPT ![r] = "finally"]
    /\ UNCHANGED <<meta, active, deleting, files, objects, threads, rdb>>
EntryRemoved(r) ==
    /\ rpc[r] = "removing"
    /\ catalog' = "none"
    /\ meta' = "Incomplete"
    /\ rpc' = [rpc EXCEPT ![r] = "storage"]
    /\ UNCHANGED <<active, deleting, files, objects, threads, rdb>>

\* Storage.delete and the removal of the directory.
RemoveStorage(r) ==
    /\ rpc[r] = "storage"
    /\ files' = FALSE
    /\ rpc' = [rpc EXCEPT ![r] = "finally"]
    /\ UNCHANGED <<catalog, meta, active, deleting, objects, threads, rdb>>

\* The finally of removeDatabase, whatever the remover did.
RemoveFinally(r) ==
    /\ rpc[r] = "finally"
    /\ deleting' = FALSE
    /\ rpc' = [rpc EXCEPT ![r] = "idle"]
    /\ rdb' = [rdb EXCEPT ![r] = NoDB]
    /\ UNCHANGED <<catalog, meta, active, files, objects, threads>>

-----------------------------------------------------------------------------
(* kickOffDatabase, and the completeness of the database.                  *)

\* Catalog.create reserves the name (EntryAlreadyExists if there is an entry).
KickOff(k) ==
    /\ k \in Creators
    /\ pc[k] = "idle"
    /\ ~envReadOnly
    /\ catalog = "none"
    /\ catalog' = "creating"
    /\ pc' = [pc EXCEPT ![k] = "creating"]
    /\ UNCHANGED <<meta, active, deleting, files, objects, held, local,
                   removers>>

\* The entry is stored and goes live together with its DB object; or storing
\* it fails and the name is free again.
CreateEntry(k) ==
    /\ pc[k] = "creating"
    /\ \E d \in DBs :
          /\ Unreachable(d)
          /\ catalog' = "live"
          /\ meta' = "Incomplete"
          /\ active' = d
          /\ dbState' = [dbState EXCEPT ![d] = "Opening"]
          /\ mode' = [mode EXCEPT ![k] = "Create"]
          /\ dbUsers' = [dbUsers EXCEPT ![d] = 1]
          /\ held' = [held EXCEPT ![k] = d]
          /\ pc' = [pc EXCEPT ![k] = "spawn"]
    /\ UNCHANGED <<deleting, files, odbWriting, handle, arg, opener,
                   removers>>
CreateEntryFails(k) ==
    /\ pc[k] = "creating"
    /\ catalog' = "none"
    /\ pc' = [pc EXCEPT ![k] = "idle"]
    /\ UNCHANGED <<meta, active, deleting, files, objects, held, local,
                   removers>>

\* workFinished for the last task, with makeReadOnly on an open database (it
\* throws instead while writes are outstanding).
WorkFinished ==
    /\ Incomplete
    /\ meta' = "Finalizing"
    /\ odbWriting' = [d \in DBs |->
           odbWriting[d] /\ ~(d = active /\ dbState[d] = "Open")]
    /\ UNCHANGED <<catalog, active, deleting, files, dbState, dbUsers, handle,
                   threads, removers>>

\* A task fails (failTask), or the finalizer finishes.
TaskFailed ==
    /\ Incomplete
    /\ meta' = "Broken"
    /\ UNCHANGED <<catalog, active, deleting, files, objects, threads,
                   removers>>
Finalized ==
    /\ catalog = "live"
    /\ meta = "Finalizing"
    /\ meta' = "Complete"
    /\ UNCHANGED <<catalog, active, deleting, files, objects, threads,
                   removers>>

-----------------------------------------------------------------------------
\* What a thread does once it has started, apart from being cancelled.
ClientStep(c) == EnterOpen(c) \/ ClaimOpening(c) \/ OpenRefused(c) \/ AwaitClient(c)
WaiterStep(w) == SpawnOpener(w) \/ AwaitRelease(w)
OpenerStep(o) == \/ OpenerAcquire(o) \/ StorageOpen(o) \/ OpenOnSuccess(o) \/ OpenDone(o)
                 \/ OpenFail(o) \/ OpenOnFailure(o) \/ OpenerRelease(o)
CloserStep(t) == StartClosing(t) \/ SkipClosing(t) \/ CloseHandle(t) \/ MarkClosed(t)
RemoverStep(r) == \/ RemoveUnused(r) \/ RemoveClose(r) \/ RemoveNotOpen(r)
                  \/ RemoveEntry(r) \/ EntryRemoved(r) \/ RemoveStorage(r) \/ RemoveFinally(r)
CreatorStep(k) == CreateEntry(k) \/ CreateEntryFails(k)

Next ==
    \/ \E t \in Threads : AcquireActive(t) \/ Release(t)
    \/ \E c \in Clients : ActivateNew(c) \/ ClientStep(c)
    \/ \E w \in Waiters : WaiterStep(w) \/ CancelWait(w)
    \/ \E o \in Openers : OpenerStep(o)
    \/ \E t \in IdleClosers \cup Closers : CloserStep(t)
    \/ \E k \in Creators : KickOff(k) \/ CreatorStep(k)
    \/ \E r \in Removers : AsyncDelete(r) \/ RemoverStep(r)
    \/ WorkFinished \/ TaskFailed \/ Finalized

Spec == Init /\ [][Next]_vars

\* A thread that can go on does; nothing makes a thread start an operation.
FairSpec ==
    /\ Spec
    /\ \A c \in Clients : WF_vars(ClientStep(c))
    /\ \A w \in Waiters : WF_vars(WaiterStep(w))
    /\ \A t \in Threads : WF_vars(Release(t))
    /\ \A o \in Openers : WF_vars(OpenerStep(o))
    /\ \A t \in IdleClosers \cup Closers : WF_vars(CloserStep(t))
    /\ \A k \in Creators : WF_vars(CreatorStep(k))
    /\ \A r \in Removers : WF_vars(RemoverStep(r))

-----------------------------------------------------------------------------
(* Properties.                                                             *)

ThreadLabels ==
    {"idle", "acquired", "spawn", "waiting", "using", "release",
     "spawned", "opening", "opened", "scheduled", "done", "failing",
     "doneFailing", "ok", "failed", "closing", "closed", "creating"}
RemoverLabels ==
    {"idle", "waiting", "closing", "catalog", "removing", "storage", "finally"}

\* Every variable has its type (the type of the Env and DB records).
TypeOK ==
    /\ catalog \in {"none", "creating", "live", "removing"}
    /\ meta \in {"Incomplete", "Finalizing", "Complete", "Broken"}
    /\ active \in DBs \cup {NoDB}
    /\ deleting \in BOOLEAN
    /\ files \in BOOLEAN
    /\ dbState \in [DBs -> {"Closed", "Opening", "Open", "Closing"}]
    /\ odbWriting \in [DBs -> BOOLEAN]
    /\ dbUsers \in [DBs -> Nat]
    /\ handle \in [DBs -> BOOLEAN]
    /\ mode \in [Waiters \cup Openers -> {"ReadOnly", "ReadWrite", "Create"}]
    /\ pc \in [Threads -> ThreadLabels]
    /\ held \in [Threads -> DBs \cup {NoDB}]
    /\ arg \in [Openers -> DBs \cup {NoDB}]
    /\ opener \in [Waiters -> Openers \cup {NoOpener}]
    /\ rpc \in [Removers -> RemoverLabels]
    /\ rdb \in [Removers -> DBs \cup {NoDB}]

Holders(d) == {t \in Threads : held[t] = d}

\* The threads that are opening or closing d, or are about to.
Target(t) == IF t \in Openers THEN arg[t] ELSE held[t]
InCharge(d) ==
    {t \in Threads : /\ pc[t] \in {"spawn", "spawned", "opening", "opened", "scheduled",
                                   "closing", "closed"}
                     /\ Target(t) = d}

\* acquireDB and releaseDB are paired whatever happens to the thread: the use
\* count of an object is the number of threads that hold it.
UseCounts == \A d \in DBs : dbUsers[d] = Cardinality(Holders(d))

\* withOpenDatabase runs its action on an open database only: neither a closer
\* nor a remover closes the handle under it.
UsingOpenHandle ==
    \A c \in Clients :
        pc[c] = "using" => dbState[held[c]] = "Open" /\ handle[held[c]]

\* ... and while a client or a creator holds on to an object, no step of any
\* thread takes it out of Open.
KeepsOpen ==
    \A w \in Waiters : \A d \in DBs :
        held[w] = d /\ held'[w] = d /\ dbState[d] = "Open" => dbState'[d] = "Open"

\* No closer, remover or opener takes a database out of Open while somebody
\* holds it (closeIdleDatabase and removeDatabase look at dbUsers).
HeldStaysOpen == [][KeepsOpen]_vars

\* Opening and Closing are locks: one thread at most opens or closes an object,
\* so that no handle is opened over another or closed twice.
OneInCharge ==
    \A d \in DBs : \A x, y \in InCharge(d) :
        x = y /\ dbState[d] \in {"Opening", "Closing"}

\* ... and somebody will end it: an active object is never left Opening or
\* Closing by threads that have gone away.
LockHasOwner ==
    active # NoDB /\ dbState[active] \in {"Opening", "Closing"} => InCharge(active) # {}

\* The storage of a repo is open through one object at most: a repo that is
\* deleted or closed is not opened again before its old handle is closed.
OneHandle == \A d, e \in DBs : handle[d] /\ handle[e] => d = e

\* removeDatabase deletes the storage only after the database has been closed,
\* and nobody opens it then.
DeletedIsClosed == ~files => \A d \in DBs : ~handle[d]

\* checkActive in LifecycleTest: "in envActive but not in Catalog".
ActiveInCatalog == active # NoDB => catalog = "live"

\* checkActive in LifecycleTest: "no users but Opening", "no users but Closing".
UnusedIsSettled ==
    active # NoDB /\ dbUsers[active] = 0 => dbState[active] \in {"Open", "Closed"}

\* checkActive in LifecycleTest: "in envActive but not active".
UnusedClosedIsIncomplete ==
    active # NoDB /\ dbUsers[active] = 0 /\ dbState[active] = "Closed" => Incomplete

\* checkActive in LifecycleTest: "in envActive and envDeleting".
ActiveNotDeleting == active # NoDB => ~deleting

\* makeReadOnly in Work.hs: a database that is complete (or being finalized)
\* can't be written to any more.
FinalIsReadOnly ==
    active # NoDB /\ dbState[active] = "Open" /\ odbWriting[active]
        => ~(catalog = "live" /\ meta \in {"Finalizing", "Complete"})

\* A thread that waits for its opener gets an answer.
OpenAnswered == \A w \in Waiters : pc[w] = "waiting" ~> pc[w] # "waiting"

\* deleteDatabase returns: the users of the object go away, no new ones come.
DeleteReturns == \A r \in Removers : rpc[r] = "waiting" ~> rpc[r] = "idle"


\* The storage has one owner: one DB object at most has it open, removeDatabase
\* deletes it only when no object has, and an object whose state is being changed
\* has a thread that will settle it.
StorageExclusive == OneHandle /\ DeletedIsClosed /\ LockHasOwner

\* Every call comes to an end, openings and deletions alike.
Returns == OpenAnswered /\ DeleteReturns

=============================================================================
