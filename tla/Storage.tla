------------------------------- MODULE Storage -------------------------------
(* The RocksDB storage of one database (glean/rocksdb/rocksdb.cpp) with the  *)
(* ownership of its facts, and the threads of the server that write to it.   *)
(*                                                                           *)
(* A database goes through these stages: it is created; clients write        *)
(* batches of facts with the units that own them; the ownership is completed *)
(* (completePredicates); facts are derived and their ownership is computed;  *)
(* the database is finalized.  What a handle keeps in memory is lost when    *)
(* the server stops, which may happen between any two writes.                *)
EXTENDS Ownership

CONSTANTS
    Facts,       \* the facts that are ever written or derived
    Refs,        \* [Facts -> Seq(Facts)], what a fact refers to
    Predicate,   \* [Facts -> predicates]
    Batches,     \* [batch jobs -> [facts: Seq(Facts), owned: [units -> SUBSET Facts]]]
    Derivations, \* [derivation jobs -> Seq([fact: Facts, deps: SUBSET Facts])]
    StartingId,  \* the first id of the database
    MaxCrashes,
    Free         \* nobody holds the write lock

VARIABLES
    disk,        \* the column families
    mem,         \* DatabaseImpl, what the open handle remembers
    lock,        \* wrLock: Free, a job, or "own" for the thread that stores ownership
    jobs,        \* what the threads that write batches are doing
    own,         \* the thread that computes ownership
    stage,       \* how far the database has come
    axiomComplete, \* metaAxiomComplete, in the catalog
    crashes,
    logged,      \* history: the log that the stored ownership was computed from
    derived      \* history: [fact, deps] of the derivations that were logged

vars == <<disk, mem, lock, jobs, own, stage, axiomComplete, crashes, logged, derived>>

Absent == -1
Invalid == 0
Closed == [open |-> FALSE]
AllPredicates == {Predicate[f] : f \in Facts}

BatchJobs == DOMAIN Batches
DeriveJobs == DOMAIN Derivations
Todo == [phase |-> "todo"]
Idle == [phase |-> "idle"]

ASSUME StorageAssumption ==
    /\ StartingId \in Nat \ {0} /\ MaxCrashes \in Nat
    /\ \A f \in Facts : \A i \in DOMAIN Refs[f] : Refs[f][i] \in Facts

-----------------------------------------------------------------------------
(* Opening a database. *)

EmptyDisk == [starting |-> Absent, next |-> Absent, version |-> Absent,
              entities |-> <<>>, keys |-> <<>>, stats |-> [p \in AllPredicates |-> 0],
              units |-> <<>>, raw |-> <<>>, derivedRaw |-> <<>>,
              sets |-> <<>>, owners |-> <<>>]

\* The entries of a log with keys <<x, n>> for x.
Entries(log, x) == {k \in DOMAIN log : k[1] = x}

\* The first entry of a unit doesn't count.
LoadOwnershipUnitCounters(raw) ==
    [u \in {k[1] : k \in DOMAIN raw} |-> Cardinality(Entries(raw, u)) - 1]

\* Mutant: like the counters of the units.
LoadDerivedCountersShort(raw) ==
    [p \in {k[1] : k \in DOMAIN raw} |-> Cardinality(Entries(raw, p)) - 1]

LoadOwnershipDerivedCounters(raw) ==
    [p \in {k[1] : k \in DOMAIN raw} |-> Cardinality(Entries(raw, p))]

\* The sets come back with the default operation; of two sets that become
\* equal the later id stays.
LoadOwnershipSets(sets) ==
    LET exps == {Or(sets[id].set) : id \in DOMAIN sets}
        Newest(exp) == Max({id \in DOMAIN sets : sets[id].set = exp.set})
        next == IF sets = <<>> THEN 0 ELSE Max(DOMAIN sets) + 1
    IN  [NewUsets(next) EXCEPT !.sets = [exp \in exps |-> [refs |-> 0, id |-> Newest(exp)]]]

\* The handle on a database whose admin values are there.
Load(d) ==
    [open |-> TRUE, starting |-> d.starting, next |-> d.next, stats |-> d.stats,
     unitCounters |-> LoadOwnershipUnitCounters(d.raw),
     derivedCounters |-> LoadOwnershipDerivedCounters(d.derivedRaw),
     usets |-> LoadOwnershipSets(d.sets)]

\* A new database gets its admin values one by one.
CreatePut ==
    /\ stage = "create" /\ ~mem.open
    /\ \/ /\ disk.starting = Absent
          /\ disk' = [disk EXCEPT !.starting = StartingId]
       \/ /\ disk.starting # Absent /\ disk.next = Absent
          /\ disk' = [disk EXCEPT !.next = StartingId]
       \/ /\ disk.next # Absent /\ disk.version = Absent
          /\ disk' = [disk EXCEPT !.version = 1]
    /\ UNCHANGED <<mem, lock, jobs, own, stage, axiomComplete, crashes, logged, derived>>

Created ==
    /\ stage = "create" /\ ~mem.open /\ disk.version # Absent
    /\ mem' = Load(disk)
    /\ stage' = "writing"
    /\ UNCHANGED <<disk, lock, jobs, own, axiomComplete, crashes, logged, derived>>

\* Opening an existing database; the creation may have been interrupted.
Open ==
    /\ ~mem.open /\ stage \notin {"create", "corrupt"}
    /\ IF disk.next = Absent
       THEN stage' = "corrupt" /\ UNCHANGED mem
       ELSE /\ mem' = Load(disk)
            /\ stage' = IF stage = "created" THEN "writing" ELSE stage
    /\ UNCHANGED <<disk, lock, jobs, own, axiomComplete, crashes, logged, derived>>

Busy == lock # Free \/ own # Idle \/ \E j \in DOMAIN jobs : jobs[j].phase \notin {"todo", "done"}

\* The handle is closed when nobody uses it.
Close ==
    /\ mem.open /\ ~Busy
    /\ mem' = Closed
    /\ UNCHANGED <<disk, lock, jobs, own, stage, axiomComplete, crashes, logged, derived>>

\* The server stops; what wasn't finished will be done again.
Crash ==
    /\ crashes < MaxCrashes /\ stage # "corrupt"
    /\ crashes' = crashes + 1
    /\ mem' = Closed
    /\ lock' = Free
    /\ own' = Idle
    /\ jobs' = [j \in DOMAIN jobs |-> IF jobs[j].phase = "done" THEN jobs[j] ELSE Todo]
    /\ stage' = IF stage = "create" THEN "created" ELSE stage
    /\ UNCHANGED <<disk, axiomComplete, logged, derived>>

-----------------------------------------------------------------------------
(* Facts. *)

IdByKey(fact) ==
    IF mem.stats[Predicate[fact]] = 0 \/ fact \notin DOMAIN disk.keys THEN Invalid
    ELSE disk.keys[fact]

\* Mutant: the counts are written with the next batch only.
CommitStatsLate(d, m, facts) ==
    IF facts = <<>> THEN [disk |-> d, mem |-> m]
    ELSE LET Id(i) == m.next + i - 1
             stats == [p \in AllPredicates |->
                 m.stats[p] + Cardinality({i \in DOMAIN facts : Predicate[facts[i]] = p})]
             next == m.next + Len(facts)
         IN  [disk |-> [d EXCEPT
                !.entities = [id \in m.next .. next - 1 |-> facts[id - m.next + 1]] @@ @,
                !.keys = [f \in ToSet(facts) |->
                    Id(CHOOSE i \in DOMAIN facts : facts[i] = f)] @@ @,
                !.next = next,
                !.stats = m.stats],
              mem |-> [m EXCEPT !.next = next, !.stats = stats]]

\* commit: one write for the facts, NEXT_ID and the counts.
CommitFacts(d, m, facts) ==
    IF facts = <<>> THEN [disk |-> d, mem |-> m]
    ELSE LET Id(i) == m.next + i - 1
             stats == [p \in AllPredicates |->
                 m.stats[p] + Cardinality({i \in DOMAIN facts : Predicate[facts[i]] = p})]
             next == m.next + Len(facts)
         IN  [disk |-> [d EXCEPT
                !.entities = [id \in m.next .. next - 1 |-> facts[id - m.next + 1]] @@ @,
                !.keys = [f \in ToSet(facts) |->
                    Id(CHOOSE i \in DOMAIN facts : facts[i] = f)] @@ @,
                !.next = next,
                !.stats = stats],
              mem |-> [m EXCEPT !.next = next, !.stats = stats]]

\* The facts of a batch that the database doesn't have, in their order.
New(facts) == SelectSeq(facts, LAMBDA f : IdByKey(f) = Invalid)

\* The facts of a batch are renamed, deduplicated and committed under the lock.
CommitBatch(j) ==
    /\ mem.open /\ stage = "writing" /\ lock = Free /\ jobs[j].phase = "todo"
    /\ \E r \in {CommitFacts(disk, mem, New(Batches[j].facts))} :
        disk' = r.disk /\ mem' = r.mem
    /\ lock' = j
    /\ jobs' = [jobs EXCEPT ![j] = [phase |-> "committed"]]
    /\ UNCHANGED <<own, stage, axiomComplete, crashes, logged, derived>>

\* The ids of the units that are new, in the order in which they are listed.
NewUnitId(order, i) ==
    Cardinality(DOMAIN mem.unitCounters)
        + Cardinality({k \in 1 .. i - 1 : order[k] \notin DOMAIN disk.units})

\* addOwnership: one write for the new units and an entry of the log for each
\* unit of the batch.
AddOwnership(j) ==
    /\ mem.open /\ lock = j /\ jobs[j].phase = "committed"
    /\ LET owned == Batches[j].owned
           Ids(u) == {disk.keys[f] : f \in owned[u]}
       IN  \E order \in SetToSeqs(DOMAIN owned) :
             LET unitId == [u \in DOMAIN owned |->
                     IF u \in DOMAIN disk.units THEN disk.units[u]
                     ELSE NewUnitId(order, CHOOSE i \in DOMAIN order : order[i] = u)]
                 ids == {unitId[u] : u \in DOMAIN owned}
                 Counter(id) == IF id \in DOMAIN mem.unitCounters THEN mem.unitCounters[id] ELSE 0
                 entries == [k \in {<<id, Counter(id)>> : id \in ids} |->
                     UNION {Ids(u) : u \in {v \in DOMAIN owned : unitId[v] = k[1]}}]
             IN  /\ disk' = [disk EXCEPT !.units = unitId @@ @, !.raw = entries @@ @]
                 /\ mem' = [mem EXCEPT !.unitCounters =
                        [id \in ids |-> Counter(id) + 1] @@ @]
    /\ lock' = Free
    /\ jobs' = [jobs EXCEPT ![j] = [phase |-> "done"]]
    /\ UNCHANGED <<own, stage, axiomComplete, crashes, logged, derived>>

-----------------------------------------------------------------------------
(* Storing ownership.                                                        *)

\* The owner of a fact: that of the last interval which starts before it.
GetOwner(owners, id) ==
    LET before == {i \in DOMAIN owners : i <= id}
    IN  IF before = {} THEN INVALID_USET ELSE owners[Max(before)]

\* completePredicates by a client whose batches are all written, or the
\* finalizer when no client did it.  The log is read without the lock.
StartComplete ==
    /\ mem.open /\ own = Idle /\ ~axiomComplete
    /\ \/ stage = "writing" /\ \A j \in BatchJobs : jobs[j].phase = "done"
       \/ stage = "finalizing"
    /\ stage' = IF stage = "writing" THEN "completing" ELSE stage
    /\ \E state \in {StartCompletion(disk.raw, StartingId)} :
        own' = [phase |-> "complete", state |-> state, log |-> disk.raw, at |-> mem.next - 1]
    /\ UNCHANGED <<disk, mem, lock, jobs, axiomComplete, crashes, logged, derived>>

\* The client asks again after the server was stopped.
RestartComplete ==
    /\ mem.open /\ own = Idle /\ ~axiomComplete /\ stage = "completing"
    /\ \E state \in {StartCompletion(disk.raw, StartingId)} :
        own' = [phase |-> "complete", state |-> state, log |-> disk.raw, at |-> mem.next - 1]
    /\ UNCHANGED <<disk, mem, lock, jobs, stage, axiomComplete, crashes, logged, derived>>

\* The ids that the fact refers to.
RefIds(id) == [i \in DOMAIN Refs[disk.entities[id]] |-> disk.keys[Refs[disk.entities[id]][i]]]

\* The facts from the last one down to the first one.
CompleteNext ==
    /\ own.phase = "complete" /\ own.at >= StartingId
    /\ own' = [own EXCEPT !.at = @ - 1,
                          !.state = IF own.at \in DOMAIN own.state.facts
                                    THEN CompleteFact(@, own.at, RefIds(own.at)) ELSE @]
    /\ UNCHANGED <<disk, mem, lock, jobs, stage, axiomComplete, crashes, logged, derived>>

\* storeOwnership: first the sets, in one write; then the handle loads them.
StoreSets ==
    /\ lock = Free /\ own.phase = "complete" /\ own.at < StartingId
    /\ \E computed \in {ComputeOwnership(own.state)} :
        /\ disk' = [disk EXCEPT !.sets = computed.sets @@ @]
        /\ mem' = [mem EXCEPT !.usets = LoadOwnershipSets(computed.sets @@ disk.sets)]
        /\ own' = [phase |-> "owners", owners |-> computed.facts, log |-> own.log]
    /\ lock' = "own"
    /\ UNCHANGED <<jobs, stage, axiomComplete, crashes, logged, derived>>

\* Mutant: the lock is not released.
StoreOwnersLocked ==
    /\ own.phase = "owners"
    /\ disk' = [disk EXCEPT !.owners = own.owners @@ @]
    /\ logged' = IF own.log = <<>> THEN logged ELSE own.log
    /\ own' = [phase |-> "stored"]
    /\ UNCHANGED <<mem, lock, jobs, stage, axiomComplete, crashes, derived>>

\* Then the intervals, in another write.
StoreOwners ==
    /\ own.phase = "owners"
    /\ disk' = [disk EXCEPT !.owners = own.owners @@ @]
    /\ logged' = IF own.log = <<>> THEN logged ELSE own.log
    /\ own' = [phase |-> "stored"]
    /\ lock' = Free
    /\ UNCHANGED <<mem, jobs, stage, axiomComplete, crashes, derived>>

\* The client's call records that the axioms are complete.
SetComplete ==
    /\ own.phase = "stored" /\ stage = "completing"
    /\ axiomComplete' = TRUE
    /\ stage' = "deriving"
    /\ own' = Idle
    /\ UNCHANGED <<disk, mem, lock, jobs, crashes, logged, derived>>

-----------------------------------------------------------------------------
(* Derived facts.                                                            *)

\* A query that derives facts runs without the lock.
StartQuery(j) ==
    /\ mem.open /\ stage = "deriving" /\ jobs[j].phase = "todo"
    /\ jobs' = [jobs EXCEPT ![j] =
           [phase |-> "query", def |-> NewDefine(mem.usets), at |-> 1]]
    /\ UNCHANGED <<disk, mem, lock, own, stage, axiomComplete, crashes, logged, derived>>

\* The owners of the facts that the query is looking at.
OwnersOf(deps) == {GetOwner(disk.owners, disk.keys[f]) : f \in deps} \ {INVALID_USET}

\* newDerivedFact
DeriveFact(j) ==
    /\ jobs[j].phase = "query" /\ jobs[j].at <= Len(Derivations[j])
    /\ LET d == Derivations[j][jobs[j].at]
       IN  \E def \in {DerivedFrom(jobs[j].def, mem.usets, d.fact, OwnersOf(d.deps))} :
            jobs' = [jobs EXCEPT ![j].at = @ + 1, ![j].def = def]
    /\ UNCHANGED <<disk, mem, lock, own, stage, axiomComplete, crashes, logged, derived>>

\* The writer thread commits the derived facts.
CommitDerived(j) ==
    /\ lock = Free /\ jobs[j].phase = "query" /\ jobs[j].at > Len(Derivations[j])
    /\ LET all == [i \in DOMAIN Derivations[j] |-> Derivations[j][i].fact]
           once == SelectSeq([i \in DOMAIN all |-> <<i, all[i]>>],
                       LAMBDA p : \A k \in 1 .. p[1] - 1 : all[k] # p[2])
       IN  \E r \in {CommitFacts(disk, mem, New([i \in DOMAIN once |-> once[i][2]]))} :
            disk' = r.disk /\ mem' = r.mem
    /\ lock' = j
    /\ jobs' = [jobs EXCEPT ![j] = [phase |-> "sets", def |-> jobs[j].def]]
    /\ UNCHANGED <<own, stage, axiomComplete, crashes, logged, derived>>

\* addDefineOwnership: the sets that are new get ids and are written.
AddDefineSets(j) ==
    /\ lock = j /\ jobs[j].phase = "sets"
    /\ \E r \in {RebaseSets(mem.usets, jobs[j].def)} :
        /\ mem' = [mem EXCEPT !.usets = r.usets]
        /\ disk' = [disk EXCEPT !.sets = r.written @@ @]
        /\ jobs' = [jobs EXCEPT ![j] = [phase |-> "log", ids |-> jobs[j].def.ids,
               owners |-> [i \in DOMAIN jobs[j].def.owners |->
                   Renumber(r.subst, jobs[j].def.owners[i])]]]
    /\ UNCHANGED <<lock, own, stage, axiomComplete, crashes, logged, derived>>

\* The predicate that a job derives.
Pid(j) == Predicate[Derivations[j][1].fact]

Counter(pid) == IF pid \in DOMAIN mem.derivedCounters THEN mem.derivedCounters[pid] ELSE 0

\* An entry of the log with the owners of the facts.
AddDefineLog(j) ==
    /\ lock = j /\ jobs[j].phase = "log"
    /\ LET entry == [i \in DOMAIN jobs[j].ids |->
               <<disk.keys[jobs[j].ids[i]], jobs[j].owners[i]>>]
       IN  /\ disk' = [disk EXCEPT !.derivedRaw =
                  (<<Pid(j), Counter(Pid(j))>> :> entry) @@ @]
           /\ mem' = [mem EXCEPT !.derivedCounters =
                  (Pid(j) :> Counter(Pid(j)) + 1) @@ @]
    /\ derived' = derived \cup ToSet(Derivations[j])
    /\ lock' = Free
    /\ jobs' = [jobs EXCEPT ![j] = [phase |-> "done"]]
    /\ UNCHANGED <<own, stage, axiomComplete, crashes, logged>>

\* The entries of a predicate in the order in which they were logged.
DerivedLog(raw, pid) ==
    FlattenSeq([n \in 1 .. Cardinality(Entries(raw, pid)) |-> raw[<<pid, n - 1>>]])

\* The derivations are finished: their ownership is computed under the lock.
FinishOwnership ==
    /\ mem.open /\ stage = "deriving" /\ own = Idle /\ lock = Free
    /\ \A j \in DeriveJobs : jobs[j].phase = "done"
    /\ LET pid == CHOOSE p \in {Pid(j) : j \in DeriveJobs} : TRUE
       IN  \E log \in {DerivedLog(disk.derivedRaw, pid)} :
           \E computed \in {ComputeDerivedOwnership(mem.usets, log)} :
            /\ disk' = [disk EXCEPT !.sets = computed.sets @@ @]
            /\ mem' = [mem EXCEPT !.usets = LoadOwnershipSets(computed.sets @@ disk.sets)]
            /\ own' = [phase |-> "owners", owners |-> computed.facts, log |-> <<>>]
    /\ lock' = "own"
    /\ UNCHANGED <<jobs, stage, axiomComplete, crashes, logged, derived>>

Derived ==
    /\ own.phase = "stored" /\ stage = "deriving"
    /\ stage' = "derived"
    /\ own' = Idle
    /\ UNCHANGED <<disk, mem, lock, jobs, axiomComplete, crashes, logged, derived>>

-----------------------------------------------------------------------------
(* Finalizing.                                                               *)

\* The client finishes the database, with or without completing it first.
Finish ==
    /\ own = Idle
    /\ \/ stage = "writing" /\ \A j \in BatchJobs : jobs[j].phase = "done"
       \/ stage = "deriving" /\ \A j \in DeriveJobs : jobs[j].phase = "todo"
       \/ stage = "derived"
    /\ stage' = "finalizing"
    /\ UNCHANGED <<disk, mem, lock, jobs, own, axiomComplete, crashes, logged, derived>>

ReadyToOptimize == (own = Idle /\ axiomComplete) \/ own.phase \in {"stored", "optimizing"}

\* optimize: the families that are not kept are emptied one after the other.
OptimizeNext ==
    /\ mem.open /\ stage = "finalizing"
    /\ ReadyToOptimize
    /\ \/ disk.raw # <<>> /\ disk' = [disk EXCEPT !.raw = <<>>]
       \/ disk.raw = <<>> /\ disk.derivedRaw # <<>> /\ disk' = [disk EXCEPT !.derivedRaw = <<>>]
    /\ own' = [phase |-> "optimizing"]
    /\ UNCHANGED <<mem, lock, jobs, stage, axiomComplete, crashes, logged, derived>>

Finalized ==
    /\ mem.open /\ stage = "finalizing"
    /\ ReadyToOptimize
    /\ disk.raw = <<>> /\ disk.derivedRaw = <<>>
    /\ stage' = "complete"
    /\ own' = Idle
    /\ UNCHANGED <<disk, mem, lock, jobs, axiomComplete, crashes, logged, derived>>

-----------------------------------------------------------------------------

Init ==
    /\ disk = EmptyDisk
    /\ mem = Closed
    /\ lock = Free
    /\ jobs = [j \in BatchJobs \cup DeriveJobs |-> Todo]
    /\ own = Idle
    /\ stage = "create"
    /\ axiomComplete = FALSE
    /\ crashes = 0
    /\ logged = <<>>
    /\ derived = {}

Next ==
    \/ CreatePut \/ Created \/ Open \/ Close \/ Crash
    \/ \E j \in BatchJobs : CommitBatch(j) \/ AddOwnership(j)
    \/ StartComplete \/ RestartComplete \/ CompleteNext \/ StoreSets \/ StoreOwners \/ SetComplete
    \/ \E j \in DeriveJobs :
        StartQuery(j) \/ DeriveFact(j) \/ CommitDerived(j) \/ AddDefineSets(j) \/ AddDefineLog(j)
    \/ FinishOwnership \/ Derived
    \/ Finish \/ OptimizeNext \/ Finalized

Spec == Init /\ [][Next]_vars

\* What the server does for the clients; a step that is possible again and
\* again is taken, for a database in use isn't closed.
Serve ==
    \/ CreatePut \/ Created
    \/ \E j \in BatchJobs : CommitBatch(j) \/ AddOwnership(j)
    \/ StartComplete \/ RestartComplete \/ CompleteNext \/ StoreSets \/ StoreOwners \/ SetComplete
    \/ \E j \in DeriveJobs :
        StartQuery(j) \/ DeriveFact(j) \/ CommitDerived(j) \/ AddDefineSets(j) \/ AddDefineLog(j)
    \/ FinishOwnership \/ Derived
    \/ Finish \/ OptimizeNext \/ Finalized

FairSpec == Spec /\ WF_vars(Open) /\ SF_vars(Serve)

-----------------------------------------------------------------------------
(* Properties.                                                               *)

Ids(d) == IF d.next = Absent THEN {} ELSE StartingId .. d.next - 1

\* Every variable has its type: the stage of the database and the threads, the
\* families on disk, and what a handle holds in memory.
TypeOK ==
    /\ stage \in {"create", "created", "corrupt", "writing", "completing", "deriving",
                  "derived", "finalizing", "complete"}
    /\ DOMAIN disk.entities = Ids(disk)
    /\ disk.keys \in [DOMAIN disk.keys -> Ids(disk)]
    /\ lock \in {Free, "own"} \cup DOMAIN jobs
    /\ crashes \in 0 .. MaxCrashes /\ axiomComplete \in BOOLEAN

\* Whenever the server stops, the families agree: every id below NEXT_ID is a
\* fact, every fact is found by its key, under one id only, the counts are
\* exact, and a fact refers to facts with lower ids (commit).
DiskSound ==
    /\ \A id \in DOMAIN disk.entities : disk.keys[disk.entities[id]] = id
    /\ \A f \in DOMAIN disk.keys : disk.entities[disk.keys[f]] = f
    /\ \A p \in AllPredicates :
        disk.stats[p] = Cardinality({id \in DOMAIN disk.entities : Predicate[disk.entities[id]] = p})
    /\ \A id \in DOMAIN disk.entities : \A i \in DOMAIN RefIds(id) : RefIds(id)[i] < id

\* What a handle remembers is what it would load if it were opened again: the
\* next id, the counts, the id of the next set, and the counters of the logs of
\* derived facts as long as there are logs.
MemoryAgrees ==
    mem.open =>
        /\ mem.next = disk.next /\ mem.stats = disk.stats
        /\ mem.usets.nextId = LoadOwnershipSets(disk.sets).nextId
        /\ stage \notin {"finalizing", "complete"} =>
            mem.derivedCounters = LoadOwnershipDerivedCounters(disk.derivedRaw)

\* The log of the owners of derived facts is only appended to, also after the
\* server has been stopped, until the database is optimized.
DerivedLogKept ==
    disk'.derivedRaw = <<>>
        \/ \A k \in DOMAIN disk.derivedRaw : /\ k \in DOMAIN disk'.derivedRaw
                                             /\ disk'.derivedRaw[k] = disk.derivedRaw[k]

\* The log of the owners of facts, ownershipRaw, is said to be one as well.
RawLogAppendOnly ==
    [][disk'.raw = <<>> \/ \A k \in DOMAIN disk.raw : k \in DOMAIN disk'.raw /\ disk'.raw[k] = disk.raw[k]]_vars

NumUnitIds == Cardinality(DOMAIN disk.units)

\* No stored set, interval or log entry names a set that isn't stored: sets
\* consist of units and of sets with lower ids, which the slice relies on, and
\* units keep the ids below those of the sets.
SetsOrdered ==
    /\ {disk.units[u] : u \in DOMAIN disk.units} = 0 .. NumUnitIds - 1
    /\ \A id \in DOMAIN disk.sets :
        /\ id >= NumUnitIds
        /\ \A e \in disk.sets[id].set : e < NumUnitIds \/ (e < id /\ e \in DOMAIN disk.sets)
    /\ \A id \in DOMAIN disk.owners : disk.owners[id] \in DOMAIN disk.sets \cup {INVALID_USET}
    /\ \A k \in DOMAIN disk.derivedRaw : \A i \in DOMAIN disk.derivedRaw[k] :
        disk.derivedRaw[k][i][2] \in DOMAIN disk.sets

\* A stored set never changes: intervals and logs that name it keep their
\* meaning, whatever is computed again after the server has been stopped.
SetsKept == \A id \in DOMAIN disk.sets : id \in DOMAIN disk'.sets /\ disk'.sets[id] = disk.sets[id]

\* The facts that a fact refers to in at most n steps.
Reach[n \in Nat] == [f \in Facts |->
    IF n = 0 THEN {f} ELSE {f} \cup UNION {Reach[n - 1][g] : g \in ToSet(Refs[f])}]
ReachableFrom(f) == Reach[Cardinality(Facts)][f]

\* The units that own a fact: those which reported it or a fact that refers
\* to it.
OwningUnits(log, f) ==
    {k[1] : k \in {key \in DOMAIN log :
        \E id \in log[key] : f \in ReachableFrom(disk.entities[id])}}

VisibleFact(slice, id) ==
    GetOwner(disk.owners, id) # INVALID_USET /\ slice[GetOwner(disk.owners, id)]

\* The slice of some units shows the facts that one of the units owns, and the
\* slice that excludes them shows the facts that another unit owns, for the
\* facts that were written before the completion.
SliceRight ==
    (logged # <<>> /\ (own.phase = "stored" \/ stage = "complete")) =>
        \A units \in SUBSET (0 .. NumUnitIds - 1), exclude \in BOOLEAN :
            LET slice == Slice(disk.sets, units, exclude)
                shown == IF exclude THEN (0 .. NumUnitIds - 1) \ units ELSE units
            IN  \A id \in StartingId .. Max(LoggedIds(logged)) :
                    VisibleFact(slice, id)
                        <=> OwningUnits(logged, disk.entities[id]) \cap shown # {}

\* A derived fact that a slice shows can be derived from what the slice shows:
\* all the facts of one of its derivations which have an owner are visible.
DerivedSound ==
    (stage = "complete" /\ derived # {}) =>
        \A units \in SUBSET (0 .. NumUnitIds - 1), exclude \in BOOLEAN :
            LET slice == Slice(disk.sets, units, exclude)
                Shown(f) == \/ GetOwner(disk.owners, disk.keys[f]) = INVALID_USET
                            \/ VisibleFact(slice, disk.keys[f])
            IN  \A d \in derived : VisibleFact(slice, disk.keys[d.fact]) =>
                    \E e \in derived : e.fact = d.fact /\ \A f \in e.deps : Shown(f)

\* A fact that can be derived in a slice is visible in it: the owner of a fact
\* with several derivations is one of their owners or the other.
DerivedComplete ==
    (stage = "complete" /\ derived # {}) =>
        \A units \in SUBSET (0 .. NumUnitIds - 1), exclude \in BOOLEAN :
            LET slice == Slice(disk.sets, units, exclude)
            IN  \A d \in derived :
                    (\A f \in d.deps : VisibleFact(slice, disk.keys[f]))
                        => VisibleFact(slice, disk.keys[d.fact])

\* While ownership is completed a set has as many references as there are
\* facts that point to it, and one more when it has got an id; so no set that
\* is in use is released.
UsetRefs ==
    own.phase = "complete" =>
        LET st == own.state
            Users(exp) == Cardinality({id \in DOMAIN st.facts : st.facts[id] = exp})
        IN  /\ {st.facts[id] : id \in DOMAIN st.facts} \ {NoSet} \subseteq DOMAIN st.usets.sets
            /\ \A exp \in DOMAIN st.usets.sets : st.usets.sets[exp].refs =
                    Users(exp) + IF st.usets.sets[exp].id # INVALID_USET THEN 1 ELSE 0

\* A database whose creation wasn't interrupted gets complete, whenever the
\* server stops.
GetsComplete == <>(stage \in {"complete", "corrupt"})

\* The column families agree with each other and with what an open handle
\* remembers of them, wherever the server was stopped: counters, next ids,
\* statistics, ownership sets in the order of their ids and their reference counts.
StorageSound == TypeOK /\ DiskSound /\ MemoryAgrees /\ SetsOrdered /\ UsetRefs

\* What has been stored stays: the logs of derived facts only grow, and the id
\* of a set never comes to mean another set.
AppendOnly == [][DerivedLogKept /\ SetsKept]_vars


=============================================================================
