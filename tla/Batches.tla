------------------------------ MODULE Batches ------------------------------
(* Writing facts to a database: the batches of the C++ clients               *)
(* (glean/cpp/glean.h, sender.cpp), the loop of an indexer that fills them   *)
(* (glean/lang/clang/index.cpp) and the server that renames, deduplicates    *)
(* and commits them (Glean.Database.Write.Batch, glean/rocksdb).             *)
(*                                                                           *)
(* The meaning of a fact doesn't depend on ids: a term is a predicate, an    *)
(* atom and the terms that it refers to.  A source file is the sequence of   *)
(* the terms that indexing it defines, subterms first.                       *)
(*                                                                           *)
(* The properties of the writes are those of FactStore, which this module    *)
(* implements.                                                               *)
EXTENDS Facts

CONSTANTS
    Clients,        \* indexer processes
    Files,          \* sequences of terms, one for each source file
    TermTable,      \* [Terms -> [type, atom, subs, val]]
    Slots,          \* bound: the writes of a client that the server can hold
    FactBuffer,     \* --fact_buffer, as a number of facts
    CacheCapacity,  \* --fact_cache, as a number of facts
    MaxFaults,      \* bound: lost answers, restarts, failing commits, early ends
    NoJob,
    NoTerm

ASSUME BatchesAssumption ==
    /\ FactBuffer \in Nat \ {0}
    /\ CacheCapacity \in Nat
    /\ MaxFaults \in Nat

Terms == DOMAIN TermTable
Jobs == Clients \X Slots

VARIABLES
    todo,       \* the files that no client has taken
    cl,         \* the clients
    db,         \* the facts of the database, a function from ids
    dbNext,     \* DatabaseImpl::next_id
    wrNextId,
    wrLock,     \* the job that holds the lock for writing, or NoJob
    jobs,       \* the writes that the server knows
    stored,     \* history: the terms of the facts in db
    faults

vars == <<todo, cl, db, dbNext, wrNextId, wrLock, jobs, stored, faults>>
server == <<db, dbNext, wrNextId, wrLock, jobs, stored>>

(* What the ids of a lookup mean. *)

\* The term that every fact stands for, NoTerm if a reference is dangling or
\* of the wrong predicate.  A fact refers to facts with lower ids.
Meaning(lookup) ==
    LET Stands(fact, m) ==
            {t \in Terms :
                /\ fact.type = TermTable[t].type
                /\ fact.val = TermTable[t].val
                /\ fact.key.atom = TermTable[t].atom
                /\ TermTable[t].subs = [i \in DOMAIN fact.key.refs |->
                     IF fact.key.refs[i] \in DOMAIN m THEN m[fact.key.refs[i]] ELSE NoTerm]}
        Add(m, id) ==
            LET t == Stands(lookup[id], m)
            IN  IF id \notin DOMAIN lookup THEN m
                ELSE [i \in DOMAIN m \cup {id} |->
                        IF i # id THEN m[i]
                        ELSE IF t = {} THEN NoTerm ELSE CHOOSE x \in t : TRUE]
    IN  FoldLeft(Add, <<>>, [id \in 1 .. FirstFreeIn(lookup) |-> id])

-----------------------------------------------------------------------------
FreeJob == [phase |-> "free", batch |-> EmptySet(Lowest),
            r |-> StartRename(EmptySet(Lowest), Lowest), dsubst |-> <<>>, subst |-> <<>>]

\* BatchBase's constructor; no future, nothing sent.
NewClient == [pc |-> "next", wait |-> FALSE, leave |-> FALSE,
              buffer |-> EmptySet(Lowest), cache |-> <<>>,
              future |-> "none", sent |-> EmptySet(Lowest), handle |-> NoJob,
              subst |-> <<>>, defined |-> {}]

Init ==
    /\ todo = DOMAIN Files
    /\ cl = [c \in Clients |-> NewClient]
    /\ db = <<>>
    /\ dbNext = Lowest
    /\ wrNextId = Lowest
    /\ wrLock = NoJob
    /\ jobs = [j \in Jobs |-> FreeJob]
    /\ stored = {}
    /\ faults = 0

Fault == faults < MaxFaults /\ faults' = faults + 1

-----------------------------------------------------------------------------
(* Batch::fact and factV: the fact of a term, given the ids of its subterms, *)
(* defined in the buffer stacked on the cache.                               *)

FactOf(t, ids) ==
    LET term == TermTable[t]
    IN  Fact(term.type, Clause(term.atom, [i \in DOMAIN term.subs |-> ids[term.subs[i]]]),
             term.val)

DefineTerm(cache, s, t) ==
    LET d == StackedDefine(cache, s.buffer, FactOf(t, s.ids), Invalid)
    IN  [buffer |-> d.fs, ids |-> [s.ids EXCEPT ![t] = d.id]]

DefineTerms(cache, buffer, terms) ==
    FoldLeft(LAMBDA s, t : DefineTerm(cache, s, t),
             [buffer |-> buffer, ids |-> [t \in Terms |-> Invalid]], terms).buffer

(* One round of the indexer's loop up to rebaseAndSend.  Indexing may fail   *)
(* half way, and keeps what it has defined; whether to wait for the server   *)
(* is decided by the size of the buffer before.  The loop ends early when    *)
(* indexing has failed or the process has become too large.                  *)
Index(c) ==
    /\ cl[c].pc = "next"
    /\ \E file \in todo, leave \in BOOLEAN :
         \E n \in IF leave THEN {1, Len(Files[file])} ELSE {Len(Files[file])} :
           LET terms == SubSeq(Files[file], 1, n)
           IN  /\ todo' = todo \ {file}
               /\ cl' = [cl EXCEPT ![c].pc = "send",
                            ![c].leave = leave,
                            ![c].wait = Len(cl[c].buffer.facts) >= FactBuffer,
                            ![c].buffer = DefineTerms(cl[c].cache, cl[c].buffer, terms),
                            ![c].defined = @ \cup ToSet(terms)]
               /\ IF leave THEN Fault ELSE UNCHANGED faults
    /\ UNCHANGED server

NoMoreFiles(c) ==
    /\ cl[c].pc = "next"
    /\ todo = {}
    /\ cl' = [cl EXCEPT ![c].pc = "flush", ![c].wait = TRUE]
    /\ UNCHANGED <<todo, server, faults>>

-----------------------------------------------------------------------------
(* ThriftSender. *)

\* What the cache keeps of the facts that it had and the ones that it gets.
\* Which ones are evicted depends on when they were used.
CacheAfter(cache, global) ==
    LET all == [id \in DOMAIN cache \cup {g[1] : g \in global} |->
                  IF id \in DOMAIN cache THEN cache[id]
                  ELSE (CHOOSE g \in global : g[1] = id)[2]]
    IN  {Restrict(all, kept) : kept \in
            kSubset(Min({CacheCapacity, Cardinality(DOMAIN all)}), DOMAIN all)}

\* BatchBase::rebase with the substitution that the server has answered; the
\* process aborts when the CHECK in FactSet::rebase fails.
Rebased(client) ==
    LET r == Rebase(client.buffer, client.subst)
    IN  {[client EXCEPT !.buffer = r.local, !.cache = cache, !.future = "none", !.subst = <<>>,
                        !.pc = IF r.checked THEN @ ELSE "aborted"] :
         cache \in CacheAfter(client.cache, r.global)}

Sending(client) == [client EXCEPT !.future = "sending", !.sent = client.buffer]

\* A client that has sent a batch still waits for its substitution.
Pending(client) == client.future \in {"sending", "waiting"}

\* rebaseAndSend, and what the loop does next.
RebaseAndSend(c) ==
    /\ cl[c].pc \in {"send", "flush"}
    /\ cl[c].wait => ~Pending(cl[c])
    /\ \E client \in CASE cl[c].future = "none" -> {Sending(cl[c])}
                       [] cl[c].future = "ready" -> {Sending(r) : r \in Rebased(cl[c])}
                       [] OTHER -> {cl[c]} :
         cl' = [cl EXCEPT ![c] = [client EXCEPT
                  !.wait = cl[c].leave,
                  !.pc = CASE client.pc = "aborted" -> "aborted"
                           [] client.pc = "flush" -> "flushing"
                           [] client.pc = "send" /\ cl[c].leave -> "flush"
                           [] OTHER -> "next"]]
    /\ UNCHANGED <<todo, server, faults>>

\* Mutant: flush doesn't wait for the last batch.
FlushNoWait(c) ==
    /\ cl[c].pc = "flushing"
    /\ cl' = [cl EXCEPT ![c].pc = "flushed", ![c].future = "none", ![c].handle = NoJob]
    /\ UNCHANGED <<todo, server, faults>>

\* The rest of flush: it waits for the answer and drops it.
Flush(c) ==
    /\ cl[c].pc = "flushing"
    /\ cl[c].future = "ready"
    /\ cl' = [cl EXCEPT ![c].pc = "flushed", ![c].future = "none", ![c].subst = <<>>]
    /\ UNCHANGED <<todo, server, faults>>

FreeSlots(c) == {s \in Slots : jobs[c, s].phase = "free"}

\* sendBatch: the server queues the write and answers a handle.  When the
\* answer is lost the client sends the batch again.
SendBatch(c) ==
    /\ cl[c].future = "sending"
    /\ FreeSlots(c) # {}
    /\ LET s == Min(FreeSlots(c)) IN
         /\ jobs' = [jobs EXCEPT ![c, s].phase = "queued", ![c, s].batch = cl[c].sent]
         /\ \/ /\ cl' = [cl EXCEPT ![c].future = "waiting", ![c].handle = <<c, s>>]
               /\ UNCHANGED faults
            \/ Fault /\ UNCHANGED cl
    /\ UNCHANGED <<todo, db, dbNext, wrNextId, wrLock, stored>>

\* finishBatch: the server forgets a handle when it answers.  The failure of
\* a write is fatal for the client.  When the answer is lost the client asks
\* again for a handle that is unknown by then.
FinishBatch(c) ==
    LET h == cl[c].handle
        Answer(fut, pc) == cl' = [cl EXCEPT ![c].future = fut, ![c].pc = pc, ![c].handle = NoJob,
                                            ![c].subst = jobs[h].subst, ![c].sent = EmptySet(Lowest)]
    IN  /\ cl[c].future = "waiting"
        /\ h # NoJob
        /\ jobs[h].phase \in {"done", "failed", "refused"}
        /\ \/ jobs[h].phase = "done" /\ Answer("ready", cl[c].pc) /\ UNCHANGED faults
           \/ jobs[h].phase # "done" /\ Answer("none", "dead") /\ UNCHANGED faults
           \/ Fault /\ cl' = [cl EXCEPT ![c].handle = NoJob]
        /\ jobs' = [jobs EXCEPT ![h] = FreeJob]
        /\ UNCHANGED <<todo, db, dbNext, wrNextId, wrLock, stored>>

\* The server doesn't know the handle: the batch is sent again.
Resend(c) ==
    /\ cl[c].future = "waiting"
    /\ cl[c].handle = NoJob
    /\ cl' = [cl EXCEPT ![c].future = "sending"]
    /\ UNCHANGED <<todo, server, faults>>

-----------------------------------------------------------------------------
(* writeDatabase. *)

\* The end of a write; a write that nobody waits for is forgotten.
Ended(j, phase, subst) ==
    jobs' = [jobs EXCEPT ![j] = IF \E c \in Clients : cl[c].handle = j
                                THEN [FreeJob EXCEPT !.phase = phase, !.subst = subst]
                                ELSE FreeJob]

\* renameBatch, with the lock held: it reserves the ids before the commit.
RenameBatch(j, batch, dsubst) ==
    LET r == RenameFacts(db, batch, wrNextId)
    IN  /\ wrLock = NoJob
        /\ IF r.error
           THEN Ended(j, "refused", <<>>) /\ UNCHANGED <<wrNextId, wrLock>>
           ELSE /\ wrNextId' = FirstFreeId(r.fs)
                /\ wrLock' = j
                /\ jobs' = [jobs EXCEPT ![j].phase = "renamed", ![j].r = r, ![j].dsubst = dsubst]
        /\ UNCHANGED <<todo, cl, db, dbNext, stored, faults>>

\* Nobody is writing: write the batch directly.
WriteDirect(j) ==
    /\ jobs[j].phase = "queued"
    /\ RenameBatch(j, jobs[j].batch, <<>>)

\* Somebody is writing: deduplicate the batch first, against a snapshot at
\* the next free id.
StartDedup(j) ==
    /\ jobs[j].phase = "queued"
    /\ wrLock # NoJob
    /\ jobs' = [jobs EXCEPT ![j].phase = "dedup", ![j].r = StartRename(jobs[j].batch, wrNextId)]
    /\ UNCHANGED <<todo, cl, db, dbNext, wrNextId, wrLock, stored, faults>>

\* The facts are looked up one by one, while another thread may commit.
DedupFact(j) ==
    LET r == jobs[j].r
        next == DefineNext(Snapshot(db, r.fs.start), r, jobs[j].batch.facts[r.done + 1])
    IN  /\ jobs[j].phase = "dedup"
        /\ r.done < Len(jobs[j].batch.facts)
        /\ jobs' = [jobs EXCEPT ![j].r = next, ![j].phase = IF next.error THEN "refused" ELSE @]
        /\ UNCHANGED <<todo, cl, db, dbNext, wrNextId, wrLock, stored, faults>>

WriteDeduped(j) ==
    /\ jobs[j].phase = "dedup"
    /\ jobs[j].r.done = Len(jobs[j].batch.facts)
    /\ RenameBatch(j, jobs[j].r.fs, jobs[j].r.subst)

\* DatabaseImpl::commit, and the release of the lock.
Commit(j) ==
    LET r == jobs[j].r
        new == [id \in DOMAIN db \cup DOMAIN View(r.fs) |->
                  IF id \in DOMAIN db THEN db[id] ELSE View(r.fs)[id]]
    IN  /\ jobs[j].phase = "renamed"
        /\ IF r.fs.facts # <<>> /\ r.fs.start < dbNext
           THEN Ended(j, "refused", <<>>) /\ UNCHANGED <<db, dbNext, stored>>
           ELSE /\ db' = new
                /\ dbNext' = IF r.fs.facts = <<>> THEN dbNext ELSE FirstFreeId(r.fs)
                /\ stored' = Range(Meaning(new))
                /\ Ended(j, "done", IF jobs[j].dsubst = <<>> THEN r.subst
                                    ELSE Compose(jobs[j].dsubst, r.subst))
        /\ wrLock' = NoJob
        /\ UNCHANGED <<todo, cl, wrNextId, faults>>

CommitFails(j) ==
    /\ jobs[j].phase = "renamed"
    /\ Fault
    /\ Ended(j, "failed", <<>>)
    /\ wrLock' = NoJob
    /\ UNCHANGED <<todo, cl, db, dbNext, wrNextId, stored>>

\* The server stops and starts again: writes and handles are gone,
\* setupWriting continues with the first free id of the database.
Restart ==
    /\ Fault
    /\ jobs' = [j \in Jobs |-> FreeJob]
    /\ cl' = [c \in Clients |-> [cl[c] EXCEPT !.handle = NoJob]]
    /\ wrLock' = NoJob
    /\ wrNextId' = dbNext
    /\ UNCHANGED <<todo, db, dbNext, stored>>

Serve(j) == WriteDirect(j) \/ StartDedup(j) \/ DedupFact(j) \/ WriteDeduped(j) \/ Commit(j)

ClientStep(c) == \/ Index(c) \/ NoMoreFiles(c) \/ RebaseAndSend(c) \/ Flush(c)
                 \/ SendBatch(c) \/ FinishBatch(c) \/ Resend(c)

Next ==
    \/ \E c \in Clients : ClientStep(c)
    \/ \E j \in Jobs : Serve(j) \/ CommitFails(j)
    \/ Restart

Spec == Init /\ [][Next]_vars

-----------------------------------------------------------------------------
\* What the client sees: its buffer, on the facts of the database that are
\* below it.
Seen(client) ==
    LET below == Snapshot(db, client.buffer.start)
        own == View(client.buffer)
    IN  [id \in DOMAIN below \cup DOMAIN own |-> IF id \in DOMAIN own THEN own[id] ELSE below[id]]

Buffered(client) ==
    LET m == Meaning(Seen(client)) IN {m[id] : id \in DOMAIN View(client.buffer)}

\* Every variable has its type: clients, their buffers and jobs, the handles.
TypeOK ==
    /\ todo \subseteq DOMAIN Files
    /\ \A c \in Clients :
          /\ cl[c].pc \in {"next", "send", "flush", "flushing", "flushed", "aborted", "dead"}
          /\ cl[c].future \in {"none", "sending", "waiting", "ready"}
          /\ cl[c].handle \in Jobs \cup {NoJob}
          /\ Cardinality(DOMAIN cl[c].cache) <= CacheCapacity
          /\ cl[c].defined \subseteq Terms
    /\ dbNext \in Nat /\ wrNextId \in Nat
    /\ wrLock \in Jobs \cup {NoJob}
    /\ \A j \in Jobs :
          jobs[j].phase \in {"free", "queued", "dedup", "renamed", "done", "failed", "refused"}
    /\ faults \in 0 .. MaxFaults

\* The database holds every term once, every reference in it is to an
\* earlier fact of the right predicate, and the ids of the database are
\* below the ones that writers get, also after a commit has failed
\* (defineUntrustedBatch, commit).
DbSound ==
    /\ LET m == Meaning(db)
       IN  /\ \A id \in DOMAIN db : m[id] # NoTerm
           /\ \A id1, id2 \in DOMAIN db : id1 # id2 => m[id1] # m[id2]
    /\ \A id \in DOMAIN db : id < dbNext
    /\ dbNext <= wrNextId

\* What a client has cached is in the database under the same id, and below
\* the ids of its buffer, so that an id in a fact means the same for the
\* client and for the server (BatchBase::rebase).
CacheCoherent ==
    \A c \in Clients : \A id \in DOMAIN cl[c].cache :
        /\ id \in DOMAIN db
        /\ db[id] = cl[c].cache[id]
        /\ id < cl[c].buffer.start

\* Two facts that were different when a client defined them don't become
\* equal when their references are replaced: the CHECK in FactSet::rebase
\* holds although the cache forgets facts, which the client then defines
\* again under another id.
RebaseKeepsFacts == \A c \in Clients : cl[c].pc # "aborted"

\* No batch of a client is refused, whatever has been committed, lost or
\* forgotten since its facts were defined: its references are to facts of
\* the database or of the batch (defineUntrustedBatch), its ids are new
\* (commit).
NoneRefused == \A j \in Jobs : jobs[j].phase # "refused"

\* Every term that a client has defined is in its buffer or in the database,
\* at every moment of a write, a rebase or a resend.
NothingLost ==
    \A c \in Clients :
        cl[c].pc # "dead" => cl[c].defined \subseteq stored \cup Buffered(cl[c])

\* The writes implement FactStore: the database only grows, by what clients
\* have defined, and a client that has flushed finds all its facts there.
Promise == INSTANCE FactStore WITH
    defined <- [c \in Clients |-> cl[c].defined],
    stored <- stored,
    ended <- {c \in Clients : cl[c].pc = "flushed"}

\* Every step of clients and writers is a step of FactStore or leaves it alone.
Durable == Promise!Spec

\* Nobody waits for nothing: the lock is held by a write that is about to
\* commit, and a client that waits for a handle waits for a write that the
\* server still has to execute or to answer.  (A handle that is forgotten is
\* NoJob: the client sends the batch again.)
WaitsAreServed ==
    /\ wrLock # NoJob => jobs[wrLock].phase = "renamed"
    /\ \A c \in Clients :
          cl[c].future = "waiting" /\ cl[c].handle # NoJob => jobs[cl[c].handle].phase # "free"

\* The clients and the server agree all along: an id means the same fact in the
\* cache, in the batch and in the database; a rebase keeps every fact; no batch
\* is refused; what was defined is in the batch, on its way or written; and
\* nobody waits for an answer that no one will give.
ClientsSound ==
    TypeOK /\ CacheCoherent /\ RebaseKeepsFacts /\ NoneRefused /\ NothingLost /\ WaitsAreServed

=============================================================================
