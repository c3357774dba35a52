---------------------------- MODULE WriteQueues ----------------------------
(***************************************************************************)
(* The server's write queues (glean/db/Glean/Database/Writes.hs): clients  *)
(* add write jobs and checkpoints to the queue of a database, a pool of    *)
(* writer threads serves the queues round-robin, clients poll for the      *)
(* result, and workFinished makes a database read-only.                    *)
(*                                                                         *)
(* A step is one STM transaction or the execution of one job.              *)
(***************************************************************************)
EXTENDS Integers, Sequences, FiniteSets, FiniteSetsExt

CONSTANTS
    Queues,       \* one WriteQueue per database
    Writers,      \* threads running writerThread
    Jobs,         \* the WriteJobs that clients send (bound: each is sent once)
    Checkpoints,  \* the WriteCheckpoints (bound: each is enqueued once)
    repo,         \* [Jobs \cup Checkpoints -> Queues]: where each one goes
    writeSize,    \* [Jobs -> Nat]: the size of a job's batch
    mb,           \* the unit of the queue limit
    limit,        \* config_db_write_queue_limit_mb
    None,
    MayClose      \* may closeDatabase run while clients still use the server

Items == Jobs \cup Checkpoints

ASSUME ItemsAssumption ==
    /\ IsFiniteSet(Jobs)
    /\ IsFiniteSet(Writers)
    /\ Jobs \cap Checkpoints = {}
    /\ repo \in [Items -> Queues]
    /\ writeSize \in [Jobs -> Nat]
    /\ None \notin Items
ASSUME LimitAssumption ==
    mb \in Nat \ {0} /\ limit \in Nat /\ MayClose \in BOOLEAN

VARIABLES
    writeQueue,        \* [Queues -> Seq(Items)]
    writeQueueActive,  \* [Queues -> Nat]
    writeQueueCount,   \* [Queues -> Nat]
    writeQueueSize,    \* [Queues -> Nat]
    writeQueues,       \* the round-robin of non-empty queues
    writeQueuesSize,   \* total size of all queues
    job,               \* the state of each job and checkpoint
    writeDone,         \* the MVar with a job's result
    doing,             \* the job or checkpoint that a writer has taken
    readOnly,          \* the databases that makeReadOnly has closed to writes
    closed,            \* the databases that closeDatabase has closed
    envWrites,         \* the jobs that can be polled for
    acked,             \* the jobs whose result a client has received
    before             \* (history) the jobs accepted before a checkpoint

queues == <<writeQueue, writeQueueActive, writeQueueCount, writeQueueSize,
            writeQueues, writeQueuesSize>>
client == <<envWrites, acked>>
vars == <<queues, job, writeDone, doing, readOnly, closed, client, before>>

Init ==
    /\ writeQueue = [q \in Queues |-> <<>>]
    /\ writeQueueActive = [q \in Queues |-> 0]
    /\ writeQueueCount = [q \in Queues |-> 0]
    /\ writeQueueSize = [q \in Queues |-> 0]
    /\ writeQueues = <<>>
    /\ writeQueuesSize = 0
    /\ job = [x \in Items |-> "new"]
    /\ writeDone = [j \in Jobs |-> "empty"]
    /\ doing = [w \in Writers |-> None]
    /\ readOnly = {}
    /\ closed = {}
    /\ envWrites = {}
    /\ acked = {}
    /\ before = [c \in Checkpoints |-> {}]

-----------------------------------------------------------------------------
(* Adding to a queue.                                                      *)

RoundUp(unit, x) == (x + unit - 1) \div unit

\* withWritableDatabase: the caller has the queue of an open, writable
\* database in hand.  The database may be made read-only before it is used.
OpenForWriting(x) ==
    /\ job[x] = "new"
    /\ repo[x] \notin readOnly \cup closed
    /\ job' = [job EXCEPT ![x] = "opened"]
    /\ UNCHANGED <<queues, writeDone, doing, readOnly, closed, client, before>>

\* Mutant: the queue goes on the round-robin for every item.
AddToWriteQueueTwice(q, x) ==
    /\ writeQueue' = [writeQueue EXCEPT ![q] = Append(@, x)]
    /\ writeQueues' = Append(writeQueues, q)
    /\ job' = [job EXCEPT ![x] = "queued"]

\* addToWriteQueue
AddToWriteQueue(q, x) ==
    /\ writeQueue' = [writeQueue EXCEPT ![q] = Append(@, x)]
    /\ writeQueues' = IF writeQueue[q] = <<>> THEN Append(writeQueues, q)
                                              ELSE writeQueues
    /\ job' = [job EXCEPT ![x] = "queued"]

\* enqueueWrite when the job fits under the limit, ...
EnqueueWrite(j) ==
    LET newSize == writeQueuesSize + writeSize[j] IN
    /\ j \in Jobs
    /\ job[j] = "opened"
    /\ RoundUp(mb, newSize) <= limit
    /\ writeQueuesSize' = newSize
    /\ AddToWriteQueue(repo[j], j)
    /\ writeQueueCount' = [writeQueueCount EXCEPT ![repo[j]] = @ + 1]
    /\ writeQueueSize' = [writeQueueSize EXCEPT ![repo[j]] = @ + writeSize[j]]
    /\ UNCHANGED <<writeQueueActive, writeDone, doing, readOnly, closed, client, before>>

\* ... and when it throws Retry.
RejectWrite(j) ==
    /\ j \in Jobs
    /\ job[j] = "opened"
    /\ RoundUp(mb, writeQueuesSize + writeSize[j]) > limit
    /\ job' = [job EXCEPT ![j] = "new"]
    /\ UNCHANGED <<queues, writeDone, doing, readOnly, closed, client, before>>

EnqueueCheckpoint(c) ==
    /\ c \in Checkpoints
    /\ job[c] = "opened"
    /\ AddToWriteQueue(repo[c], c)
    /\ before' = [before EXCEPT ![c] =
           {j \in Jobs : repo[j] = repo[c] /\ job[j] \notin {"new", "opened"}}]
    /\ UNCHANGED <<writeQueueActive, writeQueueCount, writeQueueSize, writeQueuesSize,
                   writeDone, doing, readOnly, closed, client>>

-----------------------------------------------------------------------------
(* writerThread.                                                           *)

\* Mutant: checkpoints don't wait.
BlockedNever(q) == FALSE
\* The queue's next item is a checkpoint that isn't ready.
Blocked(q) ==
    /\ writeQueue[q] # <<>>
    /\ Head(writeQueue[q]) \in Checkpoints
    /\ writeQueueActive[q] # 0

\* dequeueLoop stops at the first queue that isn't blocked, position k of the
\* round-robin; the blocked queues before it go to the back.
StopsAt(k) ==
    /\ k \in DOMAIN writeQueues
    /\ ~Blocked(writeQueues[k])
    /\ \A i \in 1..(k - 1) : Blocked(writeQueues[i])

Requeued(k) ==
    SubSeq(writeQueues, k + 1, Len(writeQueues)) \o SubSeq(writeQueues, 1, k - 1)

\* It takes the first item, and requeues the queue if there is more in it.
Dequeue(w) ==
    \E k \in DOMAIN writeQueues :
        LET q == writeQueues[k]
            x == Head(writeQueue[q])
            rest == Tail(writeQueue[q])
        IN
        /\ doing[w] = None
        /\ StopsAt(k)
        /\ writeQueue[q] # <<>>
        /\ writeQueue' = [writeQueue EXCEPT ![q] = rest]
        /\ writeQueues' = Requeued(k) \o (IF rest = <<>> THEN <<>> ELSE <<q>>)
        /\ writeQueueActive' =
               IF x \in Jobs THEN [writeQueueActive EXCEPT ![q] = @ + 1]
                             ELSE writeQueueActive
        /\ doing' = [doing EXCEPT ![w] = x]
        /\ job' = [job EXCEPT ![x] = "running"]
        /\ UNCHANGED <<writeQueueCount, writeQueueSize, writeQueuesSize, writeDone,
                       readOnly, closed, client, before>>

\* Or it finds a queue that deleteWriteQueues has emptied, and drops it.
DropEmptied(w) ==
    \E k \in DOMAIN writeQueues :
        /\ doing[w] = None
        /\ StopsAt(k)
        /\ writeQueue[writeQueues[k]] = <<>>
        /\ writeQueues' = Requeued(k)
        /\ UNCHANGED <<writeQueue, writeQueueActive, writeQueueCount, writeQueueSize,
                       writeQueuesSize, job, writeDone, doing, readOnly, closed,
                       client, before>>

\* execute for a WriteJob: writeDatabase looks at the open database ...
BeginWrite(w) ==
    /\ doing[w] \in Jobs
    /\ job[doing[w]] = "running"
    /\ repo[doing[w]] \notin readOnly
    /\ job' = [job EXCEPT ![doing[w]] = "writing"]
    /\ UNCHANGED <<queues, writeDone, doing, readOnly, closed, client, before>>

\* ... and commits to it.
CommitWrite(w) ==
    /\ doing[w] \in Jobs
    /\ job[doing[w]] = "writing"
    /\ job' = [job EXCEPT ![doing[w]] = "executed"]
    /\ writeDone' = [writeDone EXCEPT ![doing[w]] = "subst"]
    /\ UNCHANGED <<queues, doing, readOnly, closed, client, before>>

\* Or it throws: the database is read-only, or writing fails for any reason.
FailWrite(w) ==
    /\ doing[w] \in Jobs
    /\ job[doing[w]] \in {"running", "writing"}
    /\ job' = [job EXCEPT ![doing[w]] = "executed"]
    /\ writeDone' = [writeDone EXCEPT ![doing[w]] = "exception"]
    /\ UNCHANGED <<queues, doing, readOnly, closed, client, before>>

\* The transaction of done, after the result has been put into writeDone.
Done(w) ==
    LET j == doing[w]
        q == repo[j]
    IN
    /\ doing[w] \in Jobs
    /\ job[doing[w]] = "executed"
    /\ job' = [job EXCEPT ![j] = "finished"]
    /\ doing' = [doing EXCEPT ![w] = None]
    /\ writeQueueActive' = [writeQueueActive EXCEPT ![q] = @ - 1]
    /\ writeQueueCount' = [writeQueueCount EXCEPT ![q] = @ - 1]
    /\ writeQueueSize' = [writeQueueSize EXCEPT ![q] = @ - writeSize[j]]
    /\ writeQueuesSize' = writeQueuesSize - writeSize[j]
    /\ UNCHANGED <<writeQueue, writeQueues, writeDone, readOnly, closed, client, before>>

\* execute and done for a WriteCheckpoint.
ExecuteCheckpoint(w) ==
    /\ doing[w] \in Checkpoints
    /\ job' = [job EXCEPT ![doing[w]] = "finished"]
    /\ doing' = [doing EXCEPT ![w] = None]
    /\ UNCHANGED <<queues, writeDone, readOnly, closed, client, before>>

-----------------------------------------------------------------------------
(* The other operations on the queues.                                     *)

\* rememberWrite, after which the client gets its handle.
RememberWrite(j) ==
    /\ job[j] \notin {"new", "opened"}
    /\ j \notin envWrites \cup acked
    /\ envWrites' = envWrites \cup {j}
    /\ UNCHANGED <<queues, job, writeDone, doing, readOnly, closed, acked, before>>

\* pollBatch when the result is there (else it only extends the timeout).  The
\* result never changes once it is there, so its reads need no steps of their own.
PollBatch(j) ==
    /\ j \in envWrites
    /\ writeDone[j] # "empty"
    /\ envWrites' = envWrites \ {j}
    /\ acked' = acked \cup {j}
    /\ UNCHANGED <<queues, job, writeDone, doing, readOnly, closed, before>>

\* workFinished on the final task: makeReadOnly throws, and nothing changes,
\* while the queue has outstanding writes.
WorkFinished(q) ==
    /\ q \notin readOnly \cup closed
    /\ writeQueueActive[q] = 0
    /\ writeQueue[q] = <<>>
    /\ readOnly' = readOnly \cup {q}
    /\ UNCHANGED <<queues, job, writeDone, doing, closed, client, before>>

\* closeDatabase waits for the other users of the database.  For a writable
\* one isIdle also waits for writeQueueSize to be 0, and deleteWriteQueues
\* empties the queue, which stays on writeQueues.
CloseDatabase(q) ==
    /\ MayClose
    /\ q \notin closed
    /\ \A x \in Items : repo[x] = q => job[x] \notin {"opened", "writing"}
    /\ IF q \in readOnly
       THEN UNCHANGED <<writeQueue, writeQueuesSize, job>>
       ELSE /\ writeQueueSize[q] = 0
            /\ writeQueuesSize' = writeQueuesSize - writeQueueSize[q]
            /\ writeQueue' = [writeQueue EXCEPT ![q] = <<>>]
            /\ job' = [x \in Items |->
                   IF repo[x] = q /\ job[x] = "queued" THEN "lost" ELSE job[x]]
    /\ closed' = closed \cup {q}
    /\ UNCHANGED <<writeQueueActive, writeQueueCount, writeQueueSize, writeQueues,
                   writeDone, doing, readOnly, client, before>>

-----------------------------------------------------------------------------
WriterStep(w) ==
    \/ Dequeue(w) \/ DropEmptied(w) \/ ExecuteCheckpoint(w)
    \/ BeginWrite(w) \/ CommitWrite(w) \/ FailWrite(w) \/ Done(w)

Next ==
    \/ \E x \in Items : OpenForWriting(x) \/ EnqueueCheckpoint(x)
    \/ \E j \in Jobs : \/ EnqueueWrite(j) \/ RejectWrite(j)
                       \/ RememberWrite(j) \/ PollBatch(j)
    \/ \E w \in Writers : WriterStep(w)
    \/ \E q \in Queues : WorkFinished(q) \/ CloseDatabase(q)

Spec == Init /\ [][Next]_vars

\* The writer threads run for ever, and every task ends.
FairSpec == Spec /\ \A w \in Writers : WF_vars(WriterStep(w))

-----------------------------------------------------------------------------
(* Properties.                                                             *)

\* Every variable has its type.
TypeOK ==
    /\ writeQueue \in [Queues -> Seq(Items)]
    /\ writeQueueActive \in [Queues -> Nat]
    /\ writeQueueCount \in [Queues -> Nat]
    /\ writeQueueSize \in [Queues -> Nat]
    /\ writeQueues \in Seq(Queues)
    /\ writeQueuesSize \in Nat
    /\ job \in [Items -> {"new", "opened", "queued", "running", "writing",
                          "executed", "finished", "lost"}]
    /\ writeDone \in [Jobs -> {"empty", "subst", "exception"}]
    /\ doing \in [Writers -> Items \cup {None}]
    /\ readOnly \in SUBSET Queues
    /\ closed \in SUBSET Queues
    /\ envWrites \in SUBSET Jobs
    /\ acked \in SUBSET Jobs
    /\ before \in [Checkpoints -> SUBSET Jobs]

Executing == {"running", "writing", "executed"}
On(q, states) == {j \in Jobs : repo[j] = q /\ job[j] \in states}
TotalSize(js) == MapThenSumSet(LAMBDA j : writeSize[j], js)

\* The counters agree with the jobs: writeQueueActive counts the jobs that
\* writers have taken, writeQueueCount and writeQueueSize those that are not
\* finished, and writeQueuesSize is the size of all of them.
Accounting ==
    /\ \A q \in Queues :
          LET pending == On(q, Executing \cup {"queued"}) IN
          /\ writeQueueActive[q] = Cardinality(On(q, Executing))
          /\ writeQueueSize[q] = TotalSize(pending)
          /\ q \notin closed => writeQueueCount[q] = Cardinality(pending)
    /\ writeQueuesSize = TotalSize(UNION {On(q, Executing \cup {"queued"}) : q \in Queues})

\* enqueueWrite never lets more than config_db_write_queue_limit_mb in, whatever
\* the clients send at the same time.
WithinLimit == writeQueuesSize <= limit * mb

\* Every queue with something in it is on the round-robin once, so that the
\* writers find it, and none is there twice.
OnRoundRobin ==
    \A q \in Queues :
        LET places == {k \in DOMAIN writeQueues : writeQueues[k] = q} IN
        /\ Cardinality(places) <= 1
        /\ writeQueue[q] # <<>> => places # {}

\* A checkpoint runs only when all the preceding writes on the queue have
\* completed, including those that are in progress (Types.hs, WriteCheckpoint).
CheckpointAfterWrites ==
    \A c \in Checkpoints : job[c] \in {"running", "finished"} =>
        \A j \in before[c] : writeDone[j] # "empty"

\* No write commits to a database that workFinished has made read-only, even
\* if it was enqueued with a queue obtained before.
NoWriteToReadOnly ==
    \A j \in Jobs : job[j] = "writing" => repo[j] \notin readOnly

\* Every accepted write gets a result.
WriteCompletes == \A j \in Jobs : job[j] = "queued" ~> writeDone[j] # "empty"

\* Every checkpoint is performed, unless closeDatabase empties its queue first.
CheckpointPerformed ==
    \A c \in Checkpoints : job[c] = "queued" ~> job[c] \in {"finished", "lost"}

\* makeReadOnly in Work.hs: workFinished finds outstanding writes only when the
\* client is broken or completes the database early.  So once the result of
\* every write has been handed out, there are none.
AckedIsFinishable ==
    \A q \in Queues :
        (\A x \in Items : repo[x] = q => x \in acked \/ job[x] = "new")
            => writeQueueActive[q] = 0 /\ writeQueue[q] = <<>>

\* What the counters, the queues and the round robin say of each other:
\* enqueueWrite, enqueueCheckpoint, executeWrite and workFinished keep them equal
\* to the jobs that are queued and running, and no queue is lost or served twice.
QueuesConsistent == TypeOK /\ Accounting /\ WithinLimit /\ OnRoundRobin

\* The order that the queues promise: a checkpoint is performed after the writes
\* that were queued before it, and nothing is written to a database after
\* workFinished has made it read-only.
WritesInOrder == CheckpointAfterWrites /\ NoWriteToReadOnly


=============================================================================
