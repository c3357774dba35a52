------------------------- MODULE WriteQueuesProofs -------------------------
(***************************************************************************)
(* Proofs of QueuesConsistent and WritesInOrder for any number of          *)
(* databases, writer threads, jobs and checkpoints, whether databases may  *)
(* be closed or not.                                                       *)
(***************************************************************************)
EXTENDS WriteQueues, DataLemmas

\* The jobs of a queue that writers have taken, and those that are not finished.
Exec(q) == On(q, Executing)
Pend(q) == On(q, Executing \cup {"queued"})
AllPend == {j \in Jobs : job[j] \in Executing \cup {"queued"}}

\* Accounting, with the bound that is left of writeQueueCount when a closed
\* database has lost writes.
Counted ==
    /\ \A q \in Queues :
          /\ writeQueueActive[q] = Cardinality(Exec(q))
          /\ writeQueueSize[q] = SumOf(writeSize, Pend(q))
          /\ writeQueueCount[q] >= Cardinality(Pend(q))
          /\ q \notin closed => writeQueueCount[q] = Cardinality(Pend(q))
    /\ writeQueuesSize = SumOf(writeSize, AllPend)

\* What is queued is in the queue of its database, once, and nothing else is.
Queued ==
    /\ \A q \in Queues :
          /\ Distinct(writeQueue[q])
          /\ \A x \in Items : Occurs(x, writeQueue[q]) => repo[x] = q /\ job[x] = "queued"
    /\ \A x \in Items : job[x] = "queued" => Occurs(x, writeQueue[repo[x]])

\* The round-robin has each queue with something in it, once; an empty queue is
\* on it only if its database was closed, and nothing goes to that one any more.
Robin ==
    /\ Distinct(writeQueues)
    /\ \A q \in Queues : writeQueue[q] # <<>> => Occurs(q, writeQueues)
    /\ \A q \in Queues : Occurs(q, writeQueues) /\ q \notin closed => writeQueue[q] # <<>>
    /\ \A x \in Items : job[x] = "opened" => repo[x] \notin closed
    /\ \A x \in Items : job[x] = "lost" => repo[x] \in closed

\* The jobs before a queued checkpoint are executing or finished, or in front of
\* it in the queue.
BeforeFirst ==
    \A c \in Checkpoints : \A j \in before[c] :
        /\ repo[j] = repo[c]
        /\ job[j] \notin {"new", "opened"}
        /\ job[c] = "queued" => job[j] # "lost"
        /\ \A i, k \in 1 .. Len(writeQueue[repo[c]]) :
              writeQueue[repo[c]][i] = j /\ writeQueue[repo[c]][k] = c => i < k

\* The result is there before done, and a checkpoint that a writer has runs.
Results ==
    /\ \A j \in Jobs : job[j] \in {"executed", "finished"} => writeDone[j] # "empty"
    /\ \A w \in Writers : doing[w] \in Checkpoints => job[doing[w]] \in {"running", "finished"}

IInv ==
    /\ TypeOK /\ Counted /\ WithinLimit
    /\ Queued /\ Robin
    /\ BeforeFirst /\ Results
    /\ CheckpointAfterWrites /\ NoWriteToReadOnly


-----------------------------------------------------------------------------
(* Sets of jobs.                                                           *)

\* They are finite, and a queue's are some of all.
LEMMA JobSets ==
    ASSUME NEW q
    PROVE  /\ Exec(q) \in SUBSET Jobs /\ Pend(q) \in SUBSET Jobs /\ AllPend \in SUBSET Jobs
           /\ IsFiniteSet(Exec(q)) /\ IsFiniteSet(Pend(q)) /\ IsFiniteSet(AllPend)
           /\ Cardinality(Exec(q)) \in Nat /\ Cardinality(Pend(q)) \in Nat
           /\ SumOf(writeSize, Pend(q)) \in Nat /\ SumOf(writeSize, AllPend) \in Nat
<1>1. Exec(q) \in SUBSET Jobs /\ Pend(q) \in SUBSET Jobs /\ AllPend \in SUBSET Jobs
  BY DEF Exec, Pend, AllPend, On
<1>2. IsFiniteSet(Exec(q)) /\ IsFiniteSet(Pend(q)) /\ IsFiniteSet(AllPend)
  BY <1>1, FS_Subset, ItemsAssumption
<1>3. Cardinality(Exec(q)) \in Nat /\ Cardinality(Pend(q)) \in Nat
  BY <1>2, FS_CardinalityType
<1>4. SumOf(writeSize, Pend(q)) \in Nat /\ SumOf(writeSize, AllPend) \in Nat
  BY <1>1, <1>2, SumType, ItemsAssumption
<1> QED BY <1>1, <1>2, <1>3, <1>4

\* Accounting speaks of the same sets.
LEMMA CountedMeans ==
    ASSUME Counted
    PROVE  Accounting
<1>1. UNION {On(q, Executing \cup {"queued"}) : q \in Queues} = AllPend
  BY ItemsAssumption DEF On, AllPend, Items
<1>2. \A S : TotalSize(S) = SumOf(writeSize, S)
  BY DEF TotalSize, SumOf
<1> QED BY ZenonT(30), <1>1, <1>2 DEF Counted, Accounting, Exec, Pend

\* Only x changes its state.
OnlyMoves(x) == \A y \in Items : y # x => job'[y] = job[y]

\* What that does to the jobs of a queue in some states,
LEMMA OneMoves ==
    ASSUME NEW x \in Items, OnlyMoves(x), NEW q, NEW states
    PROVE  On(q, states)' = IF x \in Jobs /\ repo[x] = q
                            THEN IF job'[x] \in states THEN On(q, states) \cup {x} ELSE On(q, states) \ {x}
                            ELSE On(q, states)
BY DEF OnlyMoves, On, Items

\* and to those of all queues.
LEMMA OneMovesAll ==
    ASSUME NEW x \in Items, OnlyMoves(x)
    PROVE  AllPend' = IF x \in Jobs
                      THEN IF job'[x] \in Executing \cup {"queued"} THEN AllPend \cup {x} ELSE AllPend \ {x}
                      ELSE AllPend
BY DEF OnlyMoves, AllPend, Items

\* A step that counts nothing: the item is no job, or stays queued, executing or
\* neither.
LEMMA NeutralMove ==
    ASSUME Counted, NEW x \in Items, OnlyMoves(x),
           x \in Jobs => /\ job[x] \in Executing <=> job'[x] \in Executing
                         /\ job[x] = "queued" <=> job'[x] = "queued",
           UNCHANGED <<writeQueueActive, writeQueueCount, writeQueueSize, writeQueuesSize, closed>>
    PROVE  Counted'
<1>1. \A j \in Jobs : /\ job'[j] \in Executing <=> job[j] \in Executing
                      /\ job'[j] = "queued" <=> job[j] = "queued"
  BY DEF OnlyMoves, Items
<1>2. ASSUME NEW q \in Queues PROVE Exec(q)' = Exec(q) /\ Pend(q)' = Pend(q)
  BY <1>1 DEF Exec, Pend, On
<1>3. AllPend' = AllPend
  BY <1>1 DEF AllPend
<1> QED BY <1>2, <1>3 DEF Counted


-----------------------------------------------------------------------------
(* Steps that leave the queues alone.                                      *)

\* An item that is not queued changes its state, and is not queued or lost
\* afterwards.
LEMMA StayPut ==
    ASSUME IInv, NEW x \in Items, OnlyMoves(x),
           UNCHANGED <<writeQueue, writeQueues, closed, before>>,
           job[x] # "queued", job'[x] \notin {"queued", "lost"},
           job'[x] = "opened" => repo[x] \notin closed,
           job'[x] \in {"new", "opened"} => job[x] \in {"new", "opened"}
    PROVE  Queued' /\ Robin' /\ BeforeFirst'
<1>1. \A y \in Items : job'[y] = IF y = x THEN job'[x] ELSE job[y]
  BY DEF OnlyMoves
<1>2. Queued'
  BY <1>1 DEF IInv, Queued
<1>3. Robin'
  BY <1>1 DEF IInv, Robin
<1>4. ASSUME NEW c \in Checkpoints, NEW j \in before[c]
      PROVE  /\ j \in Items /\ c \in Items
             /\ job'[j] \notin {"new", "opened"}
             /\ job'[c] = "queued" => job'[j] # "lost"
  <2>1. j \in Items /\ c \in Items
    BY DEF IInv, TypeOK, Items
  <2> QED BY <1>1, <2>1 DEF IInv, BeforeFirst
<1>5. BeforeFirst'
  BY <1>4 DEF IInv, BeforeFirst
<1> QED BY <1>2, <1>3, <1>5

\* withWritableDatabase
LEMMA OpenForWritingInv ==
    ASSUME IInv, NEW x \in Items, OpenForWriting(x)
    PROVE  IInv'
<1> USE DEF OpenForWriting, queues, client
<1>a. OnlyMoves(x) /\ job'[x] = "opened"
  BY DEF IInv, TypeOK, OnlyMoves
<1>1. TypeOK' BY DEF IInv, TypeOK
<1>2. Counted' BY <1>a, NeutralMove DEF IInv, Executing
<1>3. WithinLimit' BY DEF IInv, WithinLimit
<1>4. Queued' /\ Robin' /\ BeforeFirst'
  BY <1>a, StayPut
<1>5. Results' /\ CheckpointAfterWrites' /\ NoWriteToReadOnly'
  BY DEF IInv, TypeOK, Results, CheckpointAfterWrites, NoWriteToReadOnly, Items
<1> QED BY <1>1, <1>2, <1>3, <1>4, <1>5 DEF IInv

\* enqueueWrite throws Retry
LEMMA RejectWriteInv ==
    ASSUME IInv, NEW j \in Jobs, RejectWrite(j)
    PROVE  IInv'
<1> USE DEF RejectWrite, queues, client
<1>0. j \in Items BY DEF Items
<1>a. OnlyMoves(j) /\ job'[j] = "new"
  BY <1>0 DEF IInv, TypeOK, OnlyMoves
<1>1. TypeOK' BY <1>0 DEF IInv, TypeOK
<1>2. Counted' BY <1>0, <1>a, NeutralMove DEF IInv, Executing
<1>3. WithinLimit' BY DEF IInv, WithinLimit
<1>4. Queued' /\ Robin' /\ BeforeFirst'
  BY <1>0, <1>a, StayPut
<1>5. Results' /\ CheckpointAfterWrites' /\ NoWriteToReadOnly'
  BY <1>0 DEF IInv, TypeOK, Results, CheckpointAfterWrites, NoWriteToReadOnly, Items
<1> QED BY <1>1, <1>2, <1>3, <1>4, <1>5 DEF IInv

\* A writer looks at the database and begins to write.
LEMMA BeginWriteInv ==
    ASSUME IInv, NEW w \in Writers, BeginWrite(w)
    PROVE  IInv'
<1> USE DEF BeginWrite, queues, client
<1>0. doing[w] \in Items BY DEF Items
<1>a. OnlyMoves(doing[w]) /\ job'[doing[w]] = "writing"
  BY <1>0 DEF IInv, TypeOK, OnlyMoves
<1>1. TypeOK' BY <1>0 DEF IInv, TypeOK
<1>2. Counted' BY <1>0, <1>a, NeutralMove DEF IInv, Executing
<1>3. WithinLimit' BY DEF IInv, WithinLimit
<1>4. Queued' /\ Robin' /\ BeforeFirst'
  BY <1>0, <1>a, StayPut
<1>5. Results' /\ CheckpointAfterWrites' /\ NoWriteToReadOnly'
  BY <1>0, ItemsAssumption DEF IInv, TypeOK, Results, CheckpointAfterWrites, NoWriteToReadOnly, Items
<1> QED BY <1>1, <1>2, <1>3, <1>4, <1>5 DEF IInv

\* The write ends, with a result or with an exception.
LEMMA WriteEndsInv ==
    ASSUME IInv, NEW w \in Writers, CommitWrite(w) \/ FailWrite(w)
    PROVE  IInv'
<1>1. /\ doing[w] \in Jobs /\ job[doing[w]] \in {"running", "writing"}
      /\ job' = [job EXCEPT ![doing[w]] = "executed"]
      /\ \E r \in {"subst", "exception"} : writeDone' = [writeDone EXCEPT ![doing[w]] = r]
      /\ UNCHANGED <<queues, doing, readOnly, closed, client, before>>
  BY DEF CommitWrite, FailWrite
<1> USE DEF queues, client
<1>2. doing[w] \in Items /\ doing[w] \notin Checkpoints
  BY <1>1, ItemsAssumption DEF Items
<1>a. OnlyMoves(doing[w]) /\ job'[doing[w]] = "executed"
  BY <1>1, <1>2 DEF IInv, TypeOK, OnlyMoves
<1>3. TypeOK'
  BY <1>1, <1>2 DEF IInv, TypeOK
<1>4. Counted'
  BY <1>1, <1>2, <1>a, NeutralMove DEF IInv, Executing
<1>5. WithinLimit'
  BY <1>1 DEF IInv, WithinLimit
<1>6. Queued' /\ Robin' /\ BeforeFirst'
  BY <1>1, <1>2, <1>a, StayPut
<1>7. Results' /\ CheckpointAfterWrites' /\ NoWriteToReadOnly'
  BY <1>1, <1>2 DEF IInv, TypeOK, Results, CheckpointAfterWrites, NoWriteToReadOnly, Items
<1> QED BY <1>3, <1>4, <1>5, <1>6, <1>7 DEF IInv

\* done: the counters forget the job.
LEMMA DoneInv ==
    ASSUME IInv, NEW w \in Writers, Done(w)
    PROVE  IInv'
<1> DEFINE j == doing[w]
           p == repo[j]
<1>1. /\ j \in Jobs /\ job[j] = "executed" /\ job' = [job EXCEPT ![j] = "finished"]
      /\ doing' = [doing EXCEPT ![w] = None]
      /\ writeQueueActive' = [writeQueueActive EXCEPT ![p] = @ - 1]
      /\ writeQueueCount' = [writeQueueCount EXCEPT ![p] = @ - 1]
      /\ writeQueueSize' = [writeQueueSize EXCEPT ![p] = @ - writeSize[j]]
      /\ writeQueuesSize' = writeQueuesSize - writeSize[j]
      /\ UNCHANGED <<writeQueue, writeQueues, writeDone, readOnly, closed, client, before>>
  BY DEF Done
<1> HIDE DEF j
<1>2. j \in Items /\ p \in Queues /\ writeSize[j] \in Nat /\ j \notin Checkpoints
  BY <1>1, ItemsAssumption DEF Items
<1>a. OnlyMoves(j) /\ job'[j] = "finished"
  BY ZenonT(30), <1>1, <1>2 DEF IInv, TypeOK, OnlyMoves
<1> HIDE DEF p
<1>3. ASSUME NEW q \in Queues
      PROVE  IF q = p
             THEN /\ j \in Exec(q) /\ Exec(q)' = Exec(q) \ {j}
                  /\ j \in Pend(q) /\ Pend(q)' = Pend(q) \ {j}
             ELSE Exec(q)' = Exec(q) /\ Pend(q)' = Pend(q)
  BY <1>1, <1>2, <1>a, OneMoves DEF IInv, Exec, Pend, On, Executing, p
<1>4. j \in AllPend /\ AllPend' = AllPend \ {j}
  BY <1>1, <1>2, <1>a, OneMovesAll DEF IInv, AllPend, Executing
<1>5. /\ writeQueueActive \in [Queues -> Nat] /\ writeQueueCount \in [Queues -> Nat]
      /\ writeQueueSize \in [Queues -> Nat] /\ writeQueuesSize \in Nat
  BY DEF IInv, TypeOK
<1>6. ASSUME NEW q \in Queues
      PROVE  /\ writeQueueActive'[q] = Cardinality(Exec(q)')
             /\ writeQueueSize'[q] = SumOf(writeSize, Pend(q)')
             /\ writeQueueCount'[q] >= Cardinality(Pend(q)')
             /\ q \notin closed => writeQueueCount'[q] = Cardinality(Pend(q)')
             /\ writeQueueActive'[q] \in Nat /\ writeQueueSize'[q] \in Nat
             /\ writeQueueCount'[q] \in Nat
  <2>1. CASE q # p
    BY <1>1, <1>3, <1>5, <2>1 DEF IInv, Counted
  <2>2. CASE q = p
    <3>1. Cardinality(Exec(q)') = Cardinality(Exec(q)) - 1 /\ Cardinality(Exec(q)') \in Nat
      BY <1>3, <2>2, JobSets, FS_RemoveElement, FS_CardinalityType
    <3>2. Cardinality(Pend(q)') = Cardinality(Pend(q)) - 1 /\ Cardinality(Pend(q)') \in Nat
      BY <1>3, <2>2, JobSets, FS_RemoveElement, FS_CardinalityType
    <3>3. SumOf(writeSize, Pend(q)') = SumOf(writeSize, Pend(q)) - writeSize[j]
      BY <1>3, <2>2, JobSets, SumRemove, ItemsAssumption
    <3>4. SumOf(writeSize, Pend(q)') \in Nat
      BY ZenonT(30), <1>3, <2>2, JobSets, FS_RemoveElement, SumType, ItemsAssumption
    <3>5. /\ writeQueueActive'[q] = writeQueueActive[q] - 1
          /\ writeQueueCount'[q] = writeQueueCount[q] - 1
          /\ writeQueueSize'[q] = writeQueueSize[q] - writeSize[j]
      BY <1>1, <1>2, <1>5, <2>2
    <3>6. /\ writeQueueActive[q] = Cardinality(Exec(q))
          /\ writeQueueSize[q] = SumOf(writeSize, Pend(q))
          /\ writeQueueCount[q] >= Cardinality(Pend(q))
          /\ q \notin closed => writeQueueCount[q] = Cardinality(Pend(q))
      BY DEF IInv, Counted
    <3>7. Cardinality(Exec(q)) \in Nat /\ Cardinality(Pend(q)) \in Nat
      BY JobSets
    <3>8. writeQueueCount[q] \in Nat
      BY ZenonT(30), <1>5
    <3> QED BY <3>1, <3>2, <3>3, <3>4, <3>5, <3>6, <3>7, <3>8
  <2> QED BY <2>1, <2>2
<1>7. writeQueuesSize' = SumOf(writeSize, AllPend') /\ writeQueuesSize' \in Nat
  <2>1. SumOf(writeSize, AllPend') = SumOf(writeSize, AllPend) - writeSize[j]
    BY <1>4, JobSets, SumRemove, ItemsAssumption
  <2>2. SumOf(writeSize, AllPend') \in Nat
    BY ZenonT(30), <1>4, JobSets, FS_RemoveElement, SumType, ItemsAssumption
  <2> QED BY <1>1, <2>1, <2>2 DEF IInv, Counted
<1>8. Counted'
  BY <1>1, <1>6, <1>7 DEF Counted
<1>9. TypeOK'
  <2>1. /\ writeQueueActive' \in [Queues -> Nat] /\ writeQueueCount' \in [Queues -> Nat]
        /\ writeQueueSize' \in [Queues -> Nat]
    BY ZenonT(30), <1>1, <1>5, <1>6
  <2>2. job' \in [Items -> {"new", "opened", "queued", "running", "writing",
                           "executed", "finished", "lost"}]
    BY <1>1, <1>2 DEF IInv, TypeOK
  <2> QED BY ZenonT(30), <1>1, <1>7, <2>1, <2>2 DEF IInv, TypeOK, client
<1>10. WithinLimit'
  BY <1>1, <1>2, <1>5, LimitAssumption DEF IInv, WithinLimit
<1>11. Queued' /\ Robin' /\ BeforeFirst'
  BY <1>1, <1>2, <1>a, StayPut
<1>12. Results' /\ CheckpointAfterWrites' /\ NoWriteToReadOnly'
  BY ZenonT(30), <1>1, <1>2, ItemsAssumption
     DEF IInv, TypeOK, Results, CheckpointAfterWrites, NoWriteToReadOnly, Items
<1> QED BY <1>8, <1>9, <1>10, <1>11, <1>12 DEF IInv


\* execute and done for a checkpoint
LEMMA ExecuteCheckpointInv ==
    ASSUME IInv, NEW w \in Writers, ExecuteCheckpoint(w)
    PROVE  IInv'
<1> USE DEF ExecuteCheckpoint, queues, client
<1>1. doing[w] \in Items /\ doing[w] \notin Jobs
  BY ItemsAssumption DEF Items
<1>2. job[doing[w]] \in {"running", "finished"}
  BY DEF IInv, Results
<1>3. OnlyMoves(doing[w]) /\ job'[doing[w]] = "finished"
  BY <1>1 DEF IInv, TypeOK, OnlyMoves
<1>4. TypeOK'
  BY <1>1 DEF IInv, TypeOK
<1>5. Counted'
  BY <1>1, <1>3, NeutralMove DEF IInv
<1>6. WithinLimit'
  BY DEF IInv, WithinLimit
<1>7. Queued' /\ Robin' /\ BeforeFirst'
  BY <1>1, <1>2, <1>3, StayPut
<1>8. Results' /\ CheckpointAfterWrites' /\ NoWriteToReadOnly'
  BY <1>1, <1>2, <1>3, ItemsAssumption
     DEF IInv, TypeOK, Results, CheckpointAfterWrites, NoWriteToReadOnly, OnlyMoves, Items
<1> QED BY <1>4, <1>5, <1>6, <1>7, <1>8 DEF IInv

\* rememberWrite and pollBatch
LEMMA ClientInv ==
    ASSUME IInv, NEW j \in Jobs, RememberWrite(j) \/ PollBatch(j)
    PROVE  IInv'
<1>1. /\ envWrites' \in SUBSET Jobs /\ acked' \in SUBSET Jobs
      /\ UNCHANGED <<queues, job, writeDone, doing, readOnly, closed, before>>
  BY DEF IInv, TypeOK, RememberWrite, PollBatch
<1> USE <1>1 DEF queues
<1>2. TypeOK' BY DEF IInv, TypeOK
<1>3. Counted' BY ZenonT(30) DEF IInv, Counted, Exec, Pend, On, AllPend
<1>4. WithinLimit' BY DEF IInv, WithinLimit
<1>5. Queued' /\ Robin' BY DEF IInv, Queued, Robin
<1>6. BeforeFirst' BY DEF IInv, BeforeFirst
<1>7. Results' BY DEF IInv, Results
<1>8. CheckpointAfterWrites' /\ NoWriteToReadOnly'
  BY DEF IInv, CheckpointAfterWrites, NoWriteToReadOnly
<1> QED BY <1>2, <1>3, <1>4, <1>5, <1>6, <1>7, <1>8 DEF IInv

\* A queue whose active counter is 0 has no job that is being executed.
LEMMA NoneActive ==
    ASSUME IInv, NEW q \in Queues, writeQueueActive[q] = 0
    PROVE  \A j \in Jobs : repo[j] = q => job[j] \notin Executing
<1>1. Exec(q) = {}
  BY JobSets, FS_EmptySet DEF IInv, Counted
<1> QED BY <1>1 DEF Exec, On

\* makeReadOnly finds nothing in the queue and no writer that has taken a job.
LEMMA WorkFinishedInv ==
    ASSUME IInv, NEW q \in Queues, WorkFinished(q)
    PROVE  IInv'
<1> USE DEF WorkFinished, queues, client
<1>1. TypeOK' BY ZenonT(30) DEF IInv, TypeOK
<1>2. Counted' BY ZenonT(30) DEF IInv, Counted, Exec, Pend, On, AllPend
<1>3. WithinLimit' BY DEF IInv, WithinLimit
<1>4. Queued' /\ Robin' BY DEF IInv, Queued, Robin
<1>5. BeforeFirst' BY DEF IInv, BeforeFirst
<1>6. Results' BY DEF IInv, Results
<1>7. CheckpointAfterWrites' BY DEF IInv, CheckpointAfterWrites
<1>8. NoWriteToReadOnly'
  BY NoneActive DEF IInv, NoWriteToReadOnly, Executing
<1> QED BY <1>1, <1>2, <1>3, <1>4, <1>5, <1>6, <1>7, <1>8 DEF IInv

-----------------------------------------------------------------------------
(* Steps on the queues.                                                    *)

\* addToWriteQueue, for an item with an open database.
LEMMA AddToWriteQueueInv ==
    ASSUME IInv, NEW x \in Items, job[x] = "opened", AddToWriteQueue(repo[x], x), closed' = closed
    PROVE  /\ writeQueue' \in [Queues -> Seq(Items)] /\ writeQueues' \in Seq(Queues)
           /\ OnlyMoves(x) /\ job'[x] = "queued"
           /\ Queued' /\ Robin'
<1> DEFINE p == repo[x]
<1>1. p \in Queues /\ p \notin closed
  BY ItemsAssumption DEF IInv, Robin
<1>2. /\ writeQueue \in [Queues -> Seq(Items)] /\ writeQueues \in Seq(Queues)
      /\ job \in [Items -> {"new", "opened", "queued", "running", "writing",
                           "executed", "finished", "lost"}]
  BY DEF IInv, TypeOK
<1>3. /\ writeQueue' = [writeQueue EXCEPT ![p] = Append(@, x)]
      /\ writeQueues' = IF writeQueue[p] = <<>> THEN Append(writeQueues, p) ELSE writeQueues
      /\ job' = [job EXCEPT ![x] = "queued"]
  BY DEF AddToWriteQueue
<1> HIDE DEF p
<1>4. OnlyMoves(x) /\ job'[x] = "queued"
  BY <1>2, <1>3 DEF OnlyMoves
<1>5. /\ writeQueue'[p] = Append(writeQueue[p], x) /\ writeQueue[p] \in Seq(Items)
      /\ \A q \in Queues : q # p => writeQueue'[q] = writeQueue[q]
  BY <1>1, <1>2, <1>3
<1>6. writeQueue' \in [Queues -> Seq(Items)] /\ writeQueue'[p] # <<>>
  <2>1. Append(writeQueue[p], x) \in Seq(Items) /\ Append(writeQueue[p], x) # <<>>
    BY <1>5, AppendFacts
  <2> QED BY <1>1, <1>2, <1>3, <1>5, <2>1
<1>7. ~Occurs(x, writeQueue[p])
  BY <1>1 DEF IInv, Queued
<1>8. /\ Distinct(writeQueue'[p])
      /\ \A y \in Items : Occurs(y, writeQueue'[p]) <=> Occurs(y, writeQueue[p]) \/ y = x
  BY <1>1, <1>5, <1>7, AppendFacts DEF IInv, Queued
<1>9. Queued'
  <2>1. ASSUME NEW q \in Queues
        PROVE  /\ Distinct(writeQueue'[q])
               /\ \A y \in Items : Occurs(y, writeQueue'[q]) => repo[y] = q /\ job'[y] = "queued"
    <3>1. CASE q = p
      <4>1. \A y \in Items : Occurs(y, writeQueue[p]) => repo[y] = p /\ job[y] = "queued" /\ y # x
        BY <1>1, <1>7 DEF IInv, Queued
      <4> QED BY <1>4, <1>8, <3>1, <4>1 DEF OnlyMoves, p
    <3>2. CASE q # p
      <4>1. \A y \in Items : Occurs(y, writeQueue[q]) => repo[y] = q /\ job[y] = "queued" /\ y # x
        BY <3>2 DEF IInv, Queued, p
      <4> QED BY <1>4, <1>5, <3>2, <4>1 DEF IInv, Queued, OnlyMoves
    <3> QED BY <3>1, <3>2
  <2>2. ASSUME NEW y \in Items, job'[y] = "queued" PROVE Occurs(y, writeQueue'[repo[y]])
    <3>1. repo[y] \in Queues BY ItemsAssumption
    <3> QED BY ZenonT(30), <1>4, <1>5, <1>8, <2>2, <3>1 DEF IInv, Queued, OnlyMoves, p
  <2> QED BY <2>1, <2>2 DEF Queued
<1>10. /\ writeQueues' \in Seq(Queues) /\ Distinct(writeQueues')
       /\ \A q \in Queues : Occurs(q, writeQueues') <=> Occurs(q, writeQueues) \/ q = p
  <2>1. CASE writeQueue[p] = <<>>
    <3>1. ~Occurs(p, writeQueues) BY <1>1, <2>1 DEF IInv, Robin
    <3> QED BY <1>1, <1>2, <1>3, <2>1, <3>1, AppendFacts DEF IInv, Robin
  <2>2. CASE writeQueue[p] # <<>>
    BY ZenonT(30), <1>1, <1>2, <1>3, <2>2 DEF IInv, Robin
  <2> QED BY <2>1, <2>2
<1>11. Robin'
  <2>1. \A q \in Queues : writeQueue'[q] # <<>> => Occurs(q, writeQueues')
    BY <1>5, <1>10 DEF IInv, Robin
  <2>2. \A q \in Queues : Occurs(q, writeQueues') /\ q \notin closed => writeQueue'[q] # <<>>
    BY ZenonT(30), <1>5, <1>6, <1>10 DEF IInv, Robin
  <2>3. \A y \in Items : /\ job'[y] = "opened" => repo[y] \notin closed
                         /\ job'[y] = "lost" => repo[y] \in closed
    BY <1>4 DEF IInv, Robin, OnlyMoves
  <2> QED BY ZenonT(30), <1>10, <2>1, <2>2, <2>3 DEF Robin
<1> QED BY <1>4, <1>6, <1>9, <1>10, <1>11


\* It goes behind what is in the queue, so the jobs before a checkpoint that is
\* already there stay before it.
LEMMA AddKeepsOrder ==
    ASSUME IInv, NEW x \in Items, job[x] = "opened", AddToWriteQueue(repo[x], x), closed' = closed,
           NEW c \in Checkpoints, c # x, NEW i \in before[c]
    PROVE  /\ repo[i] = repo[c]
           /\ job'[i] \notin {"new", "opened"}
           /\ job'[c] = "queued" => job'[i] # "lost"
           /\ \A m, k \in 1 .. Len(writeQueue'[repo[c]]) :
                 writeQueue'[repo[c]][m] = i /\ writeQueue'[repo[c]][k] = c => m < k
<1>1. i \in Items /\ c \in Items /\ repo[c] \in Queues
  BY ItemsAssumption DEF IInv, TypeOK, Items
<1>2. /\ repo[i] = repo[c] /\ job[i] \notin {"new", "opened"}
      /\ job[c] = "queued" => job[i] # "lost"
      /\ \A m, k \in 1 .. Len(writeQueue[repo[c]]) :
            writeQueue[repo[c]][m] = i /\ writeQueue[repo[c]][k] = c => m < k
  BY DEF IInv, BeforeFirst
<1>3. i # x
  BY <1>2
<1>4. job'[i] = job[i] /\ job'[c] = job[c]
  BY <1>1, <1>3, AddToWriteQueueInv DEF OnlyMoves
<1>5. CASE repo[c] # repo[x]
  <2>1. writeQueue'[repo[c]] = writeQueue[repo[c]]
    BY <1>1, <1>5 DEF AddToWriteQueue, IInv, TypeOK
  <2> QED BY <1>2, <1>4, <2>1
<1>6. CASE repo[c] = repo[x]
  <2>1. writeQueue'[repo[c]] = Append(writeQueue[repo[c]], x) /\ writeQueue[repo[c]] \in Seq(Items)
    BY ZenonT(30), <1>1, <1>6 DEF AddToWriteQueue, IInv, TypeOK
  <2>2. ASSUME NEW m \in 1 .. Len(writeQueue'[repo[c]]), NEW k \in 1 .. Len(writeQueue'[repo[c]]),
               writeQueue'[repo[c]][m] = i, writeQueue'[repo[c]][k] = c
        PROVE  m < k
    <3>1. m \in 1 .. Len(writeQueue[repo[c]]) /\ k \in 1 .. Len(writeQueue[repo[c]])
      BY <1>3, <2>1, <2>2, AppendFacts
    <3>2. writeQueue[repo[c]][m] = i /\ writeQueue[repo[c]][k] = c
      BY <2>1, <2>2, <3>1, AppendFacts
    <3> QED BY ZenonT(30), <1>2, <3>1, <3>2
  <2> QED BY <1>2, <1>4, <2>2
<1> QED BY <1>5, <1>6

\* What RoundUp says: as many units as it gives hold x.
LEMMA RoundUpBound ==
    ASSUME NEW unit \in Nat \ {0}, NEW x \in Nat, NEW n \in Nat, RoundUp(unit, x) <= n
    PROVE  x <= n * unit
<1> DEFINE r == RoundUp(unit, x)
<1>1. r \in Int /\ x <= r * unit /\ r <= n
  BY Z3 DEF RoundUp
<1> HIDE DEF r
<1>2. r * unit <= n * unit
  BY <1>1, Z3
<1>3. r * unit \in Int /\ n * unit \in Int
  BY <1>1
<1> QED BY <1>1, <1>2, <1>3

\* enqueueWrite
LEMMA EnqueueWriteInv ==
    ASSUME IInv, NEW j \in Jobs, EnqueueWrite(j)
    PROVE  IInv'
<1> DEFINE p == repo[j]
<1>1. /\ job[j] = "opened" /\ RoundUp(mb, writeQueuesSize + writeSize[j]) <= limit
      /\ writeQueuesSize' = writeQueuesSize + writeSize[j]
      /\ AddToWriteQueue(p, j)
      /\ writeQueueCount' = [writeQueueCount EXCEPT ![p] = @ + 1]
      /\ writeQueueSize' = [writeQueueSize EXCEPT ![p] = @ + writeSize[j]]
      /\ UNCHANGED <<writeQueueActive, writeDone, doing, readOnly, closed, client, before>>
  BY DEF EnqueueWrite
<1>2. j \in Items /\ p \in Queues /\ writeSize[j] \in Nat /\ j \notin Checkpoints
  BY ItemsAssumption DEF Items
<1>3. /\ writeQueue' \in [Queues -> Seq(Items)] /\ writeQueues' \in Seq(Queues)
      /\ OnlyMoves(j) /\ job'[j] = "queued" /\ Queued' /\ Robin'
  BY <1>1, <1>2, AddToWriteQueueInv
<1>4. ASSUME NEW q \in Queues
      PROVE  /\ Exec(q)' = Exec(q)
             /\ IF q = p THEN j \notin Pend(q) /\ Pend(q)' = Pend(q) \cup {j}
                         ELSE Pend(q)' = Pend(q)
  <2>1. j \notin Exec(q) /\ j \notin Pend(q)
    BY <1>1 DEF Exec, Pend, On, Executing
  <2>2. Exec(q)' = Exec(q)
    BY <1>2, <1>3, <2>1 DEF Exec, On, Executing, OnlyMoves, Items
  <2>3. Pend(q)' = IF q = p THEN Pend(q) \cup {j} ELSE Pend(q)
    BY ZenonT(30), <1>2, <1>3 DEF Pend, On, Executing, OnlyMoves, Items
  <2> QED BY <2>1, <2>2, <2>3
<1>5. j \notin AllPend /\ AllPend' = AllPend \cup {j}
  BY <1>1, <1>2, <1>3, OneMovesAll DEF AllPend, Executing
<1> HIDE DEF p
<1>6. /\ writeQueueActive \in [Queues -> Nat] /\ writeQueueCount \in [Queues -> Nat]
      /\ writeQueueSize \in [Queues -> Nat] /\ writeQueuesSize \in Nat
  BY DEF IInv, TypeOK
<1>7. Counted'
  <2>1. ASSUME NEW q \in Queues
        PROVE  /\ writeQueueActive'[q] = Cardinality(Exec(q)')
               /\ writeQueueSize'[q] = SumOf(writeSize, Pend(q)')
               /\ writeQueueCount'[q] >= Cardinality(Pend(q)')
               /\ q \notin closed' => writeQueueCount'[q] = Cardinality(Pend(q)')
    <3>1. CASE q # p
      BY ZenonT(30), <1>1, <1>4, <1>6, <3>1 DEF IInv, Counted
    <3>2. CASE q = p
      <4>1. Cardinality(Pend(q)') = Cardinality(Pend(q)) + 1
        BY <1>4, <3>2, JobSets, FS_AddElement
      <4>2. SumOf(writeSize, Pend(q)') = SumOf(writeSize, Pend(q)) + writeSize[j]
        BY <1>4, <3>2, JobSets, SumAdd, ItemsAssumption
      <4>3. /\ writeQueueCount'[q] = writeQueueCount[q] + 1
            /\ writeQueueSize'[q] = writeQueueSize[q] + writeSize[j]
            /\ writeQueueActive'[q] = writeQueueActive[q]
        BY ZenonT(30), <1>1, <1>6, <3>2
      <4>4. /\ writeQueueActive[q] = Cardinality(Exec(q))
            /\ writeQueueSize[q] = SumOf(writeSize, Pend(q))
            /\ writeQueueCount[q] >= Cardinality(Pend(q))
            /\ q \notin closed => writeQueueCount[q] = Cardinality(Pend(q))
        BY DEF IInv, Counted
      <4>5. Cardinality(Pend(q)) \in Nat /\ writeQueueCount[q] \in Nat
        BY <1>6, JobSets
      <4> QED BY <1>1, <1>4, <4>1, <4>2, <4>3, <4>4, <4>5
    <3> QED BY ZenonT(30), <3>1, <3>2
  <2>2. SumOf(writeSize, AllPend') = SumOf(writeSize, AllPend) + writeSize[j]
    BY <1>5, JobSets, SumAdd, ItemsAssumption
  <2>3. writeQueuesSize' = SumOf(writeSize, AllPend')
    BY <1>1, <2>2 DEF IInv, Counted
  <2> QED BY <2>1, <2>3 DEF Counted
<1>8. TypeOK'
  <2>1. job' \in [Items -> {"new", "opened", "queued", "running", "writing",
                           "executed", "finished", "lost"}]
    BY ZenonT(30), <1>1, <1>2 DEF IInv, TypeOK, AddToWriteQueue
  <2>2. writeQueueCount' \in [Queues -> Nat] /\ writeQueueSize' \in [Queues -> Nat] /\ writeQueuesSize' \in Nat
    BY <1>1, <1>2, <1>6
  <2> QED BY ZenonT(30), <1>1, <1>3, <2>1, <2>2 DEF IInv, TypeOK, client
<1>9. WithinLimit'
  <2>1. writeQueuesSize + writeSize[j] \in Nat
    BY <1>2, <1>6
  <2> QED BY <1>1, <2>1, RoundUpBound, LimitAssumption DEF WithinLimit
<1>10. BeforeFirst'
  BY <1>1, <1>2, AddKeepsOrder DEF BeforeFirst, p
<1>11. Results' /\ CheckpointAfterWrites' /\ NoWriteToReadOnly'
  BY ZenonT(30), <1>1, <1>2, <1>3
     DEF IInv, TypeOK, Results, CheckpointAfterWrites, NoWriteToReadOnly, OnlyMoves, Items
<1> QED BY ZenonT(30), <1>3, <1>7, <1>8, <1>9, <1>10, <1>11 DEF IInv

\* enqueueCheckpoint
LEMMA EnqueueCheckpointInv ==
    ASSUME IInv, NEW c \in Items, EnqueueCheckpoint(c)
    PROVE  IInv'
<1> DEFINE p == repo[c]
           earlier == {j \in Jobs : repo[j] = p /\ job[j] \notin {"new", "opened"}}
<1>1. /\ c \in Checkpoints /\ job[c] = "opened" /\ AddToWriteQueue(p, c)
      /\ before' = [before EXCEPT ![c] = earlier]
      /\ UNCHANGED <<writeQueueActive, writeQueueCount, writeQueueSize, writeQueuesSize,
                     writeDone, doing, readOnly, closed, client>>
  BY DEF EnqueueCheckpoint
<1>2. p \in Queues /\ c \notin Jobs /\ p \notin closed
  BY <1>1, ItemsAssumption DEF IInv, Robin, Items
<1>3. /\ writeQueue' \in [Queues -> Seq(Items)] /\ writeQueues' \in Seq(Queues)
      /\ OnlyMoves(c) /\ job'[c] = "queued" /\ Queued' /\ Robin'
  BY <1>1, AddToWriteQueueInv
<1>4. before'[c] = earlier /\ \A d \in Checkpoints : d # c => before'[d] = before[d]
  BY <1>1 DEF IInv, TypeOK
<1>5. ASSUME NEW i \in earlier
      PROVE  /\ repo[i] = p /\ job'[i] = job[i] /\ job[i] \notin {"new", "opened", "lost"}
             /\ \A m, k \in 1 .. Len(writeQueue'[p]) :
                   writeQueue'[p][m] = i /\ writeQueue'[p][k] = c => m < k
  <2>1. i \in Items /\ i # c
    BY <1>2 DEF Items
  <2>2. repo[i] = p /\ job'[i] = job[i] /\ job[i] \notin {"new", "opened", "lost"}
    BY <1>2, <1>3, <2>1 DEF IInv, Robin, OnlyMoves
  <2>3. writeQueue'[p] = Append(writeQueue[p], c) /\ writeQueue[p] \in Seq(Items)
    BY <1>1, <1>2 DEF AddToWriteQueue, IInv, TypeOK
  <2>4. ~Occurs(c, writeQueue[p])
    BY ZenonT(30), <1>1, <1>2 DEF IInv, Queued
  <2>5. ASSUME NEW m \in 1 .. Len(writeQueue'[p]), NEW k \in 1 .. Len(writeQueue'[p]),
               writeQueue'[p][m] = i, writeQueue'[p][k] = c
        PROVE  m < k
    <3>1. m \in 1 .. Len(writeQueue[p])
      BY <2>1, <2>3, <2>5, AppendFacts
    <3>2. k \notin 1 .. Len(writeQueue[p])
      BY <2>3, <2>4, <2>5, AppendFacts DEF Occurs
    <3>3. Len(writeQueue[p]) \in Nat /\ Len(writeQueue'[p]) = Len(writeQueue[p]) + 1
      BY <2>3, AppendFacts, SeqFacts
    <3> QED BY <3>1, <3>2, <3>3
  <2> QED BY <2>2, <2>5
<1>6. BeforeFirst'
  <2>1. ASSUME NEW d \in Checkpoints, NEW i \in before'[d]
        PROVE  /\ repo[i] = repo[d]
               /\ job'[i] \notin {"new", "opened"}
               /\ job'[d] = "queued" => job'[i] # "lost"
               /\ \A m, k \in 1 .. Len(writeQueue'[repo[d]]) :
                     writeQueue'[repo[d]][m] = i /\ writeQueue'[repo[d]][k] = d => m < k
    <3>1. CASE d = c
      BY <1>4, <1>5, <3>1
    <3>2. CASE d # c
      <4>1. i \in before[d] BY ZenonT(30), <1>4, <3>2
      <4> HIDE DEF p
      <4> QED BY <1>1, <3>2, <4>1, AddKeepsOrder DEF p
    <3> QED BY <3>1, <3>2
  <2> QED BY <2>1 DEF BeforeFirst
<1>7. Counted'
  BY ZenonT(30), <1>1, <1>2, <1>3, NeutralMove DEF IInv
<1>8. TypeOK'
  <2>1. job' \in [Items -> {"new", "opened", "queued", "running", "writing",
                           "executed", "finished", "lost"}]
    BY <1>1 DEF IInv, TypeOK, AddToWriteQueue
  <2>2. before' \in [Checkpoints -> SUBSET Jobs]
    BY <1>1 DEF IInv, TypeOK
  <2> QED BY <1>1, <1>3, <2>1, <2>2 DEF IInv, TypeOK, client
<1>9. WithinLimit'
  BY ZenonT(30), <1>1 DEF IInv, WithinLimit
<1>10. Results' /\ NoWriteToReadOnly'
  BY ZenonT(30), <1>1, <1>2, <1>3 DEF IInv, TypeOK, Results, NoWriteToReadOnly, OnlyMoves, Items
<1>11. CheckpointAfterWrites'
  BY <1>1, <1>3, <1>4 DEF IInv, CheckpointAfterWrites, OnlyMoves, Items
<1> QED BY <1>3, <1>6, <1>7, <1>8, <1>9, <1>10, <1>11 DEF IInv

\* dequeueLoop takes the first item of a queue.
LEMMA DequeueInv ==
    ASSUME IInv, NEW w \in Writers, Dequeue(w)
    PROVE  IInv'
<1>1. PICK k \in DOMAIN writeQueues :
        /\ doing[w] = None /\ ~Blocked(writeQueues[k])
        /\ writeQueue[writeQueues[k]] # <<>>
        /\ writeQueue' = [writeQueue EXCEPT ![writeQueues[k]] = Tail(writeQueue[writeQueues[k]])]
        /\ writeQueues' = Requeued(k) \o (IF Tail(writeQueue[writeQueues[k]]) = <<>>
                                          THEN <<>> ELSE <<writeQueues[k]>>)
        /\ writeQueueActive' = IF Head(writeQueue[writeQueues[k]]) \in Jobs
                               THEN [writeQueueActive EXCEPT ![writeQueues[k]] = @ + 1]
                               ELSE writeQueueActive
        /\ doing' = [doing EXCEPT ![w] = Head(writeQueue[writeQueues[k]])]
        /\ job' = [job EXCEPT ![Head(writeQueue[writeQueues[k]])] = "running"]
        /\ UNCHANGED <<writeQueueCount, writeQueueSize, writeQueuesSize, writeDone,
                       readOnly, closed, client, before>>
  BY ZenonT(30) DEF Dequeue, StopsAt
<1> DEFINE p == writeQueues[k]
           x == Head(writeQueue[p])
           rest == Tail(writeQueue[p])
<1>2. /\ writeQueue \in [Queues -> Seq(Items)] /\ writeQueues \in Seq(Queues)
      /\ writeQueueActive \in [Queues -> Nat]
      /\ job \in [Items -> {"new", "opened", "queued", "running", "writing",
                           "executed", "finished", "lost"}]
      /\ doing \in [Writers -> Items \cup {None}]
  BY ZenonT(30) DEF IInv, TypeOK
<1>3. /\ p \in Queues /\ k \in 1 .. Len(writeQueues)
      /\ writeQueue[p] \in Seq(Items) /\ writeQueue[p] # <<>>
  <2>1. k \in 1 .. Len(writeQueues)
    BY <1>2
  <2>2. p \in Queues
    BY <1>2, <2>1
  <2> QED BY <1>1, <1>2, <2>1, <2>2
<1>4. /\ ~Blocked(p)
      /\ writeQueue' = [writeQueue EXCEPT ![p] = rest]
      /\ writeQueues' = Requeued(k) \o (IF rest = <<>> THEN <<>> ELSE <<p>>)
      /\ writeQueueActive' = IF x \in Jobs THEN [writeQueueActive EXCEPT ![p] = @ + 1]
                                            ELSE writeQueueActive
      /\ doing' = [doing EXCEPT ![w] = x]
      /\ job' = [job EXCEPT ![x] = "running"]
      /\ UNCHANGED <<writeQueueCount, writeQueueSize, writeQueuesSize, writeDone,
                     readOnly, closed, client, before>>
  BY <1>1
<1>5. Requeued(k) = Rotated(writeQueues, k)
  BY DEF Requeued, Rotated
<1>6. Occurs(p, writeQueues)
  BY ZenonT(30), <1>3 DEF Occurs
<1> HIDE DEF p
<1>7. Distinct(writeQueue[p]) /\ Distinct(writeQueues)
  BY <1>3 DEF IInv, Queued, Robin
<1>8. /\ x \in Items /\ x = writeQueue[p][1] /\ Len(writeQueue[p]) > 0
      /\ rest \in Seq(Items) /\ Len(rest) = Len(writeQueue[p]) - 1
      /\ \A i \in 1 .. Len(writeQueue[p]) - 1 : rest[i] = writeQueue[p][i + 1]
      /\ \A y : Occurs(y, writeQueue[p]) <=> Occurs(y, rest) \/ y = x
      /\ Distinct(rest) /\ ~Occurs(x, rest)
  BY ZenonT(30), <1>3, <1>7, TailFacts
<1> HIDE DEF x, rest
<1>9. repo[x] = p /\ job[x] = "queued"
  BY <1>3, <1>8 DEF IInv, Queued
<1>10. OnlyMoves(x) /\ job'[x] = "running"
  BY <1>2, <1>4, <1>8 DEF OnlyMoves
<1>11. writeQueue'[p] = rest /\ \A q \in Queues : q # p => writeQueue'[q] = writeQueue[q]
  BY ZenonT(30), <1>2, <1>3, <1>4
<1>12. Queued'
  <2>1. ASSUME NEW q \in Queues
        PROVE  /\ Distinct(writeQueue'[q])
               /\ \A y \in Items : Occurs(y, writeQueue'[q]) => repo[y] = q /\ job'[y] = "queued"
    <3>1. CASE q = p
      BY <1>3, <1>8, <1>10, <1>11, <3>1 DEF IInv, Queued, OnlyMoves
    <3>2. CASE q # p
      <4>1. \A y \in Items : Occurs(y, writeQueue[q]) => repo[y] = q /\ job[y] = "queued" /\ y # x
        BY <1>9, <3>2 DEF IInv, Queued
      <4> QED BY <1>10, <1>11, <3>2, <4>1 DEF IInv, Queued, OnlyMoves
    <3> QED BY ZenonT(30), <3>1, <3>2
  <2>2. ASSUME NEW y \in Items, job'[y] = "queued" PROVE Occurs(y, writeQueue'[repo[y]])
    <3>1. repo[y] \in Queues BY ItemsAssumption
    <3>2. y # x /\ job[y] = "queued" BY <1>10, <2>2 DEF OnlyMoves
    <3>3. Occurs(y, writeQueue[repo[y]]) BY <3>2 DEF IInv, Queued
    <3> QED BY <1>8, <1>11, <3>1, <3>2, <3>3
  <2> QED BY <2>1, <2>2 DEF Queued
<1>13. /\ writeQueues' \in Seq(Queues) /\ Distinct(writeQueues')
       /\ \A q : Occurs(q, writeQueues') <=>
                    (Occurs(q, writeQueues) /\ q # p) \/ (q = p /\ rest # <<>>)
  <2> DEFINE r == Rotated(writeQueues, k)
  <2>1. /\ r \in Seq(Queues) /\ Distinct(r)
        /\ \A q : Occurs(q, r) <=> Occurs(q, writeQueues) /\ q # p
    BY <1>2, <1>3, <1>7, RotatedFacts DEF p
  <2> HIDE DEF r
  <2>2. CASE rest = <<>>
    <3>1. writeQueues' = r
      <4>1. writeQueues' = r \o <<>> BY <1>4, <1>5, <2>2 DEF r
      <4> QED BY <2>1, <4>1, SeqFacts
    <3> QED BY <2>1, <2>2, <3>1
  <2>3. CASE rest # <<>>
    <3>1. writeQueues' = Append(r, p)
      <4>1. writeQueues' = r \o <<p>> BY <1>4, <1>5, <2>3 DEF r
      <4> QED BY <1>3, <2>1, <4>1, AppendIsConcat
    <3>2. ~Occurs(p, r) BY <2>1
    <3> QED BY <1>3, <2>1, <2>3, <3>1, <3>2, AppendFacts
  <2> QED BY <2>2, <2>3
<1>14. Robin'
  <2>1. \A q \in Queues : writeQueue'[q] # <<>> => Occurs(q, writeQueues')
    BY <1>11, <1>13 DEF IInv, Robin
  <2>2. \A q \in Queues : Occurs(q, writeQueues') /\ q \notin closed => writeQueue'[q] # <<>>
    BY <1>11, <1>13 DEF IInv, Robin
  <2>3. \A y \in Items : /\ job'[y] = "opened" => repo[y] \notin closed
                         /\ job'[y] = "lost" => repo[y] \in closed
    BY ZenonT(30), <1>10 DEF IInv, Robin, OnlyMoves
  <2> QED BY ZenonT(30), <1>4, <1>13, <2>1, <2>2, <2>3 DEF Robin
<1>15. BeforeFirst'
  <2>1. ASSUME NEW c \in Checkpoints, NEW i \in before[c]
        PROVE  /\ repo[i] = repo[c]
               /\ job'[i] \notin {"new", "opened"}
               /\ job'[c] = "queued" => job'[i] # "lost"
               /\ \A m, n \in 1 .. Len(writeQueue'[repo[c]]) :
                     writeQueue'[repo[c]][m] = i /\ writeQueue'[repo[c]][n] = c => m < n
    <3>1. i \in Items /\ c \in Items /\ repo[c] \in Queues
      BY ItemsAssumption DEF IInv, TypeOK, Items
    <3>2. /\ repo[i] = repo[c] /\ job[i] \notin {"new", "opened"}
          /\ job[c] = "queued" => job[i] # "lost"
          /\ \A m, n \in 1 .. Len(writeQueue[repo[c]]) :
                writeQueue[repo[c]][m] = i /\ writeQueue[repo[c]][n] = c => m < n
      BY ZenonT(30) DEF IInv, BeforeFirst
    <3>3. /\ job'[i] \notin {"new", "opened"}
          /\ job'[c] = "queued" => job'[i] # "lost"
      BY <1>10, <3>1, <3>2 DEF OnlyMoves
    <3>4. CASE repo[c] # p
      BY <1>11, <3>1, <3>2, <3>3, <3>4
    <3>5. CASE repo[c] = p
      <4>1. ASSUME NEW m \in 1 .. Len(rest), NEW n \in 1 .. Len(rest), rest[m] = i, rest[n] = c
            PROVE  m < n
        <5>1. Len(writeQueue[p]) \in Nat BY <1>3, SeqFacts
        <5>2. /\ m + 1 \in 1 .. Len(writeQueue[p]) /\ n + 1 \in 1 .. Len(writeQueue[p])
              /\ m \in 1 .. Len(writeQueue[p]) - 1 /\ n \in 1 .. Len(writeQueue[p]) - 1
          BY <1>8, <5>1
        <5>3. writeQueue[p][m + 1] = i /\ writeQueue[p][n + 1] = c
          BY ZenonT(30), <1>8, <4>1, <5>2
        <5>4. m + 1 < n + 1 BY ZenonT(30), <3>2, <3>5, <5>2, <5>3
        <5> QED BY <5>4
      <4> QED BY <1>11, <3>2, <3>3, <3>5, <4>1
    <3> QED BY <3>4, <3>5
  <2> QED BY ZenonT(30), <1>4, <2>1 DEF BeforeFirst
<1>16. Counted' /\ writeQueueActive' \in [Queues -> Nat]
  <2>1. CASE x \notin Jobs
    <3>1. writeQueueActive' = writeQueueActive BY <1>4, <2>1
    <3> QED BY ZenonT(30), <1>2, <1>4, <1>8, <1>10, <2>1, <3>1, NeutralMove DEF IInv
  <2>2. CASE x \in Jobs
    <3>1. ASSUME NEW q \in Queues
          PROVE  /\ Pend(q)' = Pend(q)
                 /\ IF q = p THEN x \notin Exec(q) /\ Exec(q)' = Exec(q) \cup {x}
                             ELSE Exec(q)' = Exec(q)
      <4>1. x \notin Exec(q) BY <1>9 DEF Exec, On, Executing
      <4>2. Pend(q)' = Pend(q)
        BY <1>9, <1>10 DEF Pend, On, Executing, OnlyMoves, Items
      <4>3. Exec(q)' = IF q = p THEN Exec(q) \cup {x} ELSE Exec(q)
        BY <1>9, <1>10, <2>2 DEF Exec, On, Executing, OnlyMoves, Items
      <4> QED BY <4>1, <4>2, <4>3
    <3>2. AllPend' = AllPend
      BY <1>9, <1>10 DEF AllPend, Executing, OnlyMoves, Items
    <3>3. writeQueueActive' = [writeQueueActive EXCEPT ![p] = @ + 1]
      BY <1>4, <2>2
    <3>4. ASSUME NEW q \in Queues PROVE writeQueueActive'[q] = Cardinality(Exec(q)')
      <4>1. CASE q # p BY ZenonT(30), <1>2, <3>1, <3>3, <4>1 DEF IInv, Counted
      <4>2. CASE q = p
        <5>1. Cardinality(Exec(q)') = Cardinality(Exec(q)) + 1
          <6>1. x \notin Exec(q) /\ Exec(q)' = Exec(q) \cup {x}
            BY <3>1, <4>2
          <6>2. IsFiniteSet(Exec(q))
            BY JobSets
          <6> QED BY ZenonT(30), <6>1, <6>2, FS_AddElement
        <5>2. writeQueueActive'[q] = writeQueueActive[q] + 1
          BY <1>2, <3>3, <4>2
        <5> QED BY <5>1, <5>2 DEF IInv, Counted
      <4> QED BY ZenonT(30), <4>1, <4>2
    <3>5. writeQueueActive' \in [Queues -> Nat]
      BY <1>2, <1>3, <3>3
    <3> QED BY ZenonT(30), <1>4, <3>1, <3>2, <3>4, <3>5 DEF IInv, Counted
  <2> QED BY <2>1, <2>2
<1>17. TypeOK'
  <2>1. /\ job' \in [Items -> {"new", "opened", "queued", "running", "writing",
                              "executed", "finished", "lost"}]
        /\ doing' \in [Writers -> Items \cup {None}]
        /\ writeQueue' \in [Queues -> Seq(Items)]
    BY ZenonT(30), <1>2, <1>3, <1>4, <1>8
  <2> QED BY ZenonT(30), <1>4, <1>13, <1>16, <2>1 DEF IInv, TypeOK, client
<1>18. WithinLimit'
  BY <1>4 DEF IInv, WithinLimit
<1>19. Results' /\ NoWriteToReadOnly'
  BY ZenonT(30), <1>2, <1>4, <1>8, <1>9, <1>10 DEF IInv, Results, NoWriteToReadOnly, OnlyMoves, Items
<1>20. CheckpointAfterWrites'
  <2>1. ASSUME NEW c \in Checkpoints, job'[c] \in {"running", "finished"}, NEW i \in before[c]
        PROVE  writeDone[i] # "empty"
    <3>1. i \in Jobs /\ i \in Items /\ c \in Items
      BY DEF IInv, TypeOK, Items
    <3>2. CASE c # x
      BY <1>10, <2>1, <3>1, <3>2 DEF IInv, CheckpointAfterWrites, OnlyMoves
    <3>3. CASE c = x
      <4>1. writeQueueActive[p] = 0
        BY ZenonT(30), <1>3, <1>4, <3>3 DEF Blocked, x
      <4>2. repo[i] = p /\ job[i] \notin {"new", "opened", "lost"}
        BY <1>9, <3>3 DEF IInv, BeforeFirst
      <4>3. job[i] \notin Executing
        BY ZenonT(30), <1>3, <3>1, <4>1, <4>2, NoneActive
      <4>4. job[i] # "queued"
        <5>1. SUFFICES ASSUME job[i] = "queued" PROVE FALSE
          OBVIOUS
        <5>2. PICK m \in 1 .. Len(writeQueue[p]) : writeQueue[p][m] = i
          BY <3>1, <4>2, <5>1 DEF IInv, Queued, Occurs
        <5>3. Len(writeQueue[p]) \in Nat /\ 1 \in 1 .. Len(writeQueue[p])
          BY <1>3, <1>8, SeqFacts
        <5>4. m < 1
          BY ZenonT(30), <1>8, <1>9, <3>3, <5>2, <5>3 DEF IInv, BeforeFirst
        <5> QED BY <5>2, <5>3, <5>4
      <4>5. job[i] = "finished"
        BY ZenonT(30), <1>2, <3>1, <4>2, <4>3, <4>4 DEF Executing
      <4> QED BY ZenonT(30), <3>1, <4>5 DEF IInv, Results
    <3> QED BY <3>2, <3>3
  <2> QED BY <1>4, <2>1 DEF CheckpointAfterWrites
<1> QED BY <1>12, <1>14, <1>15, <1>16, <1>17, <1>18, <1>19, <1>20 DEF IInv

\* dequeueLoop drops a queue that closeDatabase has emptied.
LEMMA DropEmptiedInv ==
    ASSUME IInv, NEW w \in Writers, DropEmptied(w)
    PROVE  IInv'
<1>1. PICK k \in DOMAIN writeQueues :
        /\ writeQueue[writeQueues[k]] = <<>> /\ writeQueues' = Requeued(k)
        /\ UNCHANGED <<writeQueue, writeQueueActive, writeQueueCount, writeQueueSize,
                       writeQueuesSize, job, writeDone, doing, readOnly, closed,
                       client, before>>
  BY DEF DropEmptied
<1> DEFINE r == Rotated(writeQueues, k)
<1>2. writeQueues' = r
  BY <1>1 DEF Requeued, Rotated
<1>3. /\ r \in Seq(Queues) /\ Distinct(r)
      /\ \A q : Occurs(q, r) <=> Occurs(q, writeQueues) /\ q # writeQueues[k]
  <2>1. writeQueues \in Seq(Queues) /\ Distinct(writeQueues)
    BY DEF IInv, TypeOK, Robin
  <2>2. k \in 1 .. Len(writeQueues)
    BY <2>1
  <2> QED BY <2>1, <2>2, RotatedFacts
<1> HIDE DEF r
<1> USE <1>1
<1>4. TypeOK' BY ZenonT(30), <1>2, <1>3 DEF IInv, TypeOK, client
<1>5. Counted' BY ZenonT(30) DEF IInv, Counted, Exec, Pend, On, AllPend
<1>6. WithinLimit' BY DEF IInv, WithinLimit
<1>7. Queued' BY ZenonT(30) DEF IInv, Queued
<1>8. Robin' BY ZenonT(30), <1>2, <1>3 DEF IInv, Robin
<1>9. BeforeFirst' BY DEF IInv, BeforeFirst
<1>10. Results' BY DEF IInv, Results
<1>11. CheckpointAfterWrites' /\ NoWriteToReadOnly'
  BY DEF IInv, CheckpointAfterWrites, NoWriteToReadOnly
<1> QED BY ZenonT(30), <1>4, <1>5, <1>6, <1>7, <1>8, <1>9, <1>10, <1>11 DEF IInv

\* closeDatabase: what it empties weighs nothing.
LEMMA CloseDatabaseInv ==
    ASSUME IInv, NEW p \in Queues, CloseDatabase(p)
    PROVE  IInv'
<1>1. /\ \A x \in Items : repo[x] = p => job[x] \notin {"opened", "writing"}
      /\ closed' = closed \cup {p}
      /\ UNCHANGED <<writeQueueActive, writeQueueCount, writeQueueSize, writeQueues,
                     writeDone, doing, readOnly, client, before>>
  BY DEF CloseDatabase
<1>2. CASE UNCHANGED <<writeQueue, writeQueuesSize, job>>
  <2> USE <1>1, <1>2
  <2>1. TypeOK' BY DEF IInv, TypeOK, client
  <2>2. Counted' BY ZenonT(30) DEF IInv, Counted, Exec, Pend, On, AllPend
  <2>3. WithinLimit' BY DEF IInv, WithinLimit
  <2>4. Queued' BY ZenonT(30) DEF IInv, Queued
  <2>5. Robin' BY ZenonT(30) DEF IInv, Robin
  <2>6. BeforeFirst' BY DEF IInv, BeforeFirst
  <2>7. Results' BY DEF IInv, Results
  <2>8. CheckpointAfterWrites' /\ NoWriteToReadOnly'
    BY DEF IInv, CheckpointAfterWrites, NoWriteToReadOnly
  <2> QED BY ZenonT(30), <2>1, <2>2, <2>3, <2>4, <2>5, <2>6, <2>7, <2>8 DEF IInv
<1>3. CASE /\ writeQueueSize[p] = 0
           /\ writeQueuesSize' = writeQueuesSize - writeQueueSize[p]
           /\ writeQueue' = [writeQueue EXCEPT ![p] = <<>>]
           /\ job' = [x \in Items |->
                  IF repo[x] = p /\ job[x] = "queued" THEN "lost" ELSE job[x]]
  <2> DEFINE gone == On(p, {"queued"})
  <2>1. /\ writeQueueActive \in [Queues -> Nat] /\ writeQueueCount \in [Queues -> Nat]
        /\ writeQueueSize \in [Queues -> Nat] /\ writeQueuesSize \in Nat
        /\ writeQueue \in [Queues -> Seq(Items)]
    BY DEF IInv, TypeOK
  <2>2. \A x \in Items : job'[x] = IF repo[x] = p /\ job[x] = "queued" THEN "lost" ELSE job[x]
    BY <1>3
  <2>3. writeQueue'[p] = <<>> /\ \A q \in Queues : q # p => writeQueue'[q] = writeQueue[q]
    BY <1>3, <2>1
  <2>4. writeQueuesSize' = writeQueuesSize
    BY <1>3, <2>1
  <2>5. ASSUME NEW q \in Queues
        PROVE  /\ Exec(q)' = Exec(q)
               /\ q # p => Pend(q)' = Pend(q)
    BY ZenonT(30), <2>2 DEF Exec, Pend, On, Executing, Items
  <2>6. /\ Pend(p) = Pend(p)' \cup gone /\ Pend(p)' \cap gone = {}
        /\ AllPend = AllPend' \cup gone /\ AllPend' \cap gone = {}
    BY <2>2 DEF Pend, AllPend, On, Executing, Items
  <2>7. /\ Pend(p)' \in SUBSET Jobs /\ AllPend' \in SUBSET Jobs /\ gone \in SUBSET Jobs
        /\ IsFiniteSet(Pend(p)') /\ IsFiniteSet(AllPend') /\ IsFiniteSet(gone)
    <3>1. Pend(p)' \in SUBSET Jobs /\ AllPend' \in SUBSET Jobs /\ gone \in SUBSET Jobs
      BY DEF Pend, AllPend, On
    <3> QED BY ZenonT(30), <3>1, FS_Subset, ItemsAssumption
  <2> HIDE DEF gone
  <2>8. /\ SumOf(writeSize, Pend(p)') \in Nat /\ SumOf(writeSize, AllPend') \in Nat
        /\ SumOf(writeSize, gone) \in Nat
    BY <2>7, SumType, ItemsAssumption
  <2>9. SumOf(writeSize, Pend(p)) = SumOf(writeSize, Pend(p)') + SumOf(writeSize, gone)
    BY <2>6, <2>7, SumUnion, ItemsAssumption
  <2>10. SumOf(writeSize, AllPend) = SumOf(writeSize, AllPend') + SumOf(writeSize, gone)
    BY <2>6, <2>7, SumUnion, ItemsAssumption
  <2>11. SumOf(writeSize, Pend(p)) = 0
    BY <1>3 DEF IInv, Counted
  <2>12. SumOf(writeSize, Pend(p)') = 0 /\ SumOf(writeSize, AllPend') = SumOf(writeSize, AllPend)
    BY <2>8, <2>9, <2>10, <2>11
  <2>13. Cardinality(Pend(p)') <= Cardinality(Pend(p)) /\ Cardinality(Pend(p)') \in Nat
    BY <2>6, <2>7, JobSets, FS_Subset, FS_CardinalityType
  <2>14. Counted'
    <3>1. ASSUME NEW q \in Queues
          PROVE  /\ writeQueueActive[q] = Cardinality(Exec(q)')
                 /\ writeQueueSize[q] = SumOf(writeSize, Pend(q)')
                 /\ writeQueueCount[q] >= Cardinality(Pend(q)')
                 /\ q \notin closed' => writeQueueCount[q] = Cardinality(Pend(q)')
      <4>1. CASE q # p
        BY <1>1, <2>5, <4>1 DEF IInv, Counted
      <4>2. CASE q = p
        <5>1. writeQueueCount[p] >= Cardinality(Pend(p)) /\ writeQueueActive[p] = Cardinality(Exec(p))
          BY ZenonT(30) DEF IInv, Counted
        <5>2. writeQueueCount[p] \in Nat /\ Cardinality(Pend(p)) \in Nat
          BY ZenonT(30), <2>1, JobSets
        <5>3. writeQueueCount[p] >= Cardinality(Pend(p)')
          BY <2>13, <5>1, <5>2
        <5> QED BY ZenonT(30), <1>1, <1>3, <2>5, <2>12, <4>2, <5>1, <5>3
      <4> QED BY ZenonT(30), <4>1, <4>2
    <3> QED BY ZenonT(30), <1>1, <2>4, <2>12, <3>1 DEF IInv, Counted
  <2>15. TypeOK'
    <3>1. job' \in [Items -> {"new", "opened", "queued", "running", "writing",
                             "executed", "finished", "lost"}]
      BY <1>3 DEF IInv, TypeOK
    <3>2. writeQueue' \in [Queues -> Seq(Items)]
      <4>1. <<>> \in Seq(Items) OBVIOUS
      <4> QED BY ZenonT(30), <1>3, <2>1, <4>1
    <3> QED BY ZenonT(30), <1>1, <2>4, <3>1, <3>2 DEF IInv, TypeOK, client
  <2>16. WithinLimit'
    BY <2>4 DEF IInv, WithinLimit
  <2>17. \A y : ~Occurs(y, writeQueue'[p])
    BY <2>3 DEF Occurs
  <2>18. Queued'
    <3>1. ASSUME NEW q \in Queues
          PROVE  /\ Distinct(writeQueue'[q])
                 /\ \A y \in Items : Occurs(y, writeQueue'[q]) => repo[y] = q /\ job'[y] = "queued"
      <4>1. CASE q = p BY <2>3, <2>17, <4>1 DEF Distinct
      <4>2. CASE q # p BY ZenonT(30), <2>2, <2>3, <4>2 DEF IInv, Queued
      <4> QED BY ZenonT(30), <4>1, <4>2
    <3>2. ASSUME NEW y \in Items, job'[y] = "queued" PROVE Occurs(y, writeQueue'[repo[y]])
      <4>1. repo[y] \in Queues /\ repo[y] # p /\ job[y] = "queued"
        BY ZenonT(30), <2>2, <3>2, ItemsAssumption
      <4> QED BY <2>3, <4>1 DEF IInv, Queued
    <3> QED BY ZenonT(30), <3>1, <3>2 DEF Queued
  <2>19. Robin'
    BY ZenonT(30), <1>1, <2>2, <2>3 DEF IInv, Robin
  <2>20. BeforeFirst'
    <3>1. ASSUME NEW c \in Checkpoints, NEW i \in before[c]
          PROVE  /\ repo[i] = repo[c]
                 /\ job'[i] \notin {"new", "opened"}
                 /\ job'[c] = "queued" => job'[i] # "lost"
                 /\ \A m, k \in 1 .. Len(writeQueue'[repo[c]]) :
                       writeQueue'[repo[c]][m] = i /\ writeQueue'[repo[c]][k] = c => m < k
      <4>1. i \in Items /\ c \in Items /\ repo[c] \in Queues
        BY ItemsAssumption DEF IInv, TypeOK, Items
      <4>2. /\ repo[i] = repo[c] /\ job'[i] \notin {"new", "opened"}
            /\ job'[c] = "queued" => job'[i] # "lost"
        BY <2>2, <4>1 DEF IInv, BeforeFirst
      <4>3. CASE repo[c] = p
        BY <2>3, <4>2, <4>3
      <4>4. CASE repo[c] # p
        BY <2>3, <4>1, <4>2, <4>4 DEF IInv, BeforeFirst
      <4> QED BY ZenonT(30), <4>3, <4>4
    <3> QED BY <1>1, <3>1 DEF BeforeFirst
  <2>21. Results' /\ CheckpointAfterWrites' /\ NoWriteToReadOnly'
    BY ZenonT(30), <1>1, <2>2 DEF IInv, TypeOK, Results, CheckpointAfterWrites, NoWriteToReadOnly, Items
  <2> QED BY <2>14, <2>15, <2>16, <2>18, <2>19, <2>20, <2>21 DEF IInv
<1> QED BY <1>2, <1>3 DEF CloseDatabase


-----------------------------------------------------------------------------
(* The invariant and what it implies.                                      *)

\* Before anything is opened the queues are empty and every count is zero.
LEMMA InitInv ==
    ASSUME Init
    PROVE  IInv
<1> USE DEF Init
<1>1. TypeOK
  <2>1. <<>> \in Seq(Items) /\ <<>> \in Seq(Queues) OBVIOUS
  <2> QED BY <2>1 DEF TypeOK
<1>2. Counted
  <2>1. ASSUME NEW q \in Queues PROVE Exec(q) = {} /\ Pend(q) = {}
    BY DEF Exec, Pend, On, Executing, Items
  <2>2. AllPend = {}
    BY DEF AllPend, Executing, Items
  <2>3. Cardinality({}) = 0 /\ SumOf(writeSize, {}) = 0
    BY SumEmpty, FS_EmptySet
  <2>4. ASSUME NEW q \in Queues
        PROVE  /\ writeQueueActive[q] = Cardinality(Exec(q))
               /\ writeQueueSize[q] = SumOf(writeSize, Pend(q))
               /\ writeQueueCount[q] = Cardinality(Pend(q)) /\ writeQueueCount[q] \in Nat
    BY ZenonT(30), <2>1, <2>3
  <2>5. writeQueuesSize = SumOf(writeSize, AllPend)
    BY <2>2, <2>3
  <2> QED BY <2>4, <2>5 DEF Counted
<1>3. WithinLimit
  <2>1. limit * mb >= 0 BY LimitAssumption
  <2> QED BY <2>1 DEF WithinLimit
<1>4. Queued /\ Robin
  BY DEF Queued, Robin, Distinct, Occurs
<1>5. BeforeFirst
  BY DEF BeforeFirst
<1>6. Results
  BY ItemsAssumption DEF Results, Items
<1>7. CheckpointAfterWrites /\ NoWriteToReadOnly
  BY DEF CheckpointAfterWrites, NoWriteToReadOnly, Items
<1> QED BY <1>1, <1>2, <1>3, <1>4, <1>5, <1>6, <1>7 DEF IInv

\* Every step of the clients, the writers and the close keeps the invariant.
LEMMA StepInv ==
    ASSUME IInv, [Next]_vars
    PROVE  IInv'
<1>1. CASE UNCHANGED vars
  <2> USE <1>1 DEF vars, queues, client
  <2>1. TypeOK' /\ WithinLimit' BY ZenonT(30) DEF IInv, TypeOK, WithinLimit
  <2>2. Counted' BY ZenonT(30) DEF IInv, Counted, Exec, Pend, On, AllPend
  <2>3. Queued' /\ Robin' BY ZenonT(30) DEF IInv, Queued, Robin
  <2>4. BeforeFirst' BY SMTT(30) DEF IInv, BeforeFirst
  <2>5. Results' BY ZenonT(30) DEF IInv, Results
  <2>6. CheckpointAfterWrites' /\ NoWriteToReadOnly'
    BY DEF IInv, CheckpointAfterWrites, NoWriteToReadOnly
  <2> QED BY ZenonT(30), <2>1, <2>2, <2>3, <2>4, <2>5, <2>6 DEF IInv
<1>2. ASSUME NEW x \in Items, OpenForWriting(x) \/ EnqueueCheckpoint(x) PROVE IInv'
  BY <1>2, OpenForWritingInv, EnqueueCheckpointInv
<1>3. ASSUME NEW j \in Jobs,
             EnqueueWrite(j) \/ RejectWrite(j) \/ RememberWrite(j) \/ PollBatch(j)
      PROVE  IInv'
  BY <1>3, EnqueueWriteInv, RejectWriteInv, ClientInv
<1>4. ASSUME NEW w \in Writers, WriterStep(w) PROVE IInv'
  BY <1>4, DequeueInv, DropEmptiedInv, ExecuteCheckpointInv, BeginWriteInv, WriteEndsInv, DoneInv
     DEF WriterStep
<1>5. ASSUME NEW q \in Queues, WorkFinished(q) \/ CloseDatabase(q) PROVE IInv'
  BY <1>5, WorkFinishedInv, CloseDatabaseInv
<1> QED BY ZenonT(30), <1>1, <1>2, <1>3, <1>4, <1>5 DEF Next

\* The inductive invariant of the write queues, for any number of databases,
\* writers, jobs and checkpoints, any job sizes and any queue limit.
THEOREM Invariance == Spec => []IInv
BY InitInv, StepInv, PTL DEF Spec

\* A sequence without duplicates has an element in one place at most.
LEMMA OncePlaced ==
    ASSUME IInv
    PROVE  OnRoundRobin
<1> SUFFICES ASSUME NEW q \in Queues
             PROVE  /\ Cardinality({k \in DOMAIN writeQueues : writeQueues[k] = q}) <= 1
                    /\ writeQueue[q] # <<>> => {k \in DOMAIN writeQueues : writeQueues[k] = q} # {}
  BY DEF OnRoundRobin
<1> DEFINE places == {k \in DOMAIN writeQueues : writeQueues[k] = q}
<1>1. DOMAIN writeQueues = 1 .. Len(writeQueues)
  BY DEF IInv, TypeOK
<1>2. \A i, k \in places : i = k
  BY ZenonT(30), <1>1 DEF IInv, Robin, Distinct
<1>3. writeQueue[q] # <<>> => places # {}
  BY ZenonT(30), <1>1 DEF IInv, Robin, Occurs
<1> HIDE DEF places
<1>4. Cardinality(places) <= 1
  <2>1. CASE places = {}
    BY <2>1, FS_EmptySet
  <2>2. CASE places # {}
    <3>1. PICK k : places = {k} BY <1>2, <2>2
    <3>2. Cardinality({k}) = 1 BY FS_Singleton
    <3> QED BY <3>1, <3>2
  <2> QED BY <2>1, <2>2
<1> QED BY <1>3, <1>4 DEF places

\* The counters of writes, sizes and active writers are exactly those of the jobs
\* that are queued and being executed, never more than the limit is queued, and
\* every queue with something in it is on the round-robin once.
THEOREM Consistent == Spec => []QueuesConsistent
<1>1. IInv => QueuesConsistent
  BY CountedMeans, OncePlaced DEF IInv, QueuesConsistent
<1> QED BY <1>1, Invariance, PTL

\* A checkpoint that runs finds the results of all the writes accepted before it,
\* and nothing is written to a database that workFinished has made read-only.
THEOREM Ordered == Spec => []WritesInOrder
<1>1. IInv => WritesInOrder
  BY DEF IInv, WritesInOrder
<1> QED BY <1>1, Invariance, PTL

=============================================================================
