-------------------------- MODULE SendQueueProofs --------------------------
(***************************************************************************)
(* Proofs of QueueConsistent and CallbacksRight for any number of sender   *)
(* threads and batches, any batch sizes and any limits, whether threads    *)
(* may fail or not.                                                        *)
(***************************************************************************)
EXTENDS SendQueue, DataLemmas

\* A thread inside the bracket of its loop has a batch.
Held == \A t \in Threads : pc[t] \in {"working", "finishing"} => item[t] \in Batches

Working(b) == \E t \in Threads : pc[t] = "working" /\ item[t] = b

\* A batch is in at most one of the two queues and the hands of the threads,
\* and there once.  (A sender that is finishing still knows its batch.)
Placed ==
    /\ Distinct(sqOutQueue) /\ Distinct(sqWaitQueue)
    /\ \A b \in Batches : Occurs(b, sqOutQueue) => ~Occurs(b, sqWaitQueue) /\ ~Working(b)
    /\ \A b \in Batches : Occurs(b, sqWaitQueue) => ~Working(b)
    /\ \A t, u \in Threads :
          pc[t] = "working" /\ pc[u] = "working" /\ item[t] = item[u] => t = u

\* Accounting, with the bound that is left of sqCount when failSendQueue has
\* dropped batches without counting them.
Counted ==
    /\ sqCount >= Cardinality(InFlight)
    /\ sqStatus # "Failed" => /\ sqCount = Cardinality(InFlight)
                              /\ sqMemory = SumOf(size, InQueue(sqOutQueue))
    /\ sqStatus = "Failed" => sqOutQueue = <<>>

\* Until an exception leaves a thread: no batch in flight has been called back,
\* the others were called back at most once, with a substitution; and the poller
\* stops only when everything has been committed and nothing more can come.
Answers ==
    ~throwing =>
        /\ sqStatus # "Failed"
        /\ \A b \in Batches : callbacks[b] \in {<<>>, <<"subst">>}
        /\ \A b \in InFlight : callbacks[b] = <<>>
        /\ pc[Poller] = "stopped" => sqStatus = "Closed" /\ sqCount = 0

IInv == TypeOK /\ Held /\ Placed /\ Counted /\ MemorySoftLimit /\ Answers

-----------------------------------------------------------------------------
(* What is in flight.                                                      *)

\* InQueue has what occurs in the queue.
LEMMA InQueueOccurs ==
    ASSUME NEW S, NEW s \in Seq(S)
    PROVE  InQueue(s) \in SUBSET S /\ \A b : b \in InQueue(s) <=> Occurs(b, s)
BY DEF InQueue, Occurs

\* A batch in flight is in a queue, or a thread works on it.
LEMMA InFlightMembers ==
    ASSUME IInv
    PROVE  /\ \A b : b \in InFlight <=> Occurs(b, sqOutQueue) \/ Occurs(b, sqWaitQueue) \/ Working(b)
           /\ InFlight \in SUBSET Batches /\ IsFiniteSet(InFlight)
           /\ Cardinality(InFlight) \in Nat
<1>1. /\ InQueue(sqOutQueue) \in SUBSET Batches /\ InQueue(sqWaitQueue) \in SUBSET Batches
      /\ \A b : b \in InQueue(sqOutQueue) <=> Occurs(b, sqOutQueue)
      /\ \A b : b \in InQueue(sqWaitQueue) <=> Occurs(b, sqWaitQueue)
  BY InQueueOccurs DEF IInv, TypeOK
<1>2. \A b : b \in InFlight <=> Occurs(b, sqOutQueue) \/ Occurs(b, sqWaitQueue) \/ Working(b)
  BY <1>1 DEF InFlight, Working
<1>3. InFlight \in SUBSET Batches
  BY <1>1 DEF InFlight, IInv, Held
<1>4. IsFiniteSet(InFlight)
  BY <1>3, FS_Subset, SendQueueAssumption
<1> QED BY <1>2, <1>3, <1>4, FS_CardinalityType

\* The same after a step,
LEMMA InFlightNext ==
    ASSUME sqOutQueue' \in Seq(Batches), sqWaitQueue' \in Seq(Batches)
    PROVE  \A b : b \in InFlight' <=> \/ Occurs(b, sqOutQueue') \/ Occurs(b, sqWaitQueue')
                                      \/ Working(b)'
<1>1. /\ \A b : b \in InQueue(sqOutQueue') <=> Occurs(b, sqOutQueue')
      /\ \A b : b \in InQueue(sqWaitQueue') <=> Occurs(b, sqWaitQueue')
  BY InQueueOccurs
<1> QED BY <1>1 DEF InFlight, InQueue, Working

\* and when only t has moved, what the threads work on.
OnlyMoves(t) == \A u \in Threads : u # t => pc'[u] = pc[u] /\ item'[u] = item[u]

\* A step of t changes only whether t itself works on a batch.
LEMMA WorkingNext ==
    ASSUME Placed, NEW t \in Threads, OnlyMoves(t)
    PROVE  \A b : Working(b)' <=> \/ pc'[t] = "working" /\ item'[t] = b
                                  \/ Working(b) /\ ~(pc[t] = "working" /\ item[t] = b)
BY DEF Placed, Working, OnlyMoves

\* Nobody works on the same batch as t afterwards.
LEMMA WorkersDiffer ==
    ASSUME Placed, NEW t \in Threads, OnlyMoves(t),
           pc'[t] = "working" => ~Working(item'[t])
    PROVE  \A u, v \in Threads :
              pc'[u] = "working" /\ pc'[v] = "working" /\ item'[u] = item'[v] => u = v
BY DEF Placed, Working, OnlyMoves

-----------------------------------------------------------------------------
(* The user.                                                               *)

\* writeSendQueue
LEMMA WriteSendQueueInv ==
    ASSUME IInv, NEW b \in Batches, WriteSendQueue(b)
    PROVE  IInv'
<1>1. /\ callbacks[b] = <<>> /\ sqStatus = "Open" /\ ~(sqMemory > sqMaxMemory)
      /\ sqOutQueue' = Append(sqOutQueue, b)
      /\ sqMemory' = sqMemory + size[b] /\ sqCount' = sqCount + 1
      /\ UNCHANGED <<sqWaitQueue, sqStatus, user, pc, item, callbacks, throwing>>
  BY DEF WriteSendQueue, Fresh
<1>2. /\ sqOutQueue \in Seq(Batches) /\ sqWaitQueue \in Seq(Batches) /\ sqMemory \in Nat /\ sqCount \in Nat
      /\ size[b] \in Nat /\ sqMaxMemory \in Nat
  BY SendQueueAssumption DEF IInv, TypeOK
<1>3. ~Occurs(b, sqOutQueue) /\ ~Occurs(b, sqWaitQueue) /\ ~Working(b)
  BY <1>2, InQueueOccurs DEF WriteSendQueue, Fresh, Working
<1>4. /\ sqOutQueue' \in Seq(Batches) /\ sqOutQueue' # <<>> /\ Distinct(sqOutQueue')
      /\ Len(sqOutQueue') = Len(sqOutQueue) + 1 /\ sqOutQueue'[Len(sqOutQueue) + 1] = b
      /\ \A x : Occurs(x, sqOutQueue') <=> Occurs(x, sqOutQueue) \/ x = b
  BY <1>1, <1>2, <1>3, AppendFacts DEF IInv, Placed
<1>5. \A x : Working(x)' <=> Working(x)
  BY <1>1 DEF Working
<1>6. InFlight' = InFlight \cup {b} /\ b \notin InFlight
  <2>1. \A x : x \in InFlight' <=> x \in InFlight \/ x = b
    BY <1>1, <1>2, <1>4, <1>5, InFlightMembers, InFlightNext
  <2> QED BY <1>3, <2>1, InFlightMembers
<1>7. TypeOK'
  BY <1>1, <1>2, <1>4 DEF IInv, TypeOK
<1>8. Held'
  BY <1>1 DEF IInv, Held
<1>9. Placed'
  BY <1>1, <1>3, <1>4, <1>5 DEF IInv, Placed
<1>10. Counted'
  <2>1. Cardinality(InFlight') = Cardinality(InFlight) + 1
    BY <1>6, InFlightMembers, FS_AddElement
  <2>2. InQueue(sqOutQueue') = InQueue(sqOutQueue) \cup {b} /\ b \notin InQueue(sqOutQueue)
    BY <1>2, <1>3, <1>4, InQueueOccurs
  <2>3. InQueue(sqOutQueue) \in SUBSET Batches /\ IsFiniteSet(InQueue(sqOutQueue))
    BY <1>2, InQueueOccurs, FS_Subset, SendQueueAssumption
  <2>4. SumOf(size, InQueue(sqOutQueue')) = SumOf(size, InQueue(sqOutQueue)) + size[b]
    BY <2>2, <2>3, SumAdd, SendQueueAssumption
  <2>5. InQueue(sqOutQueue)' = InQueue(sqOutQueue')
    BY DEF InQueue
  <2>6. Cardinality(InFlight) \in Nat
    BY InFlightMembers
  <2> QED BY <1>1, <1>2, <2>1, <2>4, <2>5, <2>6 DEF IInv, Counted
<1>11. MemorySoftLimit'
  <2>1. sqMemory' - size[b] <= sqMaxMemory
    BY <1>1, <1>2
  <2>2. sqOutQueue'[Len(sqOutQueue')] = b
    BY <1>4
  <2> QED BY <2>1, <2>2 DEF MemorySoftLimit
<1>12. Answers'
  BY <1>1, <1>6 DEF IInv, Answers
<1> QED BY <1>7, <1>8, <1>9, <1>10, <1>11, <1>12 DEF IInv

\* A step that leaves the batches and the counters where they are.
LEMMA StayPut ==
    ASSUME IInv, NEW t \in Threads, OnlyMoves(t),
           UNCHANGED <<sqOutQueue, sqWaitQueue, sqMemory, sqCount>>,
           pc[t] # "working", pc'[t] # "working",
           sqStatus' = sqStatus \/ (sqStatus = "Open" /\ sqStatus' = "Closed")
    PROVE  Placed' /\ Counted' /\ MemorySoftLimit' /\ InFlight' = InFlight
<1>1. \A b : Working(b)' <=> Working(b)
  BY WorkingNext DEF IInv
<1>2. InFlight' = InFlight
  BY ZenonT(30), <1>1, InFlightNext, InFlightMembers DEF IInv, TypeOK
<1>3. Placed'
  <2>1. \A u, v \in Threads :
            pc'[u] = "working" /\ pc'[v] = "working" /\ item'[u] = item'[v] => u = v
    BY WorkersDiffer DEF IInv
  <2> QED BY <1>1, <2>1 DEF IInv, Placed
<1>4. Counted'
  <2>1. InQueue(sqOutQueue)' = InQueue(sqOutQueue) BY DEF InQueue
  <2> QED BY <1>2, <2>1 DEF IInv, Counted
<1>5. MemorySoftLimit'
  BY DEF IInv, MemorySoftLimit
<1> QED BY <1>2, <1>3, <1>4, <1>5

\* closeSendQueue
LEMMA CloseSendQueueInv ==
    ASSUME IInv, CloseSendQueue
    PROVE  IInv'
<1>1. /\ user' = "finished"
      /\ sqStatus' = sqStatus \/ (sqStatus = "Open" /\ sqStatus' = "Closed")
      /\ sqStatus' \in {"Open", "Closed", "Failed"}
      /\ throwing' \in BOOLEAN /\ (throwing => throwing')
      /\ UNCHANGED <<sqOutQueue, sqWaitQueue, sqMemory, sqCount, pc, item, callbacks>>
  BY SendQueueAssumption DEF CloseSendQueue, IInv, TypeOK
<1>2. TypeOK' /\ Held'
  BY <1>1 DEF IInv, TypeOK, Held
<1>3. \A b : Working(b)' <=> Working(b)
  BY <1>1 DEF Working
<1>4. InFlight' = InFlight
  BY ZenonT(30), <1>1, <1>3, InFlightNext, InFlightMembers DEF IInv, TypeOK
<1>5. Placed'
  BY <1>1, <1>3 DEF IInv, Placed
<1>6. Counted'
  <2>1. InQueue(sqOutQueue)' = InQueue(sqOutQueue) BY <1>1 DEF InQueue
  <2> QED BY <1>1, <1>4, <2>1 DEF IInv, Counted
<1>7. MemorySoftLimit'
  BY <1>1 DEF IInv, MemorySoftLimit
<1>8. Answers'
  BY <1>1, <1>4 DEF IInv, Answers
<1> QED BY <1>2, <1>5, <1>6, <1>7, <1>8 DEF IInv

-----------------------------------------------------------------------------
(* The threads.                                                            *)

\* readSendQueue
LEMMA ReadSendQueueInv ==
    ASSUME IInv, NEW t \in Threads, ReadSendQueue(t)
    PROVE  IInv'
<1> DEFINE h == Head(sqOutQueue)
<1>1. /\ t \in Senders /\ pc[t] = "reading" /\ sqStatus # "Failed" /\ sqOutQueue # <<>>
      /\ item' = [item EXCEPT ![t] = h] /\ sqOutQueue' = Tail(sqOutQueue)
      /\ sqMemory' = sqMemory - size[h] /\ pc' = [pc EXCEPT ![t] = "working"]
      /\ UNCHANGED <<sqWaitQueue, sqCount, sqStatus, user, callbacks, throwing>>
  BY DEF ReadSendQueue
<1>2. /\ sqOutQueue \in Seq(Batches) /\ sqWaitQueue \in Seq(Batches)
      /\ pc \in [Threads -> {"reading", "working", "finishing", "stopped"}]
      /\ item \in [Threads -> Batches \cup {None}]
      /\ Distinct(sqOutQueue)
  BY DEF IInv, TypeOK, Placed
<1>3. /\ h \in Batches /\ sqOutQueue' \in Seq(Batches) /\ Len(sqOutQueue) > 0
      /\ Len(sqOutQueue') = Len(sqOutQueue) - 1
      /\ \A i \in 1 .. Len(sqOutQueue) - 1 : sqOutQueue'[i] = sqOutQueue[i + 1]
      /\ \A x : Occurs(x, sqOutQueue) <=> Occurs(x, sqOutQueue') \/ x = h
      /\ Distinct(sqOutQueue') /\ ~Occurs(h, sqOutQueue')
  BY <1>1, <1>2, TailFacts
<1> HIDE DEF h
<1>4. ~Occurs(h, sqWaitQueue) /\ ~Working(h)
  BY <1>3 DEF IInv, Placed
<1>5. OnlyMoves(t) /\ pc'[t] = "working" /\ item'[t] = h
  BY <1>1, <1>2 DEF OnlyMoves
<1>6. \A x : Working(x)' <=> Working(x) \/ x = h
  BY <1>1, <1>5, WorkingNext DEF IInv
<1>7. InFlight' = InFlight
  <2>1. \A x : x \in InFlight' <=> x \in InFlight
    BY <1>1, <1>2, <1>3, <1>6, InFlightMembers, InFlightNext
  <2> QED BY ZenonT(30), <2>1
<1>8. size[h] \in Nat /\ sqMemory \in Nat /\ sqMaxMemory \in Nat
  BY <1>3, SendQueueAssumption DEF IInv, TypeOK
<1>9. sqMemory' \in Nat /\ sqMemory' = SumOf(size, InQueue(sqOutQueue'))
  <2>1. InQueue(sqOutQueue') = InQueue(sqOutQueue) \ {h} /\ h \in InQueue(sqOutQueue)
    BY <1>2, <1>3, InQueueOccurs
  <2>2. InQueue(sqOutQueue) \in SUBSET Batches /\ IsFiniteSet(InQueue(sqOutQueue))
    BY <1>2, InQueueOccurs, FS_Subset, SendQueueAssumption
  <2>3. SumOf(size, InQueue(sqOutQueue')) = SumOf(size, InQueue(sqOutQueue)) - size[h]
    BY <2>1, <2>2, SumRemove, SendQueueAssumption
  <2>4. SumOf(size, InQueue(sqOutQueue')) \in Nat
    BY <2>1, <2>2, FS_RemoveElement, SumType, SendQueueAssumption
  <2> QED BY <1>1, <2>3, <2>4 DEF IInv, Counted
<1>10. TypeOK'
  BY <1>1, <1>2, <1>3, <1>9 DEF IInv, TypeOK
<1>11. Held'
  BY <1>3, <1>5 DEF IInv, Held, OnlyMoves
<1>12. Placed'
  <2>1. \A u, v \in Threads :
            pc'[u] = "working" /\ pc'[v] = "working" /\ item'[u] = item'[v] => u = v
    BY <1>4, <1>5, WorkersDiffer DEF IInv
  <2> QED BY <1>1, <1>3, <1>4, <1>6, <2>1 DEF IInv, Placed
<1>13. Counted'
  <2>1. InQueue(sqOutQueue)' = InQueue(sqOutQueue')
    BY DEF InQueue
  <2> QED BY <1>1, <1>7, <1>9, <2>1 DEF IInv, Counted
<1>14. MemorySoftLimit'
  <2>1. SUFFICES ASSUME sqOutQueue' # <<>>
                 PROVE  sqMemory' - size[sqOutQueue'[Len(sqOutQueue')]] <= sqMaxMemory
    BY DEF MemorySoftLimit
  <2>2. Len(sqOutQueue') \in Nat \ {0} /\ Len(sqOutQueue) \in Nat
    BY <1>2, <1>3, <2>1, SeqFacts
  <2>3. sqOutQueue'[Len(sqOutQueue')] = sqOutQueue[Len(sqOutQueue)]
    BY <1>3, <2>2
  <2>4. sqOutQueue[Len(sqOutQueue)] \in Batches
    BY <1>2, <1>3, <2>2
  <2>5. size[sqOutQueue[Len(sqOutQueue)]] \in Nat
    BY <2>4, SendQueueAssumption
  <2>6. sqMemory - size[sqOutQueue[Len(sqOutQueue)]] <= sqMaxMemory
    BY <1>1 DEF IInv, MemorySoftLimit
  <2> DEFINE last == size[sqOutQueue[Len(sqOutQueue)]]
  <2>7. sqMemory' = sqMemory - size[h] /\ size[sqOutQueue'[Len(sqOutQueue')]] = last
    BY ZenonT(30), <1>1, <2>3
  <2>8. last \in Nat /\ sqMemory - last <= sqMaxMemory
    BY <2>5, <2>6
  <2> HIDE DEF last
  <2>9. sqMemory - size[h] - last <= sqMaxMemory
    BY <1>8, <2>8
  <2> QED BY <2>7, <2>9
<1>15. Answers'
  BY <1>1, <1>5, <1>7, SendQueueAssumption DEF IInv, Answers, OnlyMoves, Threads
<1> QED BY <1>10, <1>11, <1>12, <1>13, <1>14, <1>15 DEF IInv

\* readWaitQueue
LEMMA ReadWaitQueueInv ==
    ASSUME IInv, ReadWaitQueue
    PROVE  IInv'
<1> DEFINE h == Head(sqWaitQueue)
<1>1. /\ pc[Poller] = "reading" /\ sqWaitQueue # <<>>
      /\ item' = [item EXCEPT ![Poller] = h] /\ sqWaitQueue' = Tail(sqWaitQueue)
      /\ pc' = [pc EXCEPT ![Poller] = "working"]
      /\ UNCHANGED <<sqOutQueue, sqMemory, sqCount, sqStatus, user, callbacks, throwing>>
  BY DEF ReadWaitQueue
<1>2. /\ sqOutQueue \in Seq(Batches) /\ sqWaitQueue \in Seq(Batches)
      /\ pc \in [Threads -> {"reading", "working", "finishing", "stopped"}]
      /\ item \in [Threads -> Batches \cup {None}]
      /\ Distinct(sqWaitQueue) /\ Poller \in Threads
  BY DEF IInv, TypeOK, Placed, Threads
<1>3. /\ h \in Batches /\ sqWaitQueue' \in Seq(Batches)
      /\ \A x : Occurs(x, sqWaitQueue) <=> Occurs(x, sqWaitQueue') \/ x = h
      /\ Distinct(sqWaitQueue') /\ ~Occurs(h, sqWaitQueue')
  BY <1>1, <1>2, TailFacts
<1> HIDE DEF h
<1>4. ~Occurs(h, sqOutQueue) /\ ~Working(h)
  BY <1>3 DEF IInv, Placed
<1>5. OnlyMoves(Poller) /\ pc'[Poller] = "working" /\ item'[Poller] = h
  BY <1>1, <1>2 DEF OnlyMoves
<1>6. \A x : Working(x)' <=> Working(x) \/ x = h
  BY <1>1, <1>2, <1>5, WorkingNext DEF IInv
<1>7. InFlight' = InFlight
  <2>1. \A x : x \in InFlight' <=> x \in InFlight
    BY <1>1, <1>2, <1>3, <1>6, InFlightMembers, InFlightNext
  <2> QED BY <2>1
<1>8. TypeOK'
  BY <1>1, <1>2, <1>3 DEF IInv, TypeOK
<1>9. Held'
  BY <1>3, <1>5 DEF IInv, Held, OnlyMoves
<1>10. Placed'
  <2>1. \A u, v \in Threads :
            pc'[u] = "working" /\ pc'[v] = "working" /\ item'[u] = item'[v] => u = v
    BY <1>2, <1>4, <1>5, WorkersDiffer DEF IInv
  <2> QED BY <1>1, <1>3, <1>4, <1>6, <2>1 DEF IInv, Placed
<1>11. Counted' /\ MemorySoftLimit'
  <2>1. InQueue(sqOutQueue)' = InQueue(sqOutQueue)
    BY <1>1 DEF InQueue
  <2> QED BY <1>1, <1>7, <2>1 DEF IInv, Counted, MemorySoftLimit
<1>12. Answers'
  BY <1>1, <1>5, <1>7 DEF IInv, Answers
<1> QED BY <1>8, <1>9, <1>10, <1>11, <1>12 DEF IInv

\* sendBatchAsync has returned a handle.
LEMMA SentInv ==
    ASSUME IInv, NEW t \in Threads, Sent(t)
    PROVE  IInv'
<1> DEFINE b == item[t]
<1>1. /\ t \in Senders /\ pc[t] = "working" /\ sqWaitQueue' = Append(sqWaitQueue, b)
      /\ pc' = [pc EXCEPT ![t] = "finishing"]
      /\ UNCHANGED <<sqOutQueue, sqMemory, sqCount, sqStatus, user, item, callbacks, throwing>>
  BY DEF Sent
<1>2. /\ sqOutQueue \in Seq(Batches) /\ sqWaitQueue \in Seq(Batches)
      /\ pc \in [Threads -> {"reading", "working", "finishing", "stopped"}]
      /\ b \in Batches /\ Distinct(sqWaitQueue) /\ Working(b)
  BY <1>1 DEF IInv, TypeOK, Held, Placed, Working
<1>3. OnlyMoves(t) /\ pc'[t] = "finishing" /\ item' = item
  BY <1>1, <1>2 DEF OnlyMoves
<1>4. \A x : Working(x)' <=> Working(x) /\ x # b
  BY <1>1, <1>3, WorkingNext DEF IInv
<1> HIDE DEF b
<1>5. ~Occurs(b, sqOutQueue) /\ ~Occurs(b, sqWaitQueue)
  BY <1>2 DEF IInv, Placed
<1>6. /\ sqWaitQueue' \in Seq(Batches) /\ Distinct(sqWaitQueue')
      /\ \A x : Occurs(x, sqWaitQueue') <=> Occurs(x, sqWaitQueue) \/ x = b
  BY <1>1, <1>2, <1>5, AppendFacts
<1>7. InFlight' = InFlight
  <2>1. \A x : x \in InFlight' <=> x \in InFlight
    BY <1>1, <1>2, <1>4, <1>6, InFlightMembers, InFlightNext
  <2> QED BY ZenonT(30), <2>1
<1>8. TypeOK'
  BY <1>1, <1>2, <1>6 DEF IInv, TypeOK
<1>9. Held'
  BY <1>1, <1>3 DEF IInv, Held, OnlyMoves
<1>10. Placed'
  <2>1. \A u, v \in Threads :
            pc'[u] = "working" /\ pc'[v] = "working" /\ item'[u] = item'[v] => u = v
    BY <1>3, WorkersDiffer DEF IInv
  <2> QED BY <1>1, <1>4, <1>5, <1>6, <2>1 DEF IInv, Placed
<1>11. Counted' /\ MemorySoftLimit'
  <2>1. InQueue(sqOutQueue)' = InQueue(sqOutQueue)
    BY <1>1 DEF InQueue
  <2> QED BY <1>1, <1>7, <2>1 DEF IInv, Counted, MemorySoftLimit
<1>12. Answers'
  BY <1>1, <1>3, <1>7, SendQueueAssumption DEF IInv, Answers, OnlyMoves, Threads
<1> QED BY <1>8, <1>9, <1>10, <1>11, <1>12 DEF IInv

\* waitBatch has returned the substitution.
LEMMA CommittedInv ==
    ASSUME IInv, Committed
    PROVE  IInv'
<1> DEFINE b == item[Poller]
<1>1. /\ pc[Poller] = "working" /\ callbacks' = [callbacks EXCEPT ![b] = Append(@, "subst")]
      /\ sqCount' = sqCount - 1 /\ pc' = [pc EXCEPT ![Poller] = "finishing"]
      /\ UNCHANGED <<sqOutQueue, sqWaitQueue, sqMemory, sqStatus, user, item, throwing>>
  BY DEF Committed, Call
<1>2. /\ sqOutQueue \in Seq(Batches) /\ sqWaitQueue \in Seq(Batches)
      /\ pc \in [Threads -> {"reading", "working", "finishing", "stopped"}]
      /\ callbacks \in [Batches -> Seq({"subst", "exception"})]
      /\ sqCount \in Nat /\ Poller \in Threads
  BY DEF IInv, TypeOK, Threads
<1>3. b \in Batches /\ Working(b)
  BY <1>1, <1>2 DEF IInv, Held, Working
<1>4. OnlyMoves(Poller) /\ pc'[Poller] = "finishing" /\ item' = item
  BY <1>1, <1>2 DEF OnlyMoves
<1>5. \A x : Working(x)' <=> Working(x) /\ x # b
  BY <1>1, <1>2, <1>4, WorkingNext DEF IInv
<1>6. Held'
  BY <1>1, <1>4 DEF IInv, Held, OnlyMoves
<1> HIDE DEF b
<1>7. ~Occurs(b, sqOutQueue) /\ ~Occurs(b, sqWaitQueue)
  BY <1>3 DEF IInv, Placed
<1>8. InFlight' = InFlight \ {b} /\ b \in InFlight
  <2>1. \A x : x \in InFlight' <=> x \in InFlight /\ x # b
    BY <1>1, <1>2, <1>5, <1>7, InFlightMembers, InFlightNext
  <2> QED BY <1>3, <2>1, InFlightMembers
<1>9. Cardinality(InFlight') = Cardinality(InFlight) - 1 /\ Cardinality(InFlight') \in Nat
  BY <1>8, InFlightMembers, FS_RemoveElement, FS_CardinalityType
<1>10. /\ callbacks' \in [Batches -> Seq({"subst", "exception"})]
       /\ callbacks'[b] = Append(callbacks[b], "subst")
       /\ \A x \in Batches : x # b => callbacks'[x] = callbacks[x]
  <2>1. Append(callbacks[b], "subst") \in Seq({"subst", "exception"})
    BY <1>2, <1>3, AppendFacts
  <2> QED BY <1>1, <1>2, <1>3, <2>1
<1>11. Cardinality(InFlight) \in Nat /\ sqCount >= Cardinality(InFlight)
  BY InFlightMembers DEF IInv, Counted
<1>12. sqCount' \in Nat /\ sqCount' >= Cardinality(InFlight')
       /\ (sqCount = Cardinality(InFlight) => sqCount' = Cardinality(InFlight'))
  BY <1>1, <1>2, <1>9, <1>11
<1>13. TypeOK'
  BY <1>1, <1>2, <1>10, <1>12 DEF IInv, TypeOK
<1>14. Placed'
  <2>1. \A u, v \in Threads :
            pc'[u] = "working" /\ pc'[v] = "working" /\ item'[u] = item'[v] => u = v
    BY <1>2, <1>4, WorkersDiffer DEF IInv
  <2> QED BY <1>1, <1>5, <2>1 DEF IInv, Placed
<1>15. Counted' /\ MemorySoftLimit'
  <2>1. InQueue(sqOutQueue)' = InQueue(sqOutQueue)
    BY <1>1 DEF InQueue
  <2> QED BY <1>1, <1>12, <2>1 DEF IInv, Counted, MemorySoftLimit
<1>16. Answers'
  <2>1. SUFFICES ASSUME ~throwing PROVE Answers'
    BY <1>1 DEF Answers
  <2>2. callbacks[b] = <<>>
    BY <1>8, <2>1 DEF IInv, Answers
  <2>3. callbacks'[b] = <<"subst">>
    BY <1>10, <2>2
  <2> QED BY <1>1, <1>4, <1>8, <1>10, <2>1, <2>3, InFlightMembers DEF IInv, Answers
<1> QED BY <1>6, <1>13, <1>14, <1>15, <1>16 DEF IInv

\* The end of the bracket, and a thread that finds nothing more to do or is
\* cancelled outside the bracket.
LEMMA IdleInv ==
    ASSUME IInv, NEW t \in Threads,
           \/ Loop(t) \/ StopReading(t)
           \/ /\ throwing /\ pc[t] = "reading" /\ pc' = [pc EXCEPT ![t] = "stopped"]
              /\ UNCHANGED <<queue, user, item, callbacks, throwing>>
    PROVE  IInv'
<1>1. /\ pc[t] \in {"reading", "finishing"} /\ pc'[t] \in {"reading", "stopped"}
      /\ OnlyMoves(t)
      /\ pc' \in [Threads -> {"reading", "working", "finishing", "stopped"}]
      /\ item' \in [Threads -> Batches \cup {None}]
  BY ZenonT(30) DEF IInv, TypeOK, OnlyMoves, Loop, StopReading
<1>2. /\ throwing' \in BOOLEAN /\ (throwing => throwing')
      /\ UNCHANGED <<queue, user, callbacks>>
  BY ZenonT(30) DEF IInv, TypeOK, Loop, StopReading
<1>3. Placed' /\ Counted' /\ MemorySoftLimit' /\ InFlight' = InFlight
  BY <1>1, <1>2, StayPut DEF queue
<1>4. TypeOK'
  BY <1>1, <1>2 DEF IInv, TypeOK, queue
<1>5. Held'
  BY <1>1 DEF IInv, Held, OnlyMoves
<1>6. ~throwing' /\ pc'[Poller] = "stopped" => sqStatus = "Closed" /\ sqCount = 0
  <2>1. CASE t = Poller
    BY <1>1, <1>2, <2>1 DEF IInv, TypeOK, Loop, StopReading
  <2>2. CASE t # Poller
    BY <1>1, <1>2, <2>2 DEF IInv, Answers, OnlyMoves, Threads
  <2> QED BY <2>1, <2>2
<1>7. Answers'
  BY <1>2, <1>3, <1>6 DEF IInv, Answers, queue
<1> QED BY <1>3, <1>4, <1>5, <1>7 DEF IInv

\* An exception inside the bracket.
LEMMA FailWithInv ==
    ASSUME IInv, NEW t \in Threads, pc[t] \in {"working", "finishing"}, FailWith(t, item[t])
    PROVE  IInv'
<1> DEFINE b == item[t]
           lost == InQueue(sqWaitQueue) \cup InQueue(sqOutQueue)
           called == [callbacks EXCEPT ![b] = Append(@, "exception")]
<1>1. /\ callbacks' = [x \in Batches |->
             IF x \in lost THEN Append(called[x], "exception") ELSE called[x]]
      /\ sqStatus' = "Failed" /\ sqOutQueue' = <<>> /\ sqWaitQueue' = <<>>
      /\ pc' = [pc EXCEPT ![t] = "stopped"] /\ item' = [item EXCEPT ![t] = None]
      /\ throwing' = TRUE
      /\ UNCHANGED <<sqMemory, sqCount, user>>
  BY DEF FailWith, Call
<1>2. /\ callbacks \in [Batches -> Seq({"subst", "exception"})]
      /\ pc \in [Threads -> {"reading", "working", "finishing", "stopped"}]
      /\ item \in [Threads -> Batches \cup {None}] /\ sqCount \in Nat
      /\ <<>> \in Seq(Batches) /\ b \in Batches
  BY DEF IInv, TypeOK, Held
<1> HIDE DEF b
<1>3. called \in [Batches -> Seq({"subst", "exception"})]
  <2>1. Append(callbacks[b], "exception") \in Seq({"subst", "exception"})
    BY <1>2, AppendFacts
  <2> QED BY <1>2, <2>1
<1> HIDE DEF called, lost
<1>4. callbacks' \in [Batches -> Seq({"subst", "exception"})]
  <2>1. ASSUME NEW x \in Batches
        PROVE  /\ Append(called[x], "exception") \in Seq({"subst", "exception"})
               /\ called[x] \in Seq({"subst", "exception"})
    BY <1>3, AppendFacts
  <2> QED BY <1>1, <2>1
<1>5. TypeOK'
  BY <1>1, <1>2, <1>4 DEF IInv, TypeOK
<1>6. OnlyMoves(t) /\ pc'[t] = "stopped"
  BY <1>1, <1>2 DEF OnlyMoves
<1>7. Held'
  BY <1>6 DEF IInv, Held, OnlyMoves
<1>8. /\ Distinct(<<>>) /\ \A x : ~Occurs(x, <<>>)
  BY DEF Distinct, Occurs
<1>9. Placed'
  <2>1. \A u, v \in Threads :
            pc'[u] = "working" /\ pc'[v] = "working" /\ item'[u] = item'[v] => u = v
    BY <1>6, WorkersDiffer DEF IInv
  <2> QED BY <1>1, <1>8, <2>1 DEF Placed
<1>10. InFlight' \in SUBSET InFlight
  <2>1. \A x : Working(x)' => Working(x)
    BY <1>6, WorkingNext DEF IInv
  <2> QED BY <1>1, <1>2, <1>8, <2>1, InFlightMembers, InFlightNext
<1>11. Counted'
  <2>1. Cardinality(InFlight') <= Cardinality(InFlight) /\ Cardinality(InFlight') \in Nat
    BY <1>10, InFlightMembers, FS_Subset, FS_CardinalityType
  <2>2. sqCount >= Cardinality(InFlight) /\ Cardinality(InFlight) \in Nat
    BY InFlightMembers DEF IInv, Counted
  <2>3. sqCount >= Cardinality(InFlight')
    BY <1>2, <2>1, <2>2
  <2> QED BY <1>1, <2>3 DEF Counted
<1>12. MemorySoftLimit' /\ Answers'
  BY <1>1 DEF MemorySoftLimit, Answers
<1> QED BY <1>5, <1>7, <1>9, <1>11, <1>12 DEF IInv


-----------------------------------------------------------------------------
(* The invariant and what it implies.                                      *)

\* An empty send queue satisfies the invariant.
LEMMA InitInv ==
    ASSUME Init
    PROVE  IInv
<1> USE DEF Init
<1>1. TypeOK
  <2>1. <<>> \in Seq(Batches) /\ <<>> \in Seq({"subst", "exception"}) OBVIOUS
  <2> QED BY ZenonT(30), <2>1 DEF TypeOK
<1>2. Held /\ Placed
  BY DEF Held, Placed, Distinct, Occurs, Working
<1>3. InQueue(<<>>) = {} /\ InFlight = {}
  BY DEF InQueue, InFlight
<1>4. Counted
  <2>1. Cardinality({}) = 0 /\ SumOf(size, {}) = 0
    BY SumEmpty, FS_EmptySet
  <2>2. sqCount = Cardinality(InFlight) /\ sqMemory = SumOf(size, InQueue(sqOutQueue))
    BY ZenonT(30), <1>3, <2>1
  <2>3. sqCount = 0 /\ sqStatus # "Failed"
    OBVIOUS
  <2> QED BY <2>2, <2>3 DEF Counted
<1>5. MemorySoftLimit /\ Answers
  BY <1>3 DEF MemorySoftLimit, Answers, Threads
<1> QED BY <1>1, <1>2, <1>4, <1>5 DEF IInv

\* Every step of the callers, the sender and the waiter keeps the invariant.
LEMMA StepInv ==
    ASSUME IInv, [Next]_vars
    PROVE  IInv'
<1>1. CASE UNCHANGED vars
  <2> USE <1>1 DEF vars, queue
  <2>1. InFlight' = InFlight /\ InQueue(sqOutQueue)' = InQueue(sqOutQueue)
    BY DEF InFlight, InQueue
  <2>2. TypeOK' /\ Held' BY DEF IInv, TypeOK, Held
  <2>3. Placed' BY DEF IInv, Placed, Working
  <2>4. Counted' /\ MemorySoftLimit' /\ Answers'
    BY <2>1 DEF IInv, Counted, MemorySoftLimit, Answers
  <2> QED BY <2>2, <2>3, <2>4 DEF IInv
<1>2. ASSUME NEW t \in Threads, WorkFails(t) \/ Cancelled(t) PROVE IInv'
  BY <1>2, FailWithInv, IdleInv DEF WorkFails, Cancelled
<1>3. ASSUME NEW t \in Threads, ThreadStep(t) PROVE IInv'
  BY <1>2, <1>3, ReadSendQueueInv, IdleInv, SentInv, ReadWaitQueueInv, CommittedInv DEF ThreadStep
<1> QED BY <1>1, <1>3, WriteSendQueueInv, CloseSendQueueInv DEF Next

\* The inductive invariant of the send queue, for any number of sender threads
\* and batches and any limits.
THEOREM Invariance == Spec => []IInv
BY InitInv, StepInv, PTL DEF Spec

\* Distinct queues and workers add up to at most one place for every batch.
LEMMA PlacedOnce ==
    ASSUME IInv
    PROVE  InOnePlace
<1> SUFFICES ASSUME NEW b \in Batches
             PROVE  Cardinality({i \in DOMAIN sqOutQueue : sqOutQueue[i] = b})
                    + Cardinality({i \in DOMAIN sqWaitQueue : sqWaitQueue[i] = b})
                    + Cardinality({t \in Threads : pc[t] = "working" /\ item[t] = b}) <= 1
  BY ZenonT(30) DEF InOnePlace
<1> DEFINE O == {i \in DOMAIN sqOutQueue : sqOutQueue[i] = b}
           W == {i \in DOMAIN sqWaitQueue : sqWaitQueue[i] = b}
           T == {t \in Threads : pc[t] = "working" /\ item[t] = b}
<1>1. DOMAIN sqOutQueue = 1 .. Len(sqOutQueue) /\ DOMAIN sqWaitQueue = 1 .. Len(sqWaitQueue)
  BY DEF IInv, TypeOK
<1>2. (\A x, y \in O : x = y) /\ (\A x, y \in W : x = y) /\ (\A x, y \in T : x = y)
  BY <1>1 DEF IInv, Placed, Distinct
<1>3. /\ O # {} => W = {} /\ T = {}
      /\ W # {} => T = {}
  BY <1>1 DEF IInv, Placed, Occurs, Working
<1> HIDE DEF O, W, T
<1>4. /\ Cardinality(O) = IF O = {} THEN 0 ELSE 1
      /\ Cardinality(W) = IF W = {} THEN 0 ELSE 1
      /\ Cardinality(T) = IF T = {} THEN 0 ELSE 1
  BY <1>2, AtMostOne
<1>5. Cardinality(O) + Cardinality(W) + Cardinality(T) <= 1
  BY <1>3, <1>4
<1> QED BY <1>5 DEF O, W, T

\* sqMemory and sqCount are exactly the size of the batches that wait to be sent
\* and the number in flight until something fails, no batch is in two places, and
\* sqMaxMemory is exceeded by one batch at most.
THEOREM Consistent == Spec => []QueueConsistent
<1>1. Counted => Accounting
  BY DEF Counted, Accounting, SumOf
<1>2. IInv => QueueConsistent
  BY <1>1, PlacedOnce DEF IInv, QueueConsistent
<1> QED BY <1>2, Invariance, PTL

\* Until an exception leaves a thread no callback is called twice, and when all
\* threads of a closed queue have stopped without one, every batch has been
\* committed and called back with its substitution.
THEOREM CalledBack == Spec => []CallbacksRight
<1>1. ASSUME IInv PROVE CalledOnceUntilFailure
  <2>1. Len(<<>>) <= 1 /\ Len(<<"subst">>) <= 1 OBVIOUS
  <2> QED BY ZenonT(30), <1>1, <2>1 DEF IInv, Answers, CalledOnceUntilFailure, CallbackAtMostOnce
<1>2. ASSUME IInv PROVE DrainedWhenStopped
  <2>1. SUFFICES ASSUME Stopped, sqStatus = "Closed", ~throwing
                 PROVE  sqCount = 0 /\ InFlight = {} /\ \A b \in Batches : callbacks[b] \in {<<>>, <<"subst">>}
    BY DEF DrainedWhenStopped
  <2>2. sqCount = 0 /\ Cardinality(InFlight) = 0
    BY <1>2, <2>1 DEF IInv, Answers, Counted, Stopped, Threads
  <2>3. InFlight = {}
    BY <1>2, <2>2, InFlightMembers, FS_EmptySet
  <2> QED BY <1>2, <2>1, <2>2, <2>3 DEF IInv, Answers
<1> QED BY <1>1, <1>2, Invariance, PTL DEF CallbacksRight

=============================================================================
