----------------------------- MODULE SendQueue -----------------------------
(***************************************************************************)
(* The client's send queue (glean/hs/Glean/Write/SendQueue.hs): the user   *)
(* of withSendQueue adds batches, sender threads send them to the server,  *)
(* and a poller thread waits until the server has committed them and calls *)
(* their callbacks.  An exception in any of them fails the queue, and      *)
(* Async.concurrently cancels the other threads.                           *)
(***************************************************************************)
EXTENDS Integers, Sequences, FiniteSets, FiniteSetsExt

CONSTANTS
    Senders,      \* the sendQueueThreads threads running sendFromQueue
    Poller,       \* the thread running pollFromWaitQueue
    Batches,      \* the batches the user sends (bound: each is sent once)
    size,         \* [Batches -> Nat]: length of batch_facts
    sqMaxMemory, sqMaxCount,
    None,
    MayFail       \* may sending, polling or the user's action throw

Threads == Senders \cup {Poller}

ASSUME SendQueueAssumption ==
    /\ IsFiniteSet(Batches)
    /\ Poller \notin Senders
    /\ size \in [Batches -> Nat]
    /\ sqMaxMemory \in Nat
    /\ sqMaxCount \in Nat
    /\ None \notin Batches
    /\ MayFail \in BOOLEAN

VARIABLES
    sqOutQueue,   \* batches we haven't sent yet
    sqWaitQueue,  \* batches sent that the server hasn't committed yet
    sqMemory, sqCount, sqStatus,
    user,         \* is the user's action running
    pc,           \* where each thread is in its loop
    item,         \* the batch it works on
    callbacks,    \* the results that each batch's callback was called with
    throwing      \* has an exception left a thread, so that others are cancelled

queue == <<sqOutQueue, sqWaitQueue, sqMemory, sqCount, sqStatus>>
vars == <<queue, user, pc, item, callbacks, throwing>>

Init ==
    /\ sqOutQueue = <<>>
    /\ sqWaitQueue = <<>>
    /\ sqMemory = 0
    /\ sqCount = 0
    /\ sqStatus = "Open"
    /\ user = "running"
    /\ pc = [t \in Threads |-> "reading"]
    /\ item = [t \in Threads |-> None]
    /\ callbacks = [b \in Batches |-> <<>>]
    /\ throwing = FALSE

InQueue(q) == {q[i] : i \in DOMAIN q}
Fresh(b) ==
    /\ callbacks[b] = <<>>
    /\ b \notin InQueue(sqOutQueue) \cup InQueue(sqWaitQueue)
    /\ \A t \in Threads : item[t] # b

-----------------------------------------------------------------------------
(* The user's action and the end of withSendQueue.                         *)

\* It throws when the queue isn't open, and waits while it is over its limits.
WriteSendQueue(b) ==
    /\ user = "running"
    /\ Fresh(b)
    /\ sqStatus = "Open"
    /\ ~(sqMemory > sqMaxMemory \/ sqCount > sqMaxCount)
    /\ sqOutQueue' = Append(sqOutQueue, b)
    /\ sqMemory' = sqMemory + size[b]
    /\ sqCount' = sqCount + 1
    /\ UNCHANGED <<sqWaitQueue, sqStatus, user, pc, item, callbacks, throwing>>

\* The action ends, by itself or with an exception.
CloseSendQueue ==
    /\ user = "running"
    /\ user' = "finished"
    /\ sqStatus' = IF sqStatus = "Open" THEN "Closed" ELSE sqStatus
    /\ throwing' \in {throwing, throwing \/ MayFail}
    /\ UNCHANGED <<sqOutQueue, sqWaitQueue, sqMemory, sqCount, pc, item, callbacks>>

-----------------------------------------------------------------------------
(* The threads.                                                            *)

Call(b, result) == [callbacks EXCEPT ![b] = Append(@, result)]

\* The thread stops with an exception while it holds batch b: the callback is
\* called with it, and failSendQueue flushes both queues.
FailWith(t, b) ==
    LET lost == InQueue(sqWaitQueue) \cup InQueue(sqOutQueue)
        called == Call(b, "exception")
    IN
    /\ callbacks' = [x \in Batches |->
           IF x \in lost THEN Append(called[x], "exception") ELSE called[x]]
    /\ sqStatus' = "Failed"
    /\ sqOutQueue' = <<>>
    /\ sqWaitQueue' = <<>>
    /\ pc' = [pc EXCEPT ![t] = "stopped"]
    /\ item' = [item EXCEPT ![t] = None]
    /\ throwing' = TRUE
    /\ UNCHANGED <<sqMemory, sqCount, user>>

\* Mutant: the batch stays in the queue.
ReadPeeks(s) ==
    /\ s \in Senders
    /\ pc[s] = "reading"
    /\ sqStatus # "Failed"
    /\ sqOutQueue # <<>>
    /\ item' = [item EXCEPT ![s] = Head(sqOutQueue)]
    /\ pc' = [pc EXCEPT ![s] = "working"]
    /\ UNCHANGED <<queue, user, callbacks, throwing>>
\* readSendQueue
ReadSendQueue(s) ==
    /\ s \in Senders
    /\ pc[s] = "reading"
    /\ sqStatus # "Failed"
    /\ sqOutQueue # <<>>
    /\ item' = [item EXCEPT ![s] = Head(sqOutQueue)]
    /\ sqOutQueue' = Tail(sqOutQueue)
    /\ sqMemory' = sqMemory - size[Head(sqOutQueue)]
    /\ pc' = [pc EXCEPT ![s] = "working"]
    /\ UNCHANGED <<sqWaitQueue, sqCount, sqStatus, user, callbacks, throwing>>

\* readWaitQueue
ReadWaitQueue ==
    /\ pc[Poller] = "reading"
    /\ sqStatus = "Open" \/ (sqStatus = "Closed" /\ sqCount # 0)
    /\ sqWaitQueue # <<>>
    /\ item' = [item EXCEPT ![Poller] = Head(sqWaitQueue)]
    /\ sqWaitQueue' = Tail(sqWaitQueue)
    /\ pc' = [pc EXCEPT ![Poller] = "working"]
    /\ UNCHANGED <<sqOutQueue, sqMemory, sqCount, sqStatus, user, callbacks, throwing>>

\* Mutant: the poller stops as soon as there is nothing to wait for.
StopEarly(t) ==
    /\ pc[t] = "reading"
    /\ \/ sqStatus = "Closed" /\ (IF t = Poller THEN sqWaitQueue ELSE sqOutQueue) = <<>>
       \/ sqStatus = "Failed"
    /\ pc' = [pc EXCEPT ![t] = "stopped"]
    /\ throwing' = (throwing \/ sqStatus = "Failed")
    /\ UNCHANGED <<queue, user, item, callbacks>>

\* Nothing is left to do; or the queue has failed, and reading throws.
StopReading(t) ==
    /\ pc[t] = "reading"
    /\ \/ sqStatus = "Closed" /\ IF t = Poller THEN sqCount = 0 ELSE sqOutQueue = <<>>
       \/ sqStatus = "Failed"
    /\ pc' = [pc EXCEPT ![t] = "stopped"]
    /\ throwing' = (throwing \/ sqStatus = "Failed")
    /\ UNCHANGED <<queue, user, item, callbacks>>

\* sendBatchAsync returns a handle, which goes into the wait queue.
Sent(s) ==
    /\ s \in Senders
    /\ pc[s] = "working"
    /\ sqWaitQueue' = Append(sqWaitQueue, item[s])
    /\ pc' = [pc EXCEPT ![s] = "finishing"]
    /\ UNCHANGED <<sqOutQueue, sqMemory, sqCount, sqStatus, user, item, callbacks, throwing>>

\* Mutant: the batch is counted for ever.
CommittedCounted ==
    /\ pc[Poller] = "working"
    /\ callbacks' = Call(item[Poller], "subst")
    /\ pc' = [pc EXCEPT ![Poller] = "finishing"]
    /\ UNCHANGED <<queue, user, item, throwing>>

\* waitBatch returns the substitution.
Committed ==
    /\ pc[Poller] = "working"
    /\ callbacks' = Call(item[Poller], "subst")
    /\ sqCount' = sqCount - 1
    /\ pc' = [pc EXCEPT ![Poller] = "finishing"]
    /\ UNCHANGED <<sqOutQueue, sqWaitQueue, sqMemory, sqStatus, user, item, throwing>>

\* The bracket ends (after the event is logged) and the thread starts again.
Loop(t) ==
    /\ pc[t] = "finishing"
    /\ pc' = [pc EXCEPT ![t] = "reading"]
    /\ item' = [item EXCEPT ![t] = None]
    /\ UNCHANGED <<queue, user, callbacks, throwing>>

\* sendBatchAsync or waitBatch throws.
WorkFails(t) ==
    /\ MayFail
    /\ pc[t] = "working"
    /\ FailWith(t, item[t])

\* Another thread has thrown, and this one is cancelled: inside the bracket
\* that runs the handler, otherwise the thread just stops.
Cancelled(t) ==
    /\ throwing
    /\ \/ /\ pc[t] \in {"working", "finishing"}
          /\ FailWith(t, item[t])
       \/ /\ pc[t] = "reading"
          /\ pc' = [pc EXCEPT ![t] = "stopped"]
          /\ UNCHANGED <<queue, user, item, callbacks, throwing>>

-----------------------------------------------------------------------------
ThreadStep(t) ==
    \/ ReadSendQueue(t) \/ StopReading(t) \/ Sent(t) \/ Loop(t)
    \/ WorkFails(t) \/ Cancelled(t)
    \/ t = Poller /\ (ReadWaitQueue \/ Committed)

Next ==
    \/ \E b \in Batches : WriteSendQueue(b)
    \/ CloseSendQueue
    \/ \E t \in Threads : ThreadStep(t)

Spec == Init /\ [][Next]_vars

\* The threads run, the server answers, and the user's action ends (it is
\* cancelled if a thread has thrown).
FairSpec ==
    /\ Spec
    /\ \A t \in Threads : WF_vars(ThreadStep(t))
    /\ WF_vars(CloseSendQueue)

-----------------------------------------------------------------------------
(* Properties.                                                             *)

\* Every variable has its type.
TypeOK ==
    /\ sqOutQueue \in Seq(Batches)
    /\ sqWaitQueue \in Seq(Batches)
    /\ sqMemory \in Nat
    /\ sqCount \in Nat
    /\ sqStatus \in {"Open", "Closed", "Failed"}
    /\ user \in {"running", "finished"}
    /\ pc \in [Threads -> {"reading", "working", "finishing", "stopped"}]
    /\ item \in [Threads -> Batches \cup {None}]
    /\ callbacks \in [Batches -> Seq({"subst", "exception"})]
    /\ throwing \in BOOLEAN

Stopped == \A t \in Threads : pc[t] = "stopped"

\* The batches that the queue has accepted and not answered.
InFlight ==
    InQueue(sqOutQueue) \cup InQueue(sqWaitQueue)
        \cup {item[t] : t \in {u \in Threads : pc[u] = "working"}}

\* Until something fails, sqMemory is the size of the batches in sqOutQueue and
\* sqCount the number of batches in flight, one being sent included.
Accounting ==
    sqStatus # "Failed" =>
        /\ sqMemory = MapThenSumSet(LAMBDA b : size[b], InQueue(sqOutQueue))
        /\ sqCount = Cardinality(InFlight)

\* sqMaxMemory is a soft limit: the batch that exceeds it is the last one let in.
MemorySoftLimit ==
    sqOutQueue # <<>> =>
        sqMemory - size[sqOutQueue[Len(sqOutQueue)]] <= sqMaxMemory

\* sqMaxCount as a limit on sqCount (SendQueue.hs, SendQueueSettings).
CountLimit == sqCount <= sqMaxCount

\* A batch is never worked on by two threads, and never in two queues.
InOnePlace ==
    \A b \in Batches :
        Cardinality({i \in DOMAIN sqOutQueue : sqOutQueue[i] = b})
        + Cardinality({i \in DOMAIN sqWaitQueue : sqWaitQueue[i] = b})
        + Cardinality({t \in Threads : pc[t] = "working" /\ item[t] = b}) <= 1

\* The callback of a batch is called once (the comment on Callback): never twice,
CallbackAtMostOnce == \A b \in Batches : Len(callbacks[b]) <= 1

\* which is so until an exception leaves a thread,
CalledOnceUntilFailure == ~throwing => CallbackAtMostOnce

\* and, once the threads have stopped, not for a batch the queue has dropped.
NoneForgotten == Stopped => InFlight = {}

\* A queue that is closed and doesn't fail sends everything: the threads stop
\* only when every batch has been committed.
DrainedWhenStopped ==
    Stopped /\ sqStatus = "Closed" /\ ~throwing =>
        sqCount = 0 /\ InFlight = {} /\ \A b \in Batches : callbacks[b] \in {<<>>, <<"subst">>}

\* withSendQueue returns: the threads stop after the user is done, and also
\* after one of them has failed.
AllStop == (user = "finished" \/ throwing) ~> Stopped

\* A batch that is accepted is answered, or the queue fails.
Answered == \A b \in Batches : b \in InQueue(sqOutQueue) ~> (callbacks[b] # <<>> \/ throwing)

\* A batch is in one place (a queue, a thread or nowhere) and the counters are
\* exactly the batches and bytes that are; the memory limit is soft by one batch.
QueueConsistent == TypeOK /\ Accounting /\ MemorySoftLimit /\ InOnePlace

\* Until something fails every batch is called back once, and a queue that was
\* closed without a failure has answered all of them when its threads stop.
CallbacksRight == CalledOnceUntilFailure /\ DrainedWhenStopped

\* Nothing hangs: accepted batches are answered, and withSendQueue returns.
EverythingStops == AllStop /\ Answered

=============================================================================
