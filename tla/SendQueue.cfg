CONSTANTS
    b1 = b1
    b2 = b2
    b3 = b3
    Senders = {s1, s2}
    Poller = Poller
    Batches = {b1, b2, b3}
    size <- MCBatchSize
    sqMaxMemory = 1
    sqMaxCount = 1
    None = None
    MayFail = TRUE
SPECIFICATION FairSpec
INVARIANTS QueueConsistent CallbacksRight
PROPERTIES EverythingStops
CHECK_DEADLOCK FALSE
