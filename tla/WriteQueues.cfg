CONSTANTS
    q1 = q1
    q2 = q2
    j1 = j1
    j2 = j2
    j3 = j3
    c1 = c1
    c2 = c2
    Queues = {q1, q2}
    Writers = {w1, w2}
    Jobs = {j1, j3}
    Checkpoints = {c1, c2}
    repo <- MCRepo
    writeSize <- MCSize
    mb = 2
    limit = 1
    None = None
    MayClose = TRUE
SPECIFICATION FairSpec
INVARIANTS QueuesConsistent WritesInOrder
 
CHECK_DEADLOCK FALSE
