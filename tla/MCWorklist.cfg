CONSTANTS
    size = 3
    WordSize = 8
    MaxEmpty = 0
    Initial <- MCInitial
SPECIFICATION FairSpec
INVARIANTS AtMostOnce NothingLost
PROPERTIES WorkEnds
CHECK_DEADLOCK FALSE
