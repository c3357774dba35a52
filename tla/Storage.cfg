SPECIFICATION FairSpec
CONSTANTS
    Facts <- MCFacts
    Refs <- MCRefs
    Predicate <- MCPredicate
    Batches <- MCBatches
    Derivations <- MCDerivations
    StartingId = 1
    MaxCrashes = 2
    Free = Free
INVARIANTS StorageSound 
PROPERTIES AppendOnly GetsComplete
CHECK_DEADLOCK FALSE
