SPECIFICATION Spec
CONSTANTS
    Facts <- MCFacts
    Refs <- MCRefs
    Predicate <- MCPredicate
    Batches <- MCBatches
    Derivations <- MCDerivations
    StartingId = 1
    MaxCrashes = 1
    Free = Free
PROPERTIES RawLogAppendOnly
CHECK_DEADLOCK FALSE
