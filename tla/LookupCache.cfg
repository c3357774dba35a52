CONSTANTS
    Threads = {t1, t2, t3}
    Ids = {1, 2}
    Cells = {1, 2, 3, 4, 5}
    factSize <- MCSize
    capacity = 3
    touched_buffer_size = 1
    ShardCounts = {0, 1}
    Nested = FALSE
    MaxCalls = 3
    Warm <- MCWarm
    None = None
    Missing = Missing
    Garbage = Garbage
SPECIFICATION Spec
SYMMETRY Symmetry
INVARIANTS CacheSound 
PROPERTIES Transparent
CHECK_DEADLOCK FALSE
