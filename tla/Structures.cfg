SPECIFICATION Spec
CONSTANTS
    BlockSize = 5
    SparseLimit = 3
    SetValues = {0, 1, 2, 3, 4, 5, 6, 7}
    FANOUT_TOP = 2
    FANOUT = 2
    BLOCK = 4
    Ranges <- MCRanges
    Units = {1, 2}
    MaxInserts = 3
    ByteBits = 3
    Chars <- MCChars
    MaxBytes = 4
    MaxChars = 3
    MaxSpans = 3
    MaxByte = 3
    NoFact = NoFact
    NoIter = NoIter
    Clauses <- MCClauses
    StartId = 2
    MaxFacts = 3
    MaxLayers = 2
    DenseKeys = {1, 2, 4, 5}
    MaxTotal = 4
    Entries = {"main.cpp", "a.h"}
    Targets = {"f", "g"}
    Spans <- MCSpans
    MaxFileIDs = 4
    MaxOffset = 4
    MaxNested = 1
    MaxXRefs = 3
    Roots <- MCRoots
    Subdirs <- MCSubdirs
    Names <- MCNames
    MaxText = 6
INVARIANTS TrieRight NumbersRight  LookupsRight DenseExact  
PROPERTIES SetsRight
CHECK_DEADLOCK FALSE
