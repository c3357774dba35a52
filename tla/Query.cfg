SPECIFICATION FairSpec
CONSTANTS
    MaxByte = 9
    NoFact = NoFact
    NoIter = NoIter
    NoCont = NoCont
    Unset = Unset
    Programs <- MCPrograms
    Locals <- MCLocals
    Pointers <- MCPointers
    Outputs <- MCOutputs
    BaseFacts <- MCBaseFacts
    Visible <- MCVisible
    DbFacts <- MCDbFacts
    Written <- MCWritten
    RefIds <- MCRefIds
    ExpandPids = {1, 2}
    CheckInterval = 2
    MaxInterrupts = 1
 
PROPERTIES QueryEnds
