SPECIFICATION Spec
SYMMETRY Symmetry
INVARIANTS DbSound ClientsSound
PROPERTIES Durable
CHECK_DEADLOCK FALSE
CONSTANTS
  Clients = {c1, c2}
  Slots = {1}
  Predicates <- MCPredicates
  RefTypes <- MCRefTypes
  TermTable <- MCTermTable
  Files <- MCFiles
  Lowest = 1
  FactBuffer = 2
  CacheCapacity = 1
  MaxFaults = 2
  NoJob = NoJob
  NoTerm = NoTerm
