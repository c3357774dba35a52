CONSTANTS
    Clients = {c1, c2}
    Creators = {k1}
    IdleClosers = {}
    Closers = {}
    Removers = {r1}
    Openers = {o1, o2}
    DBs = {d1, d2}
    NoDB = NoDB
    NoOpener = NoOpener
    envReadOnly = FALSE
    MayCancel = TRUE
SPECIFICATION Spec
SYMMETRY Symmetry
INVARIANTS UseCounts UsingOpenHandle OneInCharge
PROPERTIES HeldStaysOpen
CHECK_DEADLOCK FALSE
