CONSTANTS
    Clients = {c1, c2}
    Creators = {}
    IdleClosers = {i1}
    Closers = {x1}
    Removers = {r1}
    Openers = {o1, o2, o3}
    DBs = {d1, d2}
    NoDB = NoDB
    NoOpener = NoOpener
    envReadOnly = FALSE
    MayCancel = FALSE
SPECIFICATION FairSpec
INVARIANTS  StorageExclusive
PROPERTIES Returns
CHECK_DEADLOCK FALSE
