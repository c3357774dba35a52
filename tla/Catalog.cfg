CONSTANTS
    repoA = repoA
    repoB = repoB
    repoC = repoC
    NoRepo = NoRepo
    Repos = {repoA, repoB}
    base <- MCBase
    Metas = {"Incomplete", "Complete"}
    MayFail = {"create", "restore", "delete", "put"}
    MayCrash = TRUE
    MaxRestarts = 1
SPECIFICATION FairSpec
INVARIANTS ChangesSaved 
PROPERTIES NotBroughtBack SavedInTheEnd
CHECK_DEADLOCK FALSE
