SPECIFICATION Spec
CONSTANTS
    Rows = {r1, r2}
    MaxDepth = 2
    MaxStack = 3
    LevelNames <- CallerNames
    Thrown = {"std"}
    CallerRollsBack = TRUE
    EngineAborts = FALSE
INVARIANTS
    NothingLeftBehind
PROPERTIES
    OutermostCommits
    RefinesAtomicRun
