SPECIFICATION Spec
CONSTANTS
    Rows = {r1}
    MaxDepth = 3
    MaxStack = 4
    LevelNames <- DefaultNames
    Thrown = {"std", "other"}
    CallerRollsBack = FALSE
    EngineAborts = FALSE
INVARIANTS
    TypeOK
    LevelFollowsCalls
    RunOwnsSavepoint
    CallsMatchStack
PROPERTIES
    ExceptionRollsBack
    NoEarlyCommit
