SPECIFICATION ISpec
CONSTANTS
    Things = {a, b}
    MaxId = 1
    Rows <- Facts
    MaxDepth = 2
    MaxStack = 3
    LevelNames <- DefaultNames
    Thrown = {"std", "other"}
    CallerRollsBack = FALSE
    EngineAborts = TRUE
SYMMETRY Interchangeable
INVARIANTS
    ITypeOK
    IdentityKept
PROPERTIES
    AssignedIdIsOwn
    ReturnReleasesOwn
