SPECIFICATION Spec
CHECK_DEADLOCK FALSE
CONSTANTS
    Keys = {1, 2}
    RowidKey = TRUE
    Cols = {"a", "b"}
    Vals = {0, 1}
    UpdaterCols = {"a"}
    MaxLoops = 1
    Fails = {"busy"}
INVARIANT TypeOK
INVARIANT StatementsReusable
INVARIANT LoopSeesTable
PROPERTY RefinesKeyedSet
