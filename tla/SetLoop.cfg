SPECIFICATION FairSpec
CHECK_DEADLOCK FALSE
CONSTANTS
    Keys = {1, 2, 3}
    RowidKey = FALSE
    Cols = {"a"}
    Vals = {0}
    UpdaterCols = {"a"}
    MaxLoops = 1
    Fails = {"busy", "schema"}
INVARIANT LoopSeesTable
PROPERTY FailureChangesNothing
PROPERTY LoopEnds
