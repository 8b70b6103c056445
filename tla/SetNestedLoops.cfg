SPECIFICATION FairSpec
CHECK_DEADLOCK FALSE
CONSTANTS
    Keys = {1, 2}
    RowidKey = TRUE
    Cols = {}
    Vals = {0}
    UpdaterCols = {}
    MaxLoops = 2
    Fails = {}
PROPERTY LoopEnds
