SPECIFICATION Spec
CHECK_DEADLOCK FALSE
CONSTANTS
    Keys = {1, 2}
    RowidKey = TRUE
    Cols = {"a"}
    Vals = {0}
    UpdaterCols = {"a"}
    MaxLoops = 0
    Fails = {"busy"}
INVARIANT FindAnswers
