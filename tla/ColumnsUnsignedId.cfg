SPECIFICATION Spec
CONSTANTS
    Structs <- MCStructs
    Nesting <- MCNesting
    Record <- MCStruct
    Half = 4
    NarrowHalf = 2
    Tick = 2
    Null = Null
    Left = Left
    MaxRows = 2
    TypeOf <- MCUnsignedId
    KeyTuples <- MCKeyTuples
    UpdaterPtrs <- MCUpdaterPtrs
    IndexPtrs <- MCIndexPtrs
    Given <- MCUnsignedGiven
INVARIANT AssignedIdFinds
