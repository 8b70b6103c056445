SPECIFICATION Spec
CONSTANTS
    Structs <- MCStructs
    Nesting <- MCNesting
    Record <- MCStruct
    Half = 4
    NarrowHalf = 2
    Tick = 2
    Null = Null
    Left = Left
    MaxRows = 2
    TypeOf <- MCTypeOf
    KeyTuples <- MCKeyTuples
    UpdaterPtrs <- MCUpdaterPtrs
    IndexPtrs <- MCIndexPtrs
    Given <- MCGiven
INVARIANT TypeOK
INVARIANT NumbersAgree
INVARIANT OrderKept
INVARIANT IndexSelects
INVARIANT AssignedIdFinds
PROPERTY RefinesKeyedSet
