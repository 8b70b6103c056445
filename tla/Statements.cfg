SPECIFICATION Spec
CHECK_DEADLOCK FALSE
CONSTANTS
    Objects = {o1, o2}
    Handles = {h1, h2}
    Columns = 2
    Texts = {t1}
    Cells = {c1, c2, c3}
    Iterators = {i1, i2}
    Null = Null
SYMMETRY Interchangeable
INVARIANTS
    TypeOK
    HandlesOwned
    SavedValuesKept
    ParametersIntact
    IdleIsReady
    IteratorKeepsPlace
