CONSTANTS
    Half = 4
    Unit = 4
    Step = 2
    Names = {"key", "value"}
    Refs = {x, y}
    x = x
    y = y
    MaxRoom = 1
    MaxString = 4
    MaxList = 2
    Scenarios <- MCScenarios
SYMMETRY RefSymmetry
SPECIFICATION Spec
INVARIANTS
    TypeOK
    HeldIsFound
    EqualMeansSame
PROPERTIES
    IsNameMap
    ConversionIsExact
    RefusalHasReason
    FailureKeepsTarget
    EmptyIsNeverFilled
    SavedComesBack
    EscapesAreKept
CHECK_DEADLOCK FALSE
