SPECIFICATION Spec
CONSTANTS
    Alphabet <- StructuralAlphabet
    MaxChars = 4
    MaxString = 4
    MaxParses = 1
CHECK_DEADLOCK FALSE
INVARIANT NoArrayEndMeansEnd
