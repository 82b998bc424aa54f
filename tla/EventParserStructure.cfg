SPECIFICATION Spec
CONSTANTS
    Alphabet <- StructuralAlphabet
    MaxChars = 9
    MaxString = 0
    MaxParses = 1
CONSTRAINT ShortStrings
CHECK_DEADLOCK FALSE
INVARIANTS AcceptsOnlyDialect AcceptsWholeDialect StackMirrorsNesting
PROPERTIES DeliversEventStream
