SPECIFICATION Spec
CONSTANTS
    Alphabet <- LexicalAlphabet
    MaxChars = 7
    MaxString = 3
    MaxParses = 1
CONSTRAINT ShortStrings
CHECK_DEADLOCK FALSE
INVARIANTS AcceptsOnlyDialect AcceptsWholeDialect BufferIsToken
