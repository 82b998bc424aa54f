SPECIFICATION Spec
CONSTANTS
    Alphabet <- Everything
    LongAlphabet <- Structure
    MaxChars = 8
    ShortChars = 5
    MaxString = 2
    MaxDigits = 2
CONSTRAINT ShortTokens
CHECK_DEADLOCK FALSE
INVARIANTS TypeOK ValueIsMeaning FailsOnlyOutsideDialect
PROPERTIES Termination
