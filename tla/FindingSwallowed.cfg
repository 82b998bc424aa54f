SPECIFICATION Spec
CONSTANTS
    Alphabet <- Structure
    LongAlphabet <- Structure
    MaxChars = 3
    ShortChars = 3
    MaxString = 3
    MaxDigits = 1
CHECK_DEADLOCK FALSE
INVARIANT FailureIsNoValue
