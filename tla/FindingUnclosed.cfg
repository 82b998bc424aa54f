SPECIFICATION Spec
CONSTANTS
    Alphabet <- LexicalAlphabet
    MaxChars = 6
    MaxString = 6
    MaxParses = 1
CHECK_DEADLOCK FALSE
INVARIANT UnclosedMeansNoClosingQuote
