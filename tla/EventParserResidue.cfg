SPECIFICATION Spec
CONSTANTS
    Alphabet <- ResidueAlphabet
    MaxChars = 4
    MaxString = 4
    MaxParses = 3
CHECK_DEADLOCK FALSE
INVARIANTS TypeOK StackBelowIsKept AcceptRestoresStack
    StateErrorOnlyFromResidue PoisonedParseIsMute
PROPERTIES Termination
