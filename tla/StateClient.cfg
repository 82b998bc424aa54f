SPECIFICATION Spec
CONSTANT MaxDepth = 5
INVARIANTS TypeOK NeverEmpty StackMatchesOpened OnlyTopAwaitsValue
PROPERTY EndMatchesBegin
