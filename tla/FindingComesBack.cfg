SPECIFICATION Spec
CONSTANTS
    Classes <- TwoClasses
    Root = "outer"
    Links <- TwoLinks
    Half = 2
    Unit = 4
    Step = 2
    Fresh <- Constructed
    Objects <- EmptyString
    Values <- ReadValues
    Inputs <- WriteAndRead
CHECK_DEADLOCK FALSE
INVARIANT AllComesBack
