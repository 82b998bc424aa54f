SPECIFICATION Spec
CONSTANTS
    Classes <- TwoClasses
    Root = "outer"
    Links <- TwoLinks
    Half = 2
    Unit = 4
    Step = 2
    Fresh <- Constructed
    Objects <- Filled
    Values <- ReadValues
    Inputs <- ThreeCalls
CHECK_DEADLOCK FALSE
INVARIANTS TypeOK ReadsWhatIsSaid ElementsAreTheirOwn FailureKeepsObject FailureLeavesMembers PortableComesBack
PROPERTIES FailureHasReason Termination
