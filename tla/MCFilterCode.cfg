SPECIFICATION Spec
CONSTANTS
    Conditions <- MCConditions
    Layers <- MCLayers
    Stacks <- MCStacks
    LiteralAtoms <- All
    Windows <- WindowsNear
    ArithHalf = 4
    maxArithDepth = 11
    Fields <- MCFields
    Jobs <- MCJobs
    ArithPackets <- MCPackets
    WindowRefs <- MCRefs
    PacketsOf <- MCPacketsOf
    Layer = 3
    HeaderSize = 24
    ScratchBufSize = 128
    Cases <- AllChecked
    Tampered <- Candidates
    MaxJump = 50
    Rets <- FewRets
INVARIANTS CodeDecides CodeLoads CheckSound
CHECK_DEADLOCK FALSE
