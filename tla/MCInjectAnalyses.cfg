SPECIFICATION Spec
CONSTANTS
    Samples <- LimitsSamples
    SlotBytes = 24
    MaxCombinedStack = 512
    MaxCallerDepth = 256
    Insns <- MCInsns
    Length = 4
    MaxLoops = 2
    VarOffsets <- MCVarOffsets
    FlowCode <- AllFlow
    CallbacksOf <- MCCallbacks
    CtxParams = {1}
    FlowFrameBytes = 16
    FnPtrElsewhere = TRUE
    FlowMaxLoops = 1
    ProveN = 3
    CallsOf <- MCCalls
    Bodies <- MCBodies
    MaxDepth = 4
    Mains <- MCMains
    Callees <- MCCallees
    MaxArg = 3
    HelperArgs <- MCHelperArgs
    ArgMaxLoops = 1
    SitePrograms <- Codes
    Subprograms <- Subs
    SiteMaxLoops = 1
INVARIANTS StackSound ContextSound SitesDescribed
CHECK_DEADLOCK FALSE
