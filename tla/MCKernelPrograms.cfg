SPECIFICATION Spec
CONSTANTS
    HoldSlots = 1
    Frames = {f1, f2}
    MaxNest = 2
    MaxInv = 3
    MaxRewrites = 1
    Emit = "both"
    ProbeRead = TRUE
    Cases <- MCCases
    MaxJump = 50
    Rets <- MCRets
    Families <- AllFamilies
    MaxHookName = 4
    Jobs <- MCJobs
    SiteTampered <- SiteCandidates
    SiteMaxJump = 8
    Fds = {3, 4}
    Btfs = {2, 3}
    LoadSize <- MCSize
    LoadNamed = {2}
    scratchSize = 4
SYMMETRY FrameSymmetry
INVARIANTS PairsOnlyOwn ReportComplete UndisturbedLosesNothing PacketIdJoins RunsTheOriginal HooksSeeTheirCalls PlanSound LoadSound
CHECK_DEADLOCK FALSE
