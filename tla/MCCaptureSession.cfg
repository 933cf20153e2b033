SPECIFICATION FairSpec
CONSTANTS
    s1 = s1
    s2 = s2
    RingCap = 2
    BatchSize = 2
    Setups <- SomeSetups
INVARIANTS InOrderOnce AckVouches StopDrains ReportHonest
PROPERTIES StopReturns BarrierCompletes
CHECK_DEADLOCK FALSE
