SPECIFICATION HoldSpec
CONSTANTS
    HoldSlots = 1
    Frames = {f1, f2}
    MaxNest = 1
    MaxInv = 2
    MaxRewrites = 1
    Emit = "exit"
    ProbeRead = FALSE
INVARIANT NeverPairsAnother
CHECK_DEADLOCK FALSE
