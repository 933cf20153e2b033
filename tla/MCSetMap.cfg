SPECIFICATION MCSpec
CONSTANTS
    Capture = capture
    CapTag = 1
    Keys = {k1, k2}
    Tags = {1, 2}
    MaxBytes = {0}
    c1 = c1
    Cli = {c1, c2}
    Capacities = {1, 2}
    Serial = FALSE
    MaxCmds = 2
PROPERTIES OverlapSafe ParkHeals SerialIsStore
CHECK_DEADLOCK FALSE
