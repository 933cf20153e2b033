SPECIFICATION Spec
CONSTANTS
    Shards = {1, 2}
    Records = 3
    MaxBatch = 2
    Modes = {"file", "stdout", "null", "raw"}
    Counts = {0, 1, 3}
    Totals = {0, 2}
    Programs <- MCPrograms
    RecLen <- MCRecLen
    Total = 90
    NumCPUs = 6
    MinShard = 16
    MaxRecords = 6
INVARIANTS LimitsHonest QuarterIsSignalled
PROPERTIES LimitEnds EveryRecordRead
