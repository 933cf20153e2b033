SPECIFICATION Spec
CONSTANTS
    s1 = s1
    s2 = s2
    Tags = {1, 2}
    Setups <- SafeSetups
    MaxRecords = 2
    MaxErrors = 1
SYMMETRY ShardSymmetry
INVARIANTS AckSound ShutdownComplete
PROPERTIES AckFinal NeverTruncated
CHECK_DEADLOCK FALSE
