SPECIFICATION FairSpec
CONSTANTS
    s1 = s1
    s2 = s2
    Tags = {1}
    Setups <- LiveSetups
    MaxRecords = 2
    MaxErrors = 1
PROPERTIES RemovalAcked CappedExits
CHECK_DEADLOCK FALSE
