SPECIFICATION FairSpec
CONSTANTS
    MaxFiles = 2
    MaxBlocks = 5
    BatchBlocks = 1
    Modulus = 3
    MaxRetries = 3
    MaxEots = 3
    MaxFallback = 2
    MaxFaults = 3
INVARIANTS    Completes
PROPERTY Ends
CHECK_DEADLOCK FALSE
