SPECIFICATION FairSpec
CONSTANTS
    N = 2
    FileSize = 3
    BlockSize = 2
    MaxOps = 2
INVARIANTS TypeOK TotalsExact CleanedUp
PROPERTY RunEnds
CHECK_DEADLOCK FALSE
