SPECIFICATION FairSpec
CONSTANTS
    W = 3
    ReqLen = 2
    RepLen = 3
    Interrupts = FALSE
INVARIANTS TypeOK NoResidue WholeRecord
PROPERTIES ImplementsRpc CallEnds
CHECK_DEADLOCK FALSE
