SPECIFICATION FairSpec
CONSTANTS
    Clients = {c1, c2}
    Openers = {c1}
    Files = {f1}
    None = None
    MaxSeqid = 4
    MaxRestarts = 1
INVARIANTS TypeOK OwnerInStep NoFalseReplay HeldStaysOpen
PROPERTIES NothingAfterLost OpenEnds
CHECK_DEADLOCK FALSE
