SPECIFICATION FairSpec
CONSTANTS
    Clients = {c1, c2}
    Callers = {c1}
    Files = {f1}
    None = None
    W = 4
    MaxSkew = 2
    MaxStateid = 2
    MaxRestarts = 1
    LeaseLapses = TRUE
INVARIANTS TypeOK SlotInStep NoFalseReplay CloseReleases HeldStaysOpen
PROPERTIES NothingAfterLost ImplementsOpenFiles OpenEnds
CHECK_DEADLOCK FALSE
