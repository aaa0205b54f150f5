SPECIFICATION Spec
CONSTANTS
    Clients = {c1}
    Openers = {c1}
    Files = {f1}
    None = None
    MaxSeqid = 3
    MaxRestarts = 0
INVARIANT CloseReleases
CHECK_DEADLOCK FALSE
