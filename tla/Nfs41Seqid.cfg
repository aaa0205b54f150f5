SPECIFICATION Spec
CONSTANTS
    Clients = {c1, c2}
    Callers = {c1, c2}
    Files = {f1}
    None = None
    W = 4
    MaxSkew = 2
    MaxStateid = 1
    MaxRestarts = 0
    LeaseLapses = FALSE
INVARIANT SeqidAccepted
CHECK_DEADLOCK FALSE
