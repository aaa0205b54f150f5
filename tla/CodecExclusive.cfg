SPECIFICATION Spec
CONSTANTS
    ExclusiveMode = TRUE
    SetTimes = FALSE
    Lens = {0, 1}
    MaxList = 1
INVARIANT
    RequestUnderstood
