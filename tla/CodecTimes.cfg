SPECIFICATION Spec
CONSTANTS
    ExclusiveMode = FALSE
    SetTimes = TRUE
    Lens = {0, 1}
    MaxList = 1
INVARIANT
    RequestUnderstood
