SPECIFICATION Spec
CONSTANTS
    ExclusiveMode = FALSE
    SetTimes = FALSE
    Lens = {0, 1, 2, 3}
    MaxList = 2
INVARIANTS
    TypeOK
    RequestUnderstood
    ResultUnderstood
    Outcome
