SPECIFICATION Spec
CONSTANTS
    W = 4
    ReqLen = 1
    RepLen = 1
    Interrupts = TRUE
INVARIANT OwnReply
CHECK_DEADLOCK FALSE
