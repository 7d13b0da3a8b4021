SPECIFICATION Spec
CONSTANTS
    Caller = {c1}
    InCap = 3
    OutCap = 1
    PipeCap = 1
    MaxPending = 3
    Quiet = 2
    Threaded = FALSE
    MayHang = TRUE
    MayDie = TRUE
    Patient = TRUE
CHECK_DEADLOCK FALSE
INVARIANTS AnswersArrive
