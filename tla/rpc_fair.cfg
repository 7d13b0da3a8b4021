SPECIFICATION FairSpec
CONSTANTS
    Caller = {c1}
    InCap = 1
    OutCap = 1
    PipeCap = 1
    MaxPending = 3
    Quiet = 1
    Threaded = FALSE
    MayHang = TRUE
    MayDie = TRUE
    Patient = FALSE
CHECK_DEADLOCK FALSE
INVARIANTS PendingMatchesWaiters
PROPERTIES CallsReturn
