SPECIFICATION Spec
CONSTANTS
    Plugin = {p1, p2}
    StoreVersion = {s1}
    LocalVersion = {l1}
    NoVersion = NoVersion
    Overlap = TRUE
    EditsInside = FALSE
    MaxInstalls = 2
    MaxCrashes = 0
    MaxFaults = 0
    MaxEdits = 0
CHECK_DEADLOCK FALSE
INVARIANTS
    ReceiptsMatchFolders
