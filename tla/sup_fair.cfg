\* Shutdown and deactivation under fair scheduling.
SPECIFICATION FairSpec
CONSTANTS
    Plugin = {p1}
    Request = {r1}
    Boot = Boot
    Dir = Dir
    Cfg = Cfg
    NoPlugin = NoPlugin
    HotReload = TRUE
    QueueCap = 2
    MaxConfigEdits = 2
    MaxDiskEdits = 0
PROPERTIES
    ShutdownEnds
    DeactivationTakesEffect
CHECK_DEADLOCK FALSE
