\* One plugin, one request against the boot scan and both background loops.
SPECIFICATION Spec
CONSTANTS
    Plugin = {p1}
    Request = {r1}
    Boot = Boot
    Dir = Dir
    Cfg = Cfg
    NoPlugin = NoPlugin
    HotReload = TRUE
    QueueCap = 2
    MaxConfigEdits = 2
    MaxDiskEdits = 1
CHECK_DEADLOCK FALSE
INVARIANTS ConvergesWhenSettled ShutdownLeavesNothing
PROPERTIES OnlyActivationOverwrites
