SPECIFICATION EventsSpec
CONSTANTS
 Tile = {a}
 Target = {"tile", "flyout"}
 Html = {h1, h2}
 None = None
 Cap = 2
 MaxEvents <- EventsFew
 MaxOpens = 2
 MaxReloads = 1
CHECK_DEADLOCK FALSE
INVARIANTS StreamMeetsCache
PROPERTIES BarCatchesUp
