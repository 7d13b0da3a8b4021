SPECIFICATION FairSpec
CONSTANTS
    Plugin = {p1}
    Retry = {r1}
    MaxLines = 1
    MaxStale = 2
    MaxFlips = 1
    MaxStops = 2
CHECK_DEADLOCK FALSE
INVARIANTS OneAttemptServesAll
PROPERTIES EveryPluginIsServed
