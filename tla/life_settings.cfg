SPECIFICATION FairSpec
CONSTANTS
    a1 = a1
    a2 = a2
    v1 = v1
    v2 = v2
    NoValue = NoValue
    Value = {v1, v2}
    Action = {a1, a2}
    CmdCap = 2
    QueueCap = 2
    MaxFailures = 3
    MaxEdits = 3
CHECK_DEADLOCK FALSE
INVARIANTS PluginSeesLatest AnswersAreHonest
