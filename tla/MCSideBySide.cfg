\* Two sessions of one meeting with two concurrent requests; the tree through
\* two rounds and a batch of two operations after each.
SPECIFICATION SideSpec
CONSTANTS
    Sessions = {s1, s2}
    Workers = {w1, w2}
    Watchdog = watchdog
    NoSession = none
    BotReports <- ReportsRecording
    Finalizer = FALSE
    BotControl = TRUE
    WatchdogOn = FALSE
    MaxFaults = 0
    MaxCrashes = 0
    Items = {i1, i2, i3}
    Groups = {g1, g2}
    Agenda = {a3, a4}
    Topics = {un, t1, t2, t3}
    Unclassified = un
    Nowhere = nowhere
    SoftMaxDepth = 3
    HardMaxDepth = 4
    GroupingFrom = 2
    HardDepthEvidence = 1
    PromotionMinItems = 1
    MaxGroupsPerTopic = 2
    MaxDynamicTopics = 1
    GraceVersions = 1
    MaxOperations = 2
    MaxRounds = 2
    Appenders = {w1, w2}
    LastSeq = 1
    EventCap = 1
    MaxSeq = 3
    MaxResets = 1
SYMMETRY Alike
CHECK_DEADLOCK FALSE
INVARIANTS
    UncommandedIsAlone
    ShownTreeIsSound
    RejectedForRetiredOnly
    OperationsOrphanNothing
    EventTypeOK
    NothingLostAtSeam
