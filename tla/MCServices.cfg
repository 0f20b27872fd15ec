SPECIFICATION ServicesSpec
CONSTANTS
    Publishers = {p1, p2}
    Clients = {c1}
    Finals = {f1}
    QueueCap = 1
    MaxSends = 2
    MaxNotes = 2
    LostAfter = 2
    EndAfter = 3
    DelayedAfter = 1
    StalledAfter = 2
    AudioSilenceAfter = 1
    AudioStalledAfter = 1
    SpeechStalledAfter = 1
    Requests = {q1, q2}
    Metrics <- MetricsDef
    MaxClock = 3
    MaxBeats = 2
    MaxSegments = 2
    MaxReturns = 1
    Reports <- ReportsDef
    Deliverers = {d1, d2}
    MaxDeliveries = 4
    People = {o, u}
    Owner = o
    Desks = {k1, k2}
    MaxInvites = 2
    MaxWork = 3
CONSTRAINT HealthBound
CHECK_DEADLOCK FALSE
INVARIANTS
    ServicesTypeOK
    OutageIsTold
    MembersWereInvited
    RemovedIsDisconnected
PROPERTIES
    WarningMeansSilence
    MediaNeverReturns
    HandedFinalReachesAnalyzer
    ClosedConnectionIsForgotten
