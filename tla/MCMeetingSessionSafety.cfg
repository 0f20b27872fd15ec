\* One session, two concurrent requests, one failed statement, one restart.
SPECIFICATION Spec
CONSTANTS
    Sessions = {s1}
    Workers = {w1, w2}
    Watchdog = watchdog
    NoSession = none
    BotReports <- ReportsOfACall
    Finalizer = TRUE
    BotControl = TRUE
    WatchdogOn = TRUE
    MaxFaults = 1
    MaxCrashes = 1
CONSTRAINT OneDisturbance
SYMMETRY Symmetry
INVARIANTS
    TypeOK
    RequestedIsBeingJoined
PROPERTIES
    RevivedOnlyByStaleWriter
    EndedByFinalizerOrLapsed
    JoinedSurvivesSoftFailure
    EndingIsNotForgotten
