\* Liveness with the watchdog, from a fresh process or a restarted one.
SPECIFICATION FairAfterRestart
CONSTANTS
    Sessions = {s1}
    Workers = {w1, w2}
    Watchdog = watchdog
    NoSession = none
    BotReports <- ReportsRecording
    Finalizer = TRUE
    BotControl = TRUE
    WatchdogOn = TRUE
    MaxFaults = 1
    MaxCrashes = 0
PROPERTIES
    GoneBotIsNoticed
    EndRequestCompletes
