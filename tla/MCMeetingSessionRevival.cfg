\* meeting_session_test.go:278 under concurrency, refuted.
SPECIFICATION Spec
CONSTANTS
    Sessions = {s1}
    Workers = {w1, w2}
    Watchdog = watchdog
    NoSession = none
    BotReports <- ReportsOfACall
    Finalizer = TRUE
    BotControl = TRUE
    WatchdogOn = FALSE
    MaxFaults = 0
    MaxCrashes = 0
PROPERTY LateReportLeavesEnded
