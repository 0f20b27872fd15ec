\* live-analysis-scheduler.md:79, refuted.
SPECIFICATION FSpec
CONSTANTS
    N = 2
    Filler = {}
    Slots = {g1, g2}
    NoRound = none
    MaxFaults = 1
    MaxCrashes = 0
    MaxFlushes = 1
    MaxAttempts = 1
    RetryOpen = FALSE
CHECK_DEADLOCK FALSE
PROPERTY
    SupersededNeverOverwrites
