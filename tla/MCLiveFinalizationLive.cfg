\* Liveness of a finalization that a restart may cut off.
SPECIFICATION FFairSpec
CONSTANTS
    N = 1
    Filler = {}
    Slots = {g1}
    NoRound = none
    MaxFaults = 0
    MaxCrashes = 1
    MaxFlushes = 1
    MaxAttempts = 1
    RetryOpen = FALSE
CHECK_DEADLOCK FALSE
PROPERTY
    FinalizationEnds
