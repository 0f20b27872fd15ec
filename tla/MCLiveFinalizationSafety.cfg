\* Two attempts, or one attempt with a failing statement or, over one final, a restart.
SPECIFICATION FSpec
CONSTANTS
    N = 2
    Filler = {}
    Slots = {g1, g2}
    NoRound = none
    MaxFaults = 1
    MaxCrashes = 1
    MaxFlushes = 1
    MaxAttempts = 2
    RetryOpen = FALSE
CONSTRAINT Bounded
SYMMETRY Symmetry
CHECK_DEADLOCK FALSE
INVARIANTS
    FinalizationTypeOK
    OneWantedRound
PROPERTIES
    CompleteMeansCovered
    ProjectionOutlivesRounds
    RewindIsReported
