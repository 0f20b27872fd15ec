\* A final with content after a filler, one fault, one restart, rounds in turn.
SPECIFICATION FairSpec
CONSTANTS
    N = 2
    Filler = {1}
    Slots = {g1}
    NoRound = none
    MaxFaults = 1
    MaxCrashes = 1
CHECK_DEADLOCK FALSE
PROPERTY
    StoredFinalIsAnalyzed
