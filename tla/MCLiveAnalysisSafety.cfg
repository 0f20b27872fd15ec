\* Two finals, a failing statement or provider call, a restart.
SPECIFICATION Spec
CONSTANTS
    N = 2
    Filler = {}
    Slots = {g1, g2}
    NoRound = none
    MaxFaults = 1
    MaxCrashes = 1
CONSTRAINT OneDisturbance
SYMMETRY Symmetry
CHECK_DEADLOCK FALSE
INVARIANTS
    TypeOK
    OneRoundInFlight
    VersionNamesPayload
    NoFinalDropped
PROPERTIES
    RegisterSpec
    DeferredAtMostOnce
