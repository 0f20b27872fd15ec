\* One round beside the audits of a session, and one disturbance.
SPECIFICATION AuditSpec
CONSTANTS
    MaxVersion = 1
    MaxHeard = 1
    MaxFaults = 1
    MaxCrashes = 1
    IntervalVersions = 2
    MaxRunsPerSession = 2
    MaxRunsPerHour = 1
    HighSeverityMaxRunsPerHour = 1
    UnappliedThreshold = 2
CONSTRAINT OneDisturbance
CHECK_DEADLOCK FALSE
INVARIANTS
    AuditTypeOK
    AuditedHasRow
    CallsWithinLimits
    StreakCountsRuns
PROPERTIES
    TreeRewindsOnlyInDoubt
