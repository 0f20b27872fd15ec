\* tree-auditor.md:566, refuted.
SPECIFICATION AuditSpec
CONSTANTS
    MaxVersion = 1
    MaxHeard = 0
    MaxFaults = 1
    MaxCrashes = 0
    IntervalVersions = 2
    MaxRunsPerSession = 2
    MaxRunsPerHour = 2
    HighSeverityMaxRunsPerHour = 1
    UnappliedThreshold = 2
CHECK_DEADLOCK FALSE
INVARIANT
    FailedRunsCarryStreak
