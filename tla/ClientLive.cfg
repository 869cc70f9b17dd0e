\* No detailed job data is asked for, and commands leave no child behind.
SPECIFICATION FairSpec
CONSTANTS
    Nil = Nil
    Jobs = {j1, j2}
    IncludeJobInspectionMetrics = FALSE
    IncludeJobSampleHistograms = FALSE
    RunningJobs <- JobCounts
    ClockAhead = 0
    Orphans = FALSE
    MaxChanges = 2
    MaxCollections = 2
PROPERTIES
    KeepsContract
    CollectReturnsInTime
\* The worker may stop calling.
CHECK_DEADLOCK FALSE
