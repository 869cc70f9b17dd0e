\* A command may leave a child behind.
SPECIFICATION FairSpec
CONSTANTS
    Nil = Nil
    Jobs = {j1, j2}
    IncludeJobInspectionMetrics = TRUE
    IncludeJobSampleHistograms = FALSE
    RunningJobs <- JobCounts
    ClockAhead = 0
    Orphans = TRUE
    MaxChanges = 0
    MaxCollections = 1
PROPERTIES
    CommandsBounded
\* The worker may stop calling.
CHECK_DEADLOCK FALSE
