\* A cluster that changes between two commands.
SPECIFICATION Spec
CONSTANTS
    Nil = Nil
    Jobs = {j1, j2}
    IncludeJobInspectionMetrics = TRUE
    IncludeJobSampleHistograms = FALSE
    RunningJobs <- JobCounts
    ClockAhead = 0
    Orphans = FALSE
    MaxChanges = 2
    MaxCollections = 1
INVARIANTS
    Coherent
\* The worker may stop calling.
CHECK_DEADLOCK FALSE
