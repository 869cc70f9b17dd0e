\* Two collections of a cluster that changes three times.
SPECIFICATION Spec
CONSTANTS
    Nil = Nil
    Jobs = {j1, j2}
    IncludeJobInspectionMetrics = TRUE
    IncludeJobSampleHistograms = FALSE
    RunningJobs <- JobCounts
    ClockAhead = 1
    Orphans = TRUE
    MaxChanges = 3
    MaxCollections = 2
SYMMETRY JobSymmetry
INVARIANTS
    TypeOK
    PartsInOrder
    OnlyBaseCommandsFail
    WaitsAgree
PROPERTIES
    KeepsContract
\* The worker may stop calling.
CHECK_DEADLOCK FALSE
