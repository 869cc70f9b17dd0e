\* The answer of a scrape during which a run ends.
SPECIFICATION Spec
CONSTANTS
    Nil = Nil
    Scrapers = {s1}
    IncludeJobInspectionMetrics = TRUE
    IncludeJobSampleHistograms = TRUE
    RunningJobs <- SomeRunning
    Delays <- StrictDelays
    StartTime = 8
    SetBackTo <- Never
    MaxEvents = 1
INVARIANTS
    SnapshotTimestampDescribesExposure
\* The process ends after a signal.
CHECK_DEADLOCK FALSE
