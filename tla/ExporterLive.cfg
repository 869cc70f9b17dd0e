\* Every goroutine that can run does; three runs, all options off.
SPECIFICATION FairSpec
CONSTANTS
    Nil = Nil
    Scrapers = {s1}
    IncludeJobInspectionMetrics = FALSE
    IncludeJobSampleHistograms = FALSE
    RunningJobs <- SomeRunning
    Delays <- NoDelays
    StartTime = 8
    SetBackTo <- Never
    MaxEvents = 2
PROPERTIES
    PendingTickServed
    EveryRunReported
    ScrapeAnswered
    SignalEndsProcess
\* The process ends after a signal.
CHECK_DEADLOCK FALSE
