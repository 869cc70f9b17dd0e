\* A scraper, the readiness probe and three runs of the worker, or two and a clock
\* that is set back, all options on.
SPECIFICATION Spec
CONSTANTS
    Nil = Nil
    Scrapers = {s1}
    IncludeJobInspectionMetrics = TRUE
    IncludeJobSampleHistograms = TRUE
    RunningJobs <- SomeRunning
    Delays <- StrictDelays
    StartTime = 8
    SetBackTo <- BeforeStart
    MaxEvents = 2
INVARIANTS
    TypeOK
    StoreConsistent
    TimesOrdered
    ScrapeOrdered
    QuietScrapeCoherent
    SkewIsForward
    ReadyMeansSnapshot
PROPERTIES
    EveryRunAccounted
    CountersNeverDecrease
\* The process ends after a signal.
CHECK_DEADLOCK FALSE
