\* Up to three jobs, in every order; up to four detailed ones.
SPECIFICATION Spec
CONSTANTS
    Answers <- SomeAnswers
    Numbers <- SomeNumbers
    WaitBuckets <- SmallBuckets
    Inf = Inf
    NoAge = NoAge
    IncludeUserMetrics = TRUE
    IncludeJobInspectionMetrics = TRUE
INVARIANTS
    TypeOK
    CountsMatchJobs
    WaitsAreCumulative
    TotalsAgree
    NodeCountsMatch
    InspectionAgrees
    FamiliesAgree
    DistinctJobsDistinctSeries
\* One collection, one scrape.
CHECK_DEADLOCK FALSE
