\* The owner of a job after both normalizations.
SPECIFICATION Spec
CONSTANTS
    Answers <- SomeAnswers
    Numbers <- SomeNumbers
    WaitBuckets <- SmallBuckets
    Inf = Inf
    NoAge = NoAge
    IncludeUserMetrics = TRUE
    IncludeJobInspectionMetrics = TRUE
INVARIANTS
    ExposedOwners
\* One collection, one scrape.
CHECK_DEADLOCK FALSE
