\* Every setting by flag, by file and by both; ticks, overruns and clock steps.
SPECIFICATION Spec
CONSTANTS
    NumberLists = {"cpu"}
    DurationLists = {"walltime"}
    DefaultInterval = 4
    DefaultTimeout = 1
    DefaultBuckets <- SmallDefaults
    Lossy <- SomeLossy
    Unset = Unset
    Bad = Bad
    NaN = NaN
    Error = Error
    Inputs <- SomeInputs
    DefaultMinute = 60
    MaxTime = 20
    MaxClockSteps = 1
    ClockSteps <- SomeSteps
INVARIANTS
    TypeOK
    Precedence
    BadFileIsFatal
    AcceptedRuns
    BoundedStaleness
    NoBurst
    ReportDescribesRun
\* The process may not start, and time is bounded.
CHECK_DEADLOCK FALSE
