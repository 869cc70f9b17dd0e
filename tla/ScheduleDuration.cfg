\* The wall clock is set back during a collection.
SPECIFICATION Spec
CONSTANTS
    NumberLists = {"cpu"}
    DurationLists = {"walltime"}
    DefaultInterval = 4
    DefaultTimeout = 1
    DefaultBuckets <- SmallDefaults
    Lossy <- SomeLossy
    Unset = Unset
    Bad = Bad
    NaN = NaN
    Error = Error
    Inputs <- SomeInputs
    DefaultMinute = 60
    MaxTime = 20
    MaxClockSteps = 1
    ClockSteps <- SomeSteps
INVARIANTS
    DurationIsElapsed
\* The process may not start, and time is bounded.
CHECK_DEADLOCK FALSE
