\* Two readers during two publications.
SPECIFICATION FairSpec
CONSTANTS
    Nil = Nil
    Unset = Unset
    FieldOrder <- TwoFields
    Buckets <- FewBuckets
    Readers = {r1, r2}
    Inspections <- SomeInspections
    MaxWrites = 2
INVARIANTS
    TypeOK
    HistogramsMatchSamples
PROPERTIES
    MethodsAreAtomic
    PublicationCompletes
    ReaderServed
\* The worker publishes MaxWrites times at most.
CHECK_DEADLOCK FALSE
