------------------------ MODULE JobSampleHistograms ------------------------
(***************************************************************************)
(* internal/exporter/job_sample_histograms.go as operators on values: an   *)
(* accumulator for each requested resource, cumulative over its buckets.   *)
(* Validated buckets are positive and strictly increasing (config.go), so  *)
(* the set of them says everything; a sample is a natural number or Unset. *)
(***************************************************************************)
EXTENDS Naturals, Sequences, FiniteSets

CONSTANTS
    FieldOrder,  \* the requested resources, in the order they are observed
    Buckets,     \* the upper bounds of the buckets of each of them
    Unset        \* an OptionalFloat64 that is not set

Fields == {FieldOrder[i] : i \in DOMAIN FieldOrder}

ASSUME HistogramAssumption ==
    /\ FieldOrder \in Seq(Fields)
    /\ FieldOrder # <<>>
    /\ \A i, j \in DOMAIN FieldOrder : FieldOrder[i] = FieldOrder[j] => i = j
    /\ Buckets \in [Fields -> SUBSET Nat]
    /\ Unset \notin Nat

\* pbs.InspectedJob, as far as the histograms look at it.
InspectedJobs ==
    [JobState : {"R", "Q"}, Requested : [Fields -> Nat \union {Unset}]]

Accumulators(field) ==
    [counts : [Buckets[field] -> Nat], count : Nat, sum : Nat]

NewAccumulator(field) ==
    [counts |-> [bucket \in Buckets[field] |-> 0], count |-> 0, sum |-> 0]

\* Faulty: a sample on the bound of a bucket is left out of it.
ObserveBelow(h, value) ==
    [counts |-> [bucket \in DOMAIN h.counts |->
                    IF value < bucket THEN h.counts[bucket] + 1 ELSE h.counts[bucket]],
     count  |-> h.count + 1,
     sum    |-> h.sum + value]

Observe(h, value) ==
    [counts |-> [bucket \in DOMAIN h.counts |->
                    IF value <= bucket THEN h.counts[bucket] + 1 ELSE h.counts[bucket]],
     count  |-> h.count + 1,
     sum    |-> h.sum + value]

ObserveOptional(h, value) == IF value = Unset THEN h ELSE Observe(h, value)

NewHistograms == [field \in Fields |-> NewAccumulator(field)]

\* One job of jobSampleHistograms.Observe.
ObserveJob(histograms, job) ==
    IF job.JobState = "R"
    THEN [field \in Fields |->
             ObserveOptional(histograms[field], job.Requested[field])]
    ELSE histograms

\* jobSampleHistograms.Observe: after[n] is what the first n jobs make of them.
ObserveJobs(histograms, jobs) ==
    LET after[n \in 0 .. Len(jobs)] ==
            IF n = 0 THEN histograms ELSE ObserveJob(after[n - 1], jobs[n])
    IN  after[Len(jobs)]
=============================================================================
