--------------------------- MODULE LockingProofs ---------------------------
(***************************************************************************)
(* Proofs about StoreLocking, for any readers, any fields and buckets, any *)
(* inspections and any number of publications.                             *)
(***************************************************************************)
EXTENDS StoreLocking, RecursionTheorems, SequenceTheorems, FiniteSetTheorems

-----------------------------------------------------------------------------
(* Observing jobs one after the other. *)

AnyAccumulators == UNION {Accumulators(f) : f \in Fields}
Histograms == {h \in [Fields -> AnyAccumulators] : \A f \in Fields : h[f] \in Accumulators(f)}

\* Histograms are told by their fields.
LEMMA HistogramsByField ==
    ASSUME NEW h, h = [f \in Fields |-> h[f]], \A f \in Fields : h[f] \in Accumulators(f)
    PROVE  h \in Histograms
BY DEF Histograms, AnyAccumulators

\* A sample leaves an accumulator of the same buckets.
LEMMA ObservedType ==
    ASSUME NEW f \in Fields, NEW h \in Accumulators(f), NEW value \in Nat \union {Unset}
    PROVE  ObserveOptional(h, value) \in Accumulators(f)
<1>1. CASE value = Unset
  BY <1>1 DEF ObserveOptional
<1>2. CASE value # Unset
  <2>1. value \in Nat
    BY <1>2
  <2>2. h.counts \in [Buckets[f] -> Nat] /\ h.count \in Nat /\ h.sum \in Nat
    BY DEF Accumulators
  <2>3. [bucket \in DOMAIN h.counts |->
            IF value <= bucket THEN h.counts[bucket] + 1 ELSE h.counts[bucket]]
           \in [Buckets[f] -> Nat]
    BY <2>2
  <2>4. h.count + 1 \in Nat /\ h.sum + value \in Nat
    BY <2>1, <2>2
  <2> QED
    BY <1>2, <2>3, <2>4 DEF ObserveOptional, Observe, Accumulators
<1> QED
  BY <1>1, <1>2

\* A job leaves histograms.
LEMMA JobObservedType ==
    ASSUME NEW h \in Histograms, NEW job \in InspectedJobs
    PROVE  ObserveJob(h, job) \in Histograms
<1>1. CASE job.JobState # "R"
  BY <1>1 DEF ObserveJob
<1>2. CASE job.JobState = "R"
  <2>1. \A f \in Fields : ObserveOptional(h[f], job.Requested[f]) \in Accumulators(f)
    BY ObservedType DEF Histograms, InspectedJobs
  <2>2. ObserveJob(h, job) = [f \in Fields |-> ObserveOptional(h[f], job.Requested[f])]
    BY <1>2 DEF ObserveJob
  <2> QED
    BY <2>1, <2>2, HistogramsByField
<1> QED
  BY <1>1, <1>2

\* The histograms before each job and after the last.
After(h, jobs) ==
    CHOOSE after : after = [n \in 0 .. Len(jobs) |->
                              IF n = 0 THEN h ELSE ObserveJob(after[n - 1], jobs[n])]

\* There is such a function.
LEMMA AfterExists ==
    ASSUME NEW h \in Histograms, NEW N \in Nat, NEW jobs,
           \A n \in 1 .. N : jobs[n] \in InspectedJobs
    PROVE  \E a : a = [n \in 0 .. N |-> IF n = 0 THEN h ELSE ObserveJob(a[n - 1], jobs[n])]
<1>1. PICK step \in [1 .. N -> [Histograms -> Histograms]] :
         \A n \in 1 .. N, x \in Histograms : step[n][x] = ObserveJob(x, jobs[n])
  <2> DEFINE s == [n \in 1 .. N |-> [x \in Histograms |-> ObserveJob(x, jobs[n])]]
  <2>1. s \in [1 .. N -> [Histograms -> Histograms]]
    BY JobObservedType
  <2>2. \A n \in 1 .. N, x \in Histograms : s[n][x] = ObserveJob(x, jobs[n])
    OBVIOUS
  <2> HIDE DEF s
  <2> QED
    BY <2>1, <2>2
<1>2. PICK a \in [0 .. N -> Histograms] :
         a[0] = h /\ \A n \in 1 .. N : a[n] = step[n][a[n - 1]]
  BY ONLY StepsLead
<1>3. \A n \in 1 .. N : n - 1 \in 0 .. N
  OBVIOUS
<1>4. \A n \in 1 .. N : a[n] = ObserveJob(a[n - 1], jobs[n])
  BY <1>1, <1>2, <1>3
<1>5. a = [n \in 0 .. N |-> IF n = 0 THEN h ELSE ObserveJob(a[n - 1], jobs[n])]
  BY <1>2, <1>4
<1> QED
  BY <1>5

\* They are what ObserveJobs goes through.
LEMMA ObservedOneByOne ==
    ASSUME NEW h \in Histograms, NEW jobs \in Seq(InspectedJobs)
    PROVE  /\ After(h, jobs) \in [0 .. Len(jobs) -> Histograms]
           /\ After(h, jobs)[0] = h
           /\ \A n \in 1 .. Len(jobs) :
                 After(h, jobs)[n] = ObserveJob(After(h, jobs)[n - 1], jobs[n])
           /\ ObserveJobs(h, jobs) = After(h, jobs)[Len(jobs)]
<1>0. Len(jobs) \in Nat /\ \A n \in 1 .. Len(jobs) : jobs[n] \in InspectedJobs
  OBVIOUS
<1>1. \E a : a = [n \in 0 .. Len(jobs) |->
                    IF n = 0 THEN h ELSE ObserveJob(a[n - 1], jobs[n])]
  BY <1>0, AfterExists
<1>5. After(h, jobs) = [n \in 0 .. Len(jobs) |->
                          IF n = 0 THEN h ELSE ObserveJob(After(h, jobs)[n - 1], jobs[n])]
  BY <1>1 DEF After
<1>6. After(h, jobs)[0] = h
      /\ \A n \in 1 .. Len(jobs) :
            After(h, jobs)[n] = ObserveJob(After(h, jobs)[n - 1], jobs[n])
  BY <1>0, <1>5
<1>7. \A n \in 0 .. Len(jobs) : After(h, jobs)[n] \in Histograms
  <2> DEFINE S == {n \in Nat : n <= Len(jobs) => After(h, jobs)[n] \in Histograms}
  <2>1. 0 \in S
    BY <1>6
  <2>2. ASSUME NEW n \in Nat, n \in S PROVE n + 1 \in S
    <3>1. SUFFICES ASSUME n + 1 <= Len(jobs) PROVE After(h, jobs)[n + 1] \in Histograms
      OBVIOUS
    <3>2. After(h, jobs)[n] \in Histograms /\ n + 1 \in 1 .. Len(jobs) /\ (n + 1) - 1 = n
      BY <1>0, <2>2, <3>1
    <3> QED
      BY <1>0, <1>6, <3>2, JobObservedType
  <2>3. Nat \subseteq S
    <3> HIDE DEF S
    <3> QED
      BY <2>1, <2>2, SetInduction
  <2> QED
    BY <1>0, <2>3
<1>8. After(h, jobs) \in [0 .. Len(jobs) -> Histograms]
  BY <1>5, <1>7
<1>9. ObserveJobs(h, jobs) = After(h, jobs)[Len(jobs)]
  BY DEF ObserveJobs, After
<1> QED
  BY <1>6, <1>8, <1>9

-----------------------------------------------------------------------------
(* What the samples amount to. *)

\* What the n-th job adds to the sum of a field.
Contribution(jobs, f, n) == IF n \in Samples(jobs, f) THEN jobs[n].Requested[f] ELSE 0

\* The sum of each number of jobs.
Sum(jobs, f) ==
    CHOOSE sum : sum = [n \in 0 .. Len(jobs) |->
                          IF n = 0 THEN 0
                          ELSE sum[n - 1] + (IF n \in Samples(jobs, f)
                                             THEN jobs[n].Requested[f] ELSE 0)]

\* The samples are finitely many of the jobs, and each has a value.
LEMMA SamplesOfJobs ==
    ASSUME NEW jobs \in Seq(InspectedJobs), NEW f \in Fields
    PROVE  /\ Samples(jobs, f) \in SUBSET (1 .. Len(jobs))
           /\ IsFiniteSet(Samples(jobs, f))
           /\ \A i \in Samples(jobs, f) : jobs[i].Requested[f] \in Nat
           /\ \A n \in 1 .. Len(jobs) : Contribution(jobs, f, n) \in Nat
<1>1. Len(jobs) \in Nat /\ DOMAIN jobs = 1 .. Len(jobs)
      /\ \A i \in 1 .. Len(jobs) : jobs[i] \in InspectedJobs
  OBVIOUS
<1>2. Samples(jobs, f) \in SUBSET (1 .. Len(jobs))
  BY <1>1 DEF Samples
<1>3. IsFiniteSet(Samples(jobs, f))
  <2>1. IsFiniteSet(1 .. Len(jobs))
    BY <1>1, FS_Interval
  <2> QED
    BY <1>2, <2>1, FS_Subset
<1>4. \A i \in Samples(jobs, f) : jobs[i].Requested[f] \in Nat
  BY <1>1, <1>2 DEF Samples, InspectedJobs
<1> QED
  BY <1>2, <1>3, <1>4 DEF Contribution

\* There are sums.
LEMMA SumExists ==
    ASSUME NEW N \in Nat, NEW part, \A n \in 1 .. N : part[n] \in Nat
    PROVE  \E a : a = [n \in 0 .. N |-> IF n = 0 THEN 0 ELSE a[n - 1] + part[n]]
<1>0. PICK X : X = Nat
  OBVIOUS
<1>1. PICK step \in [1 .. N -> [X -> X]] :
         \A n \in 1 .. N, x \in X : step[n][x] = x + part[n]
  <2> DEFINE s == [n \in 1 .. N |-> [x \in Nat |-> x + part[n]]]
  <2>1. s \in [1 .. N -> [X -> X]]
    BY <1>0
  <2>2. \A n \in 1 .. N, x \in Nat : s[n][x] = x + part[n]
    OBVIOUS
  <2> HIDE DEF s
  <2> QED
    BY <1>0, <2>1, <2>2
<1>2. PICK a \in [0 .. N -> X] : a[0] = 0 /\ \A n \in 1 .. N : a[n] = step[n][a[n - 1]]
  <2>1. 0 \in X
    BY <1>0
  <2> QED
    BY ONLY <2>1, StepsLead
<1>3. \A n \in 1 .. N : n - 1 \in 0 .. N
  OBVIOUS
<1>4. \A n \in 1 .. N : a[n] = a[n - 1] + part[n]
  BY <1>0, <1>1, <1>2, <1>3
<1>5. a = [n \in 0 .. N |-> IF n = 0 THEN 0 ELSE a[n - 1] + part[n]]
  BY <1>2, <1>4
<1> QED
  BY <1>5

\* The sum grows by what each job contributes.
LEMMA SumOneByOne ==
    ASSUME NEW jobs \in Seq(InspectedJobs), NEW f \in Fields
    PROVE  /\ Sum(jobs, f)[0] = 0
           /\ \A n \in 1 .. Len(jobs) :
                 Sum(jobs, f)[n] = Sum(jobs, f)[n - 1] + Contribution(jobs, f, n)
           /\ \A n \in 0 .. Len(jobs) : Sum(jobs, f)[n] \in Nat
<1> DEFINE part == [n \in 1 .. Len(jobs) |-> Contribution(jobs, f, n)]
           sum == Sum(jobs, f)
<1>0. Len(jobs) \in Nat
  OBVIOUS
<1>1. \A n \in 1 .. Len(jobs) : part[n] \in Nat /\ part[n] = Contribution(jobs, f, n)
  BY SamplesOfJobs
<1>2. PICK a : a = [n \in 0 .. Len(jobs) |-> IF n = 0 THEN 0 ELSE a[n - 1] + part[n]]
  <2> HIDE DEF part
  <2> QED
    BY <1>0, <1>1, SumExists
<1>3. a = [n \in 0 .. Len(jobs) |->
             IF n = 0 THEN 0
             ELSE a[n - 1] + (IF n \in Samples(jobs, f) THEN jobs[n].Requested[f] ELSE 0)]
  <2>1. \A n \in 0 .. Len(jobs) : n # 0 => n \in 1 .. Len(jobs)
    BY <1>0
  <2>2. \A n \in 0 .. Len(jobs) :
           (IF n = 0 THEN 0 ELSE a[n - 1] + part[n])
           = (IF n = 0 THEN 0
              ELSE a[n - 1] + (IF n \in Samples(jobs, f) THEN jobs[n].Requested[f] ELSE 0))
    BY <1>1, <2>1 DEF Contribution
  <2> HIDE DEF part
  <2> QED
    BY <1>2, <2>2
<1>4. sum = [n \in 0 .. Len(jobs) |->
               IF n = 0 THEN 0
               ELSE sum[n - 1] + (IF n \in Samples(jobs, f) THEN jobs[n].Requested[f] ELSE 0)]
  BY <1>3 DEF Sum
<1> HIDE DEF sum
<1>5. sum[0] = 0
      /\ \A n \in 1 .. Len(jobs) : sum[n] = sum[n - 1] + Contribution(jobs, f, n)
  BY <1>0, <1>4 DEF Contribution
<1>6. \A n \in 0 .. Len(jobs) : sum[n] \in Nat
  <2> DEFINE S == {n \in Nat : n <= Len(jobs) => sum[n] \in Nat}
  <2>1. 0 \in S
    BY <1>5
  <2>2. ASSUME NEW n \in Nat, n \in S PROVE n + 1 \in S
    <3>1. SUFFICES ASSUME n + 1 <= Len(jobs) PROVE sum[n + 1] \in Nat
      OBVIOUS
    <3>2. sum[n] \in Nat /\ n + 1 \in 1 .. Len(jobs) /\ (n + 1) - 1 = n
      BY <1>0, <2>2, <3>1
    <3>3. sum[n + 1] = sum[n] + Contribution(jobs, f, n + 1)
      BY <1>5, <3>2
    <3>4. Contribution(jobs, f, n + 1) \in Nat
      BY <3>2, SamplesOfJobs
    <3> QED
      BY <3>2, <3>3, <3>4
  <2>3. Nat \subseteq S
    <3> HIDE DEF S
    <3> QED
      BY <2>1, <2>2, SetInduction
  <2> QED
    BY <1>0, <2>3
<1> QED
  BY <1>5, <1>6 DEF sum

\* The tally is made of these.
LEMMA TallyParts ==
    ASSUME NEW jobs \in Seq(InspectedJobs), NEW f \in Fields
    PROVE  Tally(jobs, f) =
             [counts |-> [b \in Buckets[f] |->
                Cardinality({i \in Samples(jobs, f) : jobs[i].Requested[f] <= b})],
              count  |-> Cardinality(Samples(jobs, f)),
              sum    |-> Sum(jobs, f)[Len(jobs)]]
BY DEF Tally, Sum

\* No jobs, no samples.
LEMMA TallyOfNone == ASSUME NEW f \in Fields PROVE Tally(<<>>, f) = NewAccumulator(f)
<1>1. <<>> \in Seq(InspectedJobs) /\ Len(<<>>) = 0
  OBVIOUS
<1>2. Samples(<<>>, f) = {}
  BY DEF Samples
<1>3. \A b \in Buckets[f] : {i \in Samples(<<>>, f) : <<>>[i].Requested[f] <= b} = {}
  BY <1>2
<1>4. Cardinality({}) = 0
  BY FS_EmptySet
<1>5. Sum(<<>>, f)[0] = 0
  BY <1>1, SumOneByOne
<1> QED
  BY <1>1, <1>2, <1>3, <1>4, <1>5, TallyParts DEF NewAccumulator

\* One more job adds one more sample, or none.
LEMMA TallyOfOneMore ==
    ASSUME NEW jobs \in Seq(InspectedJobs), NEW job \in InspectedJobs, NEW f \in Fields
    PROVE  Tally(Append(jobs, job), f) =
             IF job.JobState = "R"
             THEN ObserveOptional(Tally(jobs, f), job.Requested[f])
             ELSE Tally(jobs, f)
<1> DEFINE more == Append(jobs, job)
           next == Len(jobs) + 1
           new == job.JobState = "R" /\ job.Requested[f] # Unset
           value == job.Requested[f]
<1>0. /\ Len(jobs) \in Nat /\ more \in Seq(InspectedJobs) /\ Len(more) = next
      /\ \A i \in 1 .. Len(jobs) : more[i] = jobs[i]
      /\ more[next] = job
  BY AppendProperties
<1>1. DOMAIN jobs = 1 .. Len(jobs) /\ DOMAIN more = 1 .. next
  BY <1>0, LenProperties
<1> HIDE DEF more
<1>2. Samples(more, f) = Samples(jobs, f) \union (IF new THEN {next} ELSE {})
  BY <1>0, <1>1 DEF Samples
<1>3. /\ IsFiniteSet(Samples(jobs, f)) /\ next \notin Samples(jobs, f)
      /\ Samples(jobs, f) \in SUBSET (1 .. Len(jobs))
  BY <1>0, SamplesOfJobs
<1>4. Cardinality(Samples(more, f)) =
         Cardinality(Samples(jobs, f)) + (IF new THEN 1 ELSE 0)
  <2>1. CASE new
    BY <1>2, <1>3, <2>1, FS_AddElement, FS_CardinalityType
  <2>2. CASE ~new
    <3>1. Samples(more, f) = Samples(jobs, f)
      BY <1>2, <2>2
    <3>2. Cardinality(Samples(jobs, f)) \in Nat
      BY <1>3, FS_CardinalityType
    <3> QED
      BY <2>2, <3>1, <3>2
  <2> QED
    BY <2>1, <2>2
<1>5. ASSUME NEW b \in Buckets[f]
      PROVE  Cardinality({i \in Samples(more, f) : more[i].Requested[f] <= b}) =
                Cardinality({i \in Samples(jobs, f) : jobs[i].Requested[f] <= b})
                + (IF new /\ value <= b THEN 1 ELSE 0)
  <2> DEFINE below == {i \in Samples(jobs, f) : jobs[i].Requested[f] <= b}
             after == {i \in Samples(more, f) : more[i].Requested[f] <= b}
  <2>1. after = below \union (IF new /\ value <= b THEN {next} ELSE {})
    BY <1>0, <1>2, <1>3
  <2>2. IsFiniteSet(below) /\ next \notin below /\ Cardinality(below) \in Nat
    BY <1>3, FS_Subset, FS_CardinalityType
  <2> HIDE DEF below, after
  <2>3. CASE new /\ value <= b
    BY <2>1, <2>2, <2>3, FS_AddElement DEF below, after
  <2>4. CASE ~(new /\ value <= b)
    <3>1. after = below
      BY <2>1, <2>4
    <3>2. Cardinality(after) =
             Cardinality(below) + (IF new /\ value <= b THEN 1 ELSE 0)
      <4> HIDE DEF new, value
      <4>1. (IF new /\ value <= b THEN 1 ELSE 0) = 0
        BY <2>4
      <4> QED
        BY <2>2, <3>1, <4>1
    <3> QED
      BY <3>2 DEF below, after
  <2> QED
    BY <2>3, <2>4
<1>6. Sum(more, f)[next] = Sum(jobs, f)[Len(jobs)] + (IF new THEN value ELSE 0)
  <2>1. \A n \in 1 .. Len(jobs) : Contribution(more, f, n) = Contribution(jobs, f, n)
    <3>1. \A n \in 1 .. Len(jobs) : n \in Samples(more, f) <=> n \in Samples(jobs, f)
      BY <1>0, <1>2
    <3> QED
      BY <1>0, <3>1 DEF Contribution
  <2> DEFINE S == {n \in Nat : n <= Len(jobs) => Sum(more, f)[n] = Sum(jobs, f)[n]}
  <2>2. 0 \in S
    BY <1>0, SumOneByOne
  <2>3. ASSUME NEW n \in Nat, n \in S PROVE n + 1 \in S
    <3>1. SUFFICES ASSUME n + 1 <= Len(jobs)
                   PROVE  Sum(more, f)[n + 1] = Sum(jobs, f)[n + 1]
      OBVIOUS
    <3>2. /\ n + 1 \in 1 .. Len(jobs) /\ n + 1 \in 1 .. Len(more) /\ (n + 1) - 1 = n
          /\ Sum(more, f)[n] = Sum(jobs, f)[n]
      BY <1>0, <2>3, <3>1
    <3>3. Sum(more, f)[n + 1] = Sum(more, f)[n] + Contribution(more, f, n + 1)
      BY <1>0, <3>2, SumOneByOne
    <3>4. Sum(jobs, f)[n + 1] = Sum(jobs, f)[n] + Contribution(jobs, f, n + 1)
      BY <3>2, SumOneByOne
    <3> QED
      BY <2>1, <3>2, <3>3, <3>4
  <2>4. Nat \subseteq S
    <3> HIDE DEF S
    <3> QED
      BY <2>2, <2>3, SetInduction
  <2>5. Sum(more, f)[Len(jobs)] = Sum(jobs, f)[Len(jobs)]
    BY <1>0, <2>4
  <2>6. Sum(more, f)[next] = Sum(more, f)[Len(jobs)] + Contribution(more, f, next)
    <3>1. next \in 1 .. Len(more) /\ next - 1 = Len(jobs)
      BY <1>0
    <3> QED
      BY <1>0, <3>1, SumOneByOne
  <2>7. Contribution(more, f, next) = IF new THEN value ELSE 0
    BY <1>0, <1>2, <1>3 DEF Contribution
  <2> QED
    BY <2>5, <2>6, <2>7
<1>7. Tally(more, f) =
        [counts |-> [b \in Buckets[f] |->
           Cardinality({i \in Samples(jobs, f) : jobs[i].Requested[f] <= b})
           + (IF new /\ value <= b THEN 1 ELSE 0)],
         count  |-> Cardinality(Samples(jobs, f)) + (IF new THEN 1 ELSE 0),
         sum    |-> Sum(jobs, f)[Len(jobs)] + (IF new THEN value ELSE 0)]
  <2> HIDE DEF next, new, value
  <2> QED
    BY <1>0, <1>4, <1>5, <1>6, TallyParts
<1>8. /\ \A b \in Buckets[f] :
            Cardinality({i \in Samples(jobs, f) : jobs[i].Requested[f] <= b}) \in Nat
      /\ Cardinality(Samples(jobs, f)) \in Nat /\ Sum(jobs, f)[Len(jobs)] \in Nat
  <2>1. \A b \in Buckets[f] :
           IsFiniteSet({i \in Samples(jobs, f) : jobs[i].Requested[f] <= b})
    BY <1>3, FS_Subset
  <2> QED
    BY <1>0, <1>3, <2>1, FS_CardinalityType, SumOneByOne
<1> DEFINE counts == [b \in Buckets[f] |->
                        Cardinality({i \in Samples(jobs, f) : jobs[i].Requested[f] <= b})]
           count == Cardinality(Samples(jobs, f))
           sum == Sum(jobs, f)[Len(jobs)]
<1>11. /\ Tally(jobs, f) = [counts |-> counts, count |-> count, sum |-> sum]
       /\ Tally(more, f) =
             [counts |-> [b \in Buckets[f] |->
                            counts[b] + (IF new /\ value <= b THEN 1 ELSE 0)],
              count  |-> count + (IF new THEN 1 ELSE 0),
              sum    |-> sum + (IF new THEN value ELSE 0)]
       /\ counts \in [Buckets[f] -> Nat] /\ count \in Nat /\ sum \in Nat
  <2> HIDE DEF new, value
  <2> QED
    BY <1>7, <1>8, TallyParts
<1> HIDE DEF counts, count, sum
<1>9. CASE ~new
  <2>1. Tally(more, f) = Tally(jobs, f)
    <3>1. [b \in Buckets[f] |-> counts[b] + (IF new /\ value <= b THEN 1 ELSE 0)] = counts
      <4> HIDE DEF new, value
      <4> QED
        BY <1>9, <1>11
    <3>2. count + (IF new THEN 1 ELSE 0) = count /\ sum + (IF new THEN value ELSE 0) = sum
      <4> HIDE DEF new, value
      <4> QED
        BY <1>9, <1>11
    <3> QED
      BY <1>11, <3>1, <3>2
  <2> QED
    BY <1>9, <2>1 DEF ObserveOptional, more
<1>10. CASE new
  <2>1. Observe(Tally(jobs, f), value) =
          [counts |-> [b \in Buckets[f] |-> counts[b] + (IF value <= b THEN 1 ELSE 0)],
           count  |-> count + 1,
           sum    |-> sum + value]
    <3>1. DOMAIN counts = Buckets[f]
      BY <1>11
    <3>2. [b \in Buckets[f] |-> counts[b] + (IF value <= b THEN 1 ELSE 0)]
          = [b \in DOMAIN counts |-> IF value <= b THEN counts[b] + 1 ELSE counts[b]]
      <4> HIDE DEF value
      <4> QED
        BY <1>11, <3>1
    <3>3. /\ Tally(jobs, f).counts = counts /\ Tally(jobs, f).count = count
          /\ Tally(jobs, f).sum = sum
      BY <1>11
    <3> HIDE DEF value
    <3> QED
      BY <3>2, <3>3 DEF Observe
  <2>2. Tally(more, f) = Observe(Tally(jobs, f), value)
    <3> HIDE DEF new, value
    <3> QED
      BY <1>10, <1>11, <2>1
  <2> QED
    BY <1>10, <2>2 DEF ObserveOptional, more
<1> QED
  BY <1>9, <1>10

\* The tally of jobs as the histograms have observed them, whatever they held.
LEMMA ObservedTally ==
    ASSUME NEW h \in Histograms, NEW old \in Seq(InspectedJobs),
           NEW jobs \in Seq(InspectedJobs), NEW f \in Fields, h[f] = Tally(old, f)
    PROVE  ObserveJobs(h, jobs)[f] = Tally(old \o jobs, f)
<1> DEFINE first(n) == SubSeq(jobs, 1, n)
           S == {n \in Nat : n <= Len(jobs) => After(h, jobs)[n][f] = Tally(old \o first(n), f)}
<1>0. Len(jobs) \in Nat /\ \A n \in 1 .. Len(jobs) : jobs[n] \in InspectedJobs
  OBVIOUS
<1>1. 0 \in S
  <2>1. old \o first(0) = old
    BY SubSeqEmpty, ConcatEmptySeq
  <2> QED
    BY <2>1, ObservedOneByOne
<1>2. ASSUME NEW n \in Nat, n \in S PROVE n + 1 \in S
  <2>1. SUFFICES ASSUME n + 1 <= Len(jobs)
                 PROVE  After(h, jobs)[n + 1][f] = Tally(old \o first(n + 1), f)
    OBVIOUS
  <2>2. /\ n + 1 \in 1 .. Len(jobs) /\ (n + 1) - 1 = n /\ n \in 0 .. Len(jobs)
        /\ After(h, jobs)[n][f] = Tally(old \o first(n), f)
    BY <1>0, <1>2, <2>1
  <2>3. first(n) \in Seq(InspectedJobs) /\ jobs[n + 1] \in InspectedJobs
        /\ old \o first(n) \in Seq(InspectedJobs)
    <3>1. first(n) \in Seq(InspectedJobs)
      <4>1. \A i \in 1 .. n : jobs[i] \in InspectedJobs
        BY <1>0, <2>2
      <4> QED
        BY <4>1, SubSeqProperties
    <3> HIDE DEF first
    <3> QED
      BY <1>0, <2>2, <3>1, ConcatProperties
  <2>4. old \o first(n + 1) = Append(old \o first(n), jobs[n + 1])
    <3>1. first(n + 1) = first(n) \o <<jobs[n + 1]>>
      <4>1. n + 1 \in 1 .. Len(jobs) /\ 1 \in 1 .. Len(jobs) /\ n + 1 \in 1 .. n + 1
            /\ n + 1 \in 1 .. Len(jobs)
        BY <1>0, <2>2
      <4> QED
        BY <2>2, <4>1, SubSeqRecursiveSecond
    <3> HIDE DEF first
    <3>2. <<jobs[n + 1]>> \in Seq(InspectedJobs)
      BY <2>3
    <3>3. (old \o first(n)) \o <<jobs[n + 1]>> = old \o (first(n) \o <<jobs[n + 1]>>)
      BY <2>3, <3>2, ConcatAssociative
    <3>4. Append(old \o first(n), jobs[n + 1]) = (old \o first(n)) \o <<jobs[n + 1]>>
      BY <2>3, AppendIsConcat
    <3> QED
      BY <3>1, <3>3, <3>4
  <2> HIDE DEF first
  <2>5. After(h, jobs)[n + 1] = ObserveJob(After(h, jobs)[n], jobs[n + 1])
    BY <2>2, ObservedOneByOne
  <2>6. Tally(old \o first(n + 1), f) =
           IF jobs[n + 1].JobState = "R"
           THEN ObserveOptional(Tally(old \o first(n), f), jobs[n + 1].Requested[f])
           ELSE Tally(old \o first(n), f)
    BY <2>3, <2>4, TallyOfOneMore
  <2> QED
    BY <2>2, <2>5, <2>6 DEF ObserveJob
<1>3. Nat \subseteq S
  <2> HIDE DEF S
  <2> QED
    BY <1>1, <1>2, SetInduction
<1>4. After(h, jobs)[Len(jobs)][f] = Tally(old \o first(Len(jobs)), f)
  BY <1>0, <1>3
<1> QED
  BY <1>4, ObservedOneByOne, SubSeqFull

-----------------------------------------------------------------------------
(* The inductive invariant. *)

\* What a reader may find in a word.
Values == Nat \union {Nil} \union BOOLEAN \union AnyAccumulators

Types ==
    /\ run \in Nat
    /\ snapshot \in Nat \union {Nil}
    /\ inspected \in BOOLEAN
    /\ histograms \in Histograms
    /\ wpc \in {"idle", "locking", "snapshot", "base", "inspection", "observing"}
    /\ op \in [success : BOOLEAN, jobs : Inspections \union {Nil}]
    /\ ~op.success => op.jobs = Nil
    /\ pending \in Seq(InspectedJobs)
    /\ field \in DOMAIN FieldOrder
    /\ rpc \in [Readers -> {"idle", "waiting", "reading"}]
    /\ method \in [Readers -> Methods \union {Nil}]
    /\ got \in [Readers -> Seq(Values)]
    /\ before \in [run : Nat, snapshot : Nat \union {Nil}, inspected : BOOLEAN,
                   histograms : Histograms]
    /\ ledger \in Seq(InspectedJobs)

\* A reader is inside a method from its call to its return, reads only while
\* the worker is out, and what it has read is what is there.
ReaderKept(r) ==
    /\ rpc[r] = "idle" <=> method[r] = Nil
    /\ rpc[r] # "reading" => got[r] = <<>>
    /\ rpc[r] = "reading" =>
          /\ ~Holding
          /\ Len(got[r]) <= Len(Words(method[r]))
          /\ \A i \in 1 .. Len(got[r]) : got[r][i] = Words(method[r])[i]

LockKept == \A r \in Readers : ReaderKept(r)

\* How many of the jobs of the inspection are observed.
Observed == Len(op.jobs) - Len(pending)

\* What is left to observe is the end of the inspection: the jobs before it are
\* in the histograms, and of the first of it the fields before field.
Observing ==
    /\ Len(pending) <= Len(op.jobs)
    /\ pending = SubSeq(op.jobs, Observed + 1, Len(op.jobs))
    /\ field # 1 => pending # <<>> /\ Head(pending).JobState = "R"
    /\ \A i \in DOMAIN FieldOrder :
          histograms[FieldOrder[i]] =
             After(before.histograms, op.jobs)[IF i < field THEN Observed + 1 ELSE Observed]
                                              [FieldOrder[i]]

\* How far the worker is under the lock.
Writing ==
    /\ wpc = "snapshot" => Content = before
    /\ wpc \in {"base", "inspection", "observing"} =>
          snapshot = IF op.success THEN before.run + 1 ELSE Nil
    /\ wpc = "base" => run = before.run
    /\ wpc \in {"inspection", "observing"} => run = before.run + 1
    /\ wpc \in {"snapshot", "base", "inspection"} =>
          inspected = before.inspected /\ histograms = before.histograms
    /\ wpc = "observing" =>
          /\ inspected = (op.jobs # Nil)
          /\ op.jobs = Nil => pending = <<>> /\ field = 1 /\ histograms = before.histograms
          /\ op.jobs # Nil => Observing

\* Those outside see the tally of all jobs published.
Tallied ==
    \A f \in Fields :
        (IF Holding THEN before.histograms ELSE histograms)[f] = Tally(ledger, f)

IInv == Types /\ LockKept /\ Writing /\ Tallied

-----------------------------------------------------------------------------
(* Types. *)

\* The jobs of an inspection are a sequence.
LEMMA OpJobs ==
    ASSUME op \in [success : BOOLEAN, jobs : Inspections \union {Nil}], op.jobs # Nil
    PROVE  op.jobs \in Seq(InspectedJobs) /\ op.success \in BOOLEAN
BY LockingAssumption

\* The fields are those in the order, and each comes once.
LEMMA FieldsInOrder ==
    /\ Len(FieldOrder) \in Nat \ {0} /\ DOMAIN FieldOrder = 1 .. Len(FieldOrder)
    /\ \A i \in DOMAIN FieldOrder : FieldOrder[i] \in Fields
    /\ \A f \in Fields : \E i \in DOMAIN FieldOrder : FieldOrder[i] = f
    /\ \A i, j \in DOMAIN FieldOrder : FieldOrder[i] = FieldOrder[j] => i = j
<1>1. FieldOrder \in Seq(Fields) /\ FieldOrder # <<>>
  BY HistogramAssumption
<1>2. Len(FieldOrder) \in Nat \ {0} /\ DOMAIN FieldOrder = 1 .. Len(FieldOrder)
  BY <1>1, EmptySeq, LenProperties
<1>3. /\ \A i \in DOMAIN FieldOrder : FieldOrder[i] \in Fields
      /\ \A f \in Fields : \E i \in DOMAIN FieldOrder : FieldOrder[i] = f
  BY DEF Fields
<1> QED
  BY <1>2, <1>3, HistogramAssumption

\* New histograms are histograms, of no samples.
LEMMA NewHistogramsTally ==
    /\ NewHistograms \in Histograms
    /\ \A f \in Fields : NewHistograms[f] = Tally(<<>>, f)
<1>1. \A f \in Fields : NewAccumulator(f) \in Accumulators(f)
  BY DEF NewAccumulator, Accumulators
<1>2. NewHistograms \in Histograms
  BY <1>1, HistogramsByField DEF NewHistograms
<1> QED
  BY <1>2, TallyOfNone DEF NewHistograms

\* One field of one job observed leaves histograms.
LEMMA FieldObserved ==
    ASSUME NEW h \in Histograms, NEW f \in Fields, NEW value \in Nat \union {Unset}
    PROVE  /\ [h EXCEPT ![f] = ObserveOptional(@, value)] \in Histograms
           /\ [h EXCEPT ![f] = ObserveOptional(@, value)][f] = ObserveOptional(h[f], value)
           /\ \A g \in Fields : g # f =>
                 [h EXCEPT ![f] = ObserveOptional(@, value)][g] = h[g]
<1> DEFINE new == [h EXCEPT ![f] = ObserveOptional(@, value)]
<1>1. h \in [Fields -> AnyAccumulators] /\ \A g \in Fields : h[g] \in Accumulators(g)
  BY DEF Histograms
<1>2. ObserveOptional(h[f], value) \in Accumulators(f)
  BY <1>1, ObservedType
<1>3. \A g \in Fields : new[g] = IF g = f THEN ObserveOptional(h[f], value) ELSE h[g]
  BY <1>1
<1>4. \A g \in Fields : new[g] \in Accumulators(g)
  BY <1>1, <1>2, <1>3
<1>5. new = [g \in Fields |-> new[g]]
  BY <1>1
<1>6. new \in Histograms
  <2> HIDE DEF new
  <2> QED
    BY <1>4, <1>5, HistogramsByField
<1> QED
  BY <1>3, <1>6

\* The words of a method, and their number.
LEMMA WordsTyped ==
    ASSUME Types
    PROVE  \A m \in Methods : Words(m) \in Seq(Values)
<1>1. run \in Values /\ inspected \in Values /\ snapshot \in Values
  BY DEF Types, Values
<1>2. \A f \in Fields : histograms[f] \in Values
  BY DEF Types, Values, Histograms
<1>3. [i \in DOMAIN FieldOrder |-> histograms[FieldOrder[i]]] \in Seq(Values)
  <2> DEFINE words == [i \in DOMAIN FieldOrder |-> histograms[FieldOrder[i]]]
             N == Len(FieldOrder)
  <2>1. N \in Nat /\ DOMAIN FieldOrder = 1 .. N
    BY FieldsInOrder
  <2>2. words \in [1 .. N -> Values]
    BY <1>2, <2>1, FieldsInOrder
  <2> HIDE DEF words, N
  <2>3. words \in UNION {[1 .. n -> Values] : n \in Nat}
    BY <2>1, <2>2
  <2> QED
    BY <2>3, SeqDef DEF words
<1> QED
  BY <1>1, <1>3 DEF Words, Methods

\* The store begins empty, and every goroutine outside it.
LEMMA TypesInit == Init => Types
<1>1. SUFFICES ASSUME Init PROVE Types
  OBVIOUS
<1>2. 1 \in DOMAIN FieldOrder
  BY FieldsInOrder
<1>3. <<>> \in Seq(InspectedJobs) /\ <<>> \in Seq(Values)
  OBVIOUS
<1> QED
  BY <1>1, <1>2, <1>3, NewHistogramsTally DEF Init, Types, Content

\* No step leaves the types.
LEMMA TypesStep == ASSUME Types, LockKept, [Next]_vars PROVE Types'
<1> USE DEF Types
<1>1. CASE CallWrite
  <2>1. op' \in [success : BOOLEAN, jobs : Inspections \union {Nil}]
        /\ (~op'.success => op'.jobs = Nil)
    <3>1. \/ op' = [success |-> FALSE, jobs |-> Nil]
          \/ \E jobs \in Inspections \union {Nil} : op' = [success |-> TRUE, jobs |-> jobs]
      BY <1>1 DEF CallWrite
    <3>2. CASE op' = [success |-> FALSE, jobs |-> Nil]
      BY <3>2
    <3>3. ASSUME NEW jobs \in Inspections \union {Nil}, op' = [success |-> TRUE, jobs |-> jobs]
          PROVE  op' \in [success : BOOLEAN, jobs : Inspections \union {Nil}]
                 /\ (~op'.success => op'.jobs = Nil)
      BY <3>3
    <3> QED
      BY <3>1, <3>2, <3>3
  <2>2. wpc' = "locking" /\ UNCHANGED <<memory, pending, field, before, ledger, readerVars>>
    BY <1>1 DEF CallWrite
  <2> QED
    BY <2>1, <2>2 DEF memory, readerVars
<1>2. CASE Lock
  BY <1>2 DEF Lock, memory, readerVars, Content
<1>3. CASE WriteSnapshot
  BY <1>3 DEF WriteSnapshot, readerVars
<1>4. CASE WriteBase
  BY <1>4 DEF WriteBase, readerVars
<1>5. CASE WriteInspection
  <2>1. pending' \in Seq(InspectedJobs)
    BY <1>5, OpJobs DEF WriteInspection
  <2>2. 1 \in DOMAIN FieldOrder
    BY FieldsInOrder
  <2> QED
    BY <1>5, <2>1, <2>2 DEF WriteInspection, readerVars
<1>6. CASE SkipJob
  BY <1>6, HeadTailProperties DEF SkipJob, memory, readerVars
<1>7. CASE ObserveField
  <2>1. Head(pending) \in InspectedJobs /\ Tail(pending) \in Seq(InspectedJobs)
    BY <1>7, HeadTailProperties DEF ObserveField
  <2>2. FieldOrder[field] \in Fields
    BY FieldsInOrder
  <2>3. Head(pending).Requested[FieldOrder[field]] \in Nat \union {Unset}
    BY <2>1, <2>2 DEF InspectedJobs
  <2>4. histograms' \in Histograms
    BY <1>7, <2>2, <2>3, FieldObserved DEF ObserveField
  <2>5. field' \in DOMAIN FieldOrder
    BY <1>7, FieldsInOrder DEF ObserveField
  <2>6. pending' \in Seq(InspectedJobs)
    BY <1>7, <2>1 DEF ObserveField
  <2> QED
    BY <1>7, <2>4, <2>5, <2>6 DEF ObserveField, readerVars
<1>8. CASE Unlock
  <2>1. ledger' \in Seq(InspectedJobs)
    BY <1>8, OpJobs, ConcatProperties DEF Unlock
  <2>2. rpc' \in [Readers -> {"idle", "waiting", "reading"}]
    BY <1>8 DEF Unlock
  <2> QED
    BY <1>8, <2>1, <2>2 DEF Unlock, memory
<1>9. ASSUME NEW r \in Readers, RLock(r) PROVE Types'
  <2>1. method' \in [Readers -> Methods \union {Nil}]
    BY <1>9 DEF RLock
  <2>2. rpc' \in [Readers -> {"idle", "waiting", "reading"}]
    BY <1>9 DEF RLock
  <2> QED
    BY <1>9, <2>1, <2>2 DEF RLock, memory, writerVars
<1>10. ASSUME NEW r \in Readers, ReadWord(r) PROVE Types'
  <2>1. Words(method[r]) \in Seq(Values)
    <3>1. method[r] \in Methods
      BY <1>10 DEF ReadWord, LockKept, ReaderKept
    <3> QED
      BY <3>1, WordsTyped
  <2>2. Words(method[r])[Len(got[r]) + 1] \in Values
    <3>1. got[r] \in Seq(Values) /\ Len(got[r]) \in Nat
      OBVIOUS
    <3>2. Len(Words(method[r])) \in Nat /\ Len(got[r]) < Len(Words(method[r]))
      BY <1>10, <2>1 DEF ReadWord
    <3>3. Len(got[r]) + 1 \in 1 .. Len(Words(method[r]))
      BY <3>1, <3>2
    <3> QED
      BY <2>1, <3>3, ElementOfSeq
  <2>3. got' \in [Readers -> Seq(Values)]
    BY <1>10, <2>2, AppendProperties DEF ReadWord
  <2> QED
    BY <1>10, <2>3 DEF ReadWord, memory, writerVars
<1>11. ASSUME NEW r \in Readers, RUnlock(r) PROVE Types'
  <2>1. method' \in [Readers -> Methods \union {Nil}]
    BY <1>11 DEF RUnlock
  <2>2. rpc' \in [Readers -> {"idle", "waiting", "reading"}]
    BY <1>11 DEF RUnlock
  <2>3. got' \in [Readers -> Seq(Values)]
    <3>1. <<>> \in Seq(Values)
      OBVIOUS
    <3> QED
      BY <1>11, <3>1 DEF RUnlock
  <2> QED
    BY <1>11, <2>1, <2>2, <2>3 DEF RUnlock, memory, writerVars
<1>12. CASE UNCHANGED vars
  BY <1>12 DEF vars, memory, writerVars, readerVars
<1> QED
  BY <1>1, <1>2, <1>3, <1>4, <1>5, <1>6, <1>7, <1>8, <1>9, <1>10, <1>11, <1>12
     DEF Next, Write

-----------------------------------------------------------------------------
(* The lock. *)

\* At first nobody holds the lock or waits for it.
LEMMA LockInit == Init => LockKept
BY LockingAssumption DEF Init, LockKept, ReaderKept, Methods

\* While nobody reads, the worker may do what it likes to memory.
LEMMA NobodyReads ==
    ASSUME LockKept, UNCHANGED <<rpc, method, got>>, \A r \in Readers : rpc[r] # "reading"
    PROVE  LockKept'
BY DEF LockKept, ReaderKept

\* Who holds the lock is alone.
LEMMA AloneInside == LockKept /\ Holding => \A r \in Readers : rpc[r] # "reading"
BY DEF LockKept, ReaderKept

\* The words of the method a reader is in.
LEMMA WordsOfReader ==
    ASSUME UNCHANGED memory, NEW r, NEW m, method'[r] = m
    PROVE  Words(method[r])' = Words(m)
BY DEF memory, Words

\* A reader whose variables a step leaves alone reads on.
LEMMA ReadsOn ==
    ASSUME NEW r \in Readers, ReaderKept(r), UNCHANGED memory, Holding' = Holding,
           rpc'[r] = rpc[r], method'[r] = method[r], got'[r] = got[r]
    PROVE  ReaderKept(r)'
<1>1. Words(method[r])' = Words(method[r])
  BY WordsOfReader
<1> QED
  BY <1>1 DEF ReaderKept

\* The steps hand the lock over and keep writer and readers apart.
LEMMA LockStep == ASSUME Types, LockKept, [Next]_vars PROVE LockKept'
<1>1. CASE CallWrite
  <2>1. UNCHANGED <<rpc, method, got>> /\ Holding' = Holding /\ UNCHANGED memory
    BY <1>1 DEF CallWrite, Holding, readerVars
  <2> QED
    BY <2>1, ReadsOn DEF LockKept
<1>2. CASE Lock
  BY <1>2, NobodyReads DEF Lock, readerVars
<1>3. CASE WriteSnapshot
  BY <1>3, AloneInside, NobodyReads DEF WriteSnapshot, readerVars, Holding
<1>4. CASE WriteBase
  BY <1>4, AloneInside, NobodyReads DEF WriteBase, readerVars, Holding
<1>5. CASE WriteInspection
  BY <1>5, AloneInside, NobodyReads DEF WriteInspection, readerVars, Holding
<1>6. CASE SkipJob
  BY <1>6, AloneInside, NobodyReads DEF SkipJob, readerVars, Holding
<1>7. CASE ObserveField
  BY <1>7, AloneInside, NobodyReads DEF ObserveField, readerVars, Holding
<1>8. CASE Unlock
  <2>1. ASSUME NEW r \in Readers PROVE ReaderKept(r)'
    <3>1. rpc[r] # "reading" /\ got[r] = <<>> /\ (rpc[r] = "idle" <=> method[r] = Nil)
      BY <1>8, AloneInside DEF Unlock, Holding, LockKept, ReaderKept
    <3>2. rpc'[r] = IF rpc[r] = "waiting" THEN "reading" ELSE rpc[r]
      BY <1>8 DEF Unlock
    <3>3. method'[r] = method[r] /\ got'[r] = got[r] /\ ~Holding' /\ UNCHANGED memory
      BY <1>8 DEF Unlock, Holding
    <3>4. ASSUME rpc'[r] = "reading" PROVE Len(Words(method[r])') \in Nat
      <4>1. method[r] \in Methods
        BY <3>1, <3>2, <3>4 DEF Types
      <4>2. Words(method[r])' = Words(method[r])
        BY <3>3, WordsOfReader
      <4> QED
        BY <4>1, <4>2, WordsTyped
    <3> QED
      BY <3>1, <3>2, <3>3, <3>4 DEF ReaderKept
  <2> QED
    BY <2>1 DEF LockKept
<1>9. ASSUME NEW r \in Readers, RLock(r) PROVE LockKept'
  <2>1. PICK m \in Methods : method' = [method EXCEPT ![r] = m]
    BY <1>9 DEF RLock
  <2>2. UNCHANGED memory /\ Holding' = Holding /\ wpc' = wpc /\ got' = got
    BY <1>9 DEF RLock, writerVars, Holding
  <2>3. method'[r] = m /\ m # Nil /\ got[r] = <<>>
        /\ rpc'[r] = IF wpc = "idle" THEN "reading" ELSE "waiting"
    BY <1>9, <2>1, LockingAssumption DEF RLock, Types, LockKept, ReaderKept
  <2>4. Words(method[r])' = Words(m) /\ Len(Words(m)) \in Nat
    BY <2>2, <2>3, WordsOfReader, WordsTyped
  <2>5. ReaderKept(r)'
    BY <2>2, <2>3, <2>4 DEF ReaderKept, Holding
  <2>6. ASSUME NEW s \in Readers, s # r PROVE ReaderKept(s)'
    <3>1. rpc'[s] = rpc[s] /\ method'[s] = method[s] /\ got'[s] = got[s]
      BY <1>9, <2>1, <2>6 DEF RLock, Types
    <3> QED
      BY <2>2, <3>1, ReadsOn DEF LockKept
  <2> QED
    BY <2>5, <2>6 DEF LockKept
<1>10. ASSUME NEW r \in Readers, ReadWord(r) PROVE LockKept'
  <2>1. UNCHANGED <<memory, rpc, method>> /\ Holding' = Holding
    BY <1>10 DEF ReadWord, writerVars, Holding
  <2>2. /\ method[r] \in Methods /\ rpc[r] = "reading" /\ ~Holding
        /\ \A i \in 1 .. Len(got[r]) : got[r][i] = Words(method[r])[i]
    BY <1>10 DEF ReadWord, LockKept, ReaderKept, Types
  <2>3. Words(method[r]) \in Seq(Values) /\ got[r] \in Seq(Values)
        /\ Len(got[r]) < Len(Words(method[r]))
    BY <1>10, <2>2, WordsTyped DEF ReadWord, Types
  <2>4. got'[r] = Append(got[r], Words(method[r])[Len(got[r]) + 1])
    BY <1>10 DEF ReadWord, Types
  <2>5. Len(got'[r]) <= Len(Words(method[r]))
        /\ \A i \in 1 .. Len(got'[r]) : got'[r][i] = Words(method[r])[i]
    <3>1. Len(got[r]) \in Nat /\ Len(Words(method[r])) \in Nat
      BY <2>3
    <3>2. Words(method[r])[Len(got[r]) + 1] \in Values
      BY <2>3, <3>1, ElementOfSeq
    <3> DEFINE n == Len(got[r])
               w == Words(method[r])
    <3>3. /\ Len(got'[r]) = n + 1
          /\ \A i \in 1 .. n : got'[r][i] = got[r][i]
          /\ got'[r][n + 1] = w[n + 1]
      BY <2>3, <2>4, <3>2, AppendProperties
    <3>4. n \in Nat /\ Len(w) \in Nat /\ n < Len(w) /\ \A i \in 1 .. n : got[r][i] = w[i]
      BY <2>2, <2>3, <3>1
    <3> HIDE DEF n, w
    <3>5. \A i \in 1 .. n + 1 : got'[r][i] = w[i]
      <4>1. \A i \in 1 .. n + 1 : i \in 1 .. n \/ i = n + 1
        BY <3>4
      <4> QED
        BY <3>3, <3>4, <4>1
    <3>6. Len(got'[r]) = n + 1 /\ n + 1 <= Len(w)
      BY <3>3, <3>4
    <3> QED
      BY <3>5, <3>6 DEF w
  <2>6. ReaderKept(r)'
    <3>1. Words(method[r])' = Words(method[r])
      BY <2>1, WordsOfReader
    <3>2. method[r] # Nil
      BY <1>10 DEF ReadWord, LockKept, ReaderKept
    <3> QED
      BY <2>1, <2>2, <2>5, <3>1, <3>2 DEF ReaderKept
  <2>7. ASSUME NEW s \in Readers, s # r PROVE ReaderKept(s)'
    <3>1. rpc'[s] = rpc[s] /\ method'[s] = method[s] /\ got'[s] = got[s]
      BY <1>10, <2>1, <2>7 DEF ReadWord, Types
    <3> QED
      BY <2>1, <3>1, ReadsOn DEF LockKept
  <2> QED
    BY <2>6, <2>7 DEF LockKept
<1>11. ASSUME NEW r \in Readers, RUnlock(r) PROVE LockKept'
  <2>1. UNCHANGED memory /\ Holding' = Holding
    BY <1>11 DEF RUnlock, writerVars, Holding
  <2>2. ReaderKept(r)'
    <3>1. rpc'[r] = "idle" /\ method'[r] = Nil /\ got'[r] = <<>>
      BY <1>11 DEF RUnlock, Types
    <3> QED
      BY <3>1 DEF ReaderKept
  <2>3. ASSUME NEW s \in Readers, s # r PROVE ReaderKept(s)'
    <3>1. rpc'[s] = rpc[s] /\ method'[s] = method[s] /\ got'[s] = got[s]
      BY <1>11, <2>3 DEF RUnlock, Types
    <3> QED
      BY <2>1, <3>1, ReadsOn DEF LockKept
  <2> QED
    BY <2>2, <2>3 DEF LockKept
<1>12. CASE UNCHANGED vars
  <2>1. UNCHANGED <<rpc, method, got>> /\ Holding' = Holding /\ UNCHANGED memory
    BY <1>12 DEF vars, writerVars, readerVars, Holding
  <2> QED
    BY <2>1, ReadsOn DEF LockKept
<1> QED
  BY <1>1, <1>2, <1>3, <1>4, <1>5, <1>6, <1>7, <1>8, <1>9, <1>10, <1>11, <1>12
     DEF Next, Write

-----------------------------------------------------------------------------
(* The worker under the lock. *)

\* At first nothing is being written.
LEMMA WritingInit == Init => Writing
BY DEF Init, Writing

\* The first job left is the next of the inspection.
LEMMA NextJob ==
    ASSUME Types, op.jobs # Nil, Observing, pending # <<>>
    PROVE  /\ op.jobs \in Seq(InspectedJobs) /\ Observed \in Nat
           /\ Observed + 1 \in 1 .. Len(op.jobs)
           /\ Head(pending) = op.jobs[Observed + 1] /\ Head(pending) \in InspectedJobs
           /\ Tail(pending) = SubSeq(op.jobs, (Observed + 1) + 1, Len(op.jobs))
           /\ Tail(pending) \in Seq(InspectedJobs)
           /\ Len(op.jobs) - Len(Tail(pending)) = Observed + 1
           /\ Len(Tail(pending)) <= Len(op.jobs)
           /\ After(before.histograms, op.jobs)[Observed + 1] =
                 ObserveJob(After(before.histograms, op.jobs)[Observed], Head(pending))
           /\ After(before.histograms, op.jobs)[Observed] \in Histograms
<1>1. op.jobs \in Seq(InspectedJobs) /\ before.histograms \in Histograms
      /\ pending \in Seq(InspectedJobs)
  BY OpJobs DEF Types
<1>2. Len(op.jobs) \in Nat /\ Len(pending) \in Nat \ {0} /\ Len(pending) <= Len(op.jobs)
  BY <1>1, EmptySeq DEF Observing
<1>3. Observed \in Nat /\ Observed + 1 \in 1 .. Len(op.jobs)
      /\ Len(op.jobs) \in Observed + 1 .. Len(op.jobs) /\ (Observed + 1) - 1 = Observed
      /\ Observed \in 0 .. Len(op.jobs)
  BY <1>2 DEF Observed
<1>4. pending = SubSeq(op.jobs, Observed + 1, Len(op.jobs))
  BY DEF Observing
<1>5. Head(pending) = op.jobs[Observed + 1]
      /\ Tail(pending) = SubSeq(op.jobs, (Observed + 1) + 1, Len(op.jobs))
  BY <1>1, <1>3, <1>4, HeadTailOfSubSeq
<1>6. Head(pending) \in InspectedJobs /\ Tail(pending) \in Seq(InspectedJobs)
      /\ Len(Tail(pending)) = Len(pending) - 1
  BY <1>1, HeadTailProperties
<1>7. Len(op.jobs) - Len(Tail(pending)) = Observed + 1 /\ Len(Tail(pending)) <= Len(op.jobs)
  BY <1>2, <1>6 DEF Observed
<1>8. /\ After(before.histograms, op.jobs)[Observed + 1] =
            ObserveJob(After(before.histograms, op.jobs)[Observed], op.jobs[Observed + 1])
      /\ After(before.histograms, op.jobs)[Observed] \in Histograms
  <2> DEFINE after == After(before.histograms, op.jobs)
  <2>1. /\ after \in [0 .. Len(op.jobs) -> Histograms]
        /\ \A n \in 1 .. Len(op.jobs) : after[n] = ObserveJob(after[n - 1], op.jobs[n])
    BY <1>1, ObservedOneByOne
  <2> HIDE DEF after
  <2>2. after[Observed + 1] = ObserveJob(after[(Observed + 1) - 1], op.jobs[Observed + 1])
    BY <1>3, <2>1
  <2>3. after[Observed] \in Histograms
    BY <1>3, <2>1
  <2> QED
    BY <1>3, <2>2, <2>3 DEF after
<1> QED
  BY <1>1, <1>3, <1>5, <1>6, <1>7, <1>8

\* A job that does not run is passed over.
LEMMA SkipKeepsObserving ==
    ASSUME Types, op.jobs # Nil, Observing, SkipJob
    PROVE  Observing'
<1> DEFINE at == Observed
           after == After(before.histograms, op.jobs)
<1>1. /\ pending # <<>> /\ Head(pending).JobState # "R" /\ pending' = Tail(pending)
      /\ op' = op /\ field' = field /\ before' = before /\ histograms' = histograms
  BY DEF SkipJob, memory
<1>2. field = 1 /\ field \in DOMAIN FieldOrder
  BY <1>1 DEF Observing, Types
<1>3. Observed' = at + 1
  BY <1>1, NextJob DEF Observed
<1>4. after[at + 1] = after[at]
  BY <1>1, NextJob DEF ObserveJob
<1>5. \A i \in DOMAIN FieldOrder : ~(i < 1)
  BY FieldsInOrder
<1>6. \A i \in DOMAIN FieldOrder : histograms[FieldOrder[i]] = after[at][FieldOrder[i]]
  BY <1>2, <1>5 DEF Observing
<1>7. \A i \in DOMAIN FieldOrder :
         histograms'[FieldOrder[i]] =
            After(before'.histograms, op'.jobs)
               [IF i < field' THEN Observed' + 1 ELSE Observed'][FieldOrder[i]]
  <2> HIDE DEF at
  <2> QED
    BY <1>1, <1>2, <1>3, <1>4, <1>5, <1>6
<1>8. pending' = SubSeq(op'.jobs, Observed' + 1, Len(op'.jobs))
      /\ Len(pending') <= Len(op'.jobs)
  BY <1>1, <1>3, NextJob
<1> QED
  BY <1>1, <1>2, <1>7, <1>8 DEF Observing

\* One field more of the first job left is in the histograms; after the last
\* field the job is.
LEMMA FieldKeepsObserving ==
    ASSUME Types, op.jobs # Nil, Observing, ObserveField
    PROVE  Observing'
<1> DEFINE at == Observed
           after == After(before.histograms, op.jobs)
           job == Head(pending)
           name == FieldOrder[field]
<1>1. /\ pending # <<>> /\ job.JobState = "R"
      /\ histograms' = [histograms EXCEPT ![name] = ObserveOptional(@, job.Requested[name])]
      /\ op' = op /\ before' = before
  BY DEF ObserveField
<1>2. /\ field \in DOMAIN FieldOrder /\ histograms \in Histograms
      /\ name \in Fields /\ job.Requested[name] \in Nat \union {Unset}
  <2>1. field \in DOMAIN FieldOrder /\ histograms \in Histograms
    BY DEF Types
  <2>2. job \in InspectedJobs
    BY <1>1, NextJob
  <2>3. name \in Fields
    BY <2>1, FieldsInOrder
  <2> QED
    BY <2>1, <2>2, <2>3 DEF InspectedJobs
<1>3. \A f \in Fields : after[at + 1][f] = ObserveOptional(after[at][f], job.Requested[f])
  BY <1>1, NextJob DEF ObserveJob
<1>4. \A i \in DOMAIN FieldOrder :
         histograms[FieldOrder[i]] = after[IF i < field THEN at + 1 ELSE at][FieldOrder[i]]
  BY DEF Observing
<1>5. /\ histograms'[name] = ObserveOptional(histograms[name], job.Requested[name])
      /\ \A g \in Fields : g # name => histograms'[g] = histograms[g]
  <2> HIDE DEF job, name
  <2> QED
    BY <1>1, <1>2, FieldObserved
<1>6. \A i \in DOMAIN FieldOrder :
         histograms'[FieldOrder[i]] = after[IF i <= field THEN at + 1 ELSE at][FieldOrder[i]]
  <2>1. SUFFICES ASSUME NEW i \in DOMAIN FieldOrder
                 PROVE  histograms'[FieldOrder[i]] =
                          after[IF i <= field THEN at + 1 ELSE at][FieldOrder[i]]
    OBVIOUS
  <2>2. i \in Nat /\ field \in Nat /\ FieldOrder[i] \in Fields
        /\ (FieldOrder[i] = name => i = field)
    BY <1>2, FieldsInOrder
  <2> HIDE DEF at, after, job
  <2>3. CASE i = field
    <3>1. histograms[name] = after[at][name]
      BY <1>2, <1>4, <2>2
    <3>2. histograms'[name] = after[at + 1][name]
      BY <1>2, <1>3, <1>5, <3>1
    <3> QED
      BY <2>2, <2>3, <3>2
  <2>4. CASE i # field
    <3>1. histograms'[FieldOrder[i]] = histograms[FieldOrder[i]]
      BY <1>5, <2>2, <2>4
    <3>2. (IF i <= field THEN at + 1 ELSE at) = (IF i < field THEN at + 1 ELSE at)
      BY <2>2, <2>4
    <3> QED
      BY <1>4, <3>1, <3>2
  <2> QED
    BY <2>3, <2>4
<1>7. CASE field = Len(FieldOrder)
  <2>1. field' = 1 /\ pending' = Tail(pending)
    BY <1>7 DEF ObserveField
  <2>2. Observed' = at + 1
    BY <1>1, <2>1, NextJob DEF Observed
  <2>3. \A i \in DOMAIN FieldOrder : i <= field /\ ~(i < 1)
    BY <1>7, FieldsInOrder
  <2>4. \A i \in DOMAIN FieldOrder :
           histograms'[FieldOrder[i]] =
              After(before'.histograms, op'.jobs)
                 [IF i < field' THEN Observed' + 1 ELSE Observed'][FieldOrder[i]]
    <3> HIDE DEF at
    <3> QED
      BY <1>1, <1>6, <2>1, <2>2, <2>3
  <2>5. pending' = SubSeq(op'.jobs, Observed' + 1, Len(op'.jobs))
        /\ Len(pending') <= Len(op'.jobs)
    BY <1>1, <2>1, <2>2, NextJob
  <2> QED
    BY <2>1, <2>4, <2>5 DEF Observing
<1>8. CASE field # Len(FieldOrder)
  <2>1. field' = field + 1 /\ pending' = pending
    BY <1>8 DEF ObserveField
  <2>2. Observed' = at
    BY <1>1, <2>1 DEF Observed
  <2>3. \A i \in DOMAIN FieldOrder : i < field + 1 <=> i <= field
    BY <1>2, FieldsInOrder
  <2>4. \A i \in DOMAIN FieldOrder :
           histograms'[FieldOrder[i]] =
              After(before'.histograms, op'.jobs)
                 [IF i < field' THEN Observed' + 1 ELSE Observed'][FieldOrder[i]]
    <3> HIDE DEF at
    <3> QED
      BY <1>1, <1>6, <2>1, <2>2, <2>3
  <2>5. pending' = SubSeq(op'.jobs, Observed' + 1, Len(op'.jobs))
        /\ Len(pending') <= Len(op'.jobs)
    BY <1>1, <2>1, <2>2 DEF Observing
  <2> QED
    BY <1>1, <2>1, <2>4, <2>5 DEF Observing
<1> QED
  BY <1>7, <1>8

\* A step of the worker writes the next word, the other steps write nothing.
LEMMA WritingStep == ASSUME Types, Writing, [Next]_vars PROVE Writing'
<1>1. CASE CallWrite
  BY <1>1 DEF CallWrite, Writing
<1>2. CASE Lock
  <2>1. wpc' = "snapshot" /\ before' = Content /\ UNCHANGED memory
    BY <1>2 DEF Lock
  <2>2. Content' = Content
    BY <2>1 DEF memory, Content
  <2>3. histograms' = before'.histograms /\ inspected' = before'.inspected
    BY <2>1 DEF memory, Content
  <2> QED
    BY <2>1, <2>2, <2>3 DEF Writing
<1>3. CASE WriteSnapshot
  <2>1. run = before.run
    BY <1>3 DEF Writing, WriteSnapshot, Content
  <2> QED
    BY <1>3, <2>1 DEF Writing, WriteSnapshot
<1>4. CASE WriteBase
  BY <1>4 DEF Writing, WriteBase
<1>5. CASE WriteInspection
  <2>1. /\ run' = before'.run + 1 /\ wpc' = "observing" /\ inspected' = (op'.jobs # Nil)
        /\ snapshot' = IF op'.success THEN before'.run + 1 ELSE Nil
        /\ histograms' = before'.histograms /\ field' = 1 /\ op' = op /\ before' = before
        /\ pending' = IF op.jobs = Nil THEN <<>> ELSE op.jobs
    BY <1>5 DEF Writing, WriteInspection
  <2>2. CASE op.jobs = Nil
    BY <2>1, <2>2 DEF Writing
  <2>3. CASE op.jobs # Nil
    <3>1. op.jobs \in Seq(InspectedJobs) /\ Len(op.jobs) \in Nat
          /\ before.histograms \in Histograms
      BY <2>3, OpJobs DEF Types
    <3>2. Observed' = 0
      BY <2>1, <2>3, <3>1 DEF Observed
    <3>3. pending' = SubSeq(op'.jobs, Observed' + 1, Len(op'.jobs))
          /\ Len(pending') <= Len(op'.jobs)
      BY <2>1, <2>3, <3>1, <3>2, SubSeqFull
    <3>4. After(before'.histograms, op'.jobs)[0] = histograms'
      BY <2>1, <3>1, ObservedOneByOne
    <3>5. \A i \in DOMAIN FieldOrder :
             histograms'[FieldOrder[i]] =
                After(before'.histograms, op'.jobs)
                   [IF i < field' THEN Observed' + 1 ELSE Observed'][FieldOrder[i]]
      <4>1. \A i \in DOMAIN FieldOrder : ~(i < field')
        BY <2>1, FieldsInOrder
      <4> QED
        BY <3>2, <3>4, <4>1
    <3>6. Observing'
      BY <2>1, <3>3, <3>5 DEF Observing
    <3> QED
      BY <2>1, <2>3, <3>6 DEF Writing
  <2> QED
    BY <2>2, <2>3
<1>6. CASE SkipJob
  <2>1. op.jobs # Nil /\ Observing
    BY <1>6 DEF SkipJob, Writing
  <2>2. Observing'
    BY <1>6, <2>1, SkipKeepsObserving
  <2> QED
    BY <1>6, <2>1, <2>2 DEF SkipJob, Writing, memory
<1>7. CASE ObserveField
  <2>1. op.jobs # Nil /\ Observing
    BY <1>7 DEF ObserveField, Writing
  <2>2. Observing'
    BY <1>7, <2>1, FieldKeepsObserving
  <2> QED
    BY <1>7, <2>1, <2>2 DEF ObserveField, Writing
<1>8. CASE Unlock
  BY <1>8 DEF Unlock, Writing
<1>9. CASE UNCHANGED <<memory, writerVars>>
  <2>1. UNCHANGED <<run, snapshot, inspected, histograms, wpc, op, pending, field, before>>
    BY <1>9 DEF memory, writerVars
  <2>2. Content' = Content /\ Observing' = Observing
    BY <2>1 DEF Content, Observing, Observed
  <2> QED
    BY <2>1, <2>2 DEF Writing
<1>10. ASSUME NEW r \in Readers, RLock(r) \/ ReadWord(r) \/ RUnlock(r) PROVE Writing'
  BY <1>9, <1>10 DEF RLock, ReadWord, RUnlock
<1>11. CASE UNCHANGED vars
  BY <1>9, <1>11 DEF vars
<1> QED
  BY <1>1, <1>2, <1>3, <1>4, <1>5, <1>6, <1>7, <1>8, <1>10, <1>11 DEF Next, Write

-----------------------------------------------------------------------------
(* What is published. *)

\* No sample makes no tally.
LEMMA TalliedInit == Init => Tallied
BY NewHistogramsTally DEF Init, Tallied, Holding

\* When the worker leaves, it has published what AtomicStore says it does.
LEMMA PublishedWhole ==
    ASSUME Types, Writing, Unlock
    PROVE  /\ Content = IF op.success THEN [run        |-> before.run + 1,
                                            snapshot   |-> before.run + 1,
                                            inspected  |-> op.jobs # Nil,
                                            histograms |-> histograms]
                                      ELSE [run        |-> before.run + 1,
                                            snapshot   |-> Nil,
                                            inspected  |-> FALSE,
                                            histograms |-> before.histograms]
           /\ op.jobs = Nil => histograms = before.histograms
           /\ op.jobs # Nil => histograms = ObserveJobs(before.histograms, op.jobs)
<1>1. /\ wpc = "observing" /\ pending = <<>>
      /\ run = before.run + 1 /\ inspected = (op.jobs # Nil)
      /\ snapshot = IF op.success THEN before.run + 1 ELSE Nil
      /\ ~op.success => op.jobs = Nil
      /\ op.jobs = Nil => histograms = before.histograms
  BY DEF Unlock, Writing, Types
<1>2. ASSUME op.jobs # Nil PROVE histograms = ObserveJobs(before.histograms, op.jobs)
  <2>1. op.jobs \in Seq(InspectedJobs) /\ Len(op.jobs) \in Nat
        /\ before.histograms \in Histograms /\ histograms \in Histograms
    BY <1>2, OpJobs DEF Types
  <2>2. field = 1 /\ Observed = Len(op.jobs)
    <3>1. field = 1
      BY <1>1, <1>2 DEF Writing, Observing
    <3>2. Len(pending) = 0
      BY <1>1, EmptySeq
    <3> QED
      BY <2>1, <3>1, <3>2 DEF Observed
  <2> DEFINE final == ObserveJobs(before.histograms, op.jobs)
  <2>3. After(before.histograms, op.jobs)[Len(op.jobs)] = final /\ final \in Histograms
    BY <2>1, ObservedOneByOne
  <2>4. \A i \in DOMAIN FieldOrder : histograms[FieldOrder[i]] = final[FieldOrder[i]]
    <3>1. \A i \in DOMAIN FieldOrder : ~(i < field)
      BY <2>2, FieldsInOrder
    <3>2. \A i \in DOMAIN FieldOrder :
             histograms[FieldOrder[i]] =
                After(before.histograms, op.jobs)[IF i < field THEN Observed + 1 ELSE Observed]
                                                 [FieldOrder[i]]
      BY <1>1, <1>2 DEF Writing, Observing
    <3> HIDE DEF final
    <3> QED
      BY <2>2, <2>3, <3>1, <3>2
  <2> HIDE DEF final
  <2>5. \A f \in Fields : histograms[f] = final[f]
    BY <2>4, FieldsInOrder
  <2>6. histograms \in [Fields -> AnyAccumulators] /\ final \in [Fields -> AnyAccumulators]
    BY <2>1, <2>3 DEF Histograms
  <2> QED
    BY <2>5, <2>6 DEF final
<1> QED
  BY <1>1, <1>2 DEF Content

\* The ledger grows by the jobs of an inspection as the last of them is observed.
LEMMA TalliedStep == ASSUME Types, Writing, Tallied, [Next]_vars PROVE Tallied'
<1>1. CASE CallWrite
  BY <1>1 DEF CallWrite, Tallied, Holding, memory
<1>2. CASE Lock
  BY <1>2 DEF Lock, Tallied, Holding, memory, Content
<1>3. CASE WriteSnapshot
  BY <1>3 DEF WriteSnapshot, Tallied, Holding
<1>4. CASE WriteBase
  BY <1>4 DEF WriteBase, Tallied, Holding
<1>5. CASE WriteInspection
  BY <1>5 DEF WriteInspection, Tallied, Holding
<1>6. CASE SkipJob
  BY <1>6 DEF SkipJob, Tallied, Holding
<1>7. CASE ObserveField
  BY <1>7 DEF ObserveField, Tallied, Holding
<1>8. CASE Unlock
  <2>1. /\ Holding /\ ~Holding' /\ histograms' = histograms
        /\ ledger' = IF op.jobs = Nil THEN ledger ELSE ledger \o op.jobs
    BY <1>8 DEF Unlock, Holding, memory
  <2>2. \A f \in Fields : before.histograms[f] = Tally(ledger, f)
    BY <2>1 DEF Tallied
  <2>3. CASE op.jobs = Nil
    BY <1>8, <2>1, <2>2, <2>3, PublishedWhole DEF Tallied
  <2>4. CASE op.jobs # Nil
    <3>1. op.jobs \in Seq(InspectedJobs) /\ ledger \in Seq(InspectedJobs)
          /\ before.histograms \in Histograms
      BY <2>4, OpJobs DEF Types
    <3>2. histograms = ObserveJobs(before.histograms, op.jobs)
      BY <1>8, <2>4, PublishedWhole
    <3>3. \A f \in Fields : histograms[f] = Tally(ledger \o op.jobs, f)
      BY <2>2, <3>1, <3>2, ObservedTally
    <3> QED
      BY <2>1, <2>4, <3>3 DEF Tallied
  <2> QED
    BY <2>3, <2>4
<1>9. CASE UNCHANGED <<memory, writerVars>>
  BY <1>9 DEF memory, writerVars, Tallied, Holding
<1>10. ASSUME NEW r \in Readers, RLock(r) \/ ReadWord(r) \/ RUnlock(r) PROVE Tallied'
  BY <1>9, <1>10 DEF RLock, ReadWord, RUnlock
<1>11. CASE UNCHANGED vars
  BY <1>9, <1>11 DEF vars
<1> QED
  BY <1>1, <1>2, <1>3, <1>4, <1>5, <1>6, <1>7, <1>8, <1>10, <1>11 DEF Next, Write

\* The invariant holds of every state.
THEOREM LockingInvariant == Spec => []IInv
<1>1. Init => IInv
  BY TypesInit, LockInit, WritingInit, TalliedInit DEF IInv
<1>2. IInv /\ [Next]_vars => IInv'
  BY TypesStep, LockStep, WritingStep, TalliedStep DEF IInv
<1> QED
  BY <1>1, <1>2, PTL DEF Spec

\* Every variable keeps its type.
THEOREM StoreHasTypes == Spec => []TypeOK
<1>1. IInv => TypeOK
  BY DEF IInv, Types, TypeOK, Histograms
<1> QED
  BY <1>1, LockingInvariant, PTL

\* No sample is lost, repeated or put into a wrong bucket, whatever readers do
\* and however many inspections are published.
THEOREM HistogramsAreTallies == Spec => []HistogramsMatchSamples
<1>1. IInv => HistogramsMatchSamples
  BY DEF IInv, Tallied, HistogramsMatchSamples
<1> QED
  BY <1>1, LockingInvariant, PTL

-----------------------------------------------------------------------------
(* StoreLocking implements AtomicStore. *)

\* What AtomicStore says of histograms is what is said here.
LEMMA SameHistograms ==
    /\ Atomic!NewHistograms = NewHistograms
    /\ \A h, jobs : Atomic!ObserveJobs(h, jobs) = ObserveJobs(h, jobs)
BY DEF Atomic!NewHistograms, NewHistograms, Atomic!NewAccumulator, NewAccumulator,
       Atomic!Fields, Fields, Atomic!ObserveJobs, ObserveJobs, Atomic!ObserveJob,
       ObserveJob, Atomic!ObserveOptional, ObserveOptional, Atomic!Observe, Observe

\* What is assembled from all its words is what the method returns.
LEMMA WordsAssembled ==
    ASSUME Types, NEW m \in Methods
    PROVE  Assembled(m, Words(m)) = Atomic!Part(Content, m)
<1>1. CASE m = "Status"
  BY <1>1 DEF Assembled, Words, Atomic!Part, Content
<1>2. CASE m = "Snapshot"
  BY <1>2 DEF Assembled, Words, Atomic!Part, Content
<1>3. CASE m = "JobSampleHistograms"
  <2> DEFINE words == [i \in DOMAIN FieldOrder |-> histograms[FieldOrder[i]]]
             at(f) == CHOOSE i \in DOMAIN FieldOrder : FieldOrder[i] = f
  <2>1. \A f \in Fields : at(f) \in DOMAIN FieldOrder /\ FieldOrder[at(f)] = f
    BY FieldsInOrder
  <2>2. \A f \in Fields : words[at(f)] = histograms[f]
    <3> HIDE DEF at
    <3> QED
      BY <2>1
  <2>3. histograms = [f \in Fields |-> histograms[f]]
    BY DEF Types, Histograms
  <2>4. [f \in Fields |-> words[at(f)]] = histograms
    BY <2>2, <2>3
  <2>5. Words(m) = words
    BY <1>3 DEF Words
  <2>6. Assembled(m, Words(m)) = [f \in Fields |-> words[at(f)]]
    BY <1>3, <2>5 DEF Assembled
  <2>7. Atomic!Part(Content, m) = histograms
    BY <1>3 DEF Atomic!Part, Content
  <2> QED
    BY <2>4, <2>6, <2>7
<1> QED
  BY <1>1, <1>2, <1>3 DEF Methods

\* The initial states are initial states of AtomicStore.
LEMMA AtomicStoreInit == Init => Atomic!AtomicInit
<1>1. SUFFICES ASSUME Init PROVE Atomic!AtomicInit
  OBVIOUS
<1>2. ~Holding /\ Content = Atomic!NewContent
  BY <1>1, SameHistograms DEF Init, Holding, Content, Atomic!NewContent
<1>3. Atomic!Methods = Methods
  BY DEF Atomic!Methods, Methods
<1>4. \A m \in Methods : Assembled(m, Words(m)) = Atomic!Part(Atomic!NewContent, m)
  BY <1>1, <1>2, TypesInit, WordsAssembled
<1>5. answer = [r \in Readers |-> [m \in Methods |-> Atomic!Part(Atomic!NewContent, m)]]
  BY <1>1, <1>4 DEF Init
<1> QED
  BY <1>1, <1>2, <1>3, <1>5 DEF Init, Atomic!AtomicInit

\* A call of a reader is a call of AtomicStore.
LEMMA CallIsAtomic ==
    ASSUME Types, LockKept, NEW r \in Readers, RLock(r)
    PROVE  Atomic!AtomicCall(r)
<1>1. method[r] = Nil
  BY DEF RLock, LockKept, ReaderKept
<1>2. UNCHANGED <<run, snapshot, inspected, histograms, wpc, before, answer>>
  BY DEF RLock, memory, writerVars
<1>3. \E m \in Methods : method' = [method EXCEPT ![r] = m]
  BY DEF RLock
<1> QED
  BY <1>1, <1>2, <1>3 DEF Atomic!AtomicCall, Atomic!Methods, Methods, Content, Holding

\* A return of a reader is a return of AtomicStore: what it has read word for
\* word is the content of this instant.
LEMMA ReturnIsAtomic ==
    ASSUME Types, LockKept, NEW r \in Readers, RUnlock(r)
    PROVE  Atomic!AtomicReturn(r)
<1>1. /\ method[r] \in Methods /\ method[r] # Nil /\ ~Holding
      /\ \A i \in 1 .. Len(got[r]) : got[r][i] = Words(method[r])[i]
      /\ Len(got[r]) = Len(Words(method[r])) /\ got[r] \in Seq(Values)
  BY DEF RUnlock, LockKept, ReaderKept, Types
<1>2. got[r] = Words(method[r])
  BY <1>1, WordsTyped, SeqEqual
<1>3. Assembled(method[r], got[r]) = Atomic!Part(Content, method[r])
  BY <1>1, <1>2, WordsAssembled
<1>4. UNCHANGED <<run, snapshot, inspected, histograms, wpc, before>>
      /\ answer' = [answer EXCEPT ![r][method[r]] = Assembled(method[r], got[r])]
      /\ method' = [method EXCEPT ![r] = Nil]
  BY DEF RUnlock, memory, writerVars
<1> QED
  BY <1>1, <1>3, <1>4 DEF Atomic!AtomicReturn, Content, Holding

\* When the worker leaves, its method has taken effect.
LEMMA LeavingIsAtomic ==
    ASSUME Types, Writing, Unlock
    PROVE  Atomic!AtomicWrite
<1>1. Holding /\ ~Holding' /\ Content' = Content /\ UNCHANGED <<method, answer>>
  BY DEF Unlock, Holding, memory, Content
<1>2. op.success \in BOOLEAN /\ op.jobs \in Inspections \union {Nil}
      /\ (~op.success => op.jobs = Nil)
  BY DEF Types
<1>3. CASE op.success
  <2>1. Content = Atomic!Published(before, op.jobs)
    BY <1>3, PublishedWhole, SameHistograms DEF Atomic!Published
  <2> QED
    BY <1>1, <1>2, <2>1 DEF Atomic!AtomicWrite
<1>4. CASE ~op.success
  <2>1. Content = Atomic!Cleared(before)
    BY <1>4, PublishedWhole DEF Atomic!Cleared
  <2> QED
    BY <1>1, <2>1 DEF Atomic!AtomicWrite
<1> QED
  BY <1>3, <1>4

\* All other steps are not seen.
LEMMA AtomicStoreStep ==
    ASSUME IInv, [Next]_vars
    PROVE  [Atomic!AtomicNext]_(Atomic!storeVars)
<1> USE DEF IInv
<1>1. CASE CallWrite
  <2>1. UNCHANGED <<run, snapshot, inspected, histograms, before, method, answer>>
        /\ ~Holding /\ ~Holding'
    BY <1>1 DEF CallWrite, Holding, memory, readerVars
  <2> QED
    BY <2>1 DEF Atomic!storeVars, Content
<1>2. CASE Lock
  <2>1. UNCHANGED <<method, answer>> /\ before' = Content /\ ~Holding /\ Holding'
    BY <1>2 DEF Lock, Holding, readerVars
  <2> QED
    BY <2>1 DEF Atomic!storeVars
<1>3. CASE WriteSnapshot \/ WriteBase \/ WriteInspection \/ SkipJob \/ ObserveField
  <2>1. UNCHANGED <<method, answer, before>> /\ Holding /\ Holding'
    BY <1>3 DEF WriteSnapshot, WriteBase, WriteInspection, SkipJob, ObserveField,
                Holding, readerVars
  <2> QED
    BY <2>1 DEF Atomic!storeVars
<1>4. CASE Unlock
  BY <1>4, LeavingIsAtomic DEF Atomic!AtomicNext
<1>5. ASSUME NEW r \in Readers, RLock(r) PROVE Atomic!AtomicNext
  BY <1>5, CallIsAtomic DEF Atomic!AtomicNext
<1>6. ASSUME NEW r \in Readers, ReadWord(r)
      PROVE  UNCHANGED <<method, answer>> /\ UNCHANGED <<memory, writerVars>>
  BY <1>6 DEF ReadWord
<1>7. ASSUME NEW r \in Readers, RUnlock(r) PROVE Atomic!AtomicNext
  BY <1>7, ReturnIsAtomic DEF Atomic!AtomicNext
<1>8. CASE UNCHANGED <<method, answer>> /\ UNCHANGED <<memory, writerVars>>
  BY <1>8 DEF memory, writerVars, Atomic!storeVars, Content, Holding
<1>9. CASE UNCHANGED vars
  BY <1>8, <1>9 DEF vars, readerVars
<1> QED
  BY <1>1, <1>2, <1>3, <1>4, <1>5, <1>6, <1>7, <1>8, <1>9 DEF Next, Write

\* Every method of Store takes effect at one instant.
THEOREM StoreIsAtomic == Spec => MethodsAreAtomic
<1> USE DEF MethodsAreAtomic, Atomic!AtomicSpec
<1>1. Init => Atomic!AtomicInit
  BY AtomicStoreInit
<1>2. IInv /\ [Next]_vars => [Atomic!AtomicNext]_(Atomic!storeVars)
  BY AtomicStoreStep
<1> QED
  BY <1>1, <1>2, LockingInvariant, PTL DEF Spec
=============================================================================
