-------------------------- MODULE AggregationProofs --------------------------
(***************************************************************************)
(* Proofs about Aggregation, for any jobs in any order, any buckets and    *)
(* any other answers.                                                      *)
(***************************************************************************)
EXTENDS Aggregation, SumTheorems

-----------------------------------------------------------------------------
(* Counts. *)

\* How often each key of f occurs in S.
TallyOn(S, f) == Tally([i \in S |-> f[i]])

\* One more key is one more occurrence.
LEMMA TallyOfOneMore ==
    ASSUME NEW S, IsFiniteSet(S), NEW j, j \notin S, NEW f
    PROVE  TallyOn(S \union {j}, f) = Increment(TallyOn(S, f), f[j])
<1> DEFINE T == S \union {j}
           old == [i \in S |-> f[i]]
           new == [i \in T |-> f[i]]
           key(n) == {i \in T : f[i] = n}
           oldKey(n) == {i \in S : f[i] = n}
<1>1. \A n : {i \in DOMAIN new : new[i] = n} = key(n) /\ {i \in DOMAIN old : old[i] = n} = oldKey(n)
  OBVIOUS
<1>2. {new[i] : i \in DOMAIN new} = {f[i] : i \in T} /\ {old[i] : i \in DOMAIN old} = {f[i] : i \in S}
  OBVIOUS
<1>3. Tally(new) = [n \in {f[i] : i \in T} |-> Cardinality(key(n))]
  BY <1>1, <1>2 DEF Tally
<1>4. Tally(old) = [n \in {f[i] : i \in S} |-> Cardinality(oldKey(n))]
  BY <1>1, <1>2 DEF Tally
<1>5. {f[i] : i \in T} = {f[i] : i \in S} \union {f[j]}
  OBVIOUS
<1>6. \A n : IsFiniteSet(oldKey(n)) /\ Cardinality(oldKey(n)) \in Nat
  <2>1. \A n : oldKey(n) \subseteq S
    OBVIOUS
  <2> QED
    BY <2>1, FS_Subset, FS_CardinalityType
<1>7. \A n : n # f[j] => key(n) = oldKey(n)
  OBVIOUS
<1>8. Cardinality(key(f[j])) = Cardinality(oldKey(f[j])) + 1
  <2>1. key(f[j]) = oldKey(f[j]) \union {j} /\ j \notin oldKey(f[j])
    OBVIOUS
  <2>2. IsFiniteSet(oldKey(f[j]))
    BY <1>6
  <2> HIDE DEF key, oldKey
  <2> QED
    BY <2>1, <2>2, FS_AddElement
<1>9. At(Tally(old), f[j]) = Cardinality(oldKey(f[j]))
  <2>1. CASE f[j] \in {f[i] : i \in S}
    BY <1>4, <2>1 DEF At
  <2>2. CASE f[j] \notin {f[i] : i \in S}
    <3>1. oldKey(f[j]) = {}
      BY <2>2
    <3> QED
      BY <1>4, <2>2, <3>1, FS_EmptySet DEF At
  <2> QED
    BY <2>1, <2>2
<1>10. Tally(new) = [n \in {f[i] : i \in S} \union {f[j]} |->
                      IF n = f[j] THEN At(Tally(old), f[j]) + 1 ELSE Tally(old)[n]]
  <2>1. \A n \in {f[i] : i \in S} \union {f[j]} :
           Cardinality(key(n)) = IF n = f[j] THEN At(Tally(old), f[j]) + 1 ELSE Tally(old)[n]
    <3>1. \A n \in {f[i] : i \in S} : Tally(old)[n] = Cardinality(oldKey(n))
      BY <1>4
    <3> QED
      BY <1>7, <1>8, <1>9, <3>1
  <2> HIDE DEF key, oldKey, old, new
  <2> QED
    BY <1>3, <1>5, <2>1
<1>11. DOMAIN Tally(old) = {f[i] : i \in S}
  BY <1>4
<1>12. Tally(new) = Increment(Tally(old), f[j])
  <2> HIDE DEF old, new
  <2> QED
    BY <1>10, <1>11 DEF Increment, Put
<1> QED
  BY <1>12 DEF TallyOn

\* The keys of the jobs.
Labels(jobs) == [j \in DOMAIN jobs |-> MapStatusLabel(jobs[j].JobState)]
QueueNames(jobs) == [j \in DOMAIN jobs |-> jobs[j].Queue]
UserNames(jobs) == [j \in DOMAIN jobs |-> JobUser(jobs[j])]

\* The jobs that run, those of them with a user, and the queued ones with a user.
Running(jobs) == {j \in DOMAIN jobs : ToUpper(jobs[j].JobState) = "R"}
RunningOfUsers(jobs) == {j \in Running(jobs) : JobUser(jobs[j]) # ""}
QueuedOfUsers(jobs) ==
    {j \in DOMAIN jobs : ToUpper(jobs[j].JobState) = "Q" /\ JobUser(jobs[j]) # ""}

\* The maps count the jobs of S.
CountsOf(jobs, S, data) ==
    /\ data.StatusCount = TallyOn(S, Labels(jobs))
    /\ data.QueueTotalCount = TallyOn(S, QueueNames(jobs))
    /\ data.QueueJobCount = TallyOn(S \intersect Running(jobs), QueueNames(jobs))
    /\ data.UserJobCount = TallyOn(S \intersect RunningOfUsers(jobs), UserNames(jobs))
    /\ data.QueuedJobsByUser = TallyOn(S \intersect QueuedOfUsers(jobs), UserNames(jobs))

\* One more key, if it is one that is counted.
LEMMA TallyOfOneMoreOf ==
    ASSUME NEW S, IsFiniteSet(S), NEW j, j \notin S, NEW f, NEW P
    PROVE  TallyOn((S \union {j}) \intersect P, f) =
              IF j \in P THEN Increment(TallyOn(S \intersect P, f), f[j])
              ELSE TallyOn(S \intersect P, f)
<1> DEFINE R == S \intersect P
<1>1. IsFiniteSet(R) /\ j \notin R
  BY FS_Subset
<1>2. (S \union {j}) \intersect P = IF j \in P THEN R \union {j} ELSE R
  OBVIOUS
<1>3. TallyOn(R \union {j}, f) = Increment(TallyOn(R, f), f[j])
  <2> HIDE DEF R
  <2> QED
    BY <1>1, TallyOfOneMore
<1> QED
  BY <1>2, <1>3

\* The body of the loop counts its job.
LEMMA JobCounted ==
    ASSUME NEW jobs, NEW S, IsFiniteSet(S),
           NEW j \in DOMAIN jobs, j \notin S, NEW data, CountsOf(jobs, S, data)
    PROVE  CountsOf(jobs, S \union {j}, CountJob(data, jobs[j]))
<1> DEFINE after == CountJob(data, jobs[j])
           T == S \union {j}
<1>1. /\ Labels(jobs)[j] = MapStatusLabel(jobs[j].JobState)
      /\ QueueNames(jobs)[j] = jobs[j].Queue
      /\ UserNames(jobs)[j] = JobUser(jobs[j])
  BY DEF Labels, QueueNames, UserNames
<1>2. /\ after.StatusCount = Increment(data.StatusCount, Labels(jobs)[j])
      /\ after.QueueTotalCount = Increment(data.QueueTotalCount, QueueNames(jobs)[j])
      /\ after.QueueJobCount = IF j \in Running(jobs)
                               THEN Increment(data.QueueJobCount, QueueNames(jobs)[j])
                               ELSE data.QueueJobCount
      /\ after.UserJobCount = IF j \in RunningOfUsers(jobs)
                              THEN Increment(data.UserJobCount, UserNames(jobs)[j])
                              ELSE data.UserJobCount
      /\ after.QueuedJobsByUser = IF j \in QueuedOfUsers(jobs)
                                  THEN Increment(data.QueuedJobsByUser, UserNames(jobs)[j])
                                  ELSE data.QueuedJobsByUser
  BY <1>1 DEF CountJob, Running, RunningOfUsers, QueuedOfUsers
<1> HIDE DEF after, T
<1>3. after.StatusCount = TallyOn(T, Labels(jobs))
  <2>1. data.StatusCount = TallyOn(S, Labels(jobs))
    BY DEF CountsOf
  <2> QED
    BY <1>2, <2>1, TallyOfOneMore DEF T
<1>4. after.QueueTotalCount = TallyOn(T, QueueNames(jobs))
  <2>1. data.QueueTotalCount = TallyOn(S, QueueNames(jobs))
    BY DEF CountsOf
  <2> QED
    BY <1>2, <2>1, TallyOfOneMore DEF T
<1>5. after.QueueJobCount = TallyOn(T \intersect Running(jobs), QueueNames(jobs))
  <2>1. data.QueueJobCount = TallyOn(S \intersect Running(jobs), QueueNames(jobs))
    BY DEF CountsOf
  <2> QED
    BY <1>2, <2>1, TallyOfOneMoreOf DEF T
<1>6. after.UserJobCount = TallyOn(T \intersect RunningOfUsers(jobs), UserNames(jobs))
  <2>1. data.UserJobCount = TallyOn(S \intersect RunningOfUsers(jobs), UserNames(jobs))
    BY DEF CountsOf
  <2> QED
    BY <1>2, <2>1, TallyOfOneMoreOf DEF T
<1>7. after.QueuedJobsByUser = TallyOn(T \intersect QueuedOfUsers(jobs), UserNames(jobs))
  <2>1. data.QueuedJobsByUser = TallyOn(S \intersect QueuedOfUsers(jobs), UserNames(jobs))
    BY DEF CountsOf
  <2> QED
    BY <1>2, <2>1, TallyOfOneMoreOf DEF T
<1> QED
  BY <1>3, <1>4, <1>5, <1>6, <1>7 DEF CountsOf, after, T

-----------------------------------------------------------------------------
(* The waits of a queue. *)

\* The entries of the map.
Entries == [Buckets : [AllBuckets -> Nat], Count : Nat, Sum : Nat, Oldest : Nat]

\* The entry of a queue describes the waits w of the jobs W.
Describes(info, W, w) ==
    /\ info \in Entries
    /\ info.Count = Cardinality(W)
    /\ info.Buckets[Inf] = info.Count
    /\ \A bucket \in WaitBuckets : info.Buckets[bucket] = Cardinality({j \in W : w[j] <= bucket})
    /\ \A j \in W : w[j] <= info.Oldest
    /\ W # {} => \E j \in W : w[j] = info.Oldest
    /\ W = {} => info.Oldest = 0
    /\ info.Sum = SumFunctionOnSet(w, W)

\* What AddQueueWait puts in the place of an entry.
WithWait(info, wait) ==
    [Buckets |-> [bucket \in AllBuckets |->
                     IF bucket = Inf \/ wait <= bucket
                     THEN info.Buckets[bucket] + 1 ELSE info.Buckets[bucket]],
     Count   |-> info.Count + 1,
     Sum     |-> info.Sum + wait,
     Oldest  |-> IF wait > info.Oldest THEN wait ELSE info.Oldest]

\* Where nobody waits there is the entry of a queue that has none.
LEMMA NothingWaits == ASSUME NEW w PROVE Describes(NoWaits, {}, w)
<1>1. \A bucket \in WaitBuckets : {j \in {} : w[j] <= bucket} = {}
  OBVIOUS
<1> QED
  BY <1>1, FS_EmptySet, SumOfNone, AggregationAssumption
  DEF Describes, NoWaits, Entries, AllBuckets

\* One more wait is described by the entry AddQueueWait puts in its place.
LEMMA WaitDescribed ==
    ASSUME NEW W, IsFiniteSet(W), NEW j, j \notin W, NEW w,
           w[j] \in Nat, \A i \in W : w[i] \in Nat, NEW info, Describes(info, W, w)
    PROVE  Describes(WithWait(info, w[j]), W \union {j}, w)
<1> DEFINE wait == w[j]
           T == W \union {j}
           after == WithWait(info, wait)
<1>1. /\ info.Buckets \in [AllBuckets -> Nat]
      /\ info.Count \in Nat /\ info.Sum \in Nat /\ info.Oldest \in Nat
  BY DEF Describes, Entries
<1>2. /\ after.Buckets = [bucket \in AllBuckets |->
                            IF bucket = Inf \/ wait <= bucket
                            THEN info.Buckets[bucket] + 1 ELSE info.Buckets[bucket]]
      /\ after.Count = info.Count + 1
      /\ after.Sum = info.Sum + wait
      /\ after.Oldest = IF wait > info.Oldest THEN wait ELSE info.Oldest
  BY DEF WithWait
<1>3. after \in Entries
  <2>1. after.Buckets \in [AllBuckets -> Nat]
    BY <1>1, <1>2
  <2>2. info.Count + 1 \in Nat /\ info.Sum + wait \in Nat
        /\ (IF wait > info.Oldest THEN wait ELSE info.Oldest) \in Nat
    BY <1>1
  <2>3. after = [Buckets |-> after.Buckets, Count |-> after.Count, Sum |-> after.Sum,
                 Oldest |-> after.Oldest]
    BY DEF WithWait
  <2> HIDE DEF after, wait
  <2> QED
    BY <1>2, <2>1, <2>2, <2>3 DEF Entries
<1> HIDE DEF after
<1>4. after.Count = Cardinality(T)
  <2>1. info.Count = Cardinality(W) /\ Cardinality(T) = Cardinality(W) + 1
    BY FS_AddElement DEF Describes
  <2> QED
    BY <1>2, <2>1
<1>5. after.Buckets[Inf] = after.Count
  <2>1. Inf \in AllBuckets /\ info.Buckets[Inf] = info.Count
    BY DEF AllBuckets, Describes
  <2> QED
    BY <1>2, <2>1
<1>6. ASSUME NEW bucket \in WaitBuckets
      PROVE  after.Buckets[bucket] = Cardinality({i \in T : w[i] <= bucket})
  <2> DEFINE within == {i \in W : w[i] <= bucket}
  <2>1. IsFiniteSet(within) /\ j \notin within
    BY FS_Subset
  <2>2. info.Buckets[bucket] = Cardinality(within)
    BY DEF Describes
  <2>3. bucket \in AllBuckets /\ bucket # Inf
    BY AggregationAssumption DEF AllBuckets
  <2>4. CASE wait <= bucket
    <3>1. {i \in T : w[i] <= bucket} = within \union {j}
      BY <2>4
    <3>2. after.Buckets[bucket] = info.Buckets[bucket] + 1
      BY <1>2, <2>3, <2>4
    <3> HIDE DEF within
    <3>3. Cardinality(within \union {j}) = Cardinality(within) + 1
      BY <2>1, FS_AddElement
    <3> QED
      BY <2>2, <3>1, <3>2, <3>3
  <2>5. CASE ~(wait <= bucket)
    <3>1. {i \in T : w[i] <= bucket} = within
      BY <2>5
    <3>2. after.Buckets[bucket] = info.Buckets[bucket]
      BY <1>2, <2>3, <2>5
    <3> QED
      BY <2>2, <3>1, <3>2
  <2> QED
    BY <2>4, <2>5
<1>7. \A i \in T : w[i] <= after.Oldest
  <2>1. \A i \in W : w[i] <= info.Oldest
    BY DEF Describes
  <2>2. info.Oldest <= after.Oldest /\ wait <= after.Oldest /\ after.Oldest \in Nat
    BY <1>1, <1>2
  <2>3. ASSUME NEW i \in W PROVE w[i] <= after.Oldest
    BY <1>1, <2>1, <2>2, <2>3
  <2> QED
    BY <2>2, <2>3
<1>8. \E i \in T : w[i] = after.Oldest
  <2>1. CASE wait > info.Oldest
    BY <1>2, <2>1
  <2>2. CASE ~(wait > info.Oldest) /\ W # {}
    BY <1>2, <2>2 DEF Describes
  <2>3. CASE ~(wait > info.Oldest) /\ W = {}
    <3>1. info.Oldest = 0
      BY <2>3 DEF Describes
    <3>2. wait = 0 /\ after.Oldest = 0
      BY <1>2, <2>3, <3>1
    <3> QED
      BY <3>2
  <2> QED
    BY <2>1, <2>2, <2>3
<1>9. after.Sum = SumFunctionOnSet(w, T)
  <2>1. info.Sum = SumFunctionOnSet(w, W)
    BY DEF Describes
  <2>2. \A i \in T : w[i] \in Int
    OBVIOUS
  <2>3. SumFunctionOnSet(w, T) = SumFunctionOnSet(w, W) + w[j]
    BY <2>2, SumOfOneMore
  <2> QED
    BY <1>2, <2>1, <2>3
<1> QED
  BY <1>3, <1>4, <1>5, <1>6, <1>7, <1>8, <1>9 DEF Describes, after

\* The waits of the jobs, those that wait, and those that wait in a queue.
WaitTimes(jobs) == [j \in DOMAIN jobs |-> WaitSeconds(jobs[j])]
WaitingJobs(jobs) == {j \in DOMAIN jobs : Waits(jobs[j])}
WaitingIn(jobs, queue) == {j \in WaitingJobs(jobs) : jobs[j].Queue = queue}

\* The map of the waits describes the jobs of S, queue by queue.
WaitsOf(jobs, S, data) ==
    /\ DOMAIN data = {jobs[j].Queue : j \in S \intersect WaitingJobs(jobs)}
    /\ \A queue \in DOMAIN data :
          Describes(data[queue], S \intersect WaitingIn(jobs, queue), WaitTimes(jobs))

\* The body of the loop adds the wait of its job, if it has one.
LEMMA WaitAdded ==
    ASSUME NEW jobs, NEW S, IsFiniteSet(S), S \subseteq DOMAIN jobs,
           NEW j \in DOMAIN jobs, j \notin S, NEW data, WaitsOf(jobs, S, data),
           \A i \in DOMAIN jobs : jobs[i].Age \in Int \union {NoAge}
    PROVE  WaitsOf(jobs, S \union {j}, AddWait(data, jobs[j]))
<1> DEFINE T == S \union {j}
           after == AddWait(data, jobs[j])
           w == WaitTimes(jobs)
<1>1. CASE ~Waits(jobs[j])
  <2>1. after = data
    BY <1>1 DEF AddWait
  <2>2. T \intersect WaitingJobs(jobs) = S \intersect WaitingJobs(jobs)
        /\ \A queue : T \intersect WaitingIn(jobs, queue) = S \intersect WaitingIn(jobs, queue)
    BY <1>1 DEF WaitingJobs, WaitingIn
  <2> QED
    BY <2>1, <2>2 DEF WaitsOf
<1>2. CASE Waits(jobs[j])
  <2> DEFINE q == jobs[j].Queue
             info == IF q \in DOMAIN data THEN data[q] ELSE NoWaits
             old == S \intersect WaitingIn(jobs, q)
  <2>1. after = Put(data, q, WithWait(info, w[j]))
    BY <1>2 DEF AddWait, AddQueueWait, WithWait, WaitTimes
  <2>2. w[j] \in Nat /\ \A i \in old : w[i] \in Nat
    <3>1. \A i \in DOMAIN jobs : jobs[i].Age # NoAge => w[i] \in Nat
      BY DEF WaitTimes, WaitSeconds
    <3>2. \A i \in DOMAIN jobs : Waits(jobs[i]) => w[i] \in Nat
      BY <3>1 DEF Waits
    <3> QED
      BY <1>2, <3>2 DEF WaitingIn, WaitingJobs
  <2>3. Describes(info, old, w)
    <3>1. CASE q \in DOMAIN data
      BY <3>1 DEF WaitsOf
    <3>2. CASE q \notin DOMAIN data
      <4>1. old = {}
        BY <3>2 DEF WaitsOf, WaitingIn
      <4> QED
        BY <3>2, <4>1, NothingWaits
    <3> QED
      BY <3>1, <3>2
  <2>4. IsFiniteSet(old) /\ j \notin old
    BY FS_Subset
  <2>5. T \intersect WaitingIn(jobs, q) = old \union {j}
    BY <1>2 DEF WaitingIn, WaitingJobs
  <2>6. \A queue : queue # q => T \intersect WaitingIn(jobs, queue) = S \intersect WaitingIn(jobs, queue)
    BY DEF WaitingIn
  <2>7. {jobs[i].Queue : i \in T \intersect WaitingJobs(jobs)} = DOMAIN data \union {q}
    BY <1>2 DEF WaitsOf, WaitingJobs
  <2> HIDE DEF q, info, old, w, T, after
  <2>8. Describes(WithWait(info, w[j]), old \union {j}, w)
    BY <2>2, <2>3, <2>4, WaitDescribed
  <2>9. DOMAIN after = DOMAIN data \union {q}
        /\ after[q] = WithWait(info, w[j])
        /\ \A queue \in DOMAIN data : queue # q => after[queue] = data[queue]
    BY <2>1 DEF Put
  <2>10. \A queue \in DOMAIN after : Describes(after[queue], T \intersect WaitingIn(jobs, queue), w)
    <3>1. \A queue \in DOMAIN data : Describes(data[queue], S \intersect WaitingIn(jobs, queue), w)
      BY DEF WaitsOf, w
    <3> QED
      BY <2>5, <2>6, <2>8, <2>9, <3>1
  <2> QED
    BY <2>7, <2>9, <2>10 DEF WaitsOf, w, T, after
<1> QED
  BY <1>1, <1>2

-----------------------------------------------------------------------------
(* The invariant. *)

\* What the two loops have made of the jobs they have come to.
Loops ==
    /\ payload \in Answers
    /\ stage \in {"parseJobs", "parseQueueWait", "inspect", "scrape", "done"}
    /\ todo \subseteq Jobs
    /\ CountsOf(payload.jobs, Counted, jobData)
    /\ WaitsOf(payload.jobs, Measured, queueWaits)

\* The tables, once they are parsed, the inspection, and the answer to the scrape.
Scraped ==
    /\ stage \in {"inspect", "scrape", "done"} =>
          /\ nodeData = ParseNodes(payload.nodes)
          /\ queueData = ParseQueues(payload.queues)
          /\ serverData = ParseServer(payload.server)
    /\ stage \in {"scrape", "done"} =>
          inspection = {ParseJobInspection(records) : records \in payload.inspection}
    /\ stage = "done" =>
          IF \E jobs \in InspectedJobs : Duplicates(jobs)
          THEN status = 500
          ELSE status = 200 /\ series = Exposition

IInv == Loops /\ Scraped

\* No job, no counts.
LEMMA NothingCounted == ASSUME NEW jobs PROVE CountsOf(jobs, {}, NoJobData)
<1>1. \A S, f : S = {} => TallyOn(S, f) = Empty
  BY DEF TallyOn, Tally, Empty
<1>2. \A P : {} \intersect P = {}
  OBVIOUS
<1> QED
  BY <1>1, <1>2 DEF CountsOf, NoJobData

\* No job, no waits.
LEMMA NothingMeasured == ASSUME NEW jobs PROVE WaitsOf(jobs, {}, Empty)
BY DEF WaitsOf, Empty

\* Nothing has been parsed.
LEMMA InvInit == Init => IInv
<1>1. SUFFICES ASSUME Init PROVE IInv
  OBVIOUS
<1>2. Counted = {} /\ Measured = {}
  BY <1>1 DEF Init, Counted, Measured, Jobs
<1>3. CountsOf(payload.jobs, Counted, jobData)
  BY <1>1, <1>2, NothingCounted DEF Init
<1>4. WaitsOf(payload.jobs, Measured, queueWaits)
  BY <1>1, <1>2, NothingMeasured DEF Init
<1> QED
  BY <1>1, <1>3, <1>4 DEF Init, IInv, Loops, Scraped, Jobs

\* Which jobs the loops have come to.
LEMMA Progress ==
    ASSUME Loops
    PROVE  /\ Counted \subseteq Jobs /\ Measured \subseteq Jobs
           /\ IsFiniteSet(Counted) /\ IsFiniteSet(Measured)
           /\ stage = "parseJobs" => Counted = Jobs \ todo /\ Measured = {}
           /\ stage = "parseQueueWait" => Counted = Jobs /\ Measured = Jobs \ todo
           /\ stage \in {"inspect", "scrape", "done"} => Counted = Jobs /\ Measured = Jobs
<1>1. /\ stage = "parseJobs" => Counted = Jobs \ todo /\ Measured = {}
      /\ stage = "parseQueueWait" => Counted = Jobs /\ Measured = Jobs \ todo
      /\ stage \in {"inspect", "scrape", "done"} => Counted = Jobs /\ Measured = Jobs
  BY DEF Counted, Measured
<1>2. Counted \subseteq Jobs /\ Measured \subseteq Jobs
  BY <1>1 DEF Loops
<1>3. IsFiniteSet(Jobs)
  BY JobsAssumption DEF Loops, Jobs
<1> QED
  BY <1>1, <1>2, <1>3, FS_Subset

\* A job is counted; the first loop goes on.
LEMMA JobStep ==
    ASSUME Loops, NEW j \in todo, NextJob(j)
    PROVE  Loops'
<1>1. /\ stage = "parseJobs" /\ stage' = stage /\ payload' = payload
      /\ jobData' = CountJob(jobData, payload.jobs[j]) /\ todo' = todo \ {j}
      /\ queueWaits' = queueWaits
  BY DEF NextJob
<1>2. j \in Jobs /\ Counted = Jobs \ todo /\ Measured = {} /\ IsFiniteSet(Counted)
  BY <1>1, Progress DEF Loops
<1>3. Counted' = Counted \union {j} /\ Measured' = Measured /\ j \notin Counted
  BY <1>1, <1>2 DEF Counted, Measured, Jobs, Loops
<1>4. CountsOf(payload.jobs, Counted \union {j}, CountJob(jobData, payload.jobs[j]))
  BY <1>2, <1>3, JobCounted DEF Loops, Jobs
<1>5. CountsOf(payload.jobs, Counted, jobData)'
  BY <1>1, <1>3, <1>4
<1>6. WaitsOf(payload.jobs, Measured, queueWaits)'
  BY <1>1, <1>3 DEF Loops
<1> QED
  BY <1>1, <1>5, <1>6 DEF Loops, Jobs

\* The second loop begins with all jobs before it.
LEMMA JobsParsedStep == ASSUME Loops, JobsParsed PROVE Loops'
<1>1. /\ stage = "parseJobs" /\ stage' = "parseQueueWait" /\ todo = {}
      /\ todo' = Jobs /\ UNCHANGED <<payload, jobData, queueWaits>>
  BY DEF JobsParsed, parseVars, Jobs
<1>2. Counted = Jobs /\ Measured = {}
  BY <1>1, Progress
<1>3. Jobs' = Jobs /\ Counted' = Counted /\ Measured' = Measured
  BY <1>1, <1>2 DEF Counted, Measured, Jobs
<1> QED
  BY <1>1, <1>3 DEF Loops

\* A wait is added; the second loop goes on.
LEMMA WaitStep ==
    ASSUME Loops, NEW j \in todo, NextWait(j)
    PROVE  Loops'
<1>1. /\ stage = "parseQueueWait" /\ stage' = stage /\ payload' = payload
      /\ queueWaits' = AddWait(queueWaits, payload.jobs[j]) /\ todo' = todo \ {j}
      /\ jobData' = jobData
  BY DEF NextWait
<1>2. /\ j \in Jobs /\ Counted = Jobs /\ Measured = Jobs \ todo /\ IsFiniteSet(Measured)
      /\ Measured \subseteq Jobs
  BY <1>1, Progress DEF Loops
<1>3. Counted' = Counted /\ Measured' = Measured \union {j} /\ j \notin Measured
  BY <1>1, <1>2 DEF Counted, Measured, Jobs, Loops
<1>4. \A i \in DOMAIN payload.jobs : payload.jobs[i].Age \in Int \union {NoAge}
  BY JobsAssumption DEF Loops
<1>5. WaitsOf(payload.jobs, Measured \union {j}, AddWait(queueWaits, payload.jobs[j]))
  BY <1>2, <1>3, <1>4, WaitAdded DEF Loops, Jobs
<1>6. WaitsOf(payload.jobs, Measured, queueWaits)'
  BY <1>1, <1>3, <1>5
<1>7. CountsOf(payload.jobs, Counted, jobData)'
  BY <1>1, <1>3 DEF Loops
<1> QED
  BY <1>1, <1>6, <1>7 DEF Loops, Jobs

\* After the loops their maps stay.
LEMMA LoopsOver ==
    ASSUME Loops, stage \in {"inspect", "scrape", "done"} \/ (stage = "parseQueueWait" /\ todo = {}),
           stage' \in {"inspect", "scrape", "done"},
           UNCHANGED <<payload, todo, jobData, queueWaits>>
    PROVE  Loops'
<1>1. Counted = Jobs /\ Measured = Jobs
  BY Progress
<1>2. Jobs' = Jobs /\ Counted' = Counted /\ Measured' = Measured
  BY <1>1 DEF Counted, Measured, Jobs
<1> QED
  BY <1>2 DEF Loops

\* The steps keep the invariant.
LEMMA InvStep == IInv /\ [Next]_vars => IInv'
<1> SUFFICES ASSUME IInv, [Next]_vars PROVE IInv'
  OBVIOUS
<1>1. ASSUME NEW j \in todo, NextJob(j) PROVE IInv'
  <2>1. Loops'
    BY <1>1, JobStep DEF IInv
  <2>2. Scraped'
    BY <1>1 DEF NextJob, Scraped
  <2> QED
    BY <2>1, <2>2 DEF IInv
<1>2. CASE JobsParsed
  <2>1. Loops'
    BY <1>2, JobsParsedStep DEF IInv
  <2>2. Scraped'
    BY <1>2 DEF JobsParsed, Scraped
  <2> QED
    BY <2>1, <2>2 DEF IInv
<1>3. ASSUME NEW j \in todo, NextWait(j) PROVE IInv'
  <2>1. Loops'
    BY <1>3, WaitStep DEF IInv
  <2>2. Scraped'
    BY <1>3 DEF NextWait, Scraped
  <2> QED
    BY <2>1, <2>2 DEF IInv
<1>4. CASE TablesParsed
  <2>1. Loops'
    BY <1>4, LoopsOver DEF IInv, TablesParsed
  <2>2. Scraped'
    BY <1>4 DEF TablesParsed, Scraped
  <2> QED
    BY <2>1, <2>2 DEF IInv
<1>5. CASE Inspect
  <2>1. Loops'
    BY <1>5, LoopsOver DEF IInv, Inspect
  <2>2. Scraped'
    BY <1>5 DEF Inspect, Scraped, IInv, tables
  <2> QED
    BY <2>1, <2>2 DEF IInv
<1>6. CASE Scrape
  <2>1. /\ stage = "scrape" /\ stage' = "done"
        /\ UNCHANGED <<payload, todo, jobData, queueWaits, inspection>>
        /\ UNCHANGED <<nodeData, queueData, serverData>>
    BY <1>6 DEF Scrape, parseVars, tables
  <2>2. Loops'
    BY <2>1, LoopsOver DEF IInv
  <2>3. /\ nodeData = ParseNodes(payload.nodes)
        /\ queueData = ParseQueues(payload.queues)
        /\ serverData = ParseServer(payload.server)
        /\ inspection = {ParseJobInspection(records) : records \in payload.inspection}
    BY <2>1 DEF IInv, Scraped
  <2>4. InspectedJobs' = InspectedJobs
    BY <2>1 DEF InspectedJobs
  <2>5. Exposition' = Exposition
    BY <2>1, <2>4 DEF Exposition, QueueJobs, QueueTotal, QueueWaitSeries
  <2>6. Scraped'
    BY <1>6, <2>1, <2>3, <2>4, <2>5 DEF Scrape, Scraped
  <2> QED
    BY <2>2, <2>6 DEF IInv
<1>7. CASE UNCHANGED vars
  <2>1. UNCHANGED <<payload, stage, todo, jobData, queueWaits, nodeData, queueData, serverData,
                    inspection, status, series>>
    BY <1>7 DEF vars, parseVars, tables
  <2>2. Loops' = Loops
    BY <2>1 DEF Loops, Jobs, Counted, Measured
  <2>3. InspectedJobs' = InspectedJobs
    BY <2>1 DEF InspectedJobs
  <2>4. Exposition' = Exposition
    BY <2>1, <2>3 DEF Exposition, QueueJobs, QueueTotal, QueueWaitSeries
  <2>5. Scraped'
    BY <2>1, <2>3, <2>4 DEF IInv, Scraped
  <2> QED
    BY <2>2, <2>5 DEF IInv
<1> QED
  BY <1>1, <1>2, <1>3, <1>4, <1>5, <1>6, <1>7 DEF Next

\* The invariant holds of every state.
THEOREM AggregationInvariant == Spec => []IInv
BY InvInit, InvStep, PTL DEF Spec

-----------------------------------------------------------------------------
(* What follows of the counts and the waits. *)

\* A tally by its keys.
LEMMA TallyByKey ==
    ASSUME NEW S, IsFiniteSet(S), NEW f
    PROVE  /\ \A n : n \in DOMAIN TallyOn(S, f) <=> \E i \in S : f[i] = n
           /\ \A n \in DOMAIN TallyOn(S, f) :
                 /\ TallyOn(S, f)[n] = Cardinality({i \in S : f[i] = n})
                 /\ TallyOn(S, f)[n] \in Nat \ {0}
           /\ \A n : At(TallyOn(S, f), n) = Cardinality({i \in S : f[i] = n})
<1> DEFINE keys == [i \in S |-> f[i]]
           of(n) == {i \in S : f[i] = n}
<1>1. /\ {keys[i] : i \in DOMAIN keys} = {f[i] : i \in S}
      /\ \A n : {i \in DOMAIN keys : keys[i] = n} = of(n)
  OBVIOUS
<1>2. TallyOn(S, f) = [n \in {f[i] : i \in S} |-> Cardinality(of(n))]
  BY <1>1 DEF TallyOn, Tally
<1>3. \A n : IsFiniteSet(of(n)) /\ Cardinality(of(n)) \in Nat
  BY FS_Subset, FS_CardinalityType
<1>4. \A n : n \in {f[i] : i \in S} <=> of(n) # {}
  OBVIOUS
<1> HIDE DEF of
<1>5. \A n : of(n) # {} => Cardinality(of(n)) \in Nat \ {0}
  BY <1>3, FS_EmptySet
<1>6. \A n : n \notin {f[i] : i \in S} => Cardinality(of(n)) = 0
  BY <1>4, FS_EmptySet
<1>7. DOMAIN TallyOn(S, f) = {f[i] : i \in S}
  BY <1>2
<1>8. \A n \in DOMAIN TallyOn(S, f) :
         TallyOn(S, f)[n] = Cardinality(of(n)) /\ TallyOn(S, f)[n] \in Nat \ {0}
  BY <1>2, <1>4, <1>5
<1>9. \A n : At(TallyOn(S, f), n) = Cardinality(of(n))
  BY <1>6, <1>7, <1>8 DEF At
<1>10. \A n : n \in DOMAIN TallyOn(S, f) <=> \E i \in S : f[i] = n
  BY <1>7
<1> QED
  BY <1>8, <1>9, <1>10 DEF of

\* The maps are the tallies of the jobs the first loop has come to.
LEMMA LoopsCount == Loops => CountsMatchJobs
<1> SUFFICES ASSUME Loops PROVE CountsMatchJobs
  OBVIOUS
<1> DEFINE jobs == payload.jobs
<1>1. Counted \subseteq DOMAIN jobs
  BY Progress DEF Jobs
<1>2. /\ InState("R") = Counted \intersect Running(jobs)
      /\ WithUser(InState("R")) = Counted \intersect RunningOfUsers(jobs)
      /\ WithUser(InState("Q")) = Counted \intersect QueuedOfUsers(jobs)
  BY <1>1 DEF InState, WithUser, Running, RunningOfUsers, QueuedOfUsers
<1>3. ASSUME NEW S, S \subseteq DOMAIN jobs
      PROVE  /\ TallyOn(S, Labels(jobs)) = Tally([j \in S |-> MapStatusLabel(payload.jobs[j].JobState)])
             /\ TallyOn(S, QueueNames(jobs)) = Tally([j \in S |-> payload.jobs[j].Queue])
             /\ TallyOn(S, UserNames(jobs)) = Tally([j \in S |-> JobUser(payload.jobs[j])])
  <2>1. /\ [j \in S |-> Labels(jobs)[j]] = [j \in S |-> MapStatusLabel(payload.jobs[j].JobState)]
        /\ [j \in S |-> QueueNames(jobs)[j]] = [j \in S |-> payload.jobs[j].Queue]
        /\ [j \in S |-> UserNames(jobs)[j]] = [j \in S |-> JobUser(payload.jobs[j])]
    BY <1>3 DEF Labels, QueueNames, UserNames
  <2> QED
    BY <2>1 DEF TallyOn
<1>4. CountsOf(jobs, Counted, jobData)
  BY DEF Loops
<1>5. /\ jobData.StatusCount = Tally([j \in Counted |-> MapStatusLabel(payload.jobs[j].JobState)])
      /\ jobData.QueueTotalCount = Tally([j \in Counted |-> payload.jobs[j].Queue])
  BY <1>1, <1>3, <1>4 DEF CountsOf
<1>6. jobData.QueueJobCount = Tally([j \in InState("R") |-> payload.jobs[j].Queue])
  <2>1. InState("R") \subseteq DOMAIN jobs
    BY <1>1, <1>2
  <2> QED
    BY <1>2, <1>3, <1>4, <2>1 DEF CountsOf
<1>7. jobData.UserJobCount = Tally([j \in WithUser(InState("R")) |-> JobUser(payload.jobs[j])])
  <2>1. WithUser(InState("R")) \subseteq DOMAIN jobs
    BY <1>1, <1>2
  <2> QED
    BY <1>2, <1>3, <1>4, <2>1 DEF CountsOf
<1>8. jobData.QueuedJobsByUser = Tally([j \in WithUser(InState("Q")) |-> JobUser(payload.jobs[j])])
  <2>1. WithUser(InState("Q")) \subseteq DOMAIN jobs
    BY <1>1, <1>2
  <2> QED
    BY <1>2, <1>3, <1>4, <2>1 DEF CountsOf
<1> QED
  BY <1>5, <1>6, <1>7, <1>8 DEF CountsMatchJobs

\* Each map counts the jobs seen so far, whatever their order.
THEOREM CountsAreTallies == Spec => []CountsMatchJobs
<1>1. IInv => CountsMatchJobs
  BY LoopsCount DEF IInv
<1> QED
  BY <1>1, AggregationInvariant, PTL

\* What the waits of a queue add up to.
LEMMA LoopsMeasure ==
    ASSUME Loops
    PROVE  /\ DOMAIN queueWaits = {payload.jobs[j].Queue : j \in Measured \intersect WaitingJobs(payload.jobs)}
           /\ \A queue : Waiting(queue) = Measured \intersect WaitingIn(payload.jobs, queue)
           /\ \A queue : queue \in DOMAIN queueWaits <=> Waiting(queue) # {}
           /\ \A queue \in DOMAIN queueWaits :
                 Describes(queueWaits[queue], Waiting(queue), WaitTimes(payload.jobs))
<1>1. Measured \subseteq DOMAIN payload.jobs
  BY Progress DEF Jobs
<1>2. \A queue : Waiting(queue) = Measured \intersect WaitingIn(payload.jobs, queue)
  BY <1>1 DEF Waiting, WaitingIn, WaitingJobs
<1>3. WaitsOf(payload.jobs, Measured, queueWaits)
  BY DEF Loops
<1>4. DOMAIN queueWaits = {payload.jobs[j].Queue : j \in Measured \intersect WaitingJobs(payload.jobs)}
  BY <1>3 DEF WaitsOf
<1>5. \A queue : queue \in DOMAIN queueWaits <=> Waiting(queue) # {}
  BY <1>2, <1>4 DEF WaitingIn
<1> QED
  BY <1>2, <1>3, <1>4, <1>5 DEF WaitsOf

\* The waits of a queue are cumulative over their buckets, whatever their order.
LEMMA LoopsCumulate == Loops => WaitsAreCumulative
<1> SUFFICES ASSUME Loops PROVE WaitsAreCumulative
  OBVIOUS
<1> DEFINE w == WaitTimes(payload.jobs)
<1>1. DOMAIN queueWaits = {queue \in DOMAIN jobData.QueueTotalCount : Waiting(queue) # {}}
  <2>1. \A queue : queue \in DOMAIN jobData.QueueTotalCount <=>
                     \E j \in Counted : QueueNames(payload.jobs)[j] = queue
    <3>1. jobData.QueueTotalCount = TallyOn(Counted, QueueNames(payload.jobs))
      BY DEF Loops, CountsOf
    <3>2. IsFiniteSet(Counted)
      BY Progress
    <3> QED
      BY <3>1, <3>2, TallyByKey
  <2>2. Measured \subseteq Counted /\ Counted \subseteq Jobs
    BY Progress DEF Loops
  <2>3. \A queue : Waiting(queue) # {} => queue \in DOMAIN jobData.QueueTotalCount
    BY <2>1, <2>2 DEF Waiting, QueueNames, Jobs
  <2> QED
    BY <2>3, LoopsMeasure
<1>2. ASSUME NEW queue \in DOMAIN queueWaits
      PROVE  LET info == queueWaits[queue]
                 wait(j) == WaitSeconds(payload.jobs[j])
             IN  /\ info.Count = Cardinality(Waiting(queue))
                 /\ info.Buckets[Inf] = info.Count
                 /\ \A bucket \in WaitBuckets :
                       info.Buckets[bucket] =
                           Cardinality({j \in Waiting(queue) : wait(j) <= bucket})
                 /\ \A j \in Waiting(queue) : wait(j) <= info.Oldest
                 /\ \E j \in Waiting(queue) : wait(j) = info.Oldest
                 /\ info.Sum = SumFunction([j \in Waiting(queue) |-> wait(j)])
  <2>1. Describes(queueWaits[queue], Waiting(queue), w) /\ Waiting(queue) # {}
    BY <1>2, LoopsMeasure
  <2>2. Waiting(queue) \subseteq DOMAIN payload.jobs
    BY Progress DEF Waiting, Jobs
  <2>3. \A j \in Waiting(queue) : w[j] = WaitSeconds(payload.jobs[j])
    BY <2>2 DEF WaitTimes
  <2>4. \A bucket : {j \in Waiting(queue) : WaitSeconds(payload.jobs[j]) <= bucket}
                       = {j \in Waiting(queue) : w[j] <= bucket}
    BY <2>3
  <2>5. SumFunction([j \in Waiting(queue) |-> WaitSeconds(payload.jobs[j])])
           = SumFunctionOnSet(w, Waiting(queue))
    <3> DEFINE v == [j \in Waiting(queue) |-> WaitSeconds(payload.jobs[j])]
    <3>1. IsFiniteSet(Waiting(queue))
      BY Progress, FS_Subset DEF Waiting
    <3>2. \A j \in Waiting(queue) : w[j] \in Int /\ w[j] = v[j]
      <4>1. \A j \in Jobs : Waits(payload.jobs[j]) => WaitSeconds(payload.jobs[j]) \in Int
        <5>1. \A j \in Jobs : payload.jobs[j].Age \in Int \union {NoAge}
          BY JobsAssumption DEF Loops, Jobs
        <5>2. \A j \in Jobs : Waits(payload.jobs[j]) => payload.jobs[j].Age \in Int
          BY <5>1 DEF Waits
        <5> QED
          BY <5>2 DEF WaitSeconds
      <4> QED
        BY <2>2, <2>3, <4>1 DEF Waiting, Jobs
    <3>3. SumFunction(v) = SumFunctionOnSet(v, Waiting(queue))
      BY DEF SumFunction
    <3> HIDE DEF v, w
    <3> QED
      BY <3>1, <3>2, <3>3, SumOfEqual DEF v
  <2> HIDE DEF w
  <2> QED
    BY <2>1, <2>3, <2>4, <2>5 DEF Describes
<1> QED
  BY <1>1, <1>2 DEF WaitsAreCumulative

\* The waits of a queue are cumulative over its buckets at every point of the
\* loop, in whatever order the jobs come.
THEOREM WaitsCumulate == Spec => []WaitsAreCumulative
<1>1. IInv => WaitsAreCumulative
  BY LoopsCumulate DEF IInv
<1> QED
  BY <1>1, AggregationInvariant, PTL

\* Counts are positive, waits and sums not negative.
THEOREM MapsHaveTypes == Spec => []TypeOK
<1>1. ASSUME Loops PROVE TypeOK
  <2>1. \A name \in DOMAIN NoJobData :
           \A key \in DOMAIN jobData[name] : jobData[name][key] \in Nat \ {0}
    <3> DEFINE jobs == payload.jobs
    <3>1. DOMAIN NoJobData = {"StatusCount", "QueueTotalCount", "QueueJobCount",
                              "UserJobCount", "QueuedJobsByUser"}
      BY DEF NoJobData
    <3>2. IsFiniteSet(Counted) /\ \A P : IsFiniteSet(Counted \intersect P)
      BY <1>1, Progress, FS_Subset
    <3>3. CountsOf(jobs, Counted, jobData)
      BY <1>1 DEF Loops
    <3>4. \A S, f : IsFiniteSet(S) =>
             \A key \in DOMAIN TallyOn(S, f) : TallyOn(S, f)[key] \in Nat \ {0}
      BY TallyByKey
    <3>5. \A name \in DOMAIN NoJobData : \E S, f : IsFiniteSet(S) /\ jobData[name] = TallyOn(S, f)
      BY <3>1, <3>2, <3>3 DEF CountsOf
    <3> QED
      BY <3>4, <3>5
  <2>2. ASSUME NEW queue \in DOMAIN queueWaits
        PROVE  queueWaits[queue] \in [Buckets : [AllBuckets -> Nat], Count : Nat \ {0},
                                      Sum : Nat, Oldest : Nat]
    <3>1. Describes(queueWaits[queue], Waiting(queue), WaitTimes(payload.jobs))
          /\ Waiting(queue) # {}
      BY <1>1, <2>2, LoopsMeasure
    <3>2. IsFiniteSet(Waiting(queue))
      BY <1>1, Progress, FS_Subset DEF Waiting
    <3>3. Cardinality(Waiting(queue)) # 0
      BY <3>1, <3>2, FS_EmptySet
    <3>4. queueWaits[queue] \in Entries /\ queueWaits[queue].Count # 0
      BY <3>1, <3>3 DEF Describes
    <3> QED
      BY <3>4 DEF Entries
  <2> QED
    BY <1>1, <2>1, <2>2 DEF TypeOK, Loops
<1>2. IInv => TypeOK
  BY <1>1 DEF IInv
<1> QED
  BY <1>2, AggregationInvariant, PTL

-----------------------------------------------------------------------------
(* What follows of the scrape. *)

\* The families a scrape shows.
LEMMA ShownFamilies ==
    ASSUME IInv, Shown
    PROVE  /\ series.pbs_jobs = jobData.StatusCount
           /\ series.pbs_jobs_running_by_queue = jobData.QueueJobCount
           /\ series.pbs_jobs_total_by_queue = jobData.QueueTotalCount
           /\ series.pbs_queue_jobs = [queue \in DOMAIN queueData |-> QueueJobs(queue)]
           /\ series.pbs_queue_job_wait_seconds =
                 [queue \in DOMAIN queueData |-> QueueWaitSeries(queue)]
           /\ series.pbs_nodes = nodeData.Count
           /\ series.pbs_node_state =
                 [node \in DOMAIN nodeData.Nodes |-> nodeData.Nodes[node].State]
           /\ series.pbs_node_utilization = [r \in Resources |-> Utilization(nodeData.Nodes, r)]
           /\ series.pbs_cluster = [r \in Resources |-> Cluster(nodeData.Nodes, r)]
           /\ series.pbs_job = [family \in JobFamilies |->
                                   UNION {JobSeries(jobs)[family] : jobs \in InspectedJobs}]
           /\ series.pbs_server = ServerSeries(serverData)
<1>1. series = Exposition
  BY DEF IInv, Scraped, Shown
<1> QED
  BY <1>1 DEF Exposition

\* What waits and what runs are different jobs of the queue.
LEMMA WaitingOrRunning ==
    ASSUME NEW jobs, IsFiniteSet(DOMAIN jobs), NEW queue
    PROVE  Cardinality(WaitingIn(jobs, queue))
              + Cardinality({j \in Running(jobs) : jobs[j].Queue = queue})
                 <= Cardinality({j \in DOMAIN jobs : jobs[j].Queue = queue})
<1> DEFINE waiting == WaitingIn(jobs, queue)
           running == {j \in Running(jobs) : jobs[j].Queue = queue}
           all == {j \in DOMAIN jobs : jobs[j].Queue = queue}
<1>1. waiting \subseteq all /\ running \subseteq all /\ all \subseteq DOMAIN jobs
  BY DEF WaitingIn, WaitingJobs, Running
<1>2. waiting \intersect running = {}
  BY DEF WaitingIn, WaitingJobs, Running, Waits
<1>3. IsFiniteSet(all) /\ IsFiniteSet(waiting) /\ IsFiniteSet(running)
  <2> HIDE DEF waiting, running, all
  <2> QED
    BY <1>1, FS_Subset
<1> HIDE DEF waiting, running, all
<1>4. Cardinality(waiting \union running)
         = Cardinality(waiting) + Cardinality(running) - Cardinality({})
  BY <1>2, <1>3, FS_Union
<1>5. Cardinality(waiting \union running) <= Cardinality(all)
  BY <1>1, <1>3, FS_Subset
<1>6. Cardinality(waiting) \in Nat /\ Cardinality(running) \in Nat /\ Cardinality({}) = 0
  BY <1>3, FS_CardinalityType, FS_EmptySet
<1> QED
  BY <1>4, <1>5, <1>6 DEF waiting, running, all

\* How many jobs of a queue run.
LEMMA RunningCounted ==
    ASSUME IInv, Shown, NEW queue
    PROVE  At(jobData.QueueJobCount, queue)
              = Cardinality({j \in Running(payload.jobs) : payload.jobs[j].Queue = queue})
<1> DEFINE jobs == payload.jobs
           names == QueueNames(jobs)
<1>1. Loops /\ Counted = DOMAIN jobs /\ IsFiniteSet(DOMAIN jobs)
  BY Progress DEF IInv, Shown, Jobs
<1>2. DOMAIN jobs \intersect Running(jobs) = Running(jobs) /\ IsFiniteSet(Running(jobs))
  BY <1>1, FS_Subset DEF Running
<1>3. jobData.QueueJobCount = TallyOn(Running(jobs), names)
  BY <1>1, <1>2 DEF Loops, CountsOf
<1>4. {j \in Running(jobs) : jobs[j].Queue = queue} = {j \in Running(jobs) : names[j] = queue}
  BY DEF QueueNames, Running
<1> HIDE DEF names, jobs
<1>5. At(jobData.QueueJobCount, queue) = Cardinality({j \in Running(jobs) : names[j] = queue})
  BY <1>2, <1>3, TallyByKey
<1> QED
  BY <1>4, <1>5 DEF jobs

\* What a scrape shows of the waits of a queue describes the jobs that wait there.
LEMMA WaitsCounted ==
    ASSUME IInv, Shown, NEW queue
    PROVE  Describes(QueueWaitSeries(queue), WaitingIn(payload.jobs, queue),
                     WaitTimes(payload.jobs))
<1>1. Loops /\ Measured = DOMAIN payload.jobs
  BY Progress DEF IInv, Shown, Jobs
<1>2. Waiting(queue) = WaitingIn(payload.jobs, queue)
  BY <1>1, LoopsMeasure DEF WaitingIn, WaitingJobs
<1>3. CASE queue \in DOMAIN queueWaits
  BY <1>1, <1>2, <1>3, LoopsMeasure DEF QueueWaitSeries
<1>4. CASE queue \notin DOMAIN queueWaits
  <2>1. WaitingIn(payload.jobs, queue) = {}
    BY <1>1, <1>2, <1>4, LoopsMeasure
  <2> QED
    BY <1>4, <2>1, NothingWaits DEF QueueWaitSeries
<1> QED
  BY <1>3, <1>4

\* The families of a queue agree.
LEMMA TotalsOfScrape == IInv => TotalsAgree
<1> SUFFICES ASSUME IInv, Shown,
                    NEW queue \in DOMAIN series.pbs_queue_jobs
                                     \cap DOMAIN series.pbs_jobs_total_by_queue
             PROVE  LET total == series.pbs_jobs_total_by_queue[queue] IN
                    /\ series.pbs_queue_jobs[queue].total = total
                    /\ series.pbs_queue_job_wait_seconds[queue].Count
                          + At(series.pbs_jobs_running_by_queue, queue) <= total
  BY DEF TotalsAgree
<1> DEFINE jobs == payload.jobs
           names == QueueNames(jobs)
<1>1. Loops /\ Counted = DOMAIN jobs /\ Measured = DOMAIN jobs /\ IsFiniteSet(DOMAIN jobs)
  BY Progress DEF IInv, Shown, Jobs
<1>2. /\ series.pbs_jobs_running_by_queue = jobData.QueueJobCount
      /\ series.pbs_jobs_total_by_queue = jobData.QueueTotalCount
      /\ queue \in DOMAIN queueData /\ queue \in DOMAIN jobData.QueueTotalCount
      /\ series.pbs_queue_jobs[queue] = QueueJobs(queue)
      /\ series.pbs_queue_job_wait_seconds[queue] = QueueWaitSeries(queue)
  BY ShownFamilies
<1>3. series.pbs_queue_jobs[queue].total = jobData.QueueTotalCount[queue]
  BY <1>2 DEF QueueJobs, QueueTotal
<1>4. jobData.QueueTotalCount[queue] = Cardinality({j \in DOMAIN jobs : jobs[j].Queue = queue})
  <2>1. jobData.QueueTotalCount = TallyOn(DOMAIN jobs, names)
    BY <1>1 DEF Loops, CountsOf
  <2>2. {j \in DOMAIN jobs : jobs[j].Queue = queue} = {j \in DOMAIN jobs : names[j] = queue}
    BY DEF QueueNames
  <2> HIDE DEF names, jobs
  <2>3. jobData.QueueTotalCount[queue] = Cardinality({j \in DOMAIN jobs : names[j] = queue})
    BY <1>1, <1>2, <2>1, TallyByKey
  <2> QED
    BY <2>2, <2>3
<1>5. At(jobData.QueueJobCount, queue)
         = Cardinality({j \in Running(jobs) : jobs[j].Queue = queue})
  BY RunningCounted
<1>6. QueueWaitSeries(queue).Count = Cardinality(WaitingIn(jobs, queue))
  BY WaitsCounted DEF Describes
<1> QED
  BY <1>1, <1>2, <1>3, <1>4, <1>5, <1>6, WaitingOrRunning

\* Totals from the jobs and from the queues are the same, and what runs or waits
\* is part of them.
THEOREM QueueFamiliesAgree == Spec => []TotalsAgree
BY TotalsOfScrape, AggregationInvariant, PTL

-----------------------------------------------------------------------------
(* Labels. *)

\* Of an id that begins with a number the number is left, and stays.
LEMMA NumberedID ==
    ASSUME NEW id, id # <<>>, IsSequence(id), id[1] \in Numbers
    PROVE  NormalizeJobID(id) = <<id[1]>>
<1> DEFINE digits == {i \in DOMAIN id : id[i] \in Numbers}
<1>1. 1 \in digits /\ \A j \in digits : 1 <= j
  BY DEF IsSequence
<1>2. \A i \in digits : (\A j \in digits : i <= j) => i = 1
  <2>1. digits \subseteq Nat
    BY DEF IsSequence
  <2> HIDE DEF digits
  <2> QED
    BY <1>1, <2>1
<1>3. (CHOOSE i \in digits : \A j \in digits : i <= j) = 1
  <2> HIDE DEF digits
  <2> QED
    BY <1>1, <1>2
<1>4. digits # {}
  BY <1>1
<1> QED
  BY <1>3, <1>4 DEF NormalizeJobID

\* The label of a job is its number.
LEMMA NumberedLabel ==
    ASSUME NEW records, NEW id \in DOMAIN records,
           id # <<>>, IsSequence(id), id[1] \in Numbers
    PROVE  JobInspectionLabelValues(ParseJobInspection(records)[id]).job_id = <<id[1]>>
<1> DEFINE job == ParseJobInspection(records)[id]
           short == <<id[1]>>
<1>1. job.JobID = short
  BY NumberedID DEF ParseJobInspection, InspectJob
<1>2. NormalizeJobID(short) = short
  <2>1. short # <<>> /\ IsSequence(short) /\ short[1] = id[1]
    BY DEF IsSequence, Range
  <2> HIDE DEF short
  <2>2. NormalizeJobID(short) = <<short[1]>>
    BY <2>1, NumberedID
  <2> QED
    BY <2>1, <2>2 DEF short
<1> QED
  BY <1>1, <1>2 DEF JobInspectionLabelValues

\* Jobs with different leading numbers never make a scrape fail.
LEMMA NumbersTellJobs == IInv => DistinctJobsDistinctSeries
<1> SUFFICES ASSUME IInv, NEW records \in payload.inspection, stage = "done",
                    \A a \in DOMAIN records : a[1] \in Numbers,
                    \A a, b \in DOMAIN records : a # b => a[1] # b[1]
             PROVE  status = 200
  BY DEF DistinctJobsDistinctSeries
<1>1. /\ \A other \in payload.inspection : other = records
      /\ \A id \in DOMAIN records : id # <<>> /\ IsSequence(id)
  BY JobsAssumption DEF IInv, Loops
<1>2. \A jobs \in InspectedJobs : jobs = ParseJobInspection(records)
  BY <1>1 DEF IInv, Scraped, InspectedJobs
<1>3. ~Duplicates(ParseJobInspection(records))
  <2> DEFINE jobs == ParseJobInspection(records)
  <2>1. DOMAIN jobs = DOMAIN records
    BY DEF ParseJobInspection
  <2>2. \A id \in DOMAIN records : JobInspectionLabelValues(jobs[id]).job_id = <<id[1]>>
    BY <1>1, NumberedLabel
  <2> HIDE DEF jobs
  <2>3. ASSUME NEW a \in DOMAIN records, NEW b \in DOMAIN records, a # b
        PROVE  JobInspectionLabelValues(jobs[a]) # JobInspectionLabelValues(jobs[b])
    <3>1. <<a[1]>> # <<b[1]>>
      BY <2>3
    <3> QED
      BY <2>2, <3>1
  <2> QED
    BY <2>1, <2>3 DEF Duplicates, jobs
<1> QED
  BY <1>2, <1>3 DEF IInv, Scraped

\* Jobs with different leading numbers never make a scrape fail.
THEOREM SeriesAreDistinct == Spec => []DistinctJobsDistinctSeries
BY NumbersTellJobs, AggregationInvariant, PTL
=============================================================================
