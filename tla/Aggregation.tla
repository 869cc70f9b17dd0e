---------------------------- MODULE Aggregation -----------------------------
(***************************************************************************)
(* From decoded answers of PBS to the series of /metrics: parseJobsJSON    *)
(* and parseQueueWaitJSON go through the jobs in whatever order Go gives   *)
(* the keys of a map, parseQueuesJSON, parseNodesJSON and parseServerJSON  *)
(* through tables, parseJobInspectionJSON through the jobs of a second     *)
(* answer, and Collect turns the result into series.  The answers come     *)
(* from five commands, so nothing relates them to each other.              *)
(*                                                                         *)
(* A job has an age: the stamp of the snapshot minus its qtime, negative   *)
(* when the clock of PBS is ahead.  A family of series is the map from its *)
(* labels to its values, a per-job family the set of its series.           *)
(***************************************************************************)
EXTENDS JobInspection, NodeTable, ServerTables

CONSTANTS
    Answers,      \* what PBS may answer: jobs, nodes, queues, server, and jobs again
    WaitBuckets,  \* the finite bounds of queueWaitBuckets
    Inf,          \* its last bound
    IncludeUserMetrics,
    IncludeJobInspectionMetrics

ASSUME AggregationAssumption ==
    /\ WaitBuckets \subseteq Nat
    /\ Inf \notin Int
    /\ IncludeUserMetrics \in BOOLEAN
    /\ IncludeJobInspectionMetrics \in BOOLEAN

\* The records of the tables of an answer.
NodeRecords(answer) == Records(answer.nodes.nodes, answer.nodes.Nodes)
QueueRecords(answer) == Records(answer.queues.Queue, answer.queues.Queues)
ServerRecords(answer) == Records(answer.server.Server, answer.server.Servers)

IsSequence(parts) == parts \in Seq(Range(parts))

\* There are finitely many jobs, and their states are letters and no words; the
\* answer to qstat -f is one or none, and the ids in it are sequences of runs of
\* characters.
ASSUME JobsAssumption ==
    \A answer \in Answers :
        /\ IsFiniteSet(DOMAIN answer.jobs)
        /\ \A j \in DOMAIN answer.jobs :
              /\ {"Queue", "JobState", "Age"} \subseteq DOMAIN answer.jobs[j]
              /\ answer.jobs[j].JobState \notin {"running", "queued"}
              /\ answer.jobs[j].Age \in Int \union {NoAge}
        /\ \A a, b \in answer.inspection : a = b
        /\ \A records \in answer.inspection : \A id \in DOMAIN records :
              id # <<>> /\ IsSequence(id)

\* Tables are finite, and every queue has a name; amounts are numbers, and the
\* total of none is negative.
ASSUME TablesAssumption ==
    \A answer \in Answers :
        /\ IsFiniteSet(DOMAIN NodeRecords(answer))
        /\ \A node \in DOMAIN NodeRecords(answer) : \A r \in Resources :
              LET texts == NodeRecords(answer)[node][r]
              IN  /\ IsSequence(texts)
                  /\ \A text \in Range(texts) :
                        text \in Seq(SUBSET Int) /\ (Len(text) = 2 => text[2] \subseteq Nat)
        /\ IsFiniteSet(DOMAIN QueueRecords(answer))
        /\ "" \notin DOMAIN QueueRecords(answer)
        /\ DOMAIN ServerRecords(answer) \subseteq Nat
        /\ \A queue \in DOMAIN QueueRecords(answer) :
              IsSequence(QueueRecords(answer)[queue].state_count)
        /\ \A name \in DOMAIN ServerRecords(answer) :
              IsSequence(ServerRecords(answer)[name].state_count)

VARIABLES
    payload,     \* the decoded answers
    stage,       \* the function that is running
    todo,        \* the jobs its loop has not come to
    jobData,     \* JobData
    queueWaits,  \* QueueWaitData.Queues
    queueData,   \* QueueData.Queues
    nodeData,    \* NodeData
    serverData,  \* ServerData
    inspection,  \* JobInspectionData.Jobs, the set of it: empty for nil
    status,      \* the HTTP status of a scrape of the snapshot
    series       \* what that scrape shows

tables == <<nodeData, queueData, serverData>>
parseVars == <<jobData, queueWaits, tables, inspection>>
vars == <<payload, stage, todo, parseVars, status, series>>

-----------------------------------------------------------------------------
(* Go's maps. *)

Empty == [key \in {} |-> 0]

Put(map, key, value) ==
    [k \in DOMAIN map \union {key} |-> IF k = key THEN value ELSE map[k]]

Increment(map, key) == Put(map, key, At(map, key) + 1)

-----------------------------------------------------------------------------
(* One job. *)

\* strings.ToUpper and strings.ToLower, of the letters of job states.
ToUpper(state) ==
    LET upper == [b |-> "B", e |-> "E", f |-> "F", h |-> "H", m |-> "M", q |-> "Q",
                  r |-> "R", s |-> "S", t |-> "T", u |-> "U", w |-> "W", x |-> "X"]
    IN  IF state \in DOMAIN upper THEN upper[state] ELSE state

ToLower(state) ==
    LET lower == [B |-> "b", E |-> "e", F |-> "f", H |-> "h", M |-> "m", Q |-> "q",
                  R |-> "r", S |-> "s", T |-> "t", U |-> "u", W |-> "w", X |-> "x"]
    IN  IF state \in DOMAIN lower THEN lower[state] ELSE state

\* States without a name of their own keep their letter, in lower case.
MapStatusLabel(state) ==
    LET s == ToUpper(state) IN
    CASE s = "F" -> "finished"
      [] s = "H" -> "held"
      [] s = "R" -> "running"
      [] s = "Q" -> "queued"
      [] s = "E" -> "exiting"
      [] s = "B" -> "array_job_running"
      [] OTHER   -> ToLower(state)

\* The part of the owner before its first @, unless PBS names the user.
JobUser(job) == IF job.EffectiveUser # "" THEN job.EffectiveUser ELSE job.JobOwner[1]

NoJobData == [StatusCount |-> Empty, QueueTotalCount |-> Empty, QueueJobCount |-> Empty,
              UserJobCount |-> Empty, QueuedJobsByUser |-> Empty]

\* Faulty: jobs without a user are passed over altogether.
CountUsersJob(data, job) ==
    IF JobUser(job) = "" THEN data ELSE
    [StatusCount      |-> Increment(data.StatusCount, MapStatusLabel(job.JobState)),
     QueueTotalCount  |-> Increment(data.QueueTotalCount, job.Queue),
     QueueJobCount    |-> IF ToUpper(job.JobState) = "R"
                          THEN Increment(data.QueueJobCount, job.Queue)
                          ELSE data.QueueJobCount,
     UserJobCount     |-> IF ToUpper(job.JobState) = "R"
                          THEN Increment(data.UserJobCount, JobUser(job))
                          ELSE data.UserJobCount,
     QueuedJobsByUser |-> IF ToUpper(job.JobState) = "Q"
                          THEN Increment(data.QueuedJobsByUser, JobUser(job))
                          ELSE data.QueuedJobsByUser]

\* The body of the loop of parseJobsJSON.
CountJob(data, job) ==
    LET running == ToUpper(job.JobState) = "R"
        queued  == ToUpper(job.JobState) = "Q"
        user    == JobUser(job)
    IN  [StatusCount      |-> Increment(data.StatusCount, MapStatusLabel(job.JobState)),
         QueueTotalCount  |-> Increment(data.QueueTotalCount, job.Queue),
         QueueJobCount    |-> IF running THEN Increment(data.QueueJobCount, job.Queue)
                              ELSE data.QueueJobCount,
         UserJobCount     |-> IF running /\ user # "" THEN Increment(data.UserJobCount, user)
                              ELSE data.UserJobCount,
         QueuedJobsByUser |-> IF queued /\ user # "" THEN Increment(data.QueuedJobsByUser, user)
                              ELSE data.QueuedJobsByUser]

AllBuckets == WaitBuckets \union {Inf}

NoWaits == [Buckets |-> [bucket \in AllBuckets |-> 0], Count |-> 0, Sum |-> 0, Oldest |-> 0]

\* Faulty: a wait goes into the first bucket that holds it, as in a plain histogram.
AddQueueWaitOnce(data, queue, wait) ==
    LET info   == IF queue \in DOMAIN data THEN data[queue] ELSE NoWaits
        fits   == {bucket \in WaitBuckets : wait <= bucket}
        first  == IF fits = {} THEN Inf
                  ELSE CHOOSE bucket \in fits : \A other \in fits : bucket <= other
    IN  Put(data, queue,
            [Buckets |-> [info.Buckets EXCEPT ![first] = @ + 1],
             Count   |-> info.Count + 1,
             Sum     |-> info.Sum + wait,
             Oldest  |-> IF wait > info.Oldest THEN wait ELSE info.Oldest])

AddQueueWait(data, queue, wait) ==
    LET info == IF queue \in DOMAIN data THEN data[queue] ELSE NoWaits
    IN  Put(data, queue,
            [Buckets |-> [bucket \in AllBuckets |->
                             IF bucket = Inf \/ wait <= bucket
                             THEN info.Buckets[bucket] + 1 ELSE info.Buckets[bucket]],
             Count   |-> info.Count + 1,
             Sum     |-> info.Sum + wait,
             Oldest  |-> IF wait > info.Oldest THEN wait ELSE info.Oldest])

\* A job that counts as waiting in a queue.
Waits(job) ==
    /\ ToUpper(job.JobState) = "Q"
    /\ job.Queue # ""
    /\ job.Age # NoAge

\* Faulty: a negative age is a wait.
UnclampedSeconds(job) == job.Age

WaitSeconds(job) == IF job.Age < 0 THEN 0 ELSE job.Age

\* The body of the loop of parseQueueWaitJSON.
AddWait(data, job) ==
    IF Waits(job) THEN AddQueueWait(data, job.Queue, WaitSeconds(job)) ELSE data

-----------------------------------------------------------------------------
Init ==
    /\ payload \in Answers
    /\ stage = "parseJobs"
    /\ todo = DOMAIN payload.jobs
    /\ jobData = NoJobData
    /\ queueWaits = Empty
    /\ queueData = Empty
    /\ nodeData = NoNodeData
    /\ serverData = NoServerData
    /\ inspection = {}
    /\ status = 200
    /\ series = Empty

\* parseJobsJSON comes to a job.
NextJob(j) ==
    /\ stage = "parseJobs"
    /\ j \in todo
    /\ jobData' = CountJob(jobData, payload.jobs[j])
    /\ todo' = todo \ {j}
    /\ UNCHANGED <<payload, stage, queueWaits, tables, inspection, status, series>>

JobsParsed ==
    /\ stage = "parseJobs"
    /\ todo = {}
    /\ stage' = "parseQueueWait"
    /\ todo' = DOMAIN payload.jobs
    /\ UNCHANGED <<payload, parseVars, status, series>>

\* parseQueueWaitJSON comes to a job.
NextWait(j) ==
    /\ stage = "parseQueueWait"
    /\ j \in todo
    /\ queueWaits' = AddWait(queueWaits, payload.jobs[j])
    /\ todo' = todo \ {j}
    /\ UNCHANGED <<payload, stage, jobData, tables, inspection, status, series>>

\* parseNodesJSON, parseQueuesJSON and parseServerJSON.
TablesParsed ==
    /\ stage = "parseQueueWait"
    /\ todo = {}
    /\ nodeData' = ParseNodes(payload.nodes)
    /\ queueData' = ParseQueues(payload.queues)
    /\ serverData' = ParseServer(payload.server)
    /\ stage' = "inspect"
    /\ UNCHANGED <<payload, todo, jobData, queueWaits, inspection, status, series>>

\* The inspection, which may be missing from the snapshot.
Inspect ==
    /\ stage = "inspect"
    /\ inspection' = {ParseJobInspection(records) : records \in payload.inspection}
    /\ stage' = "scrape"
    /\ UNCHANGED <<payload, todo, jobData, queueWaits, tables, status, series>>

-----------------------------------------------------------------------------
(* Collector.Collect. *)

\* Faulty: the total comes from the queue, like running and queued.
TotalOfQueue(queue) == queueData[queue].Running + queueData[queue].Queued

\* From the jobs, unless none of them is in the queue.
QueueTotal(queue) ==
    IF queue \in DOMAIN jobData.QueueTotalCount
    THEN jobData.QueueTotalCount[queue]
    ELSE queueData[queue].Running + queueData[queue].Queued

QueueJobs(queue) == [running |-> queueData[queue].Running,
                     queued  |-> queueData[queue].Queued,
                     total   |-> QueueTotal(queue)]

QueueWaitSeries(queue) ==
    IF queue \in DOMAIN queueWaits THEN queueWaits[queue] ELSE NoWaits

\* The jobs collectJobInspection goes through.
InspectedJobs == IF IncludeJobInspectionMetrics THEN inspection ELSE {}

Exposition ==
    [pbs_jobs                  |-> jobData.StatusCount,
     pbs_jobs_running_by_queue |-> jobData.QueueJobCount,
     pbs_jobs_total_by_queue   |-> jobData.QueueTotalCount,
     pbs_jobs_running_by_user  |-> IF IncludeUserMetrics THEN jobData.UserJobCount ELSE Empty,
     pbs_jobs_queued_by_user   |-> IF IncludeUserMetrics THEN jobData.QueuedJobsByUser ELSE Empty,
     pbs_nodes                 |-> nodeData.Count,
     pbs_node_state            |-> [node \in DOMAIN nodeData.Nodes |-> nodeData.Nodes[node].State],
     pbs_node_jobs             |-> [node \in DOMAIN nodeData.Nodes |-> nodeData.Nodes[node].Jobs],
     pbs_node                  |-> [node \in DOMAIN nodeData.Nodes |->
                                      [r \in Resources |-> AmountSeries(nodeData.Nodes[node].Amount[r])]],
     pbs_node_utilization      |-> [r \in Resources |-> Utilization(nodeData.Nodes, r)],
     pbs_cluster               |-> [r \in Resources |-> Cluster(nodeData.Nodes, r)],
     pbs_queue_jobs            |-> [queue \in DOMAIN queueData |-> QueueJobs(queue)],
     pbs_queue_enabled         |-> [queue \in DOMAIN queueData |-> queueData[queue].Enabled],
     pbs_queue_started         |-> [queue \in DOMAIN queueData |-> queueData[queue].Started],
     pbs_queue_walltime_seconds |-> [queue \in DOMAIN queueData |-> queueData[queue].Walltime],
     pbs_queue_job_wait_seconds |-> [queue \in DOMAIN queueData |-> QueueWaitSeries(queue)],
     pbs_job                   |-> [family \in JobFamilies |->
                                      UNION {JobSeries(jobs)[family] : jobs \in InspectedJobs}],
     pbs_server                |-> ServerSeries(serverData)]

\* Two series with the same labels make all of the scrape fail.
Scrape ==
    /\ stage = "scrape"
    /\ IF \E jobs \in InspectedJobs : Duplicates(jobs)
       THEN status' = 500 /\ series' = Empty
       ELSE status' = 200 /\ series' = Exposition
    /\ stage' = "done"
    /\ UNCHANGED <<payload, todo, parseVars>>

Next ==
    \/ \E j \in todo : NextJob(j)
    \/ JobsParsed
    \/ \E j \in todo : NextWait(j)
    \/ TablesParsed
    \/ Inspect
    \/ Scrape

Spec == Init /\ [][Next]_vars

-----------------------------------------------------------------------------
(* Properties. *)

Jobs == DOMAIN payload.jobs

\* A scrape was answered with series.
Shown == stage = "done" /\ status = 200

\* The jobs parseJobsJSON, and those parseQueueWaitJSON, has come to.
Counted == IF stage = "parseJobs" THEN Jobs \ todo ELSE Jobs
Measured == CASE stage = "parseJobs"      -> {}
              [] stage = "parseQueueWait" -> Jobs \ todo
              [] OTHER                    -> Jobs

InState(state) == {j \in Counted : ToUpper(payload.jobs[j].JobState) = state}
WithUser(js) == {j \in js : JobUser(payload.jobs[j]) # ""}
Waiting(queue) == {j \in Measured : Waits(payload.jobs[j]) /\ payload.jobs[j].Queue = queue}

\* How often each key occurs.
Tally(keyOf) ==
    [key \in {keyOf[j] : j \in DOMAIN keyOf} |->
        Cardinality({j \in DOMAIN keyOf : keyOf[j] = key})]

\* Types of the maps: counts are positive, waits and sums not negative
\* (client.go:66-111; snapshot_json.go:140-143).
TypeOK ==
    /\ stage \in {"parseJobs", "parseQueueWait", "inspect", "scrape", "done"}
    /\ todo \subseteq Jobs
    /\ \A name \in DOMAIN NoJobData :
          \A key \in DOMAIN jobData[name] : jobData[name][key] \in Nat \ {0}
    /\ \A queue \in DOMAIN queueWaits :
          queueWaits[queue] \in [Buckets : [AllBuckets -> Nat], Count : Nat \ {0},
                                 Sum : Nat, Oldest : Nat]

\* Whatever the order of the jobs, each map counts the jobs seen so far, each
\* of them once under its key, and has no other key (snapshot_json.go:102-119).
CountsMatchJobs ==
    /\ jobData.StatusCount = Tally([j \in Counted |-> MapStatusLabel(payload.jobs[j].JobState)])
    /\ jobData.QueueTotalCount = Tally([j \in Counted |-> payload.jobs[j].Queue])
    /\ jobData.QueueJobCount = Tally([j \in InState("R") |-> payload.jobs[j].Queue])
    /\ jobData.UserJobCount =
          Tally([j \in WithUser(InState("R")) |-> JobUser(payload.jobs[j])])
    /\ jobData.QueuedJobsByUser =
          Tally([j \in WithUser(InState("Q")) |-> JobUser(payload.jobs[j])])

\* The waits of a queue are cumulative over their buckets, the last bucket is
\* the count, the sum is that of the waits and the oldest the longest of them,
\* in whatever order they come (client.go:188-208).
WaitsAreCumulative ==
    /\ DOMAIN queueWaits = {queue \in DOMAIN jobData.QueueTotalCount : Waiting(queue) # {}}
    /\ \A queue \in DOMAIN queueWaits :
          LET info == queueWaits[queue]
              wait(j) == WaitSeconds(payload.jobs[j])
          IN  /\ info.Count = Cardinality(Waiting(queue))
              /\ info.Buckets[Inf] = info.Count
              /\ \A bucket \in WaitBuckets :
                    info.Buckets[bucket] =
                        Cardinality({j \in Waiting(queue) : wait(j) <= bucket})
              /\ \A j \in Waiting(queue) : wait(j) <= info.Oldest
              /\ \E j \in Waiting(queue) : wait(j) = info.Oldest
              /\ info.Sum = SumFunction([j \in Waiting(queue) |-> wait(j)])

\* The families of a queue agree, although running and queued come from the
\* queues, totals from one loop over the jobs and waits from another: both
\* totals are the same, and what runs or waits is part of them
\* (snapshot_json.go:102-148, collector_collect.go:106-129, 196-236).
TotalsAgree ==
    Shown =>
        \A queue \in DOMAIN series.pbs_queue_jobs \cap DOMAIN series.pbs_jobs_total_by_queue :
            LET total == series.pbs_jobs_total_by_queue[queue] IN
            /\ series.pbs_queue_jobs[queue].total = total
            /\ series.pbs_queue_job_wait_seconds[queue].Count
                  + At(series.pbs_jobs_running_by_queue, queue) <= total

\* pbs_nodes counts the nodes pbs_node_state shows, each under the state it is
\* shown in, and the cluster is made of the same nodes: whatever the fractions
\* look like, used and available add up to the total, and as no total is
\* negative there is one exactly when some node has a utilization
\* (snapshot_json.go:204-251, collector_collect.go:131-194).
NodeCountsMatch ==
    Shown =>
        /\ \A state \in NodeStates :
              series.pbs_nodes[state] =
                  Cardinality({node \in DOMAIN series.pbs_node_state :
                                  series.pbs_node_state[node] = state})
        /\ \A node \in DOMAIN series.pbs_node_state :
              series.pbs_node_state[node] \in NodeStates
        /\ \A r \in Resources :
              LET sums == series.pbs_cluster[r] IN
              /\ sums.available + sums.used = sums.total
              /\ sums.total > 0 <=> DOMAIN series.pbs_node_utilization[r] # {}

\* The second answer about jobs says of each what the first one says.
AnswersAlike(records) ==
    /\ DOMAIN records = Jobs
    /\ \A j \in Jobs : \A field \in DOMAIN payload.jobs[j] :
          records[j][field] = payload.jobs[j][field]

\* When PBS gives both commands the same jobs, the two parsers and the two
\* collectors of them agree: the per-job waits of a queue are as many as its
\* wait count says, have its sum and its longest, and as many jobs are shown
\* running as its running count says (snapshot_json.go:102-148,
\* pbs/job_inspection.go:196-282, exporter/job_inspection.go:170-195).
InspectionAgrees ==
    /\ Shown /\ IncludeJobInspectionMetrics
    /\ \E records \in payload.inspection : AnswersAlike(records)
    => \A queue \in DOMAIN series.pbs_queue_job_wait_seconds :
          LET info       == series.pbs_queue_job_wait_seconds[queue]
              seriesOf(family) == {sample \in series.pbs_job[family] : sample[1].queue = queue}
              waits      == seriesOf(<<"queue_wait_seconds">>)
              running    == {sample \in seriesOf(<<"info">>) : ToUpper(sample[1].job_state) = "R"}
          IN  /\ Cardinality(waits) = info.Count
              /\ SumFunction([sample \in waits |-> sample[2]]) = info.Sum
              /\ \A sample \in waits : sample[2] <= info.Oldest
              /\ waits # {} => \E sample \in waits : sample[2] = info.Oldest
              /\ Cardinality(running) = At(series.pbs_jobs_running_by_queue, queue)

\* The answers agree: each queue, and each server, says how many of the jobs
\* run or wait.
AnswersAgree ==
    LET in(queues, letter) ==
            Cardinality({j \in Jobs : /\ ToUpper(payload.jobs[j].JobState) = letter
                                      /\ payload.jobs[j].Queue \in queues})
        says(parts, name, number) ==
            {part \in Range(parts) : part[1] = name} = {<<name, {number}>>}
        queues  == QueueRecords(payload)
        servers == ServerRecords(payload)
    IN  /\ \A j \in Jobs : payload.jobs[j].Queue \in DOMAIN queues
        /\ \A queue \in DOMAIN queues :
              /\ says(queues[queue].state_count, "Running", in({queue}, "R"))
              /\ says(queues[queue].state_count, "Queued", in({queue}, "Q"))
        /\ DOMAIN servers # {}
        /\ \A server \in DOMAIN servers :
              /\ says(servers[server].state_count, "Running", in(DOMAIN queues, "R"))
              /\ says(servers[server].state_count, "Queued", in(DOMAIN queues, "Q"))

\* When the answers agree, so do the families drawn up by state, by queue, by
\* job and for the server, whatever else the texts of the counts contain
\* (snapshot_json.go:102-119, 150-202, 326-342, collector_collect.go:106-129,
\* 196-204, 238-250).
FamiliesAgree ==
    Shown /\ AnswersAgree =>
        LET queues == DOMAIN series.pbs_queue_jobs IN
        /\ \A state \in {"running", "queued"} :
              /\ series.pbs_server.jobs[state] = At(series.pbs_jobs, state)
              /\ series.pbs_server.jobs[state] =
                    SumFunction([queue \in queues |-> series.pbs_queue_jobs[queue][state]])
        /\ series.pbs_server.jobs.running =
              SumFunction([queue \in queues |-> At(series.pbs_jobs_running_by_queue, queue)])

\* Jobs with different leading numbers never make a scrape fail, in spite of the
\* two normalizations and of digits elsewhere in their ids
\* (pbs/job_inspection.go:253-259, exporter/job_inspection.go:170-223).
DistinctJobsDistinctSeries ==
    \A records \in payload.inspection :
        LET ids == DOMAIN records IN
        /\ stage = "done"
        /\ \A a \in ids : a[1] \in Numbers
        /\ \A a, b \in ids : a # b => a[1] # b[1]
        => status = 200

\* README.md:116: the owner without the host after its last @.
WithoutHost(owner) == IF Len(owner) = 1 THEN owner ELSE Front(owner)

\* /metrics shows the owner README.md:116 describes.  It does not when the
\* owner has an @ of its own: the second normalization drops it.
ExposedOwners ==
    \A records \in payload.inspection :
        Shown => \A id \in DOMAIN records :
            records[id].JobOwner[1] # "" =>
                \E sample \in series.pbs_job[<<"info">>] :
                    /\ sample[1].job_id = NormalizeJobID(id)
                    /\ sample[1].job_owner = WithoutHost(records[id].JobOwner)
=============================================================================
