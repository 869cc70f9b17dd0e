--------------------------- MODULE JobInspection ----------------------------
(***************************************************************************)
(* Detailed jobs, from the answer of qstat -f to the per-job series:       *)
(* parseJobInspectionJSON, run once per collection, and                    *)
(* collectJobInspection, run by every scrape.  Both normalize the labels.  *)
(*                                                                         *)
(* An id is the sequence of its runs of digits and of its runs of other    *)
(* characters, an owner the sequence of its parts between the @s.          *)
(* All jobs are of one project, whose label is left out.                   *)
(***************************************************************************)
EXTENDS Scalars

CONSTANTS
    Numbers,  \* runs of digits
    NoAge     \* a time that is missing or cannot be parsed

ASSUME JobInspectionAssumption == NoAge \notin Int

-----------------------------------------------------------------------------
(* Labels. *)

\* Faulty: the number looked for is the last one.
LastNumber(id) ==
    LET digits == {i \in DOMAIN id : id[i] \in Numbers} IN
    IF digits = {} THEN id
    ELSE <<id[CHOOSE i \in digits : \A j \in digits : j <= i]>>

\* The first run of digits, if there is one.
NormalizeJobID(id) ==
    LET digits == {i \in DOMAIN id : id[i] \in Numbers} IN
    IF digits = {} THEN id
    ELSE <<id[CHOOSE i \in digits : \A j \in digits : i <= j]>>

\* What precedes the last @, unless there is none or it comes first.
NormalizeJobOwner(owner) ==
    IF Len(owner) = 1 \/ (Len(owner) = 2 /\ owner[1] = "")
    THEN owner
    ELSE Front(owner)

JobInspectionLabelValues(job) ==
    [job_id    |-> NormalizeJobID(job.JobID),
     queue     |-> job.Queue,
     job_owner |-> NormalizeJobOwner(job.JobOwner),
     job_state |-> job.JobState]

-----------------------------------------------------------------------------
(* Values. *)

\* Bytes and durations, or plain numbers.
Optional(resource, scalar) ==
    IF resource \in {"mem", "vmem", "walltime", "cput"}
    THEN OptionalQuantity(scalar)
    ELSE OptionalNumber(scalar)

\* Faulty: a clock that is behind that of PBS makes a time negative.
ElapsedUnclamped(age) == IF age = NoAge THEN {} ELSE {age}

OptionalElapsedSeconds(age) ==
    IF age = NoAge THEN {} ELSE {IF age < 0 THEN 0 ELSE age}

RequestedResources == {"mem", "walltime", "ncpus", "ngpus", "mpiprocs", "nodect"}
UsedResources == {"cpupercent", "cput", "mem", "vmem", "ncpus", "ngpus", "walltime"}

\* One job of parseJobInspectionJSON.
InspectJob(id, record) ==
    LET running == record.JobState \in {"R", "r"}
        queued  == record.JobState \in {"Q", "q"}
    IN  [JobID    |-> NormalizeJobID(id),
         Queue    |-> record.Queue,
         JobOwner |-> NormalizeJobOwner(record.JobOwner),
         JobState |-> record.JobState,
         Requested |-> [r \in RequestedResources |-> Optional(r, record.Resource_List[r])],
         Used      |-> [r \in UsedResources |->
                           IF running THEN Optional(r, record.resources_used[r]) ELSE {}],
         RuntimeSeconds   |-> IF running THEN OptionalElapsedSeconds(record.StartAge) ELSE {},
         QueueWaitSeconds |-> IF queued THEN OptionalElapsedSeconds(record.Age) ELSE {}]

ParseJobInspection(records) == [id \in DOMAIN records |-> InspectJob(id, records[id])]

-----------------------------------------------------------------------------
(* Series.  A family is named by the field it shows. *)

\* Per cent are shown as cores, here as a quotient.
NCPUsRealUsage(cpuPercent) == {<<value, 100>> : value \in cpuPercent}

JobFamilies ==
    {<<"info">>, <<"ncpusrealusage">>, <<"runtime_seconds">>, <<"queue_wait_seconds">>}
    \union ({"requested"} \X RequestedResources)
    \union ({"used"} \X UsedResources)

\* The values of one job, by family.
JobValues(job) ==
    [family \in JobFamilies |->
        CASE family[1] = "info"               -> {1}
          [] family[1] = "requested"          -> job.Requested[family[2]]
          [] family[1] = "used"               -> job.Used[family[2]]
          [] family[1] = "ncpusrealusage"     -> NCPUsRealUsage(job.Used["cpupercent"])
          [] family[1] = "runtime_seconds"    -> job.RuntimeSeconds
          [] family[1] = "queue_wait_seconds" -> job.QueueWaitSeconds]

\* collectJobInspection: labels and value of each series of each family.
JobSeries(jobs) ==
    [family \in JobFamilies |->
        UNION {{<<JobInspectionLabelValues(jobs[id]), value>> :
                   value \in JobValues(jobs[id])[family]} : id \in DOMAIN jobs}]

\* The registry takes no two series with the same labels; pbs_job_info has one
\* for each job.
Duplicates(jobs) ==
    \E a, b \in DOMAIN jobs :
        a # b /\ JobInspectionLabelValues(jobs[a]) = JobInspectionLabelValues(jobs[b])
=============================================================================
