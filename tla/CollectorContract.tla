------------------------- MODULE CollectorContract -------------------------
(***************************************************************************)
(* What the SnapshotCollector interface of internal/exporter/worker.go     *)
(* promises its only caller, RunOnce: which results Collect may return.    *)
(* Exporter relies on it, SnapshotCollector states it as a specification,  *)
(* and PBSClient is shown to keep to it.                                   *)
(***************************************************************************)
EXTENDS StoreOps

CONSTANTS
    IncludeJobInspectionMetrics,  \* collector.include_job_inspection_metrics
    IncludeJobSampleHistograms,   \* collector.include_job_sample_histograms
    RunningJobs                   \* how many jobs an inspection may find running

\* main.go: what the client is asked to collect.
IncludeDetailedJobData ==
    IncludeJobInspectionMetrics \/ IncludeJobSampleHistograms

(***************************************************************************)
(* What Collect may return when it stamps its snapshot at time stamp.      *)
(* RunOnce also defends itself against a nil result, a nil snapshot and a  *)
(* snapshot without a stamp, which the interface does not rule out.        *)
(***************************************************************************)
Inspections ==
    IF IncludeDetailedJobData
    THEN {[attempted |-> TRUE, error |-> FALSE, data |-> n] : n \in RunningJobs}
         \union {[attempted |-> TRUE, error |-> TRUE, data |-> Nil]}
    ELSE {[attempted |-> FALSE, error |-> FALSE, data |-> Nil]}

SnapshotResults(stamp) ==
    {[Snapshot |-> [CollectedAt |-> t, JobInspection |-> i.data],
      JobInspectionAttempted |-> i.attempted,
      JobInspectionError     |-> i.error] :
         t \in {NoTime, stamp}, i \in Inspections}

NilSnapshotResult ==
    [Snapshot |-> Nil, JobInspectionAttempted |-> FALSE, JobInspectionError |-> FALSE]

Failed == [err |-> TRUE, result |-> Nil]

\* The commands of a collection begun under a done context fail at once.
CollectReturns(stamp, doomed) ==
    IF doomed
    THEN {Failed}
    ELSE {Failed} \union
         {[err |-> FALSE, result |-> r] :
             r \in {Nil, NilSnapshotResult} \union SnapshotResults(stamp)}
=============================================================================
