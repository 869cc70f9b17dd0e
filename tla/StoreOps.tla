------------------------------ MODULE StoreOps ------------------------------
(***************************************************************************)
(* What the methods of internal/exporter/store.go do to the fields of      *)
(* Store, as operators on values: the modules that use them decide when    *)
(* they run and how much of them is atomic.                                *)
(*                                                                         *)
(* Fields keep their Go names.  A time is a natural number, NoTime is Go's *)
(* zero time, a duration is a difference of times and may be negative, and *)
(* Nil is the nil of every pointer.  Of a pbs.Snapshot only its time stamp *)
(* and its job inspection are told apart; of an inspection, how many of    *)
(* its jobs are in state R, which is what the job-sample histograms        *)
(* observe; of the histograms, how many jobs were observed.                *)
(***************************************************************************)
EXTENDS Integers

CONSTANT Nil

NoTime == 0

NoError         == ""
CollectError    == "collect failed"
NilResultError  == "collector returned nil result"
NilSnapshotError == "collector returned nil snapshot"

Errors == {CollectError, NilResultError, NilSnapshotError}

Snapshots == [CollectedAt : Nat, JobInspection : Nat \union {Nil}]

\* pbs.CollectionResult; JobInspectionError says whether the error is set.
CollectionResults ==
    [Snapshot               : Snapshots \union {Nil},
     JobInspectionAttempted : BOOLEAN,
     JobInspectionError     : BOOLEAN]

Statuses ==
    [Up                          : BOOLEAN,
     LastCollectTimestamp        : Nat,
     LastCollectSuccessTimestamp : Nat,
     SnapshotTimestamp           : Nat,
     LastCollectDuration         : Int,
     CollectErrorsTotal          : Nat,
     LastError                   : Errors \union {NoError},
     JobInspectionUp             : BOOLEAN,
     JobInspectionErrorsTotal    : Nat,
     JobInspectionLastSuccessAt  : Nat]

\* The guarded fields of Store.  histograms is Nil when they are disabled.
Stores ==
    [snapshot   : Snapshots \union {Nil},
     status     : Statuses,
     histograms : Nat \union {Nil}]

\* Nil is none of the values it stands beside.
ASSUME NilAssumption ==
    /\ Nil \notin Nat
    /\ Nil \notin Snapshots
    /\ Nil \notin CollectionResults

-----------------------------------------------------------------------------
NewStatus ==
    [Up                          |-> FALSE,
     LastCollectTimestamp        |-> NoTime,
     LastCollectSuccessTimestamp |-> NoTime,
     SnapshotTimestamp           |-> NoTime,
     LastCollectDuration         |-> 0,
     CollectErrorsTotal          |-> 0,
     LastError                   |-> NoError,
     JobInspectionUp             |-> FALSE,
     JobInspectionErrorsTotal    |-> 0,
     JobInspectionLastSuccessAt  |-> NoTime]

\* NewStore followed by ConfigureJobSampleHistograms.
NewStore(sampleHistograms) ==
    [snapshot   |-> Nil,
     status     |-> NewStatus,
     histograms |-> IF sampleHistograms THEN 0 ELSE Nil]

\* The result carries an inspection that was attempted and went well.
InspectionSucceeded(result) ==
    /\ result.JobInspectionAttempted
    /\ ~result.JobInspectionError
    /\ result.Snapshot.JobInspection # Nil

InspectionFailed(result) ==
    result.JobInspectionAttempted /\ result.JobInspectionError

\* Faulty: job_inspection_up is not reset when an inspection fails.
KeepsInspectionUp(status, result) ==
    status.JobInspectionUp \/ InspectionSucceeded(result)

\* applyJobInspectionResult, one operator for each field it sets.
InspectionUpAfter(status, result) == InspectionSucceeded(result)

\* Faulty: a successful inspection starts the count of errors afresh.
CountsSinceSuccess(status, result) ==
    IF InspectionFailed(result) THEN status.JobInspectionErrorsTotal + 1 ELSE 0

\* Faulty: a success makes up for an earlier error.
ForgivesErrors(status, result) ==
    IF InspectionFailed(result)
    THEN status.JobInspectionErrorsTotal + 1
    ELSE status.JobInspectionErrorsTotal - 1

InspectionErrorsAfter(status, result) ==
    IF InspectionFailed(result)
    THEN status.JobInspectionErrorsTotal + 1
    ELSE status.JobInspectionErrorsTotal

InspectionSuccessAfter(status, result, collectedAt) ==
    IF InspectionSucceeded(result)
    THEN collectedAt
    ELSE status.JobInspectionLastSuccessAt

\* applyJobSampleHistograms: every running job of a successful inspection is
\* observed once more.
HistogramsAfter(histograms, result) ==
    IF histograms # Nil /\ InspectionSucceeded(result)
    THEN histograms + result.Snapshot.JobInspection
    ELSE histograms

\* Faulty: the timestamp reported is the time the snapshot was published.
ReportedAtEnd(snapshot, collectedAt, duration) == collectedAt + duration

\* The timestamp UpdateSuccess reports for the snapshot.
ReportedTimestamp(snapshot, collectedAt, duration) == snapshot.CollectedAt

UpdateSuccess(store, result, collectedAt, duration) ==
    [snapshot   |-> result.Snapshot,
     status     |->
       [Up                          |-> TRUE,
        LastCollectTimestamp        |-> collectedAt,
        LastCollectSuccessTimestamp |-> collectedAt,
        SnapshotTimestamp           |->
            ReportedTimestamp(result.Snapshot, collectedAt, duration),
        LastCollectDuration         |-> duration,
        CollectErrorsTotal          |-> store.status.CollectErrorsTotal,
        LastError                   |-> NoError,
        JobInspectionUp             |-> InspectionUpAfter(store.status, result),
        JobInspectionErrorsTotal    |-> InspectionErrorsAfter(store.status, result),
        JobInspectionLastSuccessAt  |->
            InspectionSuccessAfter(store.status, result, collectedAt)],
     histograms |-> HistogramsAfter(store.histograms, result)]

\* Faulty: the timestamp of the snapshot outlives the snapshot.
KeepsTimestamp(status) == status.SnapshotTimestamp

\* The timestamp Clear leaves behind.
ClearedTimestamp(status) == NoTime

\* Faulty: only the first failure of an outage is counted.
CountsOutages(status) ==
    IF status.LastError = NoError
    THEN status.CollectErrorsTotal + 1
    ELSE status.CollectErrorsTotal

ErrorsAfterClear(status) == status.CollectErrorsTotal + 1

\* Clear with a non-nil error, the only way the worker calls it.
Clear(store, collectedAt, duration, err) ==
    [snapshot   |-> Nil,
     status     |->
       [Up                          |-> FALSE,
        LastCollectTimestamp        |-> collectedAt,
        LastCollectSuccessTimestamp |-> store.status.LastCollectSuccessTimestamp,
        SnapshotTimestamp           |-> ClearedTimestamp(store.status),
        LastCollectDuration         |-> duration,
        CollectErrorsTotal          |-> ErrorsAfterClear(store.status),
        LastError                   |-> err,
        JobInspectionUp             |-> FALSE,
        JobInspectionErrorsTotal    |-> store.status.JobInspectionErrorsTotal,
        JobInspectionLastSuccessAt  |-> store.status.JobInspectionLastSuccessAt],
     histograms |-> store.histograms]
=============================================================================
