--------------------------- MODULE ExporterProofs ---------------------------
(***************************************************************************)
(* Proofs about Exporter, for any set of scrapers, any options, any delays *)
(* and any number of ticks, and a clock that may be set back at any time.  *)
(***************************************************************************)
EXTENDS Exporter, TLAPS

-----------------------------------------------------------------------------
(* The operators. *)

\* What a publication leaves in the Store, field by field.
IsUpdated(new, st, r, at, d) ==
    /\ new \in Stores
    /\ new.snapshot = r.Snapshot
    /\ new.status.Up
    /\ new.status.LastCollectTimestamp = at
    /\ new.status.LastCollectSuccessTimestamp = at
    /\ new.status.SnapshotTimestamp = r.Snapshot.CollectedAt
    /\ new.status.LastCollectDuration = d
    /\ new.status.CollectErrorsTotal = st.status.CollectErrorsTotal
    /\ new.status.LastError = NoError
    /\ new.status.JobInspectionUp = InspectionSucceeded(r)
    /\ new.status.JobInspectionErrorsTotal =
          st.status.JobInspectionErrorsTotal +
             (IF r.JobInspectionAttempted /\ r.JobInspectionError THEN 1 ELSE 0)
    /\ new.status.JobInspectionLastSuccessAt =
          IF InspectionSucceeded(r) THEN at
          ELSE st.status.JobInspectionLastSuccessAt
    /\ new.histograms = HistogramsAfter(st.histograms, r)

\* What a failed run leaves in the Store, field by field.
IsCleared(new, st, at, d, e) ==
    /\ new \in Stores
    /\ new.snapshot = Nil
    /\ ~new.status.Up
    /\ new.status.LastCollectTimestamp = at
    /\ new.status.LastCollectSuccessTimestamp =
          st.status.LastCollectSuccessTimestamp
    /\ new.status.SnapshotTimestamp = NoTime
    /\ new.status.LastCollectDuration = d
    /\ new.status.CollectErrorsTotal = st.status.CollectErrorsTotal + 1
    /\ new.status.LastError = e
    /\ ~new.status.JobInspectionUp
    /\ new.status.JobInspectionErrorsTotal = st.status.JobInspectionErrorsTotal
    /\ new.status.JobInspectionLastSuccessAt =
          st.status.JobInspectionLastSuccessAt
    /\ new.histograms = st.histograms

\* UpdateSuccess sets every field as store.go:41-55 does.
LEMMA UpdateSuccessFields ==
    ASSUME NEW st \in Stores, NEW r \in CollectionResults, r.Snapshot \in Snapshots,
           NEW at \in Nat, NEW d \in Int
    PROVE  IsUpdated(UpdateSuccess(st, r, at, d), st, r, at, d)
<1>1. st.status \in Statuses /\ st.histograms \in Nat \union {Nil}
  BY DEF Stores
<1>2. r.Snapshot.CollectedAt \in Nat
      /\ r.Snapshot.JobInspection \in Nat \union {Nil}
  BY DEF Snapshots
<1>3. InspectionErrorsAfter(st.status, r) =
         st.status.JobInspectionErrorsTotal +
            (IF r.JobInspectionAttempted /\ r.JobInspectionError THEN 1 ELSE 0)
      /\ InspectionErrorsAfter(st.status, r) \in Nat
  BY <1>1 DEF InspectionErrorsAfter, InspectionFailed, Statuses
<1>4. InspectionUpAfter(st.status, r) \in BOOLEAN
      /\ InspectionSuccessAfter(st.status, r, at) \in Nat
  BY <1>1 DEF InspectionUpAfter, InspectionSuccessAfter, InspectionSucceeded, Statuses
<1>5. HistogramsAfter(st.histograms, r) \in Nat \union {Nil}
  BY <1>1, <1>2 DEF HistogramsAfter, InspectionSucceeded
<1>6. UpdateSuccess(st, r, at, d).status \in Statuses
  BY <1>1, <1>2, <1>3, <1>4
  DEF UpdateSuccess, Statuses, ReportedTimestamp, NoError
<1>7. UpdateSuccess(st, r, at, d) \in Stores
  BY <1>5, <1>6 DEF UpdateSuccess, Stores
<1> QED
  BY <1>3, <1>7
  DEF IsUpdated, UpdateSuccess, ReportedTimestamp, InspectionUpAfter,
      InspectionSuccessAfter

\* Clear sets every field as store.go:57-71 does.
LEMMA ClearFields ==
    ASSUME NEW st \in Stores, NEW at \in Nat, NEW d \in Int, NEW e \in Errors
    PROVE  IsCleared(Clear(st, at, d, e), st, at, d, e)
<1>1. st.status \in Statuses /\ st.histograms \in Nat \union {Nil}
  BY DEF Stores
<1>2. Clear(st, at, d, e).status \in Statuses
  BY <1>1 DEF Clear, Statuses, ClearedTimestamp, ErrorsAfterClear, NoTime
<1>3. Clear(st, at, d, e) \in Stores
  BY <1>1, <1>2 DEF Clear, Stores
<1> QED
  BY <1>3 DEF IsCleared, Clear, ClearedTimestamp, ErrorsAfterClear

\* RunOnce publishes exactly when there is a snapshot and no error; what it
\* clears the Store for is one of its three errors (worker.go:63-76).
LEMMA FailureOfRun ==
    ASSUME NEW ret \in Returned
    PROVE  /\ FailureOf(ret) \in Errors \union {NoError}
           /\ FailureOf(ret) = NoError =>
                 ~ret.err /\ ret.result # Nil /\ ret.result.Snapshot # Nil
<1>1. CASE ret.err
  BY <1>1 DEF FailureOf, Errors, CollectError, NoError
<1>2. CASE ~ret.err /\ ret.result = Nil
  BY <1>2 DEF FailureOf, Errors, NilResultError, NoError
<1>3. CASE ~ret.err /\ ret.result # Nil /\ ret.result.Snapshot = Nil
  BY <1>3 DEF FailureOf, Errors, NilSnapshotError, NoError
<1>4. CASE ~ret.err /\ ret.result # Nil /\ ret.result.Snapshot # Nil
  BY <1>4 DEF FailureOf, NoError
<1> QED
  BY <1>1, <1>2, <1>3, <1>4 DEF Returned

\* Any of the three errors is an error.
LEMMA NoErrorIsNone == NoError \notin Errors
  BY DEF NoError, Errors, CollectError, NilResultError, NilSnapshotError

-----------------------------------------------------------------------------
(* Types. *)

\* A result whose snapshot has the stamp, or none, and that has an inspection
\* exactly if one was asked for and did not fail.
WellFormed(r, stamp) ==
    /\ r.Snapshot \in Snapshots
    /\ r.Snapshot.CollectedAt \in {NoTime, stamp}
    /\ r.Snapshot.JobInspection # Nil <=> InspectionSucceeded(r)
    /\ InspectionFailed(r) <=> IncludeDetailedJobData /\ ~InspectionSucceeded(r)

\* The run under way has started, and a result it may publish is one that was
\* stamped while it ran.
RunOK ==
    /\ wpc \in {"collecting", "commit"} => 1 <= run.started
    /\ wpc = "commit" /\ FailureOf(run.returned) = NoError =>
          WellFormed(run.returned.result, run.stamp)

TypeInv == TypeOK /\ RunOK

\* Whatever Collect returns is an error, one of the results RunOnce refuses, or
\* well formed (client_collection.go:15-59).
LEMMA ReturnsWellFormed ==
    ASSUME NEW stamp \in Nat, NEW doomed \in BOOLEAN,
           NEW ret \in CollectReturns(stamp, doomed)
    PROVE  /\ ret \in Returned
           /\ FailureOf(ret) = NoError => WellFormed(ret.result, stamp)
<1>1. CASE ret = Failed
  <2>1. ret \in Returned /\ ret.err
    BY <1>1 DEF Failed, Returned
  <2> QED
    BY <2>1, FailureOfRun
<1>2. CASE ret = [err |-> FALSE, result |-> Nil]
  <2>1. ret \in Returned /\ ret.result = Nil
    BY <1>2 DEF Returned
  <2> QED
    BY <2>1, FailureOfRun
<1>3. CASE ret = [err |-> FALSE, result |-> NilSnapshotResult]
  <2>1. NilSnapshotResult \in CollectionResults /\ NilSnapshotResult.Snapshot = Nil
    BY DEF NilSnapshotResult, CollectionResults
  <2>2. ret \in Returned /\ ret.result.Snapshot = Nil
    BY <1>3, <2>1 DEF Returned
  <2> QED
    BY <2>2, FailureOfRun
<1>4. ASSUME NEW r \in SnapshotResults(stamp), ret = [err |-> FALSE, result |-> r]
      PROVE  ret \in Returned /\ WellFormed(ret.result, stamp)
  <2>1. PICK t \in {NoTime, stamp}, i \in Inspections :
           r = [Snapshot |-> [CollectedAt |-> t, JobInspection |-> i.data],
                JobInspectionAttempted |-> i.attempted,
                JobInspectionError     |-> i.error]
    BY <1>4 DEF SnapshotResults
  <2>2. /\ i.attempted \in BOOLEAN /\ i.error \in BOOLEAN /\ i.data \in Nat \union {Nil}
        /\ i.attempted <=> IncludeDetailedJobData
        /\ i.data # Nil <=> i.attempted /\ ~i.error
    <3>1. CASE IncludeDetailedJobData
      <4>1. \/ \E n \in RunningJobs :
                 i = [attempted |-> TRUE, error |-> FALSE, data |-> n]
            \/ i = [attempted |-> TRUE, error |-> TRUE, data |-> Nil]
        BY <3>1, <2>1 DEF Inspections
      <4>2. ASSUME NEW n \in RunningJobs,
                   i = [attempted |-> TRUE, error |-> FALSE, data |-> n]
            PROVE  i.attempted = TRUE /\ i.error = FALSE /\ i.data \in Nat /\ i.data # Nil
        <5>1. n \in Nat /\ n # Nil
          BY ExporterAssumption, NilAssumption
        <5> QED
          BY <4>2, <5>1
      <4>3. ASSUME i = [attempted |-> TRUE, error |-> TRUE, data |-> Nil]
            PROVE  i.attempted = TRUE /\ i.error = TRUE /\ i.data = Nil
        BY <4>3
      <4> QED
        BY <3>1, <4>1, <4>2, <4>3
    <3>2. CASE ~IncludeDetailedJobData
      <4>1. i = [attempted |-> FALSE, error |-> FALSE, data |-> Nil]
        BY <3>2, <2>1 DEF Inspections
      <4> QED
        BY <3>2, <4>1
    <3> QED
      BY <3>1, <3>2
  <2>3. t \in Nat
    BY <2>1 DEF NoTime
  <2>4. r.Snapshot \in Snapshots /\ r \in CollectionResults
    BY <2>1, <2>2, <2>3 DEF Snapshots, CollectionResults
  <2>5. r.Snapshot.CollectedAt = t
        /\ InspectionSucceeded(r) = (i.attempted /\ ~i.error)
        /\ InspectionFailed(r) = (i.attempted /\ i.error)
        /\ r.Snapshot.JobInspection = i.data
    BY <2>1, <2>2 DEF InspectionSucceeded, InspectionFailed
  <2>6. /\ r.Snapshot.JobInspection # Nil <=> InspectionSucceeded(r)
        /\ InspectionFailed(r) <=> IncludeDetailedJobData /\ ~InspectionSucceeded(r)
    BY <2>2, <2>5
  <2>7. WellFormed(r, stamp)
    BY <2>1, <2>4, <2>5, <2>6 DEF WellFormed
  <2> QED
    BY <1>4, <2>4, <2>7 DEF Returned
<1> QED
  BY <1>1, <1>2, <1>3, <1>4 DEF CollectReturns

\* What RunOnce does to the Store: it clears it for one of its errors, or it
\* publishes a snapshot stamped during the run (worker.go:59-86).
LEMMA CommitCases ==
    ASSUME TypeInv, ClearStore \/ PublishSnapshot
    PROVE  \/ \E e \in Errors : store' = Clear(store, run.started, run.duration, e)
           \/ \E r \in CollectionResults :
                 /\ WellFormed(r, r.Snapshot.CollectedAt)
                 /\ r.Snapshot.CollectedAt \in {run.started, run.stamp} \ {NoTime}
                 /\ store' = UpdateSuccess(store, r, run.started, run.duration)
<1>1. run.returned \in Returned /\ run.started \in Nat /\ run.stamp \in Nat
      /\ wpc = "commit" /\ 1 <= run.started
  BY DEF TypeInv, TypeOK, Runs, RunOK, ClearStore, PublishSnapshot
<1>2. CASE ClearStore
  BY <1>1, <1>2, FailureOfRun DEF ClearStore
<1>3. CASE PublishSnapshot
  <2> DEFINE r == run.returned.result
             q == Stamped(r, run.started)
  <2>1. FailureOf(run.returned) = NoError
        /\ store' = UpdateSuccess(store, q, run.started, run.duration)
    BY <1>3 DEF PublishSnapshot
  <2>2. WellFormed(r, run.stamp)
    BY <1>1, <2>1 DEF TypeInv, RunOK
  <2>3. r \in CollectionResults
    BY <1>1, <2>1, FailureOfRun DEF Returned
  <2>4. r.Snapshot.CollectedAt \in Nat /\ r.Snapshot.JobInspection \in Nat \union {Nil}
        /\ r.JobInspectionAttempted \in BOOLEAN /\ r.JobInspectionError \in BOOLEAN
    BY <2>2, <2>3 DEF WellFormed, Snapshots, CollectionResults
  <2> DEFINE t == IF r.Snapshot.CollectedAt = NoTime
                  THEN run.started ELSE r.Snapshot.CollectedAt
  <2>5. q = [Snapshot |-> [CollectedAt |-> t, JobInspection |-> r.Snapshot.JobInspection],
             JobInspectionAttempted |-> r.JobInspectionAttempted,
             JobInspectionError     |-> r.JobInspectionError]
    BY DEF Stamped
  <2>6. t \in Nat /\ t # NoTime /\ t \in {run.started, run.stamp}
    BY <1>1, <2>2, <2>4 DEF WellFormed, NoTime
  <2> HIDE DEF r, q, t
  <2>7. q \in CollectionResults /\ q.Snapshot \in Snapshots
    BY <2>4, <2>5, <2>6 DEF Snapshots, CollectionResults
  <2>8. /\ q.Snapshot.CollectedAt = t
        /\ q.Snapshot.JobInspection = r.Snapshot.JobInspection
        /\ InspectionSucceeded(q) = InspectionSucceeded(r)
        /\ InspectionFailed(q) = InspectionFailed(r)
    BY <2>5 DEF InspectionSucceeded, InspectionFailed
  <2>9. WellFormed(q, t)
    BY <2>2, <2>7, <2>8 DEF WellFormed
  <2> QED
    BY <2>1, <2>6, <2>7, <2>8, <2>9
<1> QED
  BY <1>2, <1>3

\* A run begins with its locals of their types.
LEMMA RunTypes ==
    ASSUME NEW time \in Nat, NEW e \in Nat, NEW done \in BOOLEAN
    PROVE  /\ RunFrom(time, e, done) \in Runs
           /\ RunFrom(time, e, done).started = time
           /\ RunFrom(time, e, done).stamp = NoTime
           /\ RunFrom(time, e, done).eras.began = e
           /\ RunFrom(time, e, done).eras.ended = e
BY DEF RunFrom, Runs, Eras, Failed, Returned, NoTime

\* The process starts with every variable of its type.
LEMMA TypeInvInit == Init => TypeInv
<1> SUFFICES ASSUME Init PROVE TypeInv
  OBVIOUS
<1>1. store \in Stores
  <2>1. NewStatus \in Statuses
    BY DEF NewStatus, Statuses, NoTime
  <2> QED
    BY <2>1 DEF Init, NewStoreInMain, NewStore, Stores
<1>2. run \in Runs
  <2>1. RunFrom(NoTime, 0, FALSE) \in Runs
    BY RunTypes DEF NoTime
  <2> QED
    BY <2>1 DEF Init
<1>3. log \in Seq(Stores) /\ era \in Nat /\ eras \in Seq(Eras) /\ Len(eras) = Len(log)
  <2>1. run.eras \in Eras
    BY <1>2 DEF Runs
  <2>2. log = <<store>> /\ eras = <<run.eras>> /\ era = 0
    BY DEF Init
  <2>3. log \in Seq(Stores) /\ Len(log) = 1
    BY ONLY <1>1, <2>2
  <2>4. eras \in Seq(Eras) /\ Len(eras) = 1
    BY ONLY <2>1, <2>2
  <2> QED
    BY <2>2, <2>3, <2>4
<1>4. view \in [Scrapers -> Stores]
  BY <1>1 DEF Init
<1>41. probe \in [ready : BOOLEAN, at : Nat] /\ since \in [Scrapers -> Nat]
  BY DEF Init
<1>42. spc \in [Scrapers -> {"idle", "histograms", "snapshot"}]
  BY DEF Init
<1>43. /\ wpc \in {"boot", "collecting", "commit", "select", "stopped"}
       /\ ticker \in {"none", "empty", "full", "stopped"}
       /\ main \in {"serving", "closed", "exited"}
  BY DEF Init
<1>44. ticks \in Nat /\ now \in Nat /\ now > 0
  BY ExporterAssumption DEF Init
<1>45. cancelled \in BOOLEAN
  BY DEF Init
<1>5. TypeOK
  BY <1>1, <1>2, <1>3, <1>4, <1>41, <1>42, <1>43, <1>44, <1>45 DEF TypeOK
<1>6. RunOK
  BY DEF Init, RunOK
<1> QED
  BY <1>5, <1>6 DEF TypeInv

\* No step of any goroutine leaves the types.
LEMMA TypeInvStep == TypeInv /\ [Next]_vars => TypeInv'
<1> SUFFICES ASSUME TypeInv, [Next]_vars PROVE TypeInv'
  OBVIOUS
<1>1. CASE FirstRun \/ ReceiveTick
  <2>1. PICK d \in Delays : now' = now + d /\ run' = RunFrom(now', era, cancelled)
    BY <1>1 DEF FirstRun, ReceiveTick, StartRun
  <2>2. now' \in Nat /\ now' > 0
    BY <2>1, ExporterAssumption DEF TypeInv, TypeOK
  <2>3. run' \in Runs /\ run'.started = now'
    BY <2>1, <2>2, RunTypes DEF TypeInv, TypeOK
  <2>4. TypeOK'
    BY <1>1, <2>2, <2>3
    DEF TypeInv, TypeOK, FirstRun, ReceiveTick, StartRun, scrapeVars, logVars
  <2>5. wpc' = "collecting" /\ 1 <= run'.started
    BY <1>1, <2>2, <2>3 DEF FirstRun, ReceiveTick, StartRun
  <2> QED
    BY <2>4, <2>5 DEF TypeInv, RunOK
<1>2. CASE StampSnapshot
  <2>1. PICK d \in Delays : now' = now + d /\ run' = [run EXCEPT !.stamp = now']
    BY <1>2 DEF StampSnapshot
  <2>2. now' \in Nat /\ now' > 0
    BY <2>1, ExporterAssumption DEF TypeInv, TypeOK
  <2>3. run \in Runs
    BY DEF TypeInv, TypeOK
  <2>4. run' \in Runs /\ run'.started = run.started
    BY <2>1, <2>2, <2>3 DEF Runs
  <2>5. TypeOK'
    BY <1>2, <2>2, <2>4 DEF TypeInv, TypeOK, StampSnapshot, scrapeVars, logVars
  <2>6. wpc' = "collecting" /\ 1 <= run'.started
    BY <1>2, <2>4 DEF StampSnapshot, TypeInv, RunOK
  <2> QED
    BY <2>5, <2>6 DEF TypeInv, RunOK
<1>3. CASE FinishCollect
  <2>1. PICK d \in Delays, r \in CollectReturns(run.stamp, run.doomed) :
           /\ now' = now + d
           /\ run' = [run EXCEPT !.duration = Elapsed(run.started, now'),
                                 !.returned = r,
                                 !.eras.ended = era]
    BY <1>3 DEF FinishCollect
  <2>2. now' \in Nat /\ now' > 0
    BY <2>1, ExporterAssumption DEF TypeInv, TypeOK
  <2>3. run \in Runs /\ era \in Nat
    BY DEF TypeInv, TypeOK
  <2>4. run.started \in Nat /\ run.stamp \in Nat /\ run.doomed \in BOOLEAN /\ run.eras \in Eras
    BY <2>3 DEF Runs
  <2>5. /\ r \in Returned
        /\ FailureOf(r) = NoError => WellFormed(r.result, run.stamp)
    BY <2>4, ReturnsWellFormed
  <2>6. Elapsed(run.started, now') \in Int
    BY <2>2, <2>4 DEF Elapsed
  <2>7. /\ run' \in Runs
        /\ run'.started = run.started /\ run'.stamp = run.stamp /\ run'.returned = r
    BY <2>1, <2>3, <2>4, <2>5, <2>6 DEF Runs, Eras
  <2>8. TypeOK'
    BY <1>3, <2>2, <2>7 DEF TypeInv, TypeOK, FinishCollect, scrapeVars, logVars
  <2>9. 1 <= run'.started
    BY <1>3, <2>7 DEF FinishCollect, TypeInv, RunOK
  <2>10. FailureOf(run'.returned) = NoError => WellFormed(run'.returned.result, run'.stamp)
    BY <2>5, <2>7
  <2>11. /\ (FailureOf(run.returned) = NoError)' <=> FailureOf(run'.returned) = NoError
         /\ WellFormed(run.returned.result, run.stamp)'
             <=> WellFormed(run'.returned.result, run'.stamp)
    BY DEF FailureOf, NoError, NoTime, WellFormed, InspectionSucceeded, InspectionFailed,
           Snapshots, IncludeDetailedJobData
  <2>12. RunOK'
    BY <2>9, <2>10, <2>11 DEF RunOK
  <2> QED
    BY <2>8, <2>12 DEF TypeInv
<1>4. CASE ClearStore \/ PublishSnapshot
  <2>1. store' \in Stores
    <3>1. store \in Stores /\ run.started \in Nat /\ run.duration \in Int
      BY DEF TypeInv, TypeOK, Runs
    <3>2. ASSUME NEW r \in CollectionResults, WellFormed(r, r.Snapshot.CollectedAt)
          PROVE  UpdateSuccess(store, r, run.started, run.duration) \in Stores
      BY <3>1, <3>2, UpdateSuccessFields DEF WellFormed, IsUpdated
    <3> QED
      BY <1>4, <3>1, <3>2, CommitCases, ClearFields DEF IsCleared
  <2>2. log' \in Seq(Stores) /\ eras' \in Seq(Eras) /\ Len(eras') = Len(log')
    <3>1. /\ log \in Seq(Stores) /\ log' = Append(log, store')
          /\ eras \in Seq(Eras) /\ eras' = Append(eras, run.eras)
          /\ Len(eras) = Len(log) /\ run.eras \in Eras
      BY <1>4 DEF TypeInv, TypeOK, Runs, ClearStore, PublishSnapshot, EnterSelect
    <3> QED
      BY <2>1, <3>1
  <2>3. TypeOK'
    BY <1>4, <2>1, <2>2
    DEF TypeInv, TypeOK, ClearStore, PublishSnapshot, EnterSelect, scrapeVars, clockVars
  <2>4. RunOK'
    BY <1>4 DEF RunOK, ClearStore, PublishSnapshot, EnterSelect
  <2> QED
    BY <2>3, <2>4 DEF TypeInv
<1>5. CASE StopWorker \/ Tick \/ SetClockBack
  <2>1. TypeOK'
    BY <1>5, ExporterAssumption
    DEF TypeInv, TypeOK, StopWorker, Tick, SetClockBack, scrapeVars, clockVars, logVars
  <2>2. RunOK'
    BY <1>5 DEF TypeInv, RunOK, StopWorker, Tick, SetClockBack
  <2> QED
    BY <2>1, <2>2 DEF TypeInv
<1>6. ASSUME NEW s \in Scrapers,
             ScrapeStatus(s) \/ ScrapeHistograms(s) \/ ScrapeSnapshot(s)
      PROVE  TypeInv'
  <2>1. store \in Stores /\ view \in [Scrapers -> Stores]
    BY DEF TypeInv, TypeOK
  <2>2. view' \in [Scrapers -> Stores]
    BY <1>6, <2>1 DEF ScrapeStatus, ScrapeHistograms, ScrapeSnapshot, Stores
  <2>3. spc' \in [Scrapers -> {"idle", "histograms", "snapshot"}]
    BY <1>6 DEF TypeInv, TypeOK, ScrapeStatus, ScrapeHistograms, ScrapeSnapshot
  <2>31. since' \in [Scrapers -> Nat]
    <3>1. Len(log) \in Nat
      BY DEF TypeInv, TypeOK
    <3> QED
      BY <1>6, <3>1 DEF TypeInv, TypeOK, ScrapeStatus, ScrapeHistograms, ScrapeSnapshot
  <2>4. UNCHANGED <<workerVars, ticks, cancelled, main, probe>>
    BY <1>6 DEF ScrapeStatus, ScrapeHistograms, ScrapeSnapshot
  <2>5. TypeOK'
    BY <2>2, <2>3, <2>31, <2>4 DEF TypeInv, TypeOK, workerVars, clockVars, logVars
  <2>6. RunOK'
    BY <2>4 DEF TypeInv, RunOK, workerVars, clockVars, logVars
  <2> QED
    BY <2>5, <2>6 DEF TypeInv
<1>7. CASE Probe
  <2>1. store.status.Up \in BOOLEAN /\ Len(log) \in Nat
    BY DEF TypeInv, TypeOK, Stores, Statuses
  <2>2. probe' \in [ready : BOOLEAN, at : Nat]
    BY <1>7, <2>1 DEF Probe, Ready
  <2>3. TypeOK'
    BY <1>7, <2>2 DEF TypeInv, TypeOK, Probe, workerVars, clockVars, logVars, scrapeVars
  <2>4. RunOK'
    BY <1>7 DEF TypeInv, RunOK, Probe, workerVars, clockVars, logVars
  <2> QED
    BY <2>3, <2>4 DEF TypeInv
<1>8. CASE Signal \/ ShutdownServer \/ MainReturns \/ ServerFails
  <2>1. TypeOK'
    BY <1>8
    DEF TypeInv, TypeOK, Signal, ShutdownServer, MainReturns, ServerFails,
        workerVars, clockVars, logVars, scrapeVars
  <2>2. RunOK'
    BY <1>8
    DEF TypeInv, RunOK, Signal, ShutdownServer, MainReturns, ServerFails,
        workerVars, clockVars, logVars
  <2> QED
    BY <2>1, <2>2 DEF TypeInv
<1>9. CASE UNCHANGED vars
  BY <1>9 DEF vars, workerVars, clockVars, logVars, scrapeVars, TypeInv, TypeOK, RunOK
<1> QED
  BY <1>1, <1>2, <1>3, <1>4, <1>5, <1>6, <1>7, <1>8, <1>9 DEF Next

\* Every variable keeps its type, for every instance (the fields of Store and
\* the locals of the worker and the scrapes).
THEOREM TypeCorrect == Spec => []TypeOK
<1>1. Spec => []TypeInv
  BY TypeInvInit, TypeInvStep, PTL DEF Spec
<1> QED
  BY <1>1, PTL DEF TypeInv

-----------------------------------------------------------------------------
(* The Store describes its snapshot, and each run is accounted for. *)

\* StoreConsistent is inductive once it is known whether the histograms are
\* enabled.
StoreInv ==
    /\ StoreConsistent
    /\ store.histograms # Nil <=> IncludeJobSampleHistograms

\* What is true of the Store after a run, and of it and the Store before: st is
\* a Store the run leaves, which started and ended when the locals of RunOnce say.
Committed(st) ==
    /\ st \in Stores
    /\ Consistent(st)
    /\ Accounted(store, st)
    /\ st.histograms # Nil <=> IncludeJobSampleHistograms
    /\ st.status.LastCollectTimestamp = run.started
    /\ st.status.LastCollectDuration = run.duration
    /\ st.snapshot # Nil =>
          st.snapshot.CollectedAt \in {run.started, run.stamp} \ {NoTime}
    /\ st.status.Up => st.status.LastCollectSuccessTimestamp = run.started
    /\ st.status.JobInspectionUp =>
          st.status.Up /\ st.status.JobInspectionLastSuccessAt = run.started

\* A failed run leaves such a Store (store.go:57-71).
LEMMA ClearCommits ==
    ASSUME TypeInv, StoreInv, wpc = "commit", NEW e \in Errors
    PROVE  Committed(Clear(store, run.started, run.duration, e))
<1> DEFINE new == Clear(store, run.started, run.duration, e)
<1>1. /\ store \in Stores /\ run.started \in Nat /\ run.duration \in Int
      /\ 1 <= run.started
  BY DEF TypeInv, TypeOK, Runs, RunOK
<1>2. IsCleared(new, store, run.started, run.duration, e)
  BY <1>1, ClearFields
<1> HIDE DEF new
<1>3. e # NoError
  BY NoErrorIsNone
<1>4. Consistent(new)
  BY <1>1, <1>2, <1>3 DEF IsCleared, Consistent, InspectionExposed, NoTime
<1>5. /\ store.status.JobInspectionErrorsTotal \in Nat
      /\ store.histograms \in Nat \union {Nil}
  BY <1>1 DEF Stores, Statuses
<1>6. IncludeJobSampleHistograms => new.histograms = store.histograms + 0
  BY <1>2, <1>5 DEF IsCleared, StoreInv
<1>7. Accounted(store, new)
  BY <1>2, <1>5, <1>6 DEF IsCleared, Accounted
<1> QED
  BY <1>2, <1>4, <1>7 DEF IsCleared, Committed, StoreInv, new

\* A run that publishes leaves such a Store (store.go:41-55).
LEMMA UpdateCommits ==
    ASSUME TypeInv, StoreInv, wpc = "commit", NEW r \in CollectionResults,
           WellFormed(r, r.Snapshot.CollectedAt),
           r.Snapshot.CollectedAt \in {run.started, run.stamp} \ {NoTime}
    PROVE  Committed(UpdateSuccess(store, r, run.started, run.duration))
<1> DEFINE new == UpdateSuccess(store, r, run.started, run.duration)
<1>1. /\ store \in Stores /\ run.started \in Nat /\ run.duration \in Int
      /\ r.Snapshot \in Snapshots
  BY DEF TypeInv, TypeOK, Runs, WellFormed
<1>2. IsUpdated(new, store, r, run.started, run.duration)
  BY <1>1, UpdateSuccessFields
<1> HIDE DEF new
<1>3. r.Snapshot # Nil /\ r.Snapshot.CollectedAt \in Nat
      /\ r.Snapshot.JobInspection \in Nat \union {Nil}
  BY <1>1, NilAssumption DEF Snapshots
<1>4. r.Snapshot.JobInspection # Nil <=> InspectionSucceeded(r)
  BY DEF WellFormed
<1>5. Consistent(new)
  BY <1>2, <1>3, <1>4 DEF IsUpdated, Consistent, InspectionExposed
<1>6. /\ store.status.CollectErrorsTotal \in Nat
      /\ store.histograms \in Nat \union {Nil}
  BY <1>1 DEF Stores, Statuses
<1>7. (r.JobInspectionAttempted /\ r.JobInspectionError) <=>
         (IncludeDetailedJobData /\ new.status.Up /\ ~new.status.JobInspectionUp)
  BY <1>2 DEF IsUpdated, WellFormed, InspectionFailed
<1>8. IncludeJobSampleHistograms =>
          new.histograms = store.histograms +
             (IF new.status.JobInspectionUp THEN new.snapshot.JobInspection ELSE 0)
  BY <1>2, <1>6 DEF IsUpdated, StoreInv, HistogramsAfter
<1>9. Accounted(store, new)
  BY <1>2, <1>6, <1>7, <1>8 DEF IsUpdated, Accounted
<1>10. new.histograms # Nil <=> IncludeJobSampleHistograms
  <2>1. InspectionSucceeded(r) => r.Snapshot.JobInspection \in Nat
    BY <1>3, <1>4
  <2> QED
    BY <1>2, <1>6, <2>1, NilAssumption DEF IsUpdated, StoreInv, HistogramsAfter
<1> QED
  BY <1>2, <1>5, <1>9, <1>10 DEF IsUpdated, Committed, new

\* Every run, failed or not, leaves such a Store.
LEMMA RunCommits ==
    ASSUME TypeInv, StoreInv, ClearStore \/ PublishSnapshot
    PROVE  Committed(store')
<1>1. wpc = "commit"
  BY DEF ClearStore, PublishSnapshot
<1> QED
  BY <1>1, CommitCases, ClearCommits, UpdateCommits

\* The end of a run aside, no step touches the Store or its history.
LEMMA OnlyRunsCommit ==
    ASSUME [Next]_vars, ~(ClearStore \/ PublishSnapshot)
    PROVE  store' = store /\ log' = log /\ eras' = eras
BY DEF Next, FirstRun, ReceiveTick, StampSnapshot, FinishCollect, StopWorker, Tick,
       SetClockBack, Probe, Signal, ShutdownServer, MainReturns, ServerFails, vars,
       ScrapeStatus, ScrapeHistograms, ScrapeSnapshot, workerVars, logVars

\* The new Store has nothing to report, and reports nothing.
LEMMA StoreInvInit == Init => StoreInv
<1> SUFFICES ASSUME Init PROVE StoreInv
  OBVIOUS
<1>1. /\ store.snapshot = Nil /\ store.status = NewStatus
      /\ store.histograms = IF IncludeJobSampleHistograms THEN 0 ELSE Nil
  BY DEF Init, NewStoreInMain, NewStore
<1>2. StoreConsistent
  <2>1. /\ ~store.status.Up /\ ~store.status.JobInspectionUp
        /\ store.status.LastError = NoError
        /\ store.status.LastCollectTimestamp = NoTime
        /\ store.status.SnapshotTimestamp = NoTime
    BY <1>1 DEF NewStatus
  <2> QED
    BY <1>1, <2>1 DEF StoreConsistent, Consistent, InspectionExposed
<1>3. store.histograms # Nil <=> IncludeJobSampleHistograms
  BY <1>1, NilAssumption
<1> QED
  BY <1>2, <1>3 DEF StoreInv

\* No step makes the Store contradict itself.
LEMMA StoreInvStep == TypeInv /\ StoreInv /\ [Next]_vars => StoreInv'
<1> SUFFICES ASSUME TypeInv, StoreInv, [Next]_vars PROVE StoreInv'
  OBVIOUS
<1>1. CASE ClearStore \/ PublishSnapshot
  BY <1>1, RunCommits
  DEF Committed, StoreInv, StoreConsistent, Consistent, InspectionExposed, NoError, NoTime
<1>2. CASE ~(ClearStore \/ PublishSnapshot)
  BY <1>2, OnlyRunsCommit
  DEF StoreInv, StoreConsistent, Consistent, InspectionExposed, NoError, NoTime
<1> QED
  BY <1>1, <1>2

\* The invariants so far, of every reachable state.
LEMMA StoreInvAlways == Spec => [](TypeInv /\ StoreInv)
  BY TypeInvInit, TypeInvStep, StoreInvInit, StoreInvStep, PTL DEF Spec

\* The Status always describes the snapshot beside it (store.go:41-89).
THEOREM StoreAlwaysConsistent == Spec => []StoreConsistent
<1>1. StoreInv => StoreConsistent
  BY DEF StoreInv
<1> QED
  BY <1>1, StoreInvAlways, PTL

\* Every run leaves exactly one trace in the counters (store.go:41-100).
THEOREM RunsAccounted == Spec => EveryRunAccounted
<1>1. ASSUME TypeInv, StoreInv, [Next]_vars, log' # log
      PROVE  log' = Append(log, store') /\ Accounted(store, store')
  <2>1. ClearStore \/ PublishSnapshot
    BY <1>1, OnlyRunsCommit
  <2> QED
    BY <1>1, <2>1, RunCommits DEF Committed, ClearStore, PublishSnapshot, EnterSelect
<1>2. TypeInv /\ StoreInv /\ [Next]_vars =>
         [log' # log => log' = Append(log, store') /\ Accounted(store, store')]_vars
  BY <1>1
<1> QED
  BY <1>2, StoreInvAlways, PTL DEF Spec, EveryRunAccounted

-----------------------------------------------------------------------------
(* The contents the Store has had. *)

\* The Store was a before it was b, or is still.
Later(a, b) ==
    /\ a.status.CollectErrorsTotal <= b.status.CollectErrorsTotal
    /\ a.status.JobInspectionErrorsTotal <= b.status.JobInspectionErrorsTotal
    /\ a.histograms # Nil => b.histograms # Nil /\ a.histograms <= b.histograms

\* The last content is the present one, each was consistent, and none has
\* counted more than a later one.
LogInv ==
    /\ Len(log) > 0
    /\ log[Len(log)] = store
    /\ \A i \in 1 .. Len(log) : Consistent(log[i])
    /\ \A i \in 1 .. Len(log) : \A j \in i .. Len(log) : Later(log[i], log[j])

\* A Store and one a run leaves after it.
LEMMA LaterCommitted ==
    ASSUME TypeInv, StoreInv, NEW st, Committed(st), NEW x \in Stores, Later(x, store)
    PROVE  Later(x, st)
<1>1. store \in Stores /\ st \in Stores
  BY DEF TypeInv, TypeOK, Committed
<1>2. /\ x.status.CollectErrorsTotal \in Nat
      /\ x.status.JobInspectionErrorsTotal \in Nat
      /\ x.histograms \in Nat \union {Nil}
  BY DEF Stores, Statuses
<1>3. /\ store.status.CollectErrorsTotal \in Nat
      /\ store.status.JobInspectionErrorsTotal \in Nat
      /\ store.histograms \in Nat \union {Nil}
  BY <1>1 DEF Stores, Statuses
<1>4. st.snapshot # Nil => st.snapshot.JobInspection \in Nat \union {Nil}
  BY <1>1 DEF Stores, Snapshots
<1>5. /\ store.status.CollectErrorsTotal <= st.status.CollectErrorsTotal
      /\ store.status.JobInspectionErrorsTotal <= st.status.JobInspectionErrorsTotal
      /\ st.status.CollectErrorsTotal \in Nat
      /\ st.status.JobInspectionErrorsTotal \in Nat
  BY <1>3 DEF Committed, Accounted
<1>6. x.histograms # Nil => st.histograms # Nil /\ x.histograms <= st.histograms
  <2> SUFFICES ASSUME x.histograms # Nil
               PROVE  st.histograms # Nil /\ x.histograms <= st.histograms
    OBVIOUS
  <2>1. store.histograms \in Nat /\ x.histograms \in Nat /\ IncludeJobSampleHistograms
        /\ x.histograms <= store.histograms
    BY <1>2, <1>3 DEF Later, StoreInv
  <2>2. st.status.JobInspectionUp => st.snapshot.JobInspection \in Nat
    BY <1>4 DEF Committed, Consistent, InspectionExposed
  <2> QED
    BY <2>1, <2>2 DEF Committed, Accounted
<1>7. /\ x.status.CollectErrorsTotal <= st.status.CollectErrorsTotal
      /\ x.status.JobInspectionErrorsTotal <= st.status.JobInspectionErrorsTotal
  BY <1>2, <1>3, <1>5 DEF Later
<1> QED
  BY <1>6, <1>7 DEF Later

\* A Store is as late as itself.
LEMMA LaterReflexive ==
    ASSUME NEW st \in Stores
    PROVE  Later(st, st)
<1>1. /\ st.status.CollectErrorsTotal \in Nat
      /\ st.status.JobInspectionErrorsTotal \in Nat
      /\ st.histograms \in Nat \union {Nil}
  BY DEF Stores, Statuses
<1> QED
  BY <1>1 DEF Later

\* The log begins with the new Store.
LEMMA LogInvInit == TypeInv /\ StoreInv /\ Init => LogInv
<1> SUFFICES ASSUME TypeInv, StoreInv, Init PROVE LogInv
  OBVIOUS
<1>1. log = <<store>> /\ Len(log) = 1 /\ log[1] = store /\ store \in Stores
  BY DEF Init, TypeInv, TypeOK
<1>2. Consistent(store) /\ Later(store, store)
  BY <1>1, LaterReflexive DEF StoreInv, StoreConsistent
<1> QED
  BY <1>1, <1>2 DEF LogInv

\* What the end of a run adds to the histories.
LEMMA LogGrows ==
    ASSUME TypeInv, TypeInv', LogInv, ClearStore \/ PublishSnapshot
    PROVE  /\ Len(log) \in Nat /\ Len(log) > 0 /\ log[Len(log)] = store
           /\ Len(log') = Len(log) + 1 /\ log'[Len(log) + 1] = store'
           /\ Len(eras) = Len(log) /\ eras'[Len(log) + 1] = run.eras
           /\ \A i \in 1 .. Len(log) :
                 log'[i] = log[i] /\ log[i] \in Stores /\ eras'[i] = eras[i]
<1>1. /\ log \in Seq(Stores) /\ log' = Append(log, store') /\ store' \in Stores
      /\ eras \in Seq(Eras) /\ eras' = Append(eras, run.eras) /\ run.eras \in Eras
      /\ Len(eras) = Len(log)
  BY DEF TypeInv, TypeOK, Runs, ClearStore, PublishSnapshot, EnterSelect
<1> QED
  BY <1>1 DEF LogInv

\* Only the end of a run adds to the log.
LEMMA LogInvStep ==
    TypeInv /\ TypeInv' /\ StoreInv /\ LogInv /\ [Next]_vars => LogInv'
<1> SUFFICES ASSUME TypeInv, TypeInv', StoreInv, LogInv, [Next]_vars
             PROVE  LogInv'
  OBVIOUS
<1>1. CASE ClearStore \/ PublishSnapshot
  <2> DEFINE n == Len(log)
  <2>1. Committed(store') /\ store' \in Stores
    BY <1>1, RunCommits DEF Committed
  <2>2. /\ n \in Nat /\ n > 0 /\ log[n] = store
        /\ Len(log') = n + 1 /\ log'[n + 1] = store'
        /\ \A i \in 1 .. n : log'[i] = log[i] /\ log[i] \in Stores
    BY <1>1, LogGrows
  <2>3. \A i \in 1 .. n : Later(log[i], store')
    <3> TAKE i \in 1 .. n
    <3>1. n \in i .. n
      BY <2>2
    <3>2. Later(log[i], store)
      BY <2>2, <3>1 DEF LogInv
    <3> QED
      BY <2>1, <2>2, <3>2, LaterCommitted
  <2>4. Consistent(store') /\ Later(store', store')
    BY <2>1, LaterReflexive DEF Committed
  <2>5. \A i \in 1 .. n + 1 : Consistent(log'[i])
    BY <2>2, <2>4 DEF LogInv
  <2>6. \A i \in 1 .. n + 1 : \A j \in i .. n + 1 : Later(log'[i], log'[j])
    <3> TAKE i \in 1 .. n + 1
    <3> TAKE j \in i .. n + 1
    <3>1. CASE j <= n
      BY <2>2, <3>1 DEF LogInv
    <3>2. CASE j = n + 1 /\ i <= n
      BY <2>2, <2>3, <3>2
    <3>3. CASE j = n + 1 /\ i = n + 1
      BY <2>2, <2>4, <3>3
    <3> QED
      BY <2>2, <3>1, <3>2, <3>3
  <2> HIDE DEF n
  <2>7. /\ Len(log') = n + 1 /\ Len(log') > 0 /\ log'[Len(log')] = store'
    BY <2>2
  <2> QED
    BY <2>5, <2>6, <2>7
    DEF LogInv, Later, Consistent, InspectionExposed, NoTime, NoError
<1>2. CASE ~(ClearStore \/ PublishSnapshot)
  BY <1>2, OnlyRunsCommit DEF LogInv, Later, Consistent, InspectionExposed, NoTime, NoError
<1> QED
  BY <1>1, <1>2

-----------------------------------------------------------------------------
(* The times, by a clock that may be set back. *)

\* The run under way has begun and not ended.
Running == wpc \in {"collecting", "commit"}

\* One run after the other, each from its first era to its last.
EraOrder ==
    /\ \A i \in 1 .. Len(log) : eras[i].began <= eras[i].ended /\ eras[i].ended <= era
    /\ \A i \in 1 .. Len(log) : \A j \in i + 1 .. Len(log) : eras[i].ended <= eras[j].began
    /\ Running =>
          /\ run.eras.began <= run.eras.ended /\ run.eras.ended <= era
          /\ \A i \in 1 .. Len(log) : eras[i].ended <= run.eras.began

\* What has ended by the clock of today is past.
EndsPast == \A i \in 1 .. Len(log) : eras[i].began = era => EndOf(log[i]) <= now

\* The run under way began after the others ended, and has read its times in
\* order, as far as the clock was not set back meanwhile.
RunInTime ==
    /\ Running => \A i \in 1 .. Len(log) :
                     eras[i].began = run.eras.began => EndOf(log[i]) <= run.started
    /\ wpc = "collecting" /\ run.eras.began = era =>
          /\ run.started <= now
          /\ run.stamp # NoTime => run.started <= run.stamp /\ run.stamp <= now
    /\ wpc = "commit" /\ run.eras.began = run.eras.ended =>
          /\ 0 <= run.duration
          /\ run.stamp # NoTime =>
                run.started <= run.stamp /\ run.stamp <= run.started + run.duration
    /\ wpc = "commit" /\ run.eras.began = era => run.started + run.duration <= now

\* A run reported later began after the earlier one ended.
RunsInOrder ==
    \A i \in 1 .. Len(log) : \A j \in i + 1 .. Len(log) :
        SameClock(i, j) => EndOf(log[i]) <= log[j].status.LastCollectTimestamp

\* A snapshot was stamped during its run.
StampsInTime ==
    \A i \in 1 .. Len(log) : SameClock(i, i) /\ log[i].status.Up =>
        /\ log[i].status.LastCollectTimestamp <= log[i].status.SnapshotTimestamp
        /\ log[i].status.SnapshotTimestamp <= EndOf(log[i])

\* The successes reported are the last ones.
LastSuccesses ==
    /\ IsTimeOfLast("Up", store.status.LastCollectSuccessTimestamp)
    /\ IsTimeOfLast("JobInspectionUp", store.status.JobInspectionLastSuccessAt)

\* The times of all the runs there have been, and of the one under way.
TimeInv == EraOrder /\ EndsPast /\ RunInTime /\ RunsInOrder /\ StampsInTime /\ LastSuccesses

\* The types of the times.
LEMMA TimeTypes ==
    ASSUME TypeInv
    PROVE  /\ now \in Nat /\ era \in Nat /\ Len(log) \in Nat
           /\ run.started \in Nat /\ run.stamp \in Nat /\ run.duration \in Int
           /\ run.eras.began \in Nat /\ run.eras.ended \in Nat
           /\ \A i \in 1 .. Len(log) :
                 /\ eras[i].began \in Nat /\ eras[i].ended \in Nat
                 /\ EndOf(log[i]) \in Int
                 /\ log[i].status.LastCollectTimestamp \in Nat
                 /\ log[i].status.SnapshotTimestamp \in Nat
                 /\ log[i].status.Up \in BOOLEAN
<1>1. /\ now \in Nat /\ era \in Nat /\ log \in Seq(Stores)
      /\ run \in Runs /\ eras \in Seq(Eras) /\ Len(eras) = Len(log)
  BY DEF TypeInv, TypeOK
<1>2. ASSUME NEW i \in 1 .. Len(log)
      PROVE  /\ eras[i].began \in Nat /\ eras[i].ended \in Nat
             /\ EndOf(log[i]) \in Int
             /\ log[i].status.LastCollectTimestamp \in Nat
             /\ log[i].status.SnapshotTimestamp \in Nat
             /\ log[i].status.Up \in BOOLEAN
  <2>1. log[i] \in Stores /\ eras[i] \in Eras
    BY <1>1
  <2>2. log[i].status \in Statuses
    BY <2>1 DEF Stores
  <2>3. /\ log[i].status.LastCollectTimestamp \in Nat
        /\ log[i].status.LastCollectDuration \in Int
        /\ log[i].status.SnapshotTimestamp \in Nat
        /\ log[i].status.Up \in BOOLEAN
    BY <2>2 DEF Statuses
  <2> QED
    BY <2>1, <2>3 DEF Eras, EndOf
<1>3. /\ run.started \in Nat /\ run.stamp \in Nat /\ run.duration \in Int
      /\ run.eras.began \in Nat /\ run.eras.ended \in Nat
  BY <1>1 DEF Runs, Eras
<1> QED
  BY <1>1, <1>2, <1>3

\* IsTimeOfLast of a history l.
LastIn(l, flag, time) ==
    \/ time = NoTime /\ \A i \in 1 .. Len(l) : ~l[i].status[flag]
    \/ \E i \in 1 .. Len(l) :
          /\ l[i].status[flag] /\ time = l[i].status.LastCollectTimestamp
          /\ \A j \in i + 1 .. Len(l) : ~l[j].status[flag]

\* One more Store in the history: either it has the flag, and the time becomes
\* its own, or it has not, and the time is kept.
LEMMA LastInGrows ==
    ASSUME NEW flag, NEW l, NEW m, NEW n \in Nat, Len(l) = n, Len(m) = n + 1,
           \A i \in 1 .. n : m[i] = l[i],
           NEW st, m[n + 1] = st,
           NEW time, NEW later, LastIn(l, flag, time),
           st.status[flag] => later = st.status.LastCollectTimestamp,
           ~st.status[flag] => later = time
    PROVE  LastIn(m, flag, later)
<1>1. CASE st.status[flag]
  <2>1. n + 1 \in 1 .. n + 1 /\ \A j \in (n + 1) + 1 .. n + 1 : FALSE
    OBVIOUS
  <2> QED
    BY <1>1, <2>1 DEF LastIn
<1>2. CASE ~st.status[flag]
  <2>1. later = time
    BY <1>2
  <2>2. CASE time = NoTime /\ \A i \in 1 .. n : ~l[i].status[flag]
    <3>1. \A i \in 1 .. n + 1 : ~m[i].status[flag]
      <4> TAKE i \in 1 .. n + 1
      <4>1. i \in 1 .. n \/ i = n + 1
        OBVIOUS
      <4> QED
        BY <1>2, <2>2, <4>1
    <3> QED
      BY <2>1, <2>2, <3>1 DEF LastIn
  <2>3. ASSUME NEW i \in 1 .. n, l[i].status[flag],
               time = l[i].status.LastCollectTimestamp,
               \A j \in i + 1 .. n : ~l[j].status[flag]
        PROVE  LastIn(m, flag, later)
    <3>1. \A j \in i + 1 .. n + 1 : ~m[j].status[flag]
      <4> TAKE j \in i + 1 .. n + 1
      <4>1. (j \in i + 1 .. n /\ j \in 1 .. n) \/ j = n + 1
        OBVIOUS
      <4> QED
        BY <1>2, <2>3, <4>1
    <3>2. i \in 1 .. n + 1 /\ m[i] = l[i]
      OBVIOUS
    <3> QED
      BY <2>1, <2>3, <3>1, <3>2 DEF LastIn
  <2> QED
    BY <2>2, <2>3 DEF LastIn
<1> QED
  BY <1>1, <1>2

\* The process starts with no run and no time.
LEMMA TimeInvInit == TypeInv /\ Init => TimeInv
<1> SUFFICES ASSUME TypeInv, Init PROVE TimeInv
  OBVIOUS
<1>1. /\ Len(log) = 1 /\ log[1] = store /\ era = 0 /\ wpc = "boot" /\ now \in Nat
      /\ store.status = NewStatus
  BY DEF Init, NewStoreInMain, NewStore, TypeInv, TypeOK
<1>2. eras[1].began = 0 /\ eras[1].ended = 0
  BY RunTypes DEF Init, RunFrom
<1>3. /\ ~store.status["Up"] /\ ~store.status["JobInspectionUp"]
      /\ store.status.LastCollectSuccessTimestamp = NoTime
      /\ store.status.JobInspectionLastSuccessAt = NoTime
      /\ EndOf(store) = 0
  BY <1>1 DEF NewStatus, EndOf, NoTime
<1>4. 1 .. Len(log) = {1} /\ (1 + 1) .. Len(log) = {}
  BY <1>1
<1>5. EraOrder /\ EndsPast
  BY <1>1, <1>2, <1>3, <1>4 DEF EraOrder, EndsPast, Running
<1>6. RunInTime
  BY <1>1 DEF RunInTime, Running
<1>7. RunsInOrder /\ StampsInTime
  BY <1>1, <1>3, <1>4 DEF RunsInOrder, StampsInTime
<1>8. LastSuccesses
  BY <1>1, <1>3, <1>4 DEF LastSuccesses, IsTimeOfLast
<1> QED
  BY <1>5, <1>6, <1>7, <1>8 DEF TimeInv

\* Steps that leave the reports alone change none of what they say.
LEMMA ReportsKept ==
    ASSUME TimeInv, store' = store, log' = log, eras' = eras
    PROVE  (RunsInOrder /\ StampsInTime /\ LastSuccesses)'
BY DEF TimeInv, RunsInOrder, StampsInTime, LastSuccesses, IsTimeOfLast, SameClock, EndOf, NoTime

\* The clock moves on, or a run begins, is stamped or returns.
LEMMA TimeInvReads ==
    ASSUME TypeInv, TypeInv', TimeInv,
           FirstRun \/ ReceiveTick \/ StampSnapshot \/ FinishCollect
    PROVE  (EraOrder /\ EndsPast /\ RunInTime)'
<1>1. /\ log' = log /\ eras' = eras /\ era' = era /\ now <= now' /\ now \in Nat /\ now' \in Nat
  <2>1. \E d \in Delays : now' = now + d
    BY DEF FirstRun, ReceiveTick, StartRun, StampSnapshot, FinishCollect
  <2>2. now \in Nat /\ Delays \subseteq Nat
    BY TimeTypes, ExporterAssumption
  <2>3. now' \in Nat /\ now <= now'
    BY ONLY <2>1, <2>2
  <2>4. log' = log /\ eras' = eras /\ era' = era
    BY DEF FirstRun, ReceiveTick, StampSnapshot, FinishCollect, logVars
  <2> QED
    BY <2>2, <2>3, <2>4
<1>2. \A i \in 1 .. Len(log) : EndOf(log[i]) \in Int /\ eras[i].began \in Nat
                               /\ eras[i].ended \in Nat
  BY TimeTypes
<1>3. era \in Nat /\ Len(log) \in Nat
  BY TimeTypes
<1>4. EndsPast'
  BY <1>1, <1>2 DEF TimeInv, EndsPast, EndOf
<1>5. CASE FirstRun \/ ReceiveTick
  <2>1. run' = RunFrom(now', era, cancelled) /\ wpc' = "collecting"
    BY <1>5 DEF FirstRun, ReceiveTick, StartRun
  <2>2. /\ run'.started = now' /\ run'.stamp = NoTime
        /\ run'.eras.began = era /\ run'.eras.ended = era
    BY <2>1 DEF RunFrom
  <2>3. EraOrder'
    BY <1>1, <1>2, <1>3, <2>1, <2>2 DEF TimeInv, EraOrder, Running
  <2>4. \A i \in 1 .. Len(log) : eras[i].began = era => EndOf(log[i]) <= now'
    BY <1>1, <1>2 DEF TimeInv, EndsPast
  <2>5. RunInTime'
    BY <1>1, <2>1, <2>2, <2>4 DEF RunInTime, Running, EndOf, NoTime
  <2> QED
    BY <1>4, <2>3, <2>5
<1>6. CASE StampSnapshot
  <2>1. run' = [run EXCEPT !.stamp = now'] /\ wpc' = wpc /\ wpc = "collecting"
    BY <1>6 DEF StampSnapshot
  <2>2. /\ run'.started = run.started /\ run'.stamp = now' /\ run'.eras = run.eras
        /\ run.started \in Nat
    BY <2>1 DEF TypeInv, TypeOK, Runs
  <2>3. EraOrder'
    BY <1>1, <2>1, <2>2 DEF TimeInv, EraOrder, Running
  <2>4. RunInTime'
    BY <1>1, <2>1, <2>2 DEF TimeInv, RunInTime, Running, EndOf, NoTime
  <2> QED
    BY <1>4, <2>3, <2>4
<1>7. CASE FinishCollect
  <2>0. run \in Runs /\ run.eras \in Eras
    BY DEF TypeInv, TypeOK, Runs
  <2>1. /\ run'.duration = Elapsed(run.started, now') /\ run'.started = run.started
        /\ run'.stamp = run.stamp /\ run'.eras.began = run.eras.began
        /\ run'.eras.ended = era
        /\ wpc = "collecting" /\ wpc' = "commit"
    <3>1. PICK d \in Delays, r \in CollectReturns(run.stamp, run.doomed) :
             run' = [run EXCEPT !.duration = Elapsed(run.started, now'),
                                !.returned = r,
                                !.eras.ended = era]
      BY <1>7 DEF FinishCollect
    <3>2. /\ run'.duration = Elapsed(run.started, now') /\ run'.started = run.started
          /\ run'.stamp = run.stamp /\ run'.eras = [run.eras EXCEPT !.ended = era]
      BY ONLY <2>0, <3>1 DEF Runs
    <3>3. run'.eras.began = run.eras.began /\ run'.eras.ended = era
      BY ONLY <2>0, <3>2 DEF Eras
    <3> QED
      BY <1>7, <3>2, <3>3 DEF FinishCollect
  <2>2. /\ run.started \in Nat /\ run.stamp \in Nat /\ run.eras.began \in Nat
        /\ run.eras.ended \in Nat
    BY TimeTypes
  <2>3. run'.started + run'.duration = now'
    BY <1>1, <2>1, <2>2 DEF Elapsed
  <2>4. EraOrder'
    BY <1>1, <1>3, <2>1, <2>2 DEF TimeInv, EraOrder, Running
  <2>5. run.eras.began = era => run.started <= now' /\ 0 <= run'.duration
                  /\ (run.stamp # NoTime => run.started <= run.stamp /\ run.stamp <= now')
    BY <1>1, <2>1, <2>2 DEF TimeInv, RunInTime, Elapsed
  <2>6. \A i \in 1 .. Len(log) :
           eras[i].began = run.eras.began => EndOf(log[i]) <= run.started
    BY <2>1 DEF TimeInv, RunInTime, Running
  <2>7. RunInTime'
    BY <1>1, <2>1, <2>3, <2>5, <2>6 DEF RunInTime, Running, EndOf, NoTime
  <2> QED
    BY <1>4, <2>4, <2>7
<1> QED
  BY <1>5, <1>6, <1>7

\* A run reports: its times, now among the reports, are in order.
LEMMA TimeInvCommit ==
    ASSUME TypeInv, TypeInv', StoreInv, LogInv, TimeInv, ClearStore \/ PublishSnapshot
    PROVE  TimeInv'
<1> DEFINE n == Len(log)
<1>1. Committed(store') /\ wpc = "commit" /\ wpc' = "select"
      /\ era' = era /\ now' = now
  BY RunCommits DEF ClearStore, PublishSnapshot, EnterSelect, clockVars
<1>2. /\ n \in Nat /\ n > 0
      /\ Len(log') = n + 1 /\ log'[n + 1] = store'
      /\ eras'[n + 1] = run.eras
      /\ \A i \in 1 .. n : log'[i] = log[i] /\ eras'[i] = eras[i]
  BY LogGrows
<1>3. /\ run.started \in Nat /\ run.stamp \in Nat /\ run.duration \in Int
      /\ run.eras.began \in Nat /\ run.eras.ended \in Nat /\ era \in Nat /\ now \in Nat
      /\ \A i \in 1 .. n : /\ eras[i].began \in Nat /\ eras[i].ended \in Nat
                           /\ EndOf(log[i]) \in Int
  BY TimeTypes
<1>4. /\ run.eras.began <= run.eras.ended /\ run.eras.ended <= era
      /\ \A i \in 1 .. n : eras[i].ended <= run.eras.began /\ eras[i].began <= eras[i].ended
  BY <1>1 DEF TimeInv, EraOrder, Running
<1>5. /\ store'.status.LastCollectTimestamp = run.started
      /\ EndOf(store') = run.started + run.duration
  BY <1>1 DEF Committed, EndOf
<1>6. \A i \in 1 .. n : eras[i].began = run.eras.ended => EndOf(log[i]) <= run.started
  <2>1. \A i \in 1 .. n : eras[i].began = run.eras.began => EndOf(log[i]) <= run.started
    BY <1>1 DEF TimeInv, RunInTime, Running
  <2>2. \A i \in 1 .. n : eras[i].began = run.eras.ended => eras[i].began = run.eras.began
    <3> TAKE i \in 1 .. n
    <3>1. /\ eras[i].began \in Nat /\ eras[i].ended \in Nat
          /\ run.eras.began \in Nat /\ run.eras.ended \in Nat
          /\ eras[i].began <= eras[i].ended /\ eras[i].ended <= run.eras.began
          /\ run.eras.began <= run.eras.ended
      BY <1>3, <1>4
    <3> QED
      BY <3>1
  <2> QED
    BY <2>1, <2>2
<1>7. run.eras.began = run.eras.ended /\ store'.status.Up =>
         /\ store'.status.LastCollectTimestamp <= store'.status.SnapshotTimestamp
         /\ store'.status.SnapshotTimestamp <= EndOf(store')
  <2> SUFFICES ASSUME run.eras.began = run.eras.ended, store'.status.Up
               PROVE  /\ run.started <= store'.status.SnapshotTimestamp
                      /\ store'.status.SnapshotTimestamp <= run.started + run.duration
    BY <1>5
  <2>1. \/ store'.status.SnapshotTimestamp = run.started
        \/ store'.status.SnapshotTimestamp = run.stamp /\ run.stamp # NoTime
    BY <1>1 DEF Committed, Consistent
  <2>2. /\ 0 <= run.duration
        /\ run.stamp # NoTime =>
              run.started <= run.stamp /\ run.stamp <= run.started + run.duration
    BY <1>1 DEF TimeInv, RunInTime
  <2> QED
    BY <1>3, <2>1, <2>2
<1>8. run.eras.began = era => EndOf(store') <= now
  BY <1>1, <1>5 DEF TimeInv, RunInTime
<1>9. /\ \A i \in 1 .. n : eras[i].ended <= era
      /\ \A i \in 1 .. n : \A j \in i + 1 .. n : eras[i].ended <= eras[j].began
      /\ \A i \in 1 .. n : eras[i].began = era => EndOf(log[i]) <= now
      /\ \A i \in 1 .. n : \A j \in i + 1 .. n :
            eras[i].began = eras[j].ended => EndOf(log[i]) <= log[j].status.LastCollectTimestamp
      /\ \A i \in 1 .. n : eras[i].began = eras[i].ended /\ log[i].status.Up =>
            /\ log[i].status.LastCollectTimestamp <= log[i].status.SnapshotTimestamp
            /\ log[i].status.SnapshotTimestamp <= EndOf(log[i])
  BY DEF TimeInv, EraOrder, EndsPast, RunsInOrder, StampsInTime, SameClock
<1>10. LastIn(log', "Up", store'.status.LastCollectSuccessTimestamp)
       /\ LastIn(log', "JobInspectionUp", store'.status.JobInspectionLastSuccessAt)
  <2>1. /\ LastIn(log, "Up", store.status.LastCollectSuccessTimestamp)
        /\ LastIn(log, "JobInspectionUp", store.status.JobInspectionLastSuccessAt)
    BY DEF TimeInv, LastSuccesses, IsTimeOfLast, LastIn
  <2>2. /\ store'.status["Up"] =>
              store'.status.LastCollectSuccessTimestamp = store'.status.LastCollectTimestamp
        /\ ~store'.status["Up"] => store'.status.LastCollectSuccessTimestamp =
              store.status.LastCollectSuccessTimestamp
        /\ store'.status["JobInspectionUp"] =>
              store'.status.JobInspectionLastSuccessAt = store'.status.LastCollectTimestamp
        /\ ~store'.status["JobInspectionUp"] => store'.status.JobInspectionLastSuccessAt =
              store.status.JobInspectionLastSuccessAt
    BY <1>1 DEF Committed, Accounted
  <2>3. LastIn(log', "Up", store'.status.LastCollectSuccessTimestamp)
    BY <1>2, <2>1, <2>2, LastInGrows
  <2>4. LastIn(log', "JobInspectionUp", store'.status.JobInspectionLastSuccessAt)
    BY <1>2, <2>1, <2>2, LastInGrows
  <2> QED
    BY <2>3, <2>4
<1> HIDE DEF n
<1>11. \A i \in 1 .. n + 1 : i \in 1 .. n \/ i = n + 1
  BY <1>2
<1>12. \A i \in 1 .. n + 1 : \A j \in i + 1 .. n + 1 :
          i \in 1 .. n /\ (j \in i + 1 .. n \/ j = n + 1) /\ (j \in 1 .. n \/ j = n + 1)
  BY <1>2
<1>13. EraOrder'
  <2>1. \A i \in 1 .. n + 1 : eras'[i].began <= eras'[i].ended /\ eras'[i].ended <= era
    BY <1>2, <1>4, <1>9, <1>11
  <2>2. \A i \in 1 .. n + 1 : \A j \in i + 1 .. n + 1 : eras'[i].ended <= eras'[j].began
    BY <1>2, <1>4, <1>9, <1>12
  <2> QED
    BY <1>1, <1>2, <2>1, <2>2 DEF EraOrder, Running
<1>14. EndsPast'
  <2>1. \A i \in 1 .. n + 1 : eras'[i].began = era => EndOf(log'[i]) <= now
    BY <1>2, <1>8, <1>9, <1>11
  <2> QED
    BY <1>1, <1>2, <2>1 DEF EndsPast, EndOf
<1>15. RunInTime'
  BY <1>1 DEF RunInTime, Running
<1>16. RunsInOrder'
  <2>1. \A i \in 1 .. n + 1 : \A j \in i + 1 .. n + 1 : eras'[i].began = eras'[j].ended =>
            EndOf(log'[i]) <= log'[j].status.LastCollectTimestamp
    BY <1>2, <1>5, <1>6, <1>9, <1>12
  <2> QED
    BY <1>2, <2>1 DEF RunsInOrder, SameClock, EndOf
<1>17. StampsInTime'
  <2>1. \A i \in 1 .. n + 1 : eras'[i].began = eras'[i].ended /\ log'[i].status.Up =>
            /\ log'[i].status.LastCollectTimestamp <= log'[i].status.SnapshotTimestamp
            /\ log'[i].status.SnapshotTimestamp <= EndOf(log'[i])
    BY <1>2, <1>7, <1>9, <1>11
  <2> QED
    BY <1>2, <2>1 DEF StampsInTime, SameClock, EndOf
<1>18. LastSuccesses'
  BY <1>10 DEF LastSuccesses, IsTimeOfLast, LastIn, NoTime
<1> QED
  BY <1>13, <1>14, <1>15, <1>16, <1>17, <1>18 DEF TimeInv

\* Whatever happens, and whoever sets the clock back, the times stay in order.
LEMMA TimeInvStep ==
    TypeInv /\ TypeInv' /\ StoreInv /\ LogInv /\ TimeInv /\ [Next]_vars => TimeInv'
<1> SUFFICES ASSUME TypeInv, TypeInv', StoreInv, LogInv, TimeInv, [Next]_vars
             PROVE  TimeInv'
  OBVIOUS
<1>1. CASE FirstRun \/ ReceiveTick \/ StampSnapshot \/ FinishCollect
  <2>1. store' = store /\ log' = log /\ eras' = eras
    BY <1>1 DEF FirstRun, ReceiveTick, StampSnapshot, FinishCollect, logVars
  <2> QED
    BY <1>1, <2>1, TimeInvReads, ReportsKept DEF TimeInv
<1>2. CASE ClearStore \/ PublishSnapshot
  BY <1>2, TimeInvCommit
<1>3. CASE SetClockBack
  <2>1. /\ store' = store /\ log' = log /\ eras' = eras /\ run' = run /\ wpc' = wpc
        /\ era' = era + 1
    BY <1>3 DEF SetClockBack, logVars
  <2>2. /\ era \in Nat /\ run.eras.began \in Nat /\ run.eras.ended \in Nat
        /\ \A i \in 1 .. Len(log) : eras[i].began \in Nat /\ eras[i].ended \in Nat
    BY TimeTypes
  <2>3. EraOrder'
    BY <2>1, <2>2 DEF TimeInv, EraOrder, Running
  <2>4. /\ \A i \in 1 .. Len(log) : eras[i].began # era + 1
        /\ Running => run.eras.began # era + 1
    BY <2>2 DEF TimeInv, EraOrder
  <2>5. EndsPast'
    BY <2>1, <2>4 DEF EndsPast
  <2>6. RunInTime'
    BY <2>1, <2>4 DEF TimeInv, RunInTime, Running, EndOf, NoTime
  <2> QED
    BY <2>1, <2>3, <2>5, <2>6, ReportsKept DEF TimeInv
<1>4. CASE StopWorker \/ Tick \/ Probe \/ Signal \/ ShutdownServer \/ MainReturns
           \/ ServerFails \/ UNCHANGED vars
           \/ \E s \in Scrapers : ScrapeStatus(s) \/ ScrapeHistograms(s)
                                                  \/ ScrapeSnapshot(s)
  <2>1. /\ store' = store /\ log' = log /\ eras' = eras /\ now' = now /\ era' = era
    BY <1>4 DEF StopWorker, Tick, Probe, Signal, ShutdownServer, MainReturns,
                ServerFails, vars, ScrapeStatus, ScrapeHistograms, ScrapeSnapshot,
                workerVars, clockVars, logVars
  <2>2. run' = run /\ (wpc' = wpc \/ wpc' = "stopped")
    BY <1>4 DEF StopWorker, Tick, Probe, Signal, ShutdownServer, MainReturns,
                ServerFails, vars, ScrapeStatus, ScrapeHistograms, ScrapeSnapshot,
                workerVars
  <2>3. EraOrder'
    BY <2>1, <2>2 DEF TimeInv, EraOrder, Running
  <2>4. EndsPast'
    BY <2>1 DEF TimeInv, EndsPast, EndOf
  <2>5. RunInTime'
    BY <2>1, <2>2 DEF TimeInv, RunInTime, Running, EndOf, NoTime
  <2> QED
    BY <2>1, <2>3, <2>4, <2>5, ReportsKept DEF TimeInv
<1> QED
  BY <1>1, <1>2, <1>3, <1>4 DEF Next

\* The invariants so far, of every reachable state.
LEMMA TimeInvAlways == Spec => [](TypeInv /\ StoreInv /\ LogInv /\ TimeInv)
  BY TypeInvInit, TypeInvStep, StoreInvInit, StoreInvStep, LogInvInit, LogInvStep,
     TimeInvInit, TimeInvStep, PTL DEF Spec

\* The reported times are those of the runs they are said to be of, whatever the
\* clock says, and are in order as long as nobody sets it back (worker.go:59-86).
THEOREM TimesAlwaysOrdered == Spec => []TimesOrdered
<1>1. TypeInv /\ LogInv /\ TimeInv => TimesOrdered
  <2> SUFFICES ASSUME TypeInv, LogInv, TimeInv PROVE TimesOrdered
    OBVIOUS
  <2> DEFINE n == Len(log)
  <2>1. n \in Nat /\ n > 0 /\ log[n] = store /\ n \in 1 .. n
    BY TimeTypes DEF LogInv
  <2>2. /\ store.status.LastCollectTimestamp \in Nat /\ EndOf(store) \in Int
        /\ store.status.SnapshotTimestamp \in Nat
    BY <2>1, TimeTypes
  <2>3. \A i \in 1 .. n - 1 :
           SameClock(i, n) => EndOf(log[i]) <= store.status.LastCollectTimestamp
    <3> TAKE i \in 1 .. n - 1
    <3>1. i \in 1 .. n /\ n \in i + 1 .. n
      BY <2>1
    <3> QED
      BY <2>1, <3>1 DEF TimeInv, RunsInOrder
  <2>4. store.status.Up /\ SameClock(n, n) =>
           /\ store.status.LastCollectTimestamp <= store.status.SnapshotTimestamp
           /\ store.status.SnapshotTimestamp <= EndOf(store)
    BY <2>1 DEF TimeInv, StampsInTime
  <2>5. eras[n].began = era => EndOf(store) <= now
    BY <2>1 DEF TimeInv, EndsPast
  <2> QED
    BY <2>2, <2>3, <2>4, <2>5 DEF TimesOrdered, TimeInv, LastSuccesses
<1> QED
  BY <1>1, TimeInvAlways, PTL

-----------------------------------------------------------------------------
(* What the scrapes and the probe read. *)

\* Where a scrape has read: in the order of its reads and not before it began;
\* and every part of a view is of some Store, also those left from the scrape
\* before.
ReadInvOf(s) ==
    /\ since[s] \in 1 .. Len(log)
    /\ view[s].status = log[since[s]].status
    /\ \E j \in 1 .. Len(log) : view[s].histograms = log[j].histograms
    /\ spc[s] = "histograms" =>
          \E i \in since[s] .. Len(log) : view[s].status = log[i].status
    /\ spc[s] = "snapshot" =>
          \E i \in since[s] .. Len(log) : \E j \in i .. Len(log) :
              /\ view[s].status = log[i].status
              /\ view[s].histograms = log[j].histograms
    /\ spc[s] = "idle" =>
          \E i \in since[s] .. Len(log) : \E j \in i .. Len(log) :
              \E k \in j .. Len(log) :
                  /\ view[s].status = log[i].status
                  /\ view[s].histograms = log[j].histograms
                  /\ view[s].snapshot = log[k].snapshot

\* Where every scrape and the probe have read.
ReadInv ==
    /\ probe.at \in 1 .. Len(log)
    /\ probe.ready => log[probe.at].status.Up
    /\ \A s \in Scrapers : ReadInvOf(s)

\* Before the first scrape every view is of the new Store.
LEMMA ReadInvInit == TypeInv /\ Init => ReadInv
<1> SUFFICES ASSUME TypeInv, Init PROVE ReadInv
  OBVIOUS
<1>1. /\ Len(log) = 1 /\ log[1] = store /\ probe.at = 1 /\ probe.ready = FALSE
      /\ \A s \in Scrapers : view[s] = store /\ since[s] = 1 /\ spc[s] = "idle"
  BY DEF Init
<1>2. 1 \in 1 .. 1
  OBVIOUS
<1> QED
  BY <1>1, <1>2 DEF ReadInv, ReadInvOf

\* A longer log with the same beginning keeps what was read from it.
LEMMA ReadInvGrows ==
    ASSUME ReadInv, Len(log) \in Nat, Len(log') \in Nat, Len(log) <= Len(log'),
           \A i \in 1 .. Len(log) : log'[i] = log[i],
           UNCHANGED <<spc, view, since>>,
           NEW s \in Scrapers
    PROVE  ReadInvOf(s)'
<1>1. since[s] \in 1 .. Len(log) /\ 1 .. Len(log) \subseteq 1 .. Len(log')
      /\ spc'[s] = spc[s] /\ view'[s] = view[s] /\ since'[s] = since[s]
  BY DEF ReadInv, ReadInvOf
<1>2. /\ since'[s] \in 1 .. Len(log')
      /\ view'[s].status = log'[since'[s]].status
      /\ \E j \in 1 .. Len(log') : view'[s].histograms = log'[j].histograms
  BY <1>1 DEF ReadInv, ReadInvOf
<1>3. spc'[s] = "histograms" =>
         \E i \in since'[s] .. Len(log') : view'[s].status = log'[i].status
  <2> SUFFICES ASSUME spc'[s] = "histograms"
               PROVE  \E i \in since'[s] .. Len(log') : view'[s].status = log'[i].status
    OBVIOUS
  <2>1. PICK i \in since[s] .. Len(log) : view[s].status = log[i].status
    BY <1>1 DEF ReadInv, ReadInvOf
  <2>2. i \in 1 .. Len(log) /\ i \in since[s] .. Len(log')
    BY <1>1, <2>1
  <2> QED
    BY <1>1, <2>1, <2>2
<1>4. spc'[s] = "snapshot" =>
         \E i \in since'[s] .. Len(log') : \E j \in i .. Len(log') :
             /\ view'[s].status = log'[i].status
             /\ view'[s].histograms = log'[j].histograms
  <2> SUFFICES ASSUME spc'[s] = "snapshot"
               PROVE  \E i \in since'[s] .. Len(log') : \E j \in i .. Len(log') :
                          /\ view'[s].status = log'[i].status
                          /\ view'[s].histograms = log'[j].histograms
    OBVIOUS
  <2>1. PICK i \in since[s] .. Len(log) : \E j \in i .. Len(log) :
           /\ view[s].status = log[i].status
           /\ view[s].histograms = log[j].histograms
    BY <1>1 DEF ReadInv, ReadInvOf
  <2>2. PICK j \in i .. Len(log) :
           /\ view[s].status = log[i].status
           /\ view[s].histograms = log[j].histograms
    BY <2>1
  <2>3. /\ i \in 1 .. Len(log) /\ i \in since[s] .. Len(log')
        /\ j \in 1 .. Len(log) /\ j \in i .. Len(log')
    BY <1>1, <2>1, <2>2
  <2> QED
    BY <1>1, <2>2, <2>3
<1>5. spc'[s] = "idle" =>
         \E i \in since'[s] .. Len(log') : \E j \in i .. Len(log') :
             \E k \in j .. Len(log') :
                 /\ view'[s].status = log'[i].status
                 /\ view'[s].histograms = log'[j].histograms
                 /\ view'[s].snapshot = log'[k].snapshot
  <2> SUFFICES ASSUME spc'[s] = "idle"
               PROVE  \E i \in since'[s] .. Len(log') : \E j \in i .. Len(log') :
                          \E k \in j .. Len(log') :
                              /\ view'[s].status = log'[i].status
                              /\ view'[s].histograms = log'[j].histograms
                              /\ view'[s].snapshot = log'[k].snapshot
    OBVIOUS
  <2>1. PICK i \in since[s] .. Len(log) : \E j \in i .. Len(log) :
           \E k \in j .. Len(log) :
               /\ view[s].status = log[i].status
               /\ view[s].histograms = log[j].histograms
               /\ view[s].snapshot = log[k].snapshot
    BY <1>1 DEF ReadInv, ReadInvOf
  <2>2. PICK j \in i .. Len(log) : \E k \in j .. Len(log) :
           /\ view[s].status = log[i].status
           /\ view[s].histograms = log[j].histograms
           /\ view[s].snapshot = log[k].snapshot
    BY <2>1
  <2>3. PICK k \in j .. Len(log) :
           /\ view[s].status = log[i].status
           /\ view[s].histograms = log[j].histograms
           /\ view[s].snapshot = log[k].snapshot
    BY <2>2
  <2>4. /\ i \in 1 .. Len(log) /\ i \in since[s] .. Len(log')
        /\ j \in 1 .. Len(log) /\ j \in i .. Len(log')
        /\ k \in 1 .. Len(log) /\ k \in j .. Len(log')
    BY <1>1, <2>1, <2>2, <2>3
  <2> QED
    BY <1>1, <2>3, <2>4
<1> QED
  BY <1>2, <1>3, <1>4, <1>5 DEF ReadInvOf

\* A scrape reads from the end of the log, and the others have read what they
\* have.
LEMMA ReadInvStep ==
    TypeInv /\ StoreInv /\ LogInv /\ ReadInv /\ [Next]_vars => ReadInv'
<1> SUFFICES ASSUME TypeInv, StoreInv, LogInv, ReadInv, [Next]_vars
             PROVE  ReadInv'
  OBVIOUS
<1> DEFINE n == Len(log)
<1>0. /\ n \in Nat /\ n > 0 /\ log[n] = store /\ log \in Seq(Stores)
      /\ view \in [Scrapers -> Stores] /\ since \in [Scrapers -> Nat]
      /\ spc \in [Scrapers -> {"idle", "histograms", "snapshot"}]
  BY DEF TypeInv, TypeOK, LogInv
<1>1. CASE ClearStore \/ PublishSnapshot
  <2>1. /\ log' = Append(log, store')
        /\ UNCHANGED <<spc, view, since>> /\ probe' = probe
    BY <1>1 DEF ClearStore, PublishSnapshot, EnterSelect, scrapeVars
  <2>2. /\ Len(log') = n + 1
        /\ \A i \in 1 .. n : log'[i] = log[i]
    BY <1>0, <2>1
  <2>3. \A s \in Scrapers : ReadInvOf(s)'
    BY <1>0, <2>1, <2>2, ReadInvGrows
  <2>4. probe'.at \in 1 .. Len(log') /\ (probe'.ready => log'[probe'.at].status.Up)
    BY <1>0, <2>1, <2>2 DEF ReadInv
  <2> QED
    BY <2>3, <2>4 DEF ReadInv
<1>2. CASE Probe
  <2>1. /\ log' = log /\ UNCHANGED <<spc, view, since>>
        /\ probe'.at = n /\ probe'.ready = store.status.Up
    BY <1>2 DEF Probe, Ready, workerVars, logVars, scrapeVars
  <2>2. \A s \in Scrapers : ReadInvOf(s)'
    BY <1>0, <2>1, ReadInvGrows
  <2> QED
    BY <1>0, <2>1, <2>2 DEF ReadInv
<1>3. ASSUME NEW s \in Scrapers,
             ScrapeStatus(s) \/ ScrapeHistograms(s) \/ ScrapeSnapshot(s)
      PROVE  ReadInv'
  <2>1. log' = log /\ probe' = probe
    BY <1>3 DEF ScrapeStatus, ScrapeHistograms, ScrapeSnapshot, workerVars, logVars
  <2>2. ASSUME NEW u \in Scrapers \ {s} PROVE ReadInvOf(u)'
    <3>1. spc'[u] = spc[u] /\ view'[u] = view[u] /\ since'[u] = since[u]
      BY <1>0, <1>3, <2>2 DEF ScrapeStatus, ScrapeHistograms, ScrapeSnapshot
    <3> QED
      BY <2>1, <3>1 DEF ReadInv, ReadInvOf
  <2>3. /\ since[s] \in 1 .. n /\ n \in since[s] .. n /\ n \in 1 .. n /\ n \in n .. n
        /\ view[s].status = log[since[s]].status
    BY <1>0 DEF ReadInv, ReadInvOf
  <2>4. CASE ScrapeStatus(s)
    <3>1. /\ view'[s].status = log[n].status
          /\ view'[s].histograms = view[s].histograms
          /\ since'[s] = n /\ spc'[s] = "histograms"
      BY <1>0, <2>4 DEF ScrapeStatus, Stores
    <3>2. \E j \in 1 .. n : view'[s].histograms = log[j].histograms
      BY <3>1 DEF ReadInv, ReadInvOf
    <3>3. ReadInvOf(s)'
      BY <2>1, <2>3, <3>1, <3>2 DEF ReadInvOf
    <3> QED
      BY <2>1, <2>2, <3>3 DEF ReadInv
  <2>5. CASE ScrapeHistograms(s)
    <3>1. /\ view'[s].status = view[s].status
          /\ view'[s].histograms = log[n].histograms
          /\ since'[s] = since[s] /\ spc'[s] = "snapshot" /\ spc[s] = "histograms"
      BY <1>0, <2>5 DEF ScrapeHistograms, Stores
    <3>2. PICK i \in since[s] .. n : view[s].status = log[i].status
      BY <3>1 DEF ReadInv, ReadInvOf
    <3>3. i \in 1 .. n /\ n \in i .. n
      BY <2>3, <3>2
    <3>4. ReadInvOf(s)'
      BY <2>1, <2>3, <3>1, <3>2, <3>3 DEF ReadInvOf
    <3> QED
      BY <2>1, <2>2, <3>4 DEF ReadInv
  <2>6. CASE ScrapeSnapshot(s)
    <3>1. /\ view'[s].status = view[s].status
          /\ view'[s].histograms = view[s].histograms
          /\ view'[s].snapshot = log[n].snapshot
          /\ since'[s] = since[s] /\ spc'[s] = "idle" /\ spc[s] = "snapshot"
      BY <1>0, <2>6 DEF ScrapeSnapshot, Stores
    <3>2. PICK i \in since[s] .. n : \E j \in i .. n :
             /\ view[s].status = log[i].status
             /\ view[s].histograms = log[j].histograms
      BY <3>1 DEF ReadInv, ReadInvOf
    <3>3. PICK j \in i .. n : /\ view[s].status = log[i].status
                              /\ view[s].histograms = log[j].histograms
      BY <3>2
    <3>4. i \in 1 .. n /\ j \in 1 .. n /\ n \in j .. n
      BY <2>3, <3>2, <3>3
    <3>5. ReadInvOf(s)'
      BY <2>1, <2>3, <3>1, <3>2, <3>3, <3>4 DEF ReadInvOf
    <3> QED
      BY <2>1, <2>2, <3>5 DEF ReadInv
  <2> QED
    BY <1>3, <2>4, <2>5, <2>6
<1>4. CASE FirstRun \/ ReceiveTick \/ StampSnapshot \/ FinishCollect \/ StopWorker
           \/ Tick \/ SetClockBack \/ Signal \/ ShutdownServer \/ MainReturns
           \/ ServerFails \/ UNCHANGED vars
  <2>1. /\ log' = log /\ probe' = probe /\ UNCHANGED <<spc, view, since>>
    BY <1>4
    DEF FirstRun, ReceiveTick, StampSnapshot, FinishCollect, StopWorker, Tick,
        SetClockBack, Signal, ShutdownServer, MainReturns, ServerFails, vars,
        workerVars, logVars, scrapeVars
  <2>2. \A s \in Scrapers : ReadInvOf(s)'
    BY <1>0, <2>1, ReadInvGrows
  <2> QED
    BY <2>1, <2>2 DEF ReadInv
<1> QED
  BY <1>1, <1>2, <1>3, <1>4 DEF Next

\* All the invariants, of every reachable state.
LEMMA InvAlways == Spec => [](TypeInv /\ StoreInv /\ LogInv /\ TimeInv /\ ReadInv)
  BY TimeInvAlways, ReadInvInit, ReadInvStep, PTL DEF Spec

\* An answer of /metrics is made of parts the Store had, in the order of the
\* reads, while the scrape lasted (collector_collect.go:68-104).
THEOREM ScrapesOrdered == Spec => []ScrapeOrdered
<1>1. TypeInv /\ ReadInv => ScrapeOrdered
  <2> SUFFICES ASSUME TypeInv, ReadInv, NEW s \in Scrapers, spc[s] = "idle"
               PROVE  \E i \in since[s] .. Len(log) : \E j \in i .. Len(log) :
                          \E k \in j .. Len(log) :
                              view[s] = [status     |-> log[i].status,
                                         histograms |-> log[j].histograms,
                                         snapshot   |-> log[k].snapshot]
    BY DEF ScrapeOrdered, Answered
  <2>1. PICK i \in since[s] .. Len(log) : \E j \in i .. Len(log) :
           \E k \in j .. Len(log) :
               /\ view[s].status = log[i].status
               /\ view[s].histograms = log[j].histograms
               /\ view[s].snapshot = log[k].snapshot
    BY DEF ReadInv, ReadInvOf
  <2>2. PICK j \in i .. Len(log) : \E k \in j .. Len(log) :
           /\ view[s].status = log[i].status
           /\ view[s].histograms = log[j].histograms
           /\ view[s].snapshot = log[k].snapshot
    BY <2>1
  <2>3. PICK k \in j .. Len(log) :
           /\ view[s].status = log[i].status
           /\ view[s].histograms = log[j].histograms
           /\ view[s].snapshot = log[k].snapshot
    BY <2>2
  <2>4. view[s] \in Stores
    BY DEF TypeInv, TypeOK
  <2>5. view[s] = [status     |-> log[i].status,
                   histograms |-> log[j].histograms,
                   snapshot   |-> log[k].snapshot]
    BY <2>3, <2>4 DEF Stores
  <2> QED
    BY <2>5
<1> QED
  BY <1>1, InvAlways, PTL

\* A scrape during which no run ended answers with one consistent Store.
THEOREM QuietScrapesCoherent == Spec => []QuietScrapeCoherent
<1>1. TypeInv /\ LogInv /\ ReadInv => QuietScrapeCoherent
  <2> SUFFICES ASSUME TypeInv, LogInv, ReadInv,
                      NEW s \in Scrapers, spc[s] = "idle", since[s] = Len(log)
               PROVE  Consistent(view[s])
    BY DEF QuietScrapeCoherent, Answered
  <2>1. Len(log) \in Nat /\ since[s] \in 1 .. Len(log)
    BY DEF ReadInv, ReadInvOf, LogInv, TypeInv, TypeOK
  <2>2. /\ view[s].status = log[Len(log)].status
        /\ view[s].snapshot = log[Len(log)].snapshot
    BY <2>1 DEF ReadInv, ReadInvOf
  <2>3. Consistent(log[Len(log)])
    BY <2>1 DEF LogInv
  <2> QED
    BY <2>2, <2>3 DEF Consistent, InspectionExposed
<1> QED
  BY <1>1, InvAlways, PTL

\* A torn scrape exposes a snapshot no older than the timestamp it reports,
\* unless somebody set the clock back meanwhile (collector_collect.go:69, 87).
THEOREM SkewAlwaysForward == Spec => []SkewIsForward
<1>1. TypeInv /\ LogInv /\ TimeInv /\ ReadInv => SkewIsForward
  <2> SUFFICES ASSUME TypeInv, LogInv, TimeInv, ReadInv,
                      NEW s \in Scrapers, view[s].status.Up, view[s].snapshot # Nil,
                      NEW k \in since[s] .. Len(log),
                      log[k].snapshot = view[s].snapshot, SameClock(since[s], k)
               PROVE  view[s].status.SnapshotTimestamp <= view[s].snapshot.CollectedAt
    BY DEF SkewIsForward, Answered
  <2> DEFINE i == since[s]
  <2>1. /\ i \in 1 .. Len(log) /\ k \in 1 .. Len(log) /\ Len(log) \in Nat
        /\ view[s].status = log[i].status
    BY TimeTypes DEF ReadInv, ReadInvOf
  <2>2. /\ log[k].status.SnapshotTimestamp = view[s].snapshot.CollectedAt
        /\ log[k].status.Up /\ log[i].status.Up
    BY <2>1 DEF LogInv, Consistent
  <2>3. /\ log[i].status.SnapshotTimestamp \in Nat /\ EndOf(log[i]) \in Int
        /\ log[k].status.SnapshotTimestamp \in Nat
        /\ log[k].status.LastCollectTimestamp \in Nat
        /\ eras[i].began \in Nat /\ eras[i].ended \in Nat
        /\ eras[k].began \in Nat /\ eras[k].ended \in Nat
    BY <2>1, TimeTypes
  <2>4. CASE k = i
    BY <2>1, <2>2, <2>3, <2>4
  <2>5. CASE k # i
    <3>1. k \in i + 1 .. Len(log)
      BY <2>1, <2>5
    <3>2. /\ eras[i].began <= eras[i].ended /\ eras[i].ended <= eras[k].began
          /\ eras[k].began <= eras[k].ended
      BY <2>1, <3>1 DEF TimeInv, EraOrder
    <3>3. SameClock(i, i) /\ SameClock(k, k)
      BY <2>3, <3>2 DEF SameClock
    <3>4. log[i].status.SnapshotTimestamp <= EndOf(log[i])
      BY <2>1, <2>2, <3>3 DEF TimeInv, StampsInTime
    <3>5. EndOf(log[i]) <= log[k].status.LastCollectTimestamp
      BY <2>1, <3>1 DEF TimeInv, RunsInOrder
    <3>6. log[k].status.LastCollectTimestamp <= log[k].status.SnapshotTimestamp
      BY <2>1, <2>2, <3>3 DEF TimeInv, StampsInTime
    <3> QED
      BY <2>1, <2>2, <2>3, <3>4, <3>5, <3>6
  <2> QED
    BY <2>4, <2>5
<1> QED
  BY <1>1, InvAlways, PTL

\* /-/ready said so only when there was a snapshot (handler.go:29-36).
THEOREM ReadyTruthful == Spec => []ReadyMeansSnapshot
<1>1. LogInv /\ ReadInv => ReadyMeansSnapshot
  BY DEF LogInv, ReadInv, Consistent, ReadyMeansSnapshot
<1> QED
  BY <1>1, InvAlways, PTL

\* From answer to answer a client sees no counter go back.
THEOREM CountersMonotone == Spec => CountersNeverDecrease
<1> DEFINE Step == \A s \in Scrapers :
          LET old == view[s].status
              new == view'[s].status
          IN  /\ old.CollectErrorsTotal <= new.CollectErrorsTotal
              /\ old.JobInspectionErrorsTotal <= new.JobInspectionErrorsTotal
              /\ view[s].histograms # Nil =>
                    view[s].histograms <= view'[s].histograms
<1>1. ASSUME TypeInv, LogInv, ReadInv, [Next]_vars, NEW s \in Scrapers
      PROVE  /\ view'[s].status = view[s].status \/ view'[s].status = store.status
             /\ \/ view'[s].histograms = view[s].histograms
                \/ view'[s].histograms = store.histograms
  <2>0. view \in [Scrapers -> Stores]
    BY <1>1 DEF TypeInv, TypeOK
  <2>1. ASSUME NEW u \in Scrapers,
               ScrapeStatus(u) \/ ScrapeHistograms(u) \/ ScrapeSnapshot(u)
        PROVE  /\ view'[s].status = view[s].status \/ view'[s].status = store.status
               /\ \/ view'[s].histograms = view[s].histograms
                  \/ view'[s].histograms = store.histograms
    BY <2>0, <2>1 DEF ScrapeStatus, ScrapeHistograms, ScrapeSnapshot, Stores
  <2>2. CASE view' = view
    BY <2>2
  <2> QED
    BY <1>1, <2>1, <2>2
    DEF Next, FirstRun, ReceiveTick, StampSnapshot, FinishCollect, ClearStore,
        PublishSnapshot, EnterSelect, StopWorker, Tick, SetClockBack, Probe, Signal,
        ShutdownServer, MainReturns, ServerFails, vars, workerVars, scrapeVars
<1>2. ASSUME TypeInv, LogInv, ReadInv, [Next]_vars
      PROVE  Step
  <2> SUFFICES ASSUME NEW s \in Scrapers
      PROVE  LET old == view[s].status
                 new == view'[s].status
             IN  /\ old.CollectErrorsTotal <= new.CollectErrorsTotal
                 /\ old.JobInspectionErrorsTotal <= new.JobInspectionErrorsTotal
                 /\ view[s].histograms # Nil =>
                       view[s].histograms <= view'[s].histograms
    OBVIOUS
  <2>1. /\ view[s].status.CollectErrorsTotal \in Nat
        /\ view[s].status.JobInspectionErrorsTotal \in Nat
        /\ view[s].histograms \in Nat \union {Nil}
    BY <1>2 DEF TypeInv, TypeOK, Stores, Statuses
  <2>2. Len(log) \in Nat /\ Len(log) > 0 /\ log[Len(log)] = store
    BY <1>2 DEF TypeInv, TypeOK, LogInv
  <2>3. PICK i \in 1 .. Len(log) : view[s].status = log[i].status
    BY <1>2 DEF ReadInv, ReadInvOf
  <2>4. PICK j \in 1 .. Len(log) : view[s].histograms = log[j].histograms
    BY <1>2 DEF ReadInv, ReadInvOf
  <2>5. Len(log) \in i .. Len(log) /\ Len(log) \in j .. Len(log)
    BY <2>2, <2>3, <2>4
  <2>6. Later(log[i], store) /\ Later(log[j], store)
    BY <1>2, <2>2, <2>3, <2>4, <2>5 DEF LogInv
  <2>7. /\ view[s].status.CollectErrorsTotal <= store.status.CollectErrorsTotal
        /\ view[s].status.JobInspectionErrorsTotal <=
              store.status.JobInspectionErrorsTotal
        /\ view[s].histograms # Nil => view[s].histograms <= store.histograms
    BY <2>3, <2>4, <2>6 DEF Later
  <2>8. view'[s].status = view[s].status \/ view'[s].status = store.status
    BY <1>1, <1>2
  <2>9. \/ view'[s].histograms = view[s].histograms
        \/ view'[s].histograms = store.histograms
    BY <1>1, <1>2
  <2>10. view[s].histograms # Nil => view[s].histograms <= view'[s].histograms
    BY <2>1, <2>7, <2>9
  <2>11. CASE view'[s].status = view[s].status
    BY <2>1, <2>10, <2>11
  <2>12. CASE view'[s].status = store.status
    BY <2>7, <2>10, <2>12
  <2> QED
    BY <2>8, <2>11, <2>12
<1>3. TypeInv /\ LogInv /\ ReadInv /\ [Next]_vars => [Step]_vars
  BY <1>2
<1> HIDE DEF Step
<1>4. Spec => [][Step]_vars
  BY <1>3, InvAlways, PTL DEF Spec
<1> QED
  BY <1>4 DEF CountersNeverDecrease, Step
=============================================================================
