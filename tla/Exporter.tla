------------------------------ MODULE Exporter ------------------------------
(***************************************************************************)
(* The running exporter: the background worker that collects and publishes *)
(* (internal/exporter/worker.go), the Store between it and the readers     *)
(* (store.go), the scrapes of /metrics that read the Store three times     *)
(* (collector_collect.go), the readiness probe (internal/web/handler.go)   *)
(* and the life of the process (main.go).                                  *)
(*                                                                         *)
(* A method of Store is one step here, since it holds the Store's lock     *)
(* from its first access to its last; StoreLocking looks inside it.  The   *)
(* collector is the SnapshotCollector interface: Collect answers with any  *)
(* result CollectorContract allows, and PBSClient is shown to keep to it.  *)
(*                                                                         *)
(* All times are readings of the wall clock, whose monotonic part UTC()    *)
(* drops (worker.go:60, client_collection.go:22), and somebody may set     *)
(* that clock back between any two of them.                                *)
(***************************************************************************)
EXTENDS CollectorContract, Sequences

CONSTANTS
    Scrapers,  \* concurrent requests for /metrics
    StartTime, \* what the clock says when the process starts
    Delays,    \* how far the clock may move between two readings
    SetBackTo, \* what somebody may set it back to
    MaxEvents  \* bound: how often the ticker fires and the clock is set back

ASSUME ExporterAssumption ==
    /\ IncludeJobInspectionMetrics \in BOOLEAN
    /\ IncludeJobSampleHistograms \in BOOLEAN
    /\ RunningJobs \subseteq Nat
    /\ StartTime \in Nat \ {0}
    /\ Delays \subseteq Nat
    /\ SetBackTo \subseteq Nat \ {0}
    /\ MaxEvents \in Nat

VARIABLES
    store,      \* the guarded fields of Store
    wpc,        \* where the worker goroutine is
    run,        \* locals of RunOnce and Collect, and the eras it began and ended in
    ticker,     \* time.Ticker: its channel holds at most one tick
    ticks,      \* how often the ticker has fired
    now,        \* the wall clock
    cancelled,  \* the context of signal.NotifyContext is done
    main,       \* the main goroutine and the HTTP server
    spc,        \* where each scrape is in Collector.Collect
    view,       \* what each scrape has read; the last answer once it is idle
    probe,      \* the last answer of /-/ready, and the length of log then
    log,        \* history: every content the Store has had, the current one last
    era,        \* history: how often the clock has been set back
    eras,       \* history: the eras of the run that left each content of log
    since       \* history: the length of log when each scrape began

clockVars == <<now, era>>
logVars == <<log, eras>>
workerVars == <<store, wpc, run, ticker, clockVars, logVars>>
scrapeVars == <<spc, view, since>>
vars == <<workerVars, ticks, cancelled, main, probe, scrapeVars>>

-----------------------------------------------------------------------------
(* main.go: the Store the worker writes and the collector of metrics reads. *)
NewStoreInMain == NewStore(IncludeJobSampleHistograms)

\* RunOnce at its first statement, in an era.
RunFrom(time, e, done) ==
    [started |-> time, stamp |-> NoTime, duration |-> 0, doomed |-> done,
     returned |-> Failed, eras |-> [began |-> e, ended |-> e]]

Init ==
    /\ store = NewStoreInMain
    /\ wpc = "boot"
    /\ run = RunFrom(NoTime, 0, FALSE)
    /\ ticker = "none"
    /\ ticks = 0
    /\ now = StartTime
    /\ cancelled = FALSE
    /\ main = "serving"
    /\ spc = [s \in Scrapers |-> "idle"]
    /\ view = [s \in Scrapers |-> store]
    /\ probe = [ready |-> FALSE, at |-> 1]
    /\ log = <<store>>
    /\ era = 0
    /\ eras = <<run.eras>>
    /\ since = [s \in Scrapers |-> 1]

\* Nothing of the process moves once main has returned.
Alive == main # "exited"

-----------------------------------------------------------------------------
(* The worker. *)

\* RunOnce up to its call of Collect.
StartRun ==
    \E d \in Delays :
        /\ now' = now + d
        /\ run' = RunFrom(now', era, cancelled)
        /\ wpc' = "collecting"

\* Run collects once before there is a ticker.
FirstRun ==
    /\ Alive
    /\ wpc = "boot"
    /\ StartRun
    /\ UNCHANGED <<store, ticker, era, logVars, ticks, cancelled, main, probe, scrapeVars>>

\* case <-ticker.C, also when ctx.Done is ready: select picks either.
ReceiveTick ==
    /\ Alive
    /\ wpc = "select"
    /\ ticker = "full"
    /\ ticker' = "empty"
    /\ StartRun
    /\ UNCHANGED <<store, era, logVars, ticks, cancelled, main, probe, scrapeVars>>

\* Collect stamps its snapshot, if it gets that far.
StampSnapshot ==
    /\ Alive
    /\ wpc = "collecting"
    /\ ~run.doomed
    /\ run.stamp = NoTime
    /\ \E d \in Delays :
          /\ now' = now + d
          /\ run' = [run EXCEPT !.stamp = now']
    /\ UNCHANGED <<store, wpc, ticker, era, logVars, ticks, cancelled, main, probe,
                   scrapeVars>>

\* time.Since of a time without a monotonic reading: negative when the clock has
\* been set back by more than has passed.
Elapsed(from, to) == to - from

\* Collect returns.
FinishCollect ==
    /\ Alive
    /\ wpc = "collecting"
    /\ \E d \in Delays :
          /\ now' = now + d
          /\ \E r \in CollectReturns(run.stamp, run.doomed) :
                run' = [run EXCEPT !.duration = Elapsed(run.started, now'),
                                   !.returned = r,
                                   !.eras.ended = era]
    /\ wpc' = "commit"
    /\ UNCHANGED <<store, ticker, era, logVars, ticks, cancelled, main, probe, scrapeVars>>

\* The error for which RunOnce clears the Store, in the order of its tests.
FailureOf(returned) ==
    CASE returned.err                                         -> CollectError
      [] ~returned.err /\ returned.result = Nil               -> NilResultError
      [] ~returned.err /\ returned.result # Nil
                       /\ returned.result.Snapshot = Nil      -> NilSnapshotError
      [] OTHER                                                -> NoError

\* Faulty: a snapshot without a stamp is published as it is.
LeftUnstamped(result, started) == result

\* RunOnce gives a snapshot without a stamp the time the run started.
Stamped(result, started) ==
    LET snapshot == result.Snapshot IN
    [Snapshot |-> [CollectedAt   |-> IF snapshot.CollectedAt = NoTime
                                     THEN started ELSE snapshot.CollectedAt,
                   JobInspection |-> snapshot.JobInspection],
     JobInspectionAttempted |-> result.JobInspectionAttempted,
     JobInspectionError     |-> result.JobInspectionError]

\* Run enters its select loop, after the first run by way of NewTicker.
EnterSelect ==
    /\ wpc' = "select"
    /\ ticker' = IF ticker = "none" THEN "empty" ELSE ticker
    /\ log' = Append(log, store')
    /\ eras' = Append(eras, run.eras)
    /\ UNCHANGED <<run, clockVars, ticks, cancelled, main, probe, scrapeVars>>

\* Faulty: Run returns when RunOnce does with an error.
ClearStoreEndsWorker ==
    /\ Alive
    /\ wpc = "commit"
    /\ FailureOf(run.returned) # NoError
    /\ store' = Clear(store, run.started, run.duration, FailureOf(run.returned))
    /\ wpc' = "stopped"
    /\ log' = Append(log, store')
    /\ eras' = Append(eras, run.eras)
    /\ UNCHANGED <<run, ticker, clockVars, ticks, cancelled, main, probe, scrapeVars>>

\* Faulty: RunOnce returns the error of a nil result without clearing.
ClearStoreSkipsNil ==
    /\ Alive
    /\ wpc = "commit"
    /\ FailureOf(run.returned) # NoError
    /\ IF FailureOf(run.returned) = NilResultError
       THEN UNCHANGED store
       ELSE store' = Clear(store, run.started, run.duration, FailureOf(run.returned))
    /\ wpc' = "select"
    /\ ticker' = IF ticker = "none" THEN "empty" ELSE ticker
    /\ log' = IF store' = store THEN log ELSE Append(log, store')
    /\ eras' = IF store' = store THEN eras ELSE Append(eras, run.eras)
    /\ UNCHANGED <<run, clockVars, ticks, cancelled, main, probe, scrapeVars>>

ClearStore ==
    /\ Alive
    /\ wpc = "commit"
    /\ FailureOf(run.returned) # NoError
    /\ store' = Clear(store, run.started, run.duration, FailureOf(run.returned))
    /\ EnterSelect

PublishSnapshot ==
    /\ Alive
    /\ wpc = "commit"
    /\ FailureOf(run.returned) = NoError
    /\ store' = UpdateSuccess(store, Stamped(run.returned.result, run.started),
                              run.started, run.duration)
    /\ EnterSelect

\* case <-ctx.Done(): Run returns, and its defer stops the ticker.
StopWorker ==
    /\ Alive
    /\ wpc = "select"
    /\ cancelled
    /\ wpc' = "stopped"
    /\ ticker' = "stopped"
    /\ UNCHANGED <<store, run, clockVars, logVars, ticks, cancelled, main, probe,
                   scrapeVars>>

\* The runtime's timer: a tick that finds the channel full is dropped.
Tick ==
    /\ Alive
    /\ ticker = "empty"
    /\ ticks + era < MaxEvents
    /\ ticker' = "full"
    /\ ticks' = ticks + 1
    /\ UNCHANGED <<store, wpc, run, clockVars, logVars, cancelled, main, probe, scrapeVars>>

\* Somebody sets the clock back.
SetClockBack ==
    /\ Alive
    /\ ticks + era < MaxEvents
    /\ \E t \in SetBackTo : t < now /\ now' = t
    /\ era' = era + 1
    /\ UNCHANGED <<store, wpc, run, ticker, logVars, ticks, cancelled, main, probe,
                   scrapeVars>>

Worker ==
    \/ FirstRun \/ ReceiveTick
    \/ StampSnapshot \/ FinishCollect
    \/ ClearStore \/ PublishSnapshot

-----------------------------------------------------------------------------
(* The readers. *)

\* Collector.Collect: status := c.store.Status()
ScrapeStatus(s) ==
    /\ main = "serving"
    /\ spc[s] = "idle"
    /\ view' = [view EXCEPT ![s].status = store.status]
    /\ since' = [since EXCEPT ![s] = Len(log)]
    /\ spc' = [spc EXCEPT ![s] = "histograms"]
    /\ UNCHANGED <<workerVars, ticks, cancelled, main, probe>>

\* c.store.JobSampleHistograms(), a copy made under the lock.
ScrapeHistograms(s) ==
    /\ Alive
    /\ spc[s] = "histograms"
    /\ view' = [view EXCEPT ![s].histograms = store.histograms]
    /\ spc' = [spc EXCEPT ![s] = "snapshot"]
    /\ UNCHANGED <<workerVars, ticks, cancelled, main, probe, since>>

\* Faulty: the snapshot is fetched only when up is 1.
ScrapeSnapshotIfUp(s) ==
    /\ Alive
    /\ spc[s] = "snapshot"
    /\ view' = [view EXCEPT ![s].snapshot =
                    IF view[s].status.Up THEN store.snapshot ELSE @]
    /\ spc' = [spc EXCEPT ![s] = "idle"]
    /\ UNCHANGED <<workerVars, ticks, cancelled, main, probe, since>>

\* Faulty: Collect waits for a snapshot.
ScrapeSnapshotWaits(s) ==
    /\ Alive
    /\ spc[s] = "snapshot"
    /\ store.snapshot # Nil
    /\ view' = [view EXCEPT ![s].snapshot = store.snapshot]
    /\ spc' = [spc EXCEPT ![s] = "idle"]
    /\ UNCHANGED <<workerVars, ticks, cancelled, main, probe, since>>

\* snapshot := c.store.Snapshot(), and the rest of Collect.
ScrapeSnapshot(s) ==
    /\ Alive
    /\ spc[s] = "snapshot"
    /\ view' = [view EXCEPT ![s].snapshot = store.snapshot]
    /\ spc' = [spc EXCEPT ![s] = "idle"]
    /\ UNCHANGED <<workerVars, ticks, cancelled, main, probe, since>>

\* Faulty: ready as soon as the first run is over.
ReadyOnceCollected(status) == status.LastCollectTimestamp # NoTime

\* The test of the handler of /-/ready.
Ready(status) == status.Up

\* GET /-/ready
Probe ==
    /\ main = "serving"
    /\ probe' = [ready |-> Ready(store.status), at |-> Len(log)]
    /\ UNCHANGED <<workerVars, ticks, cancelled, main, scrapeVars>>

Scrape(s) == ScrapeStatus(s) \/ ScrapeHistograms(s) \/ ScrapeSnapshot(s)

-----------------------------------------------------------------------------
(* The process. *)

\* SIGINT or SIGTERM.
Signal ==
    /\ Alive
    /\ ~cancelled
    /\ cancelled' = TRUE
    /\ UNCHANGED <<workerVars, ticks, main, probe, scrapeVars>>

\* Faulty: nobody shuts the server down.
NoShutdown == FALSE /\ UNCHANGED vars

\* The goroutine that waits for ctx.Done calls server.Shutdown, which closes
\* the listeners and then waits for the requests in flight.
ShutdownServer ==
    /\ main = "serving"
    /\ cancelled
    /\ main' = "closed"
    /\ UNCHANGED <<workerVars, ticks, cancelled, probe, scrapeVars>>

\* ListenAndServe has returned ErrServerClosed, which it does as soon as the
\* listeners are closed, or it has failed: main ends and takes the worker and
\* the requests in flight with it.
MainReturns ==
    /\ main = "closed"
    /\ main' = "exited"
    /\ UNCHANGED <<workerVars, ticks, cancelled, probe, scrapeVars>>

ServerFails ==
    /\ main = "serving"
    /\ main' = "exited"
    /\ UNCHANGED <<workerVars, ticks, cancelled, probe, scrapeVars>>

-----------------------------------------------------------------------------
Next ==
    \/ FirstRun
    \/ ReceiveTick
    \/ StampSnapshot
    \/ FinishCollect
    \/ ClearStore
    \/ PublishSnapshot
    \/ StopWorker
    \/ Tick
    \/ SetClockBack
    \/ \E s \in Scrapers : ScrapeStatus(s)
    \/ \E s \in Scrapers : ScrapeHistograms(s)
    \/ \E s \in Scrapers : ScrapeSnapshot(s)
    \/ Probe
    \/ Signal
    \/ ShutdownServer
    \/ MainReturns
    \/ ServerFails

Spec == Init /\ [][Next]_vars

(***************************************************************************)
(* Go runs every goroutine that can run.  Collect returns: PBSClient shows *)
(* under which assumption on the PBS commands.  Of the cases of a select   *)
(* that are ready one is picked at random, so ctx.Done, once ready, is not *)
(* passed over for ever.  Nobody has to send a signal, ask /metrics or     *)
(* fail to serve.                                                          *)
(***************************************************************************)
Fairness ==
    /\ WF_vars(Worker)
    /\ SF_vars(StopWorker)
    /\ WF_vars(Tick)
    /\ \A s \in Scrapers : WF_vars(ScrapeHistograms(s) \/ ScrapeSnapshot(s))
    /\ WF_vars(ShutdownServer \/ MainReturns)

FairSpec == Spec /\ Fairness

-----------------------------------------------------------------------------
(* Properties. *)

Returned == [err : BOOLEAN, result : CollectionResults \union {Nil}]
Eras == [began : Nat, ended : Nat]
Runs == [started : Nat, stamp : Nat, duration : Int, doomed : BOOLEAN,
         returned : Returned, eras : Eras]

\* Every variable has its type (the fields of Store, the locals of Run,
\* RunOnce and Collect, and the context of main).
TypeOK ==
    /\ store \in Stores
    /\ wpc \in {"boot", "collecting", "commit", "select", "stopped"}
    /\ run \in Runs
    /\ ticker \in {"none", "empty", "full", "stopped"}
    /\ ticks \in Nat
    /\ now \in Nat /\ now > 0
    /\ cancelled \in BOOLEAN
    /\ main \in {"serving", "closed", "exited"}
    /\ spc \in [Scrapers -> {"idle", "histograms", "snapshot"}]
    /\ view \in [Scrapers -> Stores]
    /\ probe \in [ready : BOOLEAN, at : Nat]
    /\ log \in Seq(Stores)
    /\ era \in Nat
    /\ eras \in Seq(Eras) /\ Len(eras) = Len(log)
    /\ since \in [Scrapers -> Nat]

InspectionExposed(st) == st.snapshot # Nil /\ st.snapshot.JobInspection # Nil

\* What the Status says of the snapshot is true of the snapshot beside it: up
\* says there is one, the timestamp is its own, job_inspection_up says it has
\* an inspection, and an error is kept exactly while the last run failed.
Consistent(st) ==
    /\ st.status.Up <=> st.snapshot # Nil
    /\ st.status.SnapshotTimestamp =
          IF st.snapshot = Nil THEN NoTime ELSE st.snapshot.CollectedAt
    /\ st.status.JobInspectionUp <=> InspectionExposed(st)
    /\ st.status.LastError = NoError <=>
          (st.status.Up \/ st.status.LastCollectTimestamp = NoTime)

\* Between any two methods of Store its Status describes its snapshot, whatever
\* collections succeeded, failed or failed in part before (store.go:41-89).
StoreConsistent == Consistent(store)

\* When the run the Status speaks of was over.
EndOf(st) == st.status.LastCollectTimestamp + st.status.LastCollectDuration

\* From the beginning of the run that left log[i] to the end of the one that
\* left log[j] nobody set the clock back.
SameClock(i, j) == eras[i].began = eras[j].ended

\* The time is that of the last run whose Status has the flag, NoTime if none has.
IsTimeOfLast(flag, time) ==
    \/ time = NoTime /\ \A i \in 1 .. Len(log) : ~log[i].status[flag]
    \/ \E i \in 1 .. Len(log) :
          /\ log[i].status[flag] /\ time = log[i].status.LastCollectTimestamp
          /\ \A j \in i + 1 .. Len(log) : ~log[j].status[flag]

\* Each reported time is that of the run it is said to be of: the last success
\* and the last successful inspection are those of the last such run, however
\* many failures followed and whatever the clock says now.  As long as nobody
\* sets the clock back the times are also in order: a run begins after those
\* before it ended, its snapshot is stamped between its start and its end, also
\* when RunOnce has to stamp it, and its end is past (worker.go:59-86).
TimesOrdered ==
    LET st   == store.status
        last == Len(log)
    IN  /\ IsTimeOfLast("Up", st.LastCollectSuccessTimestamp)
        /\ IsTimeOfLast("JobInspectionUp", st.JobInspectionLastSuccessAt)
        /\ \A i \in 1 .. last - 1 :
              SameClock(i, last) => EndOf(log[i]) <= st.LastCollectTimestamp
        /\ st.Up /\ SameClock(last, last) =>
              st.SnapshotTimestamp \in st.LastCollectTimestamp .. EndOf(store)
        /\ eras[last].began = era => EndOf(store) <= now

\* How the reports of two consecutive runs are related.
Accounted(before, after) ==
    LET b == before.status
        a == after.status
    IN  /\ a.CollectErrorsTotal = b.CollectErrorsTotal + (IF a.Up THEN 0 ELSE 1)
        /\ a.JobInspectionErrorsTotal = b.JobInspectionErrorsTotal +
              (IF IncludeDetailedJobData /\ a.Up /\ ~a.JobInspectionUp THEN 1 ELSE 0)
        /\ ~a.Up => a.LastCollectSuccessTimestamp = b.LastCollectSuccessTimestamp
        /\ ~a.JobInspectionUp =>
              a.JobInspectionLastSuccessAt = b.JobInspectionLastSuccessAt
        /\ IncludeJobSampleHistograms =>
              after.histograms = before.histograms +
                 (IF a.JobInspectionUp THEN after.snapshot.JobInspection ELSE 0)

\* Every run leaves exactly one trace in the counters: an outage is one
\* collection error, a snapshot without the inspection that was asked for is
\* one inspection error, and each running job inspected is one sample; a
\* failure forgets neither the samples nor the times of earlier successes.
EveryRunAccounted ==
    [][log' # log => /\ log' = Append(log, store')
                     /\ Accounted(store, store')]_vars

Answered(s) == spc[s] = "idle"

\* An answer of /metrics is made of parts the Store had, in this order, between
\* the beginning and the end of the scrape: nothing older than the request,
\* and never the snapshot of before with the Status of after
\* (collector_collect.go:69, 85, 87).
ScrapeOrdered ==
    \A s \in Scrapers : Answered(s) =>
        \E i \in since[s] .. Len(log) :
            \E j \in i .. Len(log) :
                \E k \in j .. Len(log) :
                    view[s] = [status     |-> log[i].status,
                               histograms |-> log[j].histograms,
                               snapshot   |-> log[k].snapshot]

\* What README.md:102-104 promises holds of every scrape no run ended during:
\* PBS metrics are there exactly when up is 1 and carry the timestamp reported
\* with them, and per-job metrics exactly when the inspection is up.
QuietScrapeCoherent ==
    \A s \in Scrapers :
        Answered(s) /\ since[s] = Len(log) => Consistent(view[s])

\* A scrape torn by the end of a run errs in one direction: the snapshot it
\* exposes was stamped no earlier than the timestamp it reports, unless somebody
\* set the clock back between the beginning of the one run and the end of the other.
SkewIsForward ==
    \A s \in Scrapers :
        Answered(s) /\ view[s].status.Up /\ view[s].snapshot # Nil
            => \A k \in since[s] .. Len(log) :
                  log[k].snapshot = view[s].snapshot /\ SameClock(since[s], k)
                      => view[s].status.SnapshotTimestamp <= view[s].snapshot.CollectedAt

\* From one answer to the next, a client never sees a counter or a count of
\* samples go back, however its reads interleave with the runs of the worker and
\* whatever the clock does: rate() needs no reset while the process lives.
CountersNeverDecrease ==
    [][\A s \in Scrapers :
          LET old == view[s].status
              new == view'[s].status
          IN  /\ old.CollectErrorsTotal <= new.CollectErrorsTotal
              /\ old.JobInspectionErrorsTotal <= new.JobInspectionErrorsTotal
              /\ view[s].histograms # Nil =>
                    view[s].histograms <= view'[s].histograms]_vars

\* /-/ready answers 200 only when a scrape at that moment would have found a
\* snapshot (handler.go:29-36).
ReadyMeansSnapshot ==
    probe.ready => log[probe.at].snapshot # Nil

\* What the help text of pbs_exporter_snapshot_timestamp_seconds says: it is
\* the timestamp embedded in the snapshot this answer exposes
\* (collector.go:103).  It is not so when a run ends between the two reads.
SnapshotTimestampDescribesExposure ==
    \A s \in Scrapers :
        Answered(s) /\ view[s].snapshot # Nil
            => view[s].status.SnapshotTimestamp = view[s].snapshot.CollectedAt

\* A tick is not left in the channel: a failed run does not end the loop of
\* Run, and no reader holds the worker up (worker.go:43-57).
PendingTickServed ==
    ticker = "full" ~> ticker # "full" \/ main = "exited"

\* Every collection that begins is reported, as a success or as a failure,
\* unless the process ends first.
EveryRunReported ==
    \A n \in 1 .. MaxEvents + 1 :
        wpc = "collecting" /\ Len(log) = n ~> Len(log) = n + 1 \/ main = "exited"

\* A scrape is answered, or the process ends.
ScrapeAnswered ==
    \A s \in Scrapers : ~Answered(s) ~> Answered(s) \/ main = "exited"

\* A signal ends the process, whatever the worker is doing (main.go:73-97).
SignalEndsProcess == cancelled ~> main = "exited"
=============================================================================
