# A verification project for pbs-exporter

`pbs-exporter` is a Prometheus exporter for PBS clusters. A background worker
runs PBS commands at an interval and publishes what they say in a shared
`Store`; requests for `/metrics` read the `Store` and never run a command. The
modules here model that program as TLA+, TLC checks them on small instances, and
TLAPS proves every safety property of these runs, that is of the store, the
process, the client, the parsers, the series, the configuration and the pace, for
every value of the constants.

Source files are named relative to the repository (`worker.go` is
`src/internal/exporter/worker.go`, and so on); `PROJECT.json` maps every
definition to the lines it stands for.

## The system

| component | state | operations | talks to |
|---|---|---|---|
| worker (`worker.go`) | ticker, locals of `RunOnce` | `Run`, `RunOnce` | calls `Client.Collect`, then `Store.UpdateSuccess` or `Store.Clear` |
| store (`store.go`) | snapshot, status, histograms, `RWMutex` | `UpdateSuccess`, `Clear`, `Status`, `Snapshot`, `JobSampleHistograms` | written by the worker only, read by scrapes and the readiness probe |
| job-sample histograms (`job_sample_histograms.go`) | counts, sum per bucket list | `Observe`, `Snapshot` | owned by the store |
| collector of metrics (`collector_collect.go`, `job_inspection.go`) | none | `Collect`, once per scrape | reads the store three times |
| PBS client (`client_collection.go`) | none between calls | `Collect`: up to seven commands | starts processes, parses their JSON |
| parsers (`snapshot_json.go`, `client.go`, `pbs/job_inspection.go`) | none | pure functions | called by the client |
| HTTP (`handler.go`) | none | `/metrics`, `/-/ready`, `/-/healthy`, landing page | reads the store |
| process (`main.go`) | signal context, server | start, signal, shutdown, exit | starts the worker goroutine and the server |
| configuration (`config.go`, `job_sample_buckets.go`) | none | `Parse`, `LoadFile`, `Validate` | before anything runs |

What is hard about it:

- **Interleaving.** Worker, scrapes, probe, signal and server run concurrently.
  A method of the store is atomic, a scrape is not: a run may end between any
  two of its three reads.
- **Partial failure.** Each of the commands may fail, answer nonsense, or be
  killed. A base command that fails costs the whole snapshot, a failed
  inspection or version must not; nothing of a failed collection may leak into
  a later one, while counters and the times of earlier successes must survive.
- **Time.** Timestamps come from several readings of the wall clock, which may be
  set back between them, and from PBS's own clock, and are compared with each
  other.
- **Liveness.** A failed run must not end the loop, a command that never exits
  must not hold the worker, a signal must end the process.

What makes each component correct:

- *store and worker*: the status always describes the snapshot beside it; each
  run leaves exactly one trace in the counters; each timestamp is that of the run
  it is said to be of, and as long as nobody sets the clock back they are in order.
- *scrape*: it shows contents the store had during the scrape, in order;
  counters never go back.
- *client*: it keeps the contract the worker relies on; every part of a snapshot
  was read during that collection; failures have the reach described above.
- *process*: every tick is served, every collection reported, every scrape
  answered, and a signal ends the process.
- *parsers and exposition*: families that say the same thing in two ways agree,
  in whatever order Go goes through a map; no two series have the same labels.
- *configuration*: flags win over the file and the file over the defaults; what
  is accepted is sound setting by setting, but for two gaps of the validation named
  below, and what is refused is refused before anything starts.
- *pace*: as long as no command leaves a child behind, no report is older than an
  interval and a collection, and missed ticks are not made up for.

## Modules

| module | what it models |
|---|---|
| `StoreOps` | what the methods of `Store` do to its fields, as operators on values |
| `CollectorContract` | which results `Collect` may return: what the interface `SnapshotCollector` promises `RunOnce` |
| `SnapshotCollector` | that contract as an abstract specification of one call at a time |
| `Exporter` | the running process: worker, store, scrapes, readiness probe, signal, shutdown |
| `PBSClient` | `pbs.Client`: the commands as processes, over a cluster that changes; implements `SnapshotCollector` |
| `JobSampleHistograms` | the accumulators of `job_sample_histograms.go`, as operators on values |
| `AtomicStore` | a store each of whose methods is one step: what callers rely on |
| `StoreLocking` | the methods of `Store` assignment by assignment under the `RWMutex`; implements `AtomicStore` |
| `Scalars` | optional numbers and quantities, counts by name: what the parsers make of PBS's texts |
| `JobInspection` | detailed jobs, their labels and optional values, as operators on values |
| `NodeTable` | nodes, their fractions and the sums of the cluster, as operators on values |
| `ServerTables` | queues and the server, as operators on values |
| `Aggregation` | one collection and one scrape: decoded answers to series; uses the four above |
| `Configuration` | defaults, file, flags and validation, as operators on values |
| `CollectionSchedule` | from the command line to the pace of the collections, with two clocks |
| `MCExporter`, `MCPBSClient`, `MCStoreLocking`, `MCAggregation`, `MCCollectionSchedule` | small instances for TLC |
| `ExporterProofs` | theorems about `Exporter` and their proofs |
| `ClientProofs` | theorems about `PBSClient`, among them that it implements `SnapshotCollector` |
| `RecursionTheorems` | induction and recursion over numbers, least and greatest numbers, in a form the provers can use |
| `SumTheorems` | sums over finite sets, as the community modules define them |
| `LockingProofs` | theorems about `StoreLocking`, among them that it implements `AtomicStore` |
| `ScheduleProofs` | theorems about `Configuration` and `CollectionSchedule` |
| `AggregationProofs` | theorems about `Aggregation`: its maps, its waits and its labels |
| `FamilyProofs` | theorems about the families of one scrape that say the same thing in two ways |

### StoreOps and Exporter

`store` holds the three guarded fields. `UpdateSuccess` and `Clear` are
translated field by field; a time is a number (`NoTime` = 0 is Go's zero time),
an error is one of the three kinds `RunOnce` can pass, of a snapshot only its
time stamp and its inspection are kept, of an inspection the number of its
running jobs (what the histograms observe), and of the histograms the number of
observations.

The worker's program counter `wpc` goes `boot` (before the first run),
`collecting` (inside `Collect`), `commit` (`Collect` has returned), `select`,
`stopped`. `FirstRun` and `ReceiveTick` begin `RunOnce` and read the clock;
`StampSnapshot` (inside `Collect`, if it gets that far) and `FinishCollect` read it
again; `ClearStore` and `PublishSnapshot` are the two ways `RunOnce` ends, followed
by the return to the select loop. The clock is the wall clock, because `UTC()` drops
the monotonic part of every reading (`worker.go:60`, `client_collection.go:22`):
`SetClockBack` sets it back at any time, so that a run may end, or be stamped, before
it began, and the reported duration is an integer. `run` holds the locals of
`RunOnce` and `Collect`: `started`, `stamp`, `duration`, `returned`, and whether the
context was done at the beginning (`doomed`). `Collect` answers with anything of its contract: `RunOnce` tests for
a nil result, a nil snapshot and a zero stamp, and its unit tests pass them, so
they are included although `pbs.Client` never returns them. The ticker's channel
has room for one tick; a tick that finds it full is dropped, which leaves the
state as it is. When both `ctx.Done()` and the ticker are ready, `select` picks
either one: `StopWorker` and `ReceiveTick` are then both enabled, and a
collection begun under a done context fails.

A scrape is three steps (`ScrapeStatus`, `ScrapeHistograms`, `ScrapeSnapshot`)
that fill `view[s]`; the last one ends it. `Probe` is one read. `main` goes from
`serving` to `closed` (`Shutdown` has closed the listeners, so `ListenAndServe`
returns) to `exited`, after which no goroutine moves: in particular scrapes in
flight are cut off, because nothing waits for `Shutdown` to return.

`log`, `since`, `era` and `eras` are history variables: every content the store has
had, how long `log` was when each scrape began, how often the clock has been set
back, and how often it had been when the run behind each entry of `log` began and
when it ended. `SameClock(i, j)` says with them that nobody set the clock back from
the beginning of one run to the end of another; what compares times of different
readings (`SkewIsForward` and three clauses of `TimesOrdered`) is claimed under it,
and is false without it. That the reported times of the last success and of the last
inspection are those of the last such runs holds whatever the clock does. So do the
other properties, which speak of no times but those of one content of the store.

### CollectorContract, SnapshotCollector and PBSClient

`PBSClient` runs `Collect` command by command. A command is a process (`proc`)
that may be refused at its start (no such program, or the context is done), exit
with output that can or cannot be decoded, exit with an error, or be killed
(timeout or context); `pipe` says whether a child it left behind still holds its
output open, in which case `CombinedOutput` does not return. The cluster is the
environment: jobs are submitted, started and ended at any time, and a command
answers with the cluster as it is when it exits. `history` is the sequence of all
clusters so far, and its length is the clock. Queue waits and inspected jobs keep
their ages relative to the stamp, with the clamp at zero; the counts of nodes,
queues and server are what those commands would say of the same jobs.
`ClockAhead` sets PBS's clock ahead of the exporter's.

The property `KeepsContract` is the abstract specification under the refinement
mapping of the instance `Contract`: the call is idle or collecting, and an answer
is summarised to what `RunOnce` looks at. `Exporter` and `PBSClient` meet in this
contract: what `Exporter` assumes of `Collect` is what `PBSClient` is shown to do.
The clocks of `PBSClient` and `SnapshotCollector` count moments, which never go
back, and a stamp is the moment of its reading: they say when a stamp is taken,
`Exporter` what the wall clock may have said then.

### JobSampleHistograms, AtomicStore and StoreLocking

`Exporter` takes a method of the store as one step. `StoreLocking` justifies
that: `UpdateSuccess` and `Clear` write the snapshot, the base fields of the
status, the result of the inspection and then one field of one job at a time,
between `Lock` and `Unlock`; the readers copy the status in two words and the
histograms resource by resource, between `RLock` and `RUnlock`. The lock is the
one of Go's `sync`: `Lock` waits for the readers inside, readers that come while
a writer waits or writes wait for it, and `Unlock` lets all of them in. Runs are
numbered, so that words of two runs can be told apart. `MethodsAreAtomic` is the
specification `AtomicStore` under the mapping that shows the worker's writes to
others when it unlocks (`before` holds the content until then) and a reader's
call as pending until it returns. `ledger`, the second history variable, lists
the jobs published so far; `HistogramsMatchSamples` recomputes every count and
sum from it (`Tally`), of the running ones that have the resource (`Samples`).

In `JobSampleHistograms` the buckets of a resource are a set, because validated
buckets are strictly increasing; samples are natural numbers, so sums are exact
where the code adds floating-point numbers.

### Scalars, JobInspection, NodeTable, ServerTables and Aggregation

One collection and one scrape of its result. The two loops over the jobs take
them in any order (`NextJob`, `NextWait`), one iteration a step, because Go
gives the keys of a map in any order; queues and nodes are gone through in
sorted order and are one step (`TablesParsed`), as are the server and the
inspected jobs. Maps grow as Go's do, so that a key which was never counted is
absent and makes no series. The answers about jobs, queues, server, nodes and
inspected jobs are independent of each other, as those of five commands at five
instants.

What PBS may answer is a constant, `Answers`, with two assumptions about it.
`JobsAssumption`: finitely many jobs, whose states are letters, whose ages are
numbers or unknown, and at most one answer to the inspection. `TablesAssumption`:
finitely many queues and nodes, queues that have names (the code puts jobs
without one under ""), and fractions with a total that is not negative. All of
it holds of what PBS prints; nothing is assumed of how the answers relate to
each other, of which fields are empty, or of how numbers are spelled.

`CountsMatchJobs` and `WaitsAreCumulative` recompute the maps from the jobs seen
so far, at every point of the loops, the sum of the waits included. `TotalsAgree` and `NodeCountsMatch` relate
families that come from different loops and commands. `InspectionAgrees` relates
the two parsers of jobs: when PBS gives both commands the same jobs, per-job
series and aggregates must tell the same story. (With array jobs the answers are
never the same: only the first command expands them.) `FamiliesAgree` relates
the three commands that count jobs: when queues and server say how many jobs run
and wait, the families by state, by queue and of the server show the same
numbers, whatever else stands in the text they are taken from. PBS gives those
counts as a text of parts, `Transit:0 Queued:1`; to `ParseNamedCounts` it is the
sequence of the names with their optional numbers.

An id is the sequence of its runs of digits and of other characters, an owner
the sequence of its parts between the `@`s: what the regular expression
`[0-9]+` and `LastIndex(owner, "@")` look at, and nothing else. The owner of the
snapshot is normalized by the parser, and both labels once more by each scrape.
A scalar (`Scalars`) is a text with a form: "plain" as PBS writes numbers, "other" for a
spelling that is parsed but, when it is zero, not taken for a zero, "none" for no
number. Two jobs with equal labels make the registry refuse the whole scrape
(`status` 500).

### Configuration and CollectionSchedule

A configuration is a function from settings to values. A text on the command
line or in the file stands for the value it parses to; `Bad` does not parse, and
`NaN` is a number that compares false with everything. A flag has a form, because
`extractConfigFile` and kingpin recognize different ones: `--flag=value`,
`--flag value`, or inside a file named by an `@` argument. The settings of a
file become the defaults of the flags as text and are parsed again; the only
values that may change on that way are durations kept as floats (`Lossy`).

`CollectionSchedule` starts where `main` does: `ParseArguments`, `StartServing`
(the handler, whose path is validated a second time and may make `ServeMux`
panic), then the collections. Time is discrete, scheduling takes none of it, and
a collection takes any time up to the timeouts of all of its commands: `Exporter`
says what can happen in which order, this module how long it can take. There are
two clocks, because the ticker runs by the monotonic one while the reports are
made from the wall clock. Once the process serves, only the settings the worker
and the client keep are kept in `config`.

## Runs

| run | specification | asks |
|---|---|---|
| `ExporterRuns` | `Spec` | is the store consistent, do reports add up, is what readers see ordered? |
| `ExporterLive` | `FairSpec` | is every tick served, run reported, scrape answered; does a signal end the process? |
| `ExporterTorn` | `Spec` | (violated) does the reported snapshot timestamp belong to the exposed snapshot? |
| `ClientRuns` | `Spec` | does the client keep its contract, over a changing cluster and failing commands? |
| `ClientLive` | `FairSpec` | without detailed job data: does the client keep its contract, and does `Collect` return when no command exits by itself? |
| `ClientIncoherent` | `Spec` | (violated) does a snapshot describe one state of the cluster? |
| `ClientOrphan` | `FairSpec` | (violated) does every command end, by itself or by its timeout? |
| `LockingRuns` | `FairSpec` | is every method of the store atomic, are the histograms those of the samples, and can readers keep the worker from the lock, or the worker a reader? |
| `AggregationRuns` | `Spec` | do counts, waits, sums and per-job series agree, in every order of the jobs, and is every series there once? |
| `LabelsOwner` | `Spec` | (violated) does `/metrics` show the documented owners? |
| `ScheduleRuns` | `Spec` | does what is accepted run, with the documented precedence, and how old can a report get? |
| `ScheduleDuration` | `Spec` | (violated) is the reported duration that of the collection? |

An operator whose comment begins with "Faulty" is not part of any specification:
it is a plausible mistake in the definition after it, kept to show that the run
named in `PROJECT.json` would find it.

**Bounds.** `ExporterRuns` has one scraper and two events (`MaxEvents`): the ticker
fires twice, hence three runs, enough for success, failure and success again with a
scrape torn by any of them; or it fires once and the clock is set back once, at any
moment of two runs, to a time before the process began (`SetBackTo`); or the clock is
set back twice.
Scrapes do not affect each other or the worker, so a second scraper adds no
behaviour to the first one's; the proofs cover any set of scrapers. The clock
moves at each reading (`StrictDelays`), so that different readings differ.
`ExporterLive` has as many runs, with all options off and a clock that
stands still, and `ExporterTorn` has a clock nobody sets: times decide in no case
whether a step is enabled.
`ClientRuns` has two jobs, three changes of the cluster and two collections: a
job can be submitted, started and ended inside one collection, and a collection
can follow a failed one. PBS's clock is one step ahead there, so that negative
ages occur. Job ids are interchangeable (`JobSymmetry`); the properties of the
run are symmetric in them, and none is a liveness property.
`LockingRuns` has two readers and two publications, so that a reader can be
inside, and another wait, during each of them, and a word of one run can meet one
of the next; three jobs in two histograms give a sample on a bound, one above all
bounds, one not set and a job that is passed over; two readers can also take
turns at keeping a writer out. `ClientLive` leaves the inspection out: its command
goes through the same actions as the others, and `ClientRuns` includes it.
`AggregationRuns` has up to three
jobs out of eight kinds (each state that matters, a letter in lower case, no
user, no queue, no time, a time in the future, waits on and above bounds): three
make every pair of them meet in one queue with a third beside it. With each set
of jobs the other answers agree, or come from another instant (a queue that is
gone, one without counts, no server, no inspection); with no jobs the inspection
knows of any set of four ids and five owners.
`ScheduleRuns` starts with every single setting, right or wrong, in a file or on
the command line in each form, with and without the other; with two bad settings
one of them is already enough to be refused. `MaxTime` is 20 units, several
intervals and collections of the longest kind, and the wall clock is set once
(`MaxClockSteps`), forward or back, at any time: a second step only adds to the
first.

**Deadlock** is not checked: the process ends after a signal, the client is idle
when the worker has stopped calling, the worker of `StoreLocking` stops after
`MaxWrites` publications, `Aggregation` follows one answer to one scrape, and
`CollectionSchedule` watches for `MaxTime`, if the process starts at all. That
nobody waits for ever is a liveness property of each run that has waiting.

**Fairness.** In `Exporter`: weak fairness for the steps of each goroutine
(Go's scheduler runs every goroutine that can run), for the timer behind the
ticker and for shutdown; strong fairness for `StopWorker`, because `select`
chooses at random between ready cases, so a done context is not passed over for
ever. That `Collect` returns is part of the worker's fairness and is what
`ClientLive` checks of the client: there, weak fairness for the goroutine inside
`Collect` and for the timer that kills a command; no command has to exit by
itself. It does assume that no command leaves a child behind (`ClientOrphan`
shows why). In
`StoreLocking`: weak fairness for the worker once it has called a method, and for
each reader inside one; that is enough because of the order in which the lock is
handed over. No fairness is assumed for signals, scrapes, failures or the
cluster, and nobody has to call a method.

## Where code and documentation disagree

- `ExporterTorn`: the help text of `pbs_exporter_snapshot_timestamp_seconds`
  (`collector.go:103`) says it is the timestamp "embedded in the currently
  exposed PBS snapshot". A scrape reads the status first and the snapshot last,
  under separate locks; when a run ends between, they belong to different runs.
  What does hold is proved: `ScrapeOrdered`, `QuietScrapeCoherent`, and, unless the
  clock is set back meanwhile, `SkewIsForward`.
- `ClientIncoherent`: README.md:11 promises "one coherent in-memory snapshot";
  four commands at four instants do not give one. What does hold: `PartsInOrder`.
- `ClientOrphan`: the per-command timeout (README.md:21, `config.go:137`) kills
  the command, but `CombinedOutput` waits for every holder of its output.
- `LabelsOwner`: an owner is normalized by the parser and again by the scrape, so
  `foo@bar@host` reaches `/metrics` as `foo`; README.md:116 says `foo@bar`.
  The snapshot still has it right.
- `ScheduleDuration`: the help text of `pbs_exporter_last_collect_duration_seconds`
  (`collector.go:88`) says "Duration of the last background PBS collection".
  `worker.go:60` drops the monotonic reading with `UTC()`, so the duration is a
  difference of wall-clock times, negative when the clock is set back by more
  than it. What does hold: `ReportDescribesRun`.

Behaviours met on the way that no document contradicts, and that the properties
leave room for: a list of buckets may hold `NaN`, and then its neighbours need not
increase (the message of `job_sample_buckets.go:133` says "strictly increasing";
`AcceptedRuns` states what is left); the telemetry path may be that of another
handler, on which `ServeMux` panics (`process = "panicked"`, which `AcceptedRuns`
admits); a `config.file` inside an `@` file is accepted and never loaded (`NamesFile`
of `Precedence` means a file named outside of one); a scrape in flight is cut off
when a signal ends the process (`ScrapeAnswered` admits it); and after the clock is set back
the timestamp of a torn scrape may be later than that of the snapshot it exposes, and
that of the last success later than that of the last collection.

## Proofs

Six modules of theorems about the program, each an inductive invariant proved
action by action and what follows from it (`FamilyProofs` uses the invariant of
`AggregationProofs`), and two general ones. Every invariant was checked by TLC on
the run of its module before it was proved.

**`ExporterProofs`** proves nine theorems about `Exporter`, for any number of
scrapers, running jobs and ticks, any clock delays, and a clock set back any number
of times to any time, from `NilAssumption` (nil is no number, snapshot or result)
and `ExporterAssumption` (the types of the constants). The inductive invariant has
five parts, proved one after the other:

1. `TypeInv`: types, and that the result waiting in `run` at `commit` is one the
   contract allows, with the stamp of this run or none;
2. `StoreInv`: the store is consistent, and has histograms if they are enabled;
   what a run leaves in it is `Committed` (`ClearCommits`, `UpdateCommits`);
3. `LogInv`: each entry of `log` is consistent, the last is the store, and the
   counters and sample counts of each are at least those of each earlier one
   (`LaterCommitted`);
4. `TimeInv`: runs follow each other from era to era (`EraOrder`); what ended in the
   present era is past (`EndsPast`); the run under way began after what ended in the
   era it began in, and its readings are in order as far as they are of one era
   (`RunInTime`); hence the reported ones are (`RunsInOrder`, `StampsInTime`); and
   the times of the last successes are those of the last entries of `log` with that
   flag (`LastSuccesses`, from `LastInGrows`);
5. `ReadInv`: the status in `view[s]` is that of `log[since[s]]`, each other part is
   that part of some entry of `log`, at indices that are ordered and, for the
   current scrape, at least `since[s]`; the probe refers to an entry that was then
   the last.

`StoreConsistent` alone is not inductive: whether a commit preserves it depends
on the result waiting in `run`, hence 1; what a scrape has read is related to
the store only through the history, hence 3 and 5; and whether two readings of the
clock are in order depends on whether it was set back between them, which no variable
of the program remembers, hence `eras` and 4.

**`ClientProofs`** proves every safety property of `ClientRuns`, for any finite set
of jobs, any number of collections and changes of the cluster, and any length by
which PBS's clock is ahead, from `ClientAssumption` (types of the constants; the
jobs are finitely many, as everything PBS prints) and `InspectionAssumption` (an
inspection is never nil). The invariants, in the order they build on each other:

1. `TypeInv`: types, and which part of the payload has been decoded at which `pc`;
2. `FailuresOnTheWay`: what has failed so far, for `OnlyBaseCommandsFail`;
3. `ReadsInOrder`: there are moments of `history`, in the order of the commands,
   at which the parts decoded so far were PBS's answer, and one for the output
   that is yet to be decoded: `PartsInOrder` speaks of a finished snapshot only;
4. `JobsWaitOnce`: no job returns to Q, so all answers know the same begin of its
   wait, and `WaitsAgree` follows from 3;
5. `DoomedGoesNowhere`: under a done context `Collect` gets no further than its
   first command.

`ClientKeepsContract` is the refinement: the initial states of `PBSClient` are
initial states of `SnapshotCollector`, and each action maps to `Begin`, `Answer`
(with a result the contract allows, by 1 and 5) or a stutter.

**`LockingProofs`** proves `StoreLocking`'s safety and its refinement of
`AtomicStore`, for any readers, fields, finite sets of buckets, inspections and number of
publications, from `LockingAssumption` and `HistogramAssumption`. The invariant is the conjunction of

1. `Types`;
2. `LockKept`: for each reader by itself (`ReaderKept`), whether it counts as
   inside, that it excludes the writer, and that the words it has got are a
   prefix of the words of the content it will leave with;
3. `Writing`: how much of the new content is written at each `wpc`; in the loop
   over the jobs (`Observing`) the histograms are those after so many jobs, and
   so many fields of the next (`After`);
4. `Tallied`: those outside see the tally of the ledger.

`HistogramsMatchSamples` is the last part when nobody writes; the lemma behind it,
`ObservedTally`, says that observing any sequence of jobs adds exactly their
samples. `StoreIsAtomic` maps `Unlock` to the atomic write (`PublishedWhole`
collects what has been written), `RUnlock` to the atomic read (`WordsAssembled`),
and everything between to stutters.

**`RecursionTheorems`** is what those folds need. The library states induction and
recursive definition for operators, which the installed provers cannot
instantiate; `SetInduction` and `StepsLead` state them for a set and for a
sequence of functions, and are enough for loops over sequences. `LeastNumber` and
`GreatestNumber` are what `Min` and `Max` need.

**`SumTheorems`** is about `SumFunction`, which the community modules define as a
fold that takes out one element after the other, whichever `CHOOSE` picks.
`SumTakesOut` says that any element may be taken out first; it rests on the sums
of all subsets being one function (`SumsExist`, `SumsAgree`) and on induction over
their size. From it: one more element (`SumOfOneMore`), which is an iteration of a
loop; the same sum under other names (`SumRenamed`), which is a set of samples in
place of a set of jobs; and a sum of the sums of its parts (`SumOfParts`), which is
a total by queue.

**`ScheduleProofs`** proves every safety property of `ScheduleRuns`, for any command
line, files, defaults and buckets, any interval and timeout, and any setting of
the wall clock, from `ConfigurationAssumption` (the settings are told apart, and the
defaults are those of `Default` in their types), `TextAssumption` (a text that
does not parse is no value), `ScheduleAssumption` and `InputAssumption` (flags and
files give a setting a text of its kind, possibly a bad one, and name files that
exist in the model, possibly as missing). The first half is about the operators:
what `Parse` returns for any input (`ArgumentsParsed`, `ParsedConfigMeans`), that
what `Validate` accepts is `Sound` (`ValidIsSound`), and where each setting comes
from. The second half is the invariant of the pace: `Begun`, `InTime`, `Paced` and
`Measured` say, for an interval I and a bound B, when the next tick is due, when
the next collection begins, that a tick in the channel came an interval after the
collection before last, and that the wall clock shows what has passed plus what
it was set by. `NoBurst` and `BoundedStaleness` are not inductive: they speak of
collections that have begun, and follow from where the tick in the channel is.

**`AggregationProofs`** proves `Aggregation`'s types, `CountsMatchJobs`,
`WaitsAreCumulative`, `TotalsAgree` and `DistinctJobsDistinctSeries`, for any
answers, jobs in any order, any buckets and both options, from
`AggregationAssumption`, `JobsAssumption`, `TablesAssumption` and
`JobInspectionAssumption` (an unknown age is no number). The invariant has two
parts:

1. `Loops`: the maps of the first loop are the tallies of the jobs it has come to
   (`Counted`), and those of the second describe the waits of the jobs it has come
   to (`Measured`): how many, how many up to each bound, the longest, the sum
   (`Describes`);
2. `Scraped`: from which answer each part of the snapshot was made, and that the
   series are those of the snapshot unless two jobs have equal labels.

The step of each loop is a lemma about one job: `JobCounted`, from `TallyOfOneMore`
(incrementing a key is a tally with one more occurrence), and `WaitAdded`, from
`WaitDescribed`. That the order of the jobs does not matter is in the form of the
invariant: it speaks of the set of jobs, never of a sequence.
`DistinctJobsDistinctSeries` follows from two lemmas about the labels: an id that
begins with a number becomes that number (`NumberedID`), whatever comes after it,
and normalizing it once more leaves it (`NumberedLabel`).

**`FamilyProofs`** proves the three properties that relate families of one scrape,
from the same assumptions. `NodeFamiliesAgree`: used and available are summed
node by node, so their sum is that of the totals (`ClusterAddsUp`), and there is a
utilization exactly where a total is positive. `CountsOfJobsAgree`: `NamedCount`
finds the number that a text says for a name, `AnswersSay` turns agreement of the
answers into equal numbers, and `QueuesAddUp` adds queues up to the server.
`PerJobSeriesAgree`: when the second answer says of the jobs what the first says
and the scrape is not refused, labels are as distinct as jobs (`ShownInspection`),
so the samples of a family can be counted and summed by their jobs
(`SamplesMeasured`), and the jobs of each family are those the loops have counted
(`WaitSamples`, `RunningSamples`).

**Only model-checked.** Liveness, because it needs fairness and ENABLED, which are
beyond the prover: `ExporterLive`, `ClientLive`, `PublicationCompletes` and
`ReaderServed`.

## Not modelled

Metric names and help texts, logging, the wording of errors, TLS and
authentication (exporter-toolkit), build information, packaging, dashboards,
scripts. The descriptors of `collector.go` are a table. The decoding of JSON and
the characters of sizes, walltimes and times are abstracted to what their parsers
make of them. The project of a job, one more label of each job,
is left out: all jobs of the model are of one project, which is where labels
collide first. So is `QueueSummary`: the client fills it
(`summarizeQueues`) and nothing in the program reads it.

## Plan

Every part with state or decisions of its own is modelled, and every safety
property and both refinements are proved. What could still be said:

1. General lemmas about `NormalizeJobOwner` and `NormalizeJobID`: when a second
   normalization changes nothing. `LabelsOwner` shows an owner it does change;
   the lemma says for which owners the documentation is right.
2. What follows from several theorems at once: that, as long as nobody sets the
   clock, the skew of a torn scrape (`SkewIsForward`) is bounded by the pace
   (`BoundedStaleness`).
