------------------------ MODULE CollectionSchedule -------------------------
(***************************************************************************)
(* From the command line to the pace of the collections: main parses the   *)
(* configuration and registers its routes, then the worker collects, at    *)
(* once and at every tick.  The ticker runs by the monotonic clock, the    *)
(* reports by the wall clock, which somebody may set at any time.          *)
(*                                                                         *)
(* Time is discrete and scheduling takes none of it; a collection takes    *)
(* any time up to the timeouts of all of its commands, which leave no      *)
(* child behind.                                                           *)
(***************************************************************************)
EXTENDS Configuration

CONSTANTS
    Inputs,          \* command lines, each with the files it may name
    DefaultMinute,   \* time.Minute
    MaxTime,         \* bound: how long the worker is watched
    MaxClockSteps,   \* bound: how often the wall clock is set
    ClockSteps       \* by how much

ASSUME ScheduleAssumption ==
    /\ DefaultMinute \in Nat \ {0}
    /\ MaxTime \in Nat /\ MaxClockSteps \in Nat
    /\ ClockSteps \subseteq Int

\* A command line is a sequence of flags; the files hold whatever it names.
ASSUME InputAssumption ==
    \A in \in Inputs :
        /\ in.args \in Seq({in.args[i] : i \in DOMAIN in.args})
        /\ \A i \in DOMAIN in.args :
              LET flag == in.args[i]
              IN  /\ Name(flag) \in Settings =>
                        Value(flag) = Unset \/ Given(Name(flag), Value(flag))
                  /\ Name(flag) = "config.file" =>
                        Value(flag) \in (DOMAIN in.files) \union {"", Unset}
        /\ \A f \in DOMAIN in.files : \A s \in Settings :
              LET text == in.files[f].values[s] IN text = Unset \/ Given(s, text)

VARIABLES
    input,       \* the command line and the files, until the process serves
    config,      \* the parsed configuration; what the worker keeps of it
    process,     \* what main is doing, or how it ended
    now,         \* the monotonic clock
    wall,        \* the wall clock
    clockSteps,  \* how often it was set
    collecting,  \* RunOnce is running
    started,     \* its local variable
    ticks,       \* in the channel of the ticker
    nextTick,    \* when the ticker fires
    report,      \* what the last Store update reports, and when it was made
    begun,       \* history: when the last three collections began, newest first
    shift        \* history: by how much the clock was set during the collection

clockVars == <<now, wall, clockSteps>>
workerVars == <<collecting, started, ticks, nextTick, report, begun, shift>>
vars == <<input, config, process, clockVars, workerVars>>

None == -1

NoReport == [timestamp |-> 0, duration |-> 0, at |-> None, shift |-> 0]

-----------------------------------------------------------------------------
(* main, up to the start of the worker. *)

Init ==
    /\ input \in Inputs
    /\ config = Error
    /\ process = "parsing"
    /\ now = 0 /\ wall = 0 /\ clockSteps = 0
    /\ collecting = FALSE /\ started = 0
    /\ ticks = 0 /\ nextTick = None
    /\ report = NoReport
    /\ begun = <<None, None, None>>
    /\ shift = 0

ParseArguments ==
    /\ process = "parsing"
    /\ config' = Parse(input.args, input.files)
    /\ process' = IF config' = Error THEN "exit 2" ELSE "parsed"
    /\ UNCHANGED <<input, clockVars, workerVars>>

\* web.validateTelemetryPath, a copy of that of the configuration.
HandlerValidates(path) == path.rooted /\ path.rest # ""

FixedRoutes == {"-/healthy", "-/ready"}

\* ServeMux.Handle panics on a pattern it cannot parse or already has.
MuxPanics(path) == ~path.parses \/ path.rest \in FixedRoutes

NewHandler(path) ==
    IF ~HandlerValidates(path) THEN "exit 1"
    ELSE IF MuxPanics(path) THEN "panicked" ELSE "serving"

\* The worker keeps the interval, the client the timeout and whether to inspect.
KeptSettings == Durations \union (Switches \ {"IncludeUserMetrics"})

\* RunOnce begins.
BeginCollection ==
    /\ collecting' = TRUE
    /\ started' = wall
    /\ begun' = <<now, begun[1], begun[2]>>
    /\ shift' = 0

\* NewHandler, and Worker.Run up to its first collection.
StartServing ==
    /\ process = "parsed"
    /\ process' = NewHandler(config["TelemetryPath"])
    /\ input' = Unset
    /\ IF process' = "serving"
       THEN /\ BeginCollection
            /\ config' = [s \in KeptSettings |-> config[s]]
       ELSE UNCHANGED <<config, collecting, started, begun, shift>>
    /\ UNCHANGED <<clockVars, ticks, nextTick, report>>

-----------------------------------------------------------------------------
(* The worker. *)

\* NewWorker.
Interval == IF config["Interval"] <= 0 THEN DefaultMinute ELSE config["Interval"]

\* The commands of a collection: four, the version by two, the inspection.
MaxCommands ==
    IF config["IncludeJobInspectionMetrics"] \/ config["IncludeJobSampleHistograms"]
    THEN 7 ELSE 6

CollectionBound == MaxCommands * config["Timeout"]

\* Faulty: the channel keeps whatever does not fit.
QueueTick(n) == n + 1

\* The channel of the ticker holds one tick; those it cannot hold are dropped.
SendTick(n) == 1

TickerFires ==
    /\ nextTick = now
    /\ ticks' = SendTick(ticks)
    /\ nextTick' = now + Interval
    /\ UNCHANGED <<input, config, process, clockVars, collecting, started, report, begun, shift>>

BeginsAtTick ==
    /\ process = "serving" /\ ~collecting
    /\ ticks > 0
    /\ ticks' = ticks - 1
    /\ BeginCollection
    /\ UNCHANGED <<input, config, process, clockVars, nextTick, report>>

\* Faulty: measured from the end of the last collection.
SinceLastReport == wall - (report.timestamp + report.duration)

\* time.Since(started): UTC() has dropped the monotonic reading.
Since == wall - started

\* UpdateSuccess or Clear; after the first collection NewTicker.
EndCollection ==
    /\ collecting
    /\ collecting' = FALSE
    /\ report' = [timestamp |-> started, duration |-> Since, at |-> now, shift |-> shift]
    /\ nextTick' = IF nextTick = None THEN now + Interval ELSE nextTick
    /\ UNCHANGED <<input, config, process, clockVars, started, ticks, begun, shift>>

-----------------------------------------------------------------------------
(* The clocks. *)

\* Nothing that is due waits: a tick, the worker, the end of the commands.
TimePasses ==
    /\ process = "serving"
    /\ now < MaxTime
    /\ nextTick # now
    /\ IF collecting THEN now - begun[1] < CollectionBound ELSE ticks = 0
    /\ now' = now + 1
    /\ wall' = wall + 1
    /\ UNCHANGED <<input, config, process, clockSteps, workerVars>>

WallClockSet ==
    /\ process = "serving"
    /\ clockSteps < MaxClockSteps
    /\ clockSteps' = clockSteps + 1
    /\ \E d \in ClockSteps :
          /\ wall' = wall + d
          /\ shift' = IF collecting THEN shift + d ELSE shift
    /\ UNCHANGED <<input, config, process, now, collecting, started, ticks, nextTick,
                   report, begun>>

Next ==
    \/ ParseArguments \/ StartServing
    \/ TickerFires \/ BeginsAtTick \/ EndCollection
    \/ TimePasses \/ WallClockSet

Spec == Init /\ [][Next]_vars

-----------------------------------------------------------------------------
(* Properties. *)

Parsed == process = "parsed"

\* The file the command line names directly.
NamesFile == \E i \in FlagsNamed(input.args, "config.file") :
                Form(input.args[i]) # "expanded" /\ Value(input.args[i]) # ""
FileSettings ==
    input.files[Value(input.args[CHOOSE i \in FlagsNamed(input.args, "config.file") : TRUE])]

\* Every variable has its type (main, Worker and the clocks): the ticker's channel
\* holds one tick at most, and once it serves the process keeps what it needs.
TypeOK ==
    /\ process \in {"parsing", "exit 2", "parsed", "exit 1", "panicked", "serving"}
    /\ config = Error \/ DOMAIN config \in {Settings, KeptSettings}
    /\ now \in 0 .. MaxTime /\ wall \in Int
    /\ collecting \in BOOLEAN /\ ticks \in {0, 1}
    /\ nextTick \in Nat \union {None}

\* Of two values of a setting the second is the first after formatting.
Same(s, a, b) ==
    IF s \in DurationLists
    THEN DOMAIN a = DOMAIN b /\ \A i \in DOMAIN a : b[i] \in {a[i], a[i] - 1}
    ELSE a = b

\* A flag wins over the file and the file over the default, for every setting
\* by itself, although the flags are parsed twice and the file passes through
\* their defaults as text (config.go:119-218).
Precedence ==
    Parsed =>
        \A s \in Settings :
            LET flag == Flags(input.args)[s]
                file == IF NamesFile THEN FileSettings.values[s] ELSE Unset
            IN  CASE flag # Unset                 -> config[s] = flag
                  [] flag = Unset /\ file # Unset -> Same(s, file, config[s])
                  [] OTHER                        -> Same(s, Default[s], config[s])

\* By itself the setting is one the program can run with.
Sound(s, value) ==
    CASE s \in Durations -> value # Bad /\ value > 0
      [] s \in Lists     ->
            /\ Len(value) > 0
            /\ \A i \in DOMAIN value : value[i] # Bad
            /\ \A i, j \in DOMAIN value :
                  i < j /\ j = i + 1 /\ NaN \notin {value[i], value[j]} => value[i] < value[j]
            /\ \A i \in DOMAIN value : value[i] # NaN => value[i] > 0
      [] s = "TelemetryPath" -> value.rooted /\ value.rest # ""
      [] OTHER -> value # Bad

\* Nothing the flags say makes up for a file that is wrong: it must be there,
\* and every setting in it sound (config.go:220-277).
BadFileIsFatal ==
    Parsed /\ NamesFile =>
        /\ FileSettings.status = "ok"
        /\ \A s \in Settings :
              FileSettings.values[s] # Unset => Sound(s, FileSettings.values[s])

\* What is accepted is sound, also after formatting, except that buckets next to a
\* NaN need not increase, and the handler, which validates the path again, does
\* not refuse it, though it may panic on a path that is taken (config.go:279-316,
\* job_sample_buckets.go:122-139, handler.go:15-62).
AcceptedRuns ==
    /\ Parsed => \A s \in Settings : Sound(s, config[s])
    /\ process # "exit 1"

\* By the monotonic clock no report gets older than an interval and a
\* collection, whatever collections take and however the wall clock is set
\* (worker.go:28-57).
BoundedStaleness ==
    report.at # None => now - report.at <= config["Interval"] + CollectionBound

\* Ticks missed during a long collection are not made up for: of any three
\* collections in a row the last begins an interval after the first
\* (worker.go:46-57).
NoBurst == begun[3] # None => begun[1] - begun[3] >= Interval

\* Unless the wall clock is set during a collection, the duration reported for
\* it is the one it took, and so within the bound (worker.go:59-86).
ReportDescribesRun ==
    report.at # None /\ report.shift = 0 =>
        /\ report.duration \in 0 .. CollectionBound
        /\ ~collecting => report.duration = report.at - begun[1]

\* The duration that is reported is that of the collection.  It is not when the
\* wall clock is set meanwhile, and may then even be negative.
DurationIsElapsed ==
    report.at # None /\ ~collecting => report.duration = report.at - begun[1]
=============================================================================
