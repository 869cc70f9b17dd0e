----------------------------- MODULE PBSClient -----------------------------
(***************************************************************************)
(* pbs.Client: Collect runs four PBS commands, then qstat --version, and,  *)
(* when it is asked for detailed job data, qstat once more; each command   *)
(* sees the cluster as it is when that command answers.  Of the output     *)
(* only what relates the commands to each other is told apart: the state   *)
(* and the times of each job, and the counts nodes, queues and server      *)
(* report.  Commands are processes that succeed, fail, answer nonsense or  *)
(* are killed by their timeout or by the context, and they may leave a     *)
(* child behind that keeps their output open.                              *)
(*                                                                         *)
(* The cluster is the environment.  It is modelled from how the parsers of *)
(* internal/pbs use its answers.                                           *)
(***************************************************************************)
EXTENDS CollectorContract, Sequences, FiniteSets

CONSTANTS
    Jobs,            \* PBS jobs
    ClockAhead,      \* how far the clock of PBS is ahead of the exporter's
    Orphans,         \* commands may leave a child that holds their output open
    MaxChanges,      \* bound: how often the cluster changes
    MaxCollections   \* bound: how often Collect is called

ASSUME ClientAssumption ==
    /\ IncludeJobInspectionMetrics \in BOOLEAN
    /\ IncludeJobSampleHistograms \in BOOLEAN
    /\ IsFiniteSet(Jobs)
    /\ RunningJobs = 0 .. Cardinality(Jobs)
    /\ ClockAhead \in Nat
    /\ Orphans \in BOOLEAN
    /\ MaxChanges \in Nat
    /\ MaxCollections \in Nat

VARIABLES
    history,      \* the cluster at each instant; the last is the present one
    cancelled,    \* the context passed to Collect is done
    pc,           \* the command Collect is at, or the step between two commands
    proc,         \* the process of that command
    out,          \* what it answered, once it has exited
    pipe,         \* a child of it holds its output open
    payloads,     \* what Collect has decoded so far
    collectedAt,  \* the stamp of the snapshot
    call,         \* the current or last call: when it started, its answer
    failed,       \* history: the commands of that call that failed
    collections   \* how often Collect was called

pbsVars == <<history, cancelled>>
processVars == <<proc, out, pipe>>
vars == <<history, cancelled, pc, proc, out, pipe, payloads, collectedAt, call,
          failed, collections>>

now == Len(history)
cluster == history[now]

-----------------------------------------------------------------------------
(* The cluster, and the answers of its commands. *)

\* since is qtime for a job in Q and stime for a job in R.
Absent == [state |-> "absent", since |-> NoTime]

JobsIn(c, state) == {j \in Jobs : c[j].state = state}

NodesOf(c) == Cardinality(JobsIn(c, "R"))
QueuesOf(c) == [Running |-> Cardinality(JobsIn(c, "R")),
                Queued  |-> Cardinality(JobsIn(c, "Q"))]
ServerOf(c) == QueuesOf(c)

Answer(command, c) ==
    CASE command = "jobs"   -> c
      [] command = "nodes"  -> NodesOf(c)
      [] command = "queues" -> QueuesOf(c)
      [] command = "server" -> ServerOf(c)

BaseCommands == {"jobs", "nodes", "queues", "server"}
VersionCommands == {"qstat version", "pbsnodes version"}
Commands == BaseCommands \union VersionCommands \union {"inspection"}

-----------------------------------------------------------------------------
(* Parsing. *)

\* Faulty: a time in the future is not clamped.
ElapsedUnclamped(since, at) == at - since

\* How long something has lasted at the time of the snapshot: the two clamps
\* of parseQueueWaitJSON and optionalElapsedSeconds.
ElapsedAt(since, at) ==
    IF at < since THEN 0 ELSE at - since

\* parseQueueWaitJSON, before it is aggregated by queue.
QueueWaits(c, at) ==
    {[job |-> j, wait |-> ElapsedAt(c[j].since, at)] : j \in JobsIn(c, "Q")}

\* parseJobInspectionJSON: a job in Q has a wait, a job in R a runtime.
JobInspection(c, at) ==
    [Jobs |-> {[job |-> j, state |-> c[j].state, elapsed |-> ElapsedAt(c[j].since, at)] :
                  j \in JobsIn(c, "Q") \union JobsIn(c, "R")}]

-----------------------------------------------------------------------------
NoPayload == [jobs |-> Nil, nodes |-> Nil, queues |-> Nil, server |-> Nil,
              version |-> "unknown"]
NoOutput == [kind |-> "failed", seen |-> Nil]

Init ==
    /\ history = <<[j \in Jobs |-> Absent]>>
    /\ cancelled = FALSE
    /\ pc = "idle"
    /\ proc = "none"
    /\ out = NoOutput
    /\ pipe = FALSE
    /\ payloads = NoPayload
    /\ collectedAt = NoTime
    /\ call = [started |-> NoTime, doomed |-> FALSE, returned |-> Failed]
    /\ failed = {}
    /\ collections = 0

Collecting == pc # "idle"

-----------------------------------------------------------------------------
(* The cluster changes, also while Collect runs; the context is cancelled. *)

ClusterChange(j, record) ==
    /\ now <= MaxChanges
    /\ history' = Append(history, [cluster EXCEPT ![j] = record])
    /\ UNCHANGED <<cancelled, pc, processVars, payloads, collectedAt, call,
                   failed, collections>>

\* PBS gives no two jobs the same id.
Submit(j) ==
    /\ \A t \in 1 .. now : history[t][j] = Absent
    /\ ClusterChange(j, [state |-> "Q", since |-> now + 1 + ClockAhead])

StartJob(j) ==
    /\ cluster[j].state = "Q"
    /\ ClusterChange(j, [state |-> "R", since |-> now + 1 + ClockAhead])

EndJob(j) ==
    /\ cluster[j].state = "R"
    /\ ClusterChange(j, Absent)

Cancel ==
    /\ ~cancelled
    /\ cancelled' = TRUE
    /\ UNCHANGED <<history, pc, processVars, payloads, collectedAt, call,
                   failed, collections>>

-----------------------------------------------------------------------------
(* Client.run: one command at a time. *)

AtCommand == pc \in Commands

\* exec.Cmd.Start
StartCommand ==
    /\ AtCommand
    /\ proc = "none"
    /\ ~cancelled
    /\ proc' = "running"
    /\ pipe' \in {FALSE, Orphans}
    /\ UNCHANGED <<pbsVars, pc, out, payloads, collectedAt, call, failed, collections>>

\* Start refuses under a done context, and when there is no such program.
StartRefused ==
    /\ AtCommand
    /\ proc = "none"
    /\ proc' = "exited"
    /\ out' = NoOutput
    /\ pipe' = FALSE
    /\ UNCHANGED <<pbsVars, pc, payloads, collectedAt, call, failed, collections>>

\* The command exits by itself: its output can be used, or cannot be decoded
\* (of a version: shows no version), or its exit status is not 0.
CommandExits ==
    /\ proc = "running"
    /\ proc' = "exited"
    /\ out' \in {[kind |-> "ok", seen |-> cluster],
                 [kind |-> "malformed", seen |-> Nil],
                 NoOutput}
    /\ UNCHANGED <<pbsVars, pc, pipe, payloads, collectedAt, call, failed, collections>>

\* Faulty: the command does not run under the context with the timeout.
NoTimeout == FALSE /\ UNCHANGED vars

\* The timeout, or the end of the context, kills the process.
CommandKilled ==
    /\ proc = "running"
    /\ proc' = "exited"
    /\ out' = NoOutput
    /\ UNCHANGED <<pbsVars, pc, pipe, payloads, collectedAt, call, failed, collections>>

ChildExits ==
    /\ pipe
    /\ pipe' = FALSE
    /\ UNCHANGED <<pbsVars, pc, proc, out, payloads, collectedAt, call, failed, collections>>

\* CombinedOutput returns: the process has exited and its output is closed.
\* The command of pc gave an answer of this kind; Collect goes on at next.
Output(kind) ==
    /\ proc = "exited"
    /\ ~pipe
    /\ out.kind \in kind
    /\ proc' = "none"
    /\ out' = NoOutput
    /\ failed' = IF out.kind = "failed" \/ (out.kind = "malformed" /\ pc \notin VersionCommands)
                 THEN failed \union {pc} ELSE failed
    /\ UNCHANGED <<pbsVars, pipe, collections>>

-----------------------------------------------------------------------------
(* Client.Collect. *)

BeginCollect ==
    /\ ~Collecting
    /\ collections < MaxCollections
    /\ collections' = collections + 1
    /\ pc' = "jobs"
    /\ payloads' = NoPayload
    /\ collectedAt' = NoTime
    /\ call' = [started |-> now, doomed |-> cancelled, returned |-> Failed]
    /\ failed' = {}
    /\ UNCHANGED <<pbsVars, processVars>>

Return(answer) ==
    /\ pc' = "idle"
    /\ call' = [started |-> call.started, doomed |-> call.doomed, returned |-> answer]

\* collectSnapshotPayloads: the next base command, or the version.
AfterCommand == [jobs   |-> "nodes",
                 nodes  |-> "queues",
                 queues |-> "server",
                 server |-> "qstat version"]

PayloadDecoded ==
    /\ pc \in BaseCommands
    /\ Output({"ok"})
    /\ payloads' = [payloads EXCEPT ![pc] = Answer(pc, out.seen)]
    /\ pc' = AfterCommand[pc]
    /\ UNCHANGED <<collectedAt, call>>

BaseCommandFails ==
    /\ pc \in BaseCommands
    /\ Output({"failed", "malformed"})
    /\ Return(Failed)
    /\ UNCHANGED <<payloads, collectedAt>>

\* getVersion: only a qstat that fails is followed by pbsnodes.
VersionFound ==
    /\ pc \in VersionCommands
    /\ Output({"ok", "malformed"})
    /\ payloads' = [payloads EXCEPT !.version =
                       IF out.kind = "ok" THEN "known" ELSE "unknown"]
    /\ pc' = "stamp"
    /\ UNCHANGED <<collectedAt, call>>

VersionFallsBack ==
    /\ pc = "qstat version"
    /\ Output({"failed"})
    /\ pc' = "pbsnodes version"
    /\ UNCHANGED <<payloads, collectedAt, call>>

VersionUnknown ==
    /\ pc = "pbsnodes version"
    /\ Output({"failed"})
    /\ pc' = "stamp"
    /\ UNCHANGED <<payloads, collectedAt, call>>

\* The result: the snapshot stamped at collectedAt, with this inspection.
Success(at, inspection, error) ==
    [err    |-> FALSE,
     result |->
       [Snapshot |->
          [CollectedAt   |-> at,
           Version       |-> payloads.version,
           Jobs          |-> payloads.jobs,
           QueueWaits    |-> QueueWaits(payloads.jobs, at),
           Nodes         |-> payloads.nodes,
           Queues        |-> payloads.queues,
           Server        |-> payloads.server,
           JobInspection |-> inspection],
        JobInspectionAttempted |-> IncludeDetailedJobData,
        JobInspectionError     |-> error]]

\* Faulty: the snapshot is stamped with the beginning of the collection.
BeginningOfCollect == call.started

\* time.Now(), after the base commands and the version.
StampTime == now

\* Faulty: the inspection is run whether or not it was asked for.
InspectsAnyway ==
    /\ pc = "stamp"
    /\ collectedAt' = StampTime
    /\ pc' = "inspection"
    /\ UNCHANGED <<pbsVars, processVars, payloads, call, failed, collections>>

StampSnapshot ==
    /\ pc = "stamp"
    /\ collectedAt' = StampTime
    /\ IF IncludeDetailedJobData
       THEN pc' = "inspection" /\ UNCHANGED call
       ELSE Return(Success(collectedAt', Nil, FALSE))
    /\ UNCHANGED <<pbsVars, processVars, payloads, failed, collections>>

\* Faulty: the inspection takes the time anew.
InspectionTakesTime ==
    /\ pc = "inspection"
    /\ Output({"ok"})
    /\ Return(Success(collectedAt, JobInspection(out.seen, now), FALSE))
    /\ UNCHANGED <<payloads, collectedAt>>

InspectionDone ==
    /\ pc = "inspection"
    /\ Output({"ok"})
    /\ Return(Success(collectedAt, JobInspection(out.seen, collectedAt), FALSE))
    /\ UNCHANGED <<payloads, collectedAt>>

\* Faulty: the error of the inspection becomes the error of Collect.
InspectionFailsCollect ==
    /\ pc = "inspection"
    /\ Output({"failed", "malformed"})
    /\ Return(Failed)
    /\ UNCHANGED <<payloads, collectedAt>>

\* Faulty: output that cannot be decoded is no error of the inspection.
InspectionErrorLost ==
    /\ pc = "inspection"
    /\ \/ Output({"failed"}) /\ Return(Success(collectedAt, Nil, TRUE))
       \/ Output({"malformed"}) /\ Return(Success(collectedAt, Nil, FALSE))
    /\ UNCHANGED <<payloads, collectedAt>>

InspectionFails ==
    /\ pc = "inspection"
    /\ Output({"failed", "malformed"})
    /\ Return(Success(collectedAt, Nil, TRUE))
    /\ UNCHANGED <<payloads, collectedAt>>

-----------------------------------------------------------------------------
Client ==
    \/ StartCommand
    \/ PayloadDecoded
    \/ BaseCommandFails
    \/ VersionFound
    \/ VersionFallsBack
    \/ VersionUnknown
    \/ StampSnapshot
    \/ InspectionDone
    \/ InspectionFails

Next ==
    \/ \E j \in Jobs : Submit(j)
    \/ \E j \in Jobs : StartJob(j)
    \/ \E j \in Jobs : EndJob(j)
    \/ Cancel
    \/ BeginCollect
    \/ StartRefused
    \/ CommandExits
    \/ CommandKilled
    \/ ChildExits
    \/ Client

Spec == Init /\ [][Next]_vars

(***************************************************************************)
(* The goroutine that runs Collect goes on when it can, and a timer fires. *)
(* Nothing says that a command exits by itself, that the cluster comes to  *)
(* rest or that a child left behind ever exits.                            *)
(***************************************************************************)
FairSpec == Spec /\ WF_vars(Client \/ StartRefused) /\ WF_vars(CommandKilled)

-----------------------------------------------------------------------------
(* Properties. *)

JobInspections ==
    [Jobs : SUBSET [job : Jobs, state : {"Q", "R"}, elapsed : Nat]]

ASSUME InspectionAssumption == Nil \notin JobInspections

ClientSnapshots ==
    [CollectedAt   : Nat,
     Version       : {"known", "unknown"},
     Jobs          : [Jobs -> [state : {"absent", "Q", "R"}, since : Nat]],
     QueueWaits    : SUBSET [job : Jobs, wait : Nat],
     Nodes         : Nat,
     Queues        : [Running : Nat, Queued : Nat],
     Server        : [Running : Nat, Queued : Nat],
     JobInspection : JobInspections \union {Nil}]

\* The last answer of Collect has the type of a pbs.CollectionResult; waits and
\* runtimes are never negative, whatever the clocks of PBS say and however late
\* the inspection sees a job (snapshot_json.go:140-143,
\* job_inspection.go:276-279).
TypeOK ==
    /\ pc \in Commands \union {"idle", "stamp"}
    /\ proc \in {"none", "running", "exited"}
    /\ out.kind \in {"ok", "malformed", "failed"}
    /\ pipe \in BOOLEAN
    /\ collectedAt \in Nat
    /\ failed \subseteq Commands
    /\ call.returned = Failed \/
          /\ ~call.returned.err
          /\ call.returned.result \in
                [Snapshot               : ClientSnapshots,
                 JobInspectionAttempted : BOOLEAN,
                 JobInspectionError     : BOOLEAN]

Succeeded == ~Collecting /\ ~call.returned.err

LastSnapshot == call.returned.result.Snapshot

\* Every part of a snapshot was read during the collection that returns it, in
\* the order of the commands; the stamp is no earlier than any of them, and no
\* later than the inspection (client_collection.go:15-88).
PartsInOrder ==
    Succeeded =>
        \E i \in call.started .. now :
            \E j \in i .. now : \E k \in j .. now : \E l \in k .. now :
                /\ LastSnapshot.Jobs = history[i]
                /\ LastSnapshot.Nodes = NodesOf(history[j])
                /\ LastSnapshot.Queues = QueuesOf(history[k])
                /\ LastSnapshot.Server = ServerOf(history[l])
                /\ LastSnapshot.CollectedAt \in l .. now
                /\ LastSnapshot.JobInspection # Nil =>
                      \E m \in LastSnapshot.CollectedAt .. now :
                         LastSnapshot.JobInspection =
                            JobInspection(history[m], LastSnapshot.CollectedAt)

\* A failed inspection costs the snapshot only its inspection, and a failed
\* version only its version; a failed base command costs all of it
\* (client_collection.go:16-19, 44-54, 140-154).
OnlyBaseCommandsFail ==
    ~Collecting /\ collections > 0 =>
        /\ call.returned.err <=> failed \intersect BaseCommands # {}
        /\ Succeeded =>
              LET r == call.returned.result IN
              /\ r.JobInspectionError <=> "inspection" \in failed
              /\ VersionCommands \subseteq failed => r.Snapshot.Version = "unknown"

\* A job that waits has one wait: the queue histograms and the inspection give
\* the same, although the inspection is run after the stamp.
WaitsAgree ==
    Succeeded /\ LastSnapshot.JobInspection # Nil =>
        \A w \in LastSnapshot.QueueWaits, i \in LastSnapshot.JobInspection.Jobs :
            w.job = i.job /\ i.state = "Q" => w.wait = i.elapsed

\* What RunOnce sees of an answer.
Summary(returned) ==
    IF returned.err
    THEN Failed
    ELSE LET r == returned.result
             inspection == r.Snapshot.JobInspection
         IN  [err    |-> FALSE,
              result |->
                [Snapshot |->
                   [CollectedAt   |-> r.Snapshot.CollectedAt,
                    JobInspection |->
                       IF inspection = Nil THEN Nil
                       ELSE Cardinality({i \in inspection.Jobs : i.state = "R"})],
                 JobInspectionAttempted |-> r.JobInspectionAttempted,
                 JobInspectionError     |-> r.JobInspectionError]]

Contract == INSTANCE SnapshotCollector WITH
    clock <- now,
    call  <- [phase    |-> IF Collecting THEN "collecting" ELSE "idle",
              started  |-> call.started,
              doomed   |-> call.doomed,
              returned |-> Summary(call.returned)]

\* The client keeps to the contract the worker relies on, whatever its commands
\* and the cluster do (worker.go:12-14, the comment on CollectionResult).
KeepsContract == Contract!CallSpec

\* Collect returns, even if no command ever exits by itself, as long as no
\* command leaves a child behind (client_collection.go:122-138).
CollectReturnsInTime == Collecting ~> ~Collecting

\* What README.md:11 says of a snapshot: there was an instant at which the
\* cluster was as the snapshot shows it.  It is not so when the cluster changes
\* between two commands.
Coherent ==
    Succeeded =>
        \E t \in 1 .. now :
            /\ LastSnapshot.Jobs = history[t]
            /\ LastSnapshot.Nodes = NodesOf(history[t])
            /\ LastSnapshot.Queues = QueuesOf(history[t])
            /\ LastSnapshot.Server = ServerOf(history[t])

\* What README.md:21 and the help of --collector.timeout (config.go:137) say:
\* every command ends, by itself or by its timeout.  It is not so when a child
\* of the command keeps its output open: the timeout kills the command only.
CommandsBounded == proc # "none" ~> proc = "none"
=============================================================================
