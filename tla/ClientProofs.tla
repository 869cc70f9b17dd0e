---------------------------- MODULE ClientProofs ----------------------------
(***************************************************************************)
(* Proofs about PBSClient, for any finite set of jobs, any options, any    *)
(* advance of the clock of PBS and any number of changes and collections.  *)
(***************************************************************************)
EXTENDS PBSClient, FiniteSetTheorems, TLAPS

-----------------------------------------------------------------------------
(* The cluster and what is made of it. *)

Clusters == [Jobs -> [state : {"absent", "Q", "R"}, since : Nat]]
Counts == [Running : Nat, Queued : Nat]

\* A cluster has finitely many jobs in each state, and the commands count them.
LEMMA CountsOfCluster ==
    ASSUME NEW c \in Clusters
    PROVE  /\ \A s : IsFiniteSet(JobsIn(c, s)) /\ Cardinality(JobsIn(c, s)) \in Nat
           /\ NodesOf(c) \in Nat
           /\ QueuesOf(c) \in Counts
           /\ ServerOf(c) \in Counts
<1>1. ASSUME NEW s
      PROVE  IsFiniteSet(JobsIn(c, s)) /\ Cardinality(JobsIn(c, s)) \in Nat
  <2>1. JobsIn(c, s) \in SUBSET Jobs
    BY DEF JobsIn
  <2> QED
    BY <2>1, ClientAssumption, FS_Subset, FS_CardinalityType
<1> QED
  BY <1>1 DEF NodesOf, QueuesOf, ServerOf, Counts

\* Neither waits nor runtimes are negative, whatever the two clocks say.
LEMMA ElapsedNatural ==
    ASSUME NEW since \in Nat, NEW at \in Nat
    PROVE  ElapsedAt(since, at) \in Nat
BY DEF ElapsedAt

\* The waits and the inspection made of a cluster have their types.
LEMMA InspectionOfCluster ==
    ASSUME NEW c \in Clusters, NEW at \in Nat
    PROVE  /\ JobInspection(c, at) \in JobInspections
           /\ JobInspection(c, at) # Nil
           /\ QueueWaits(c, at) \in SUBSET [job : Jobs, wait : Nat]
<1>1. \A j \in Jobs : ElapsedAt(c[j].since, at) \in Nat
  BY ElapsedNatural DEF Clusters
<1>2. {[job |-> j, state |-> c[j].state, elapsed |-> ElapsedAt(c[j].since, at)] :
          j \in JobsIn(c, "Q") \union JobsIn(c, "R")}
        \in SUBSET [job : Jobs, state : {"Q", "R"}, elapsed : Nat]
  BY <1>1 DEF JobsIn
<1>3. JobInspection(c, at) \in JobInspections
  BY <1>2 DEF JobInspection, JobInspections
<1>4. QueueWaits(c, at) \in SUBSET [job : Jobs, wait : Nat]
  BY <1>1 DEF QueueWaits, JobsIn
<1> QED
  BY <1>3, <1>4, InspectionAssumption

\* An inspection finds at most all of the jobs running.
LEMMA RunningCounted ==
    ASSUME NEW c \in Clusters, NEW at \in Nat
    PROVE  Cardinality({i \in JobInspection(c, at).Jobs : i.state = "R"}) \in RunningJobs
<1> DEFINE S == {i \in JobInspection(c, at).Jobs : i.state = "R"}
           f == [i \in S |-> i.job]
<1>1. \A i \in S : \E j \in Jobs :
         i = [job |-> j, state |-> c[j].state, elapsed |-> ElapsedAt(c[j].since, at)]
  BY DEF JobInspection, JobsIn
<1>2. f \in Injection(S, Jobs)
  <2>1. \A i \in S : i.job \in Jobs
    BY <1>1
  <2>2. ASSUME NEW a \in S, NEW b \in S, a.job = b.job PROVE a = b
    BY <1>1, <2>2
  <2>3. f \in [S -> Jobs] /\ \A a, b \in S : a # b => f[a] # f[b]
    BY <2>1, <2>2
  <2> HIDE DEF S, f
  <2> QED
    BY <2>3 DEF Injection, IsInjective
<1>3. IsFiniteSet(S) /\ Cardinality(S) <= Cardinality(Jobs)
  <2> HIDE DEF S, f
  <2> QED
    BY <1>2, ClientAssumption, FS_Injection
<1>4. Cardinality(S) \in Nat /\ Cardinality(Jobs) \in Nat
  <2> HIDE DEF S
  <2> QED
    BY <1>3, ClientAssumption, FS_CardinalityType
<1> QED
  BY <1>3, <1>4, ClientAssumption

-----------------------------------------------------------------------------
(* Types. *)

Outputs == [kind : {"ok", "malformed", "failed"}, seen : Clusters \union {Nil}]

Answers ==
    {Failed} \union
    [err    : {FALSE},
     result : [Snapshot               : ClientSnapshots,
               JobInspectionAttempted : BOOLEAN,
               JobInspectionError     : BOOLEAN]]

Payloads == [jobs    : Clusters \union {Nil},
             nodes   : Nat \union {Nil},
             queues  : Counts \union {Nil},
             server  : Counts \union {Nil},
             version : {"known", "unknown"}]

\* Where Collect is when it has decoded the answer of each base command.
AfterServer == VersionCommands \union {"stamp", "inspection"}
AfterQueues == AfterServer \union {"server"}
AfterNodes  == AfterQueues \union {"queues"}
AfterJobs   == AfterNodes \union {"nodes"}

DataTypes ==
    /\ history \in Seq(Clusters) /\ now > 0
    /\ cancelled \in BOOLEAN
    /\ pc \in Commands \union {"idle", "stamp"}
    /\ proc \in {"none", "running", "exited"}
    /\ out \in Outputs
    /\ out.kind = "ok" => out.seen \in Clusters
    /\ pipe \in BOOLEAN
    /\ payloads \in Payloads
    /\ collectedAt \in Nat
    /\ call \in [started : Nat, doomed : BOOLEAN, returned : Answers]
    /\ failed \in SUBSET Commands
    /\ collections \in Nat

\* What has been decoded is there; between two commands there is no process, and
\* an inspection is run only if it was asked for.
Progress ==
    /\ pc \in AfterJobs => payloads.jobs \in Clusters
    /\ pc \in AfterNodes => payloads.nodes \in Nat
    /\ pc \in AfterQueues => payloads.queues \in Counts
    /\ pc \in AfterServer => payloads.server \in Counts
    /\ pc \in {"idle", "stamp"} => proc = "none"
    /\ pc = "inspection" => IncludeDetailedJobData
    /\ proc = "none" => out = NoOutput /\ pipe = FALSE

TypeInv == DataTypes /\ Progress

\* A command answers with something of its type.
LEMMA AnswerTypes ==
    ASSUME NEW c \in Clusters
    PROVE  /\ Answer("jobs", c) \in Clusters
           /\ Answer("nodes", c) \in Nat
           /\ Answer("queues", c) \in Counts
           /\ Answer("server", c) \in Counts
BY CountsOfCluster DEF Answer

\* What Collect returns without an error is a snapshot of its type.
LEMMA SuccessTyped ==
    ASSUME TypeInv, pc \in {"stamp", "inspection"}, NEW at \in Nat,
           NEW inspection \in JobInspections \union {Nil}, NEW error \in BOOLEAN
    PROVE  Success(at, inspection, error) \in Answers
<1>1. /\ payloads.jobs \in Clusters /\ payloads.nodes \in Nat
      /\ payloads.queues \in Counts /\ payloads.server \in Counts
      /\ payloads.version \in {"known", "unknown"}
  BY DEF TypeInv, DataTypes, Progress, Payloads, AfterJobs, AfterNodes, AfterQueues, AfterServer
<1>2. QueueWaits(payloads.jobs, at) \in SUBSET [job : Jobs, wait : Nat]
  BY <1>1, InspectionOfCluster
<1> DEFINE waits == QueueWaits(payloads.jobs, at)
<1>3. [CollectedAt |-> at, Version |-> payloads.version, Jobs |-> payloads.jobs,
       QueueWaits |-> waits, Nodes |-> payloads.nodes, Queues |-> payloads.queues,
       Server |-> payloads.server, JobInspection |-> inspection] \in ClientSnapshots
  <2> HIDE DEF waits
  <2> QED
    BY <1>1, <1>2 DEF ClientSnapshots, Clusters, Counts, waits
<1>4. IncludeDetailedJobData \in BOOLEAN
  BY ClientAssumption DEF IncludeDetailedJobData
<1> QED
  BY <1>3, <1>4 DEF Success, Answers

\* Before the first collection there is no payload and no answer but Failed.
LEMMA TypeInvInit == Init => TypeInv
<1> SUFFICES ASSUME Init PROVE TypeInv
  OBVIOUS
<1>1. [j \in Jobs |-> Absent] \in Clusters
  BY DEF Absent, Clusters, NoTime
<1>2. history \in Seq(Clusters) /\ now > 0
  BY <1>1 DEF Init, now
<1>3. NoOutput \in Outputs /\ NoOutput.kind # "ok"
  BY DEF NoOutput, Outputs
<1>4. NoPayload \in Payloads
  BY DEF NoPayload, Payloads
<1>5. call \in [started : Nat, doomed : BOOLEAN, returned : Answers]
  BY DEF Init, Answers, NoTime
<1> QED
  BY <1>2, <1>3, <1>4, <1>5
  DEF Init, TypeInv, DataTypes, Progress, Commands, BaseCommands, VersionCommands,
      AfterJobs, AfterNodes, AfterQueues, AfterServer, NoTime

\* There is always a present cluster.
LEMMA PresentCluster == TypeInv => now \in Nat /\ now > 0 /\ cluster \in Clusters
BY DEF TypeInv, DataTypes, now, cluster

\* A base command is followed by the next, the last by the first version command.
LEMMA Successor ==
    ASSUME pc \in BaseCommands
    PROVE  AfterCommand[pc] \in {"nodes", "queues", "server", "qstat version"}
<1>1. CASE pc = "jobs"
  BY <1>1 DEF AfterCommand
<1>2. CASE pc = "nodes"
  BY <1>2 DEF AfterCommand
<1>3. CASE pc = "queues"
  BY <1>3 DEF AfterCommand
<1>4. CASE pc = "server"
  BY <1>4 DEF AfterCommand
<1> QED
  BY <1>1, <1>2, <1>3, <1>4 DEF BaseCommands

\* What the output of a command leaves behind.
LEMMA OutputTaken ==
    ASSUME TypeInv, NEW kinds, Output(kinds)
    PROVE  /\ history' = history /\ cancelled' = cancelled /\ collections' = collections
           /\ proc = "exited" /\ proc' = "none" /\ out' = NoOutput
           /\ pipe' = FALSE /\ pipe = FALSE
           /\ failed' \in SUBSET (failed \union {pc})
           /\ out' \in Outputs /\ out'.kind # "ok" /\ out.kind \in kinds
<1>1. NoOutput \in Outputs /\ NoOutput.kind # "ok"
  BY DEF NoOutput, Outputs
<1>2. pipe = FALSE /\ pipe' = FALSE
  BY DEF Output, TypeInv, DataTypes
<1>3. failed' \in SUBSET (failed \union {pc})
  BY DEF Output
<1> QED
  BY <1>1, <1>2, <1>3 DEF Output, pbsVars

\* One instant of the cluster follows another.
LEMMA ClusterGrows ==
    ASSUME TypeInv, NEW j \in Jobs, Submit(j) \/ StartJob(j) \/ EndJob(j)
    PROVE  /\ history' \in Seq(Clusters)
           /\ now \in Nat /\ now' = now + 1
           /\ \A t \in 1 .. now : history'[t] = history[t]
           /\ \A k \in Jobs \ {j} : history'[now'][k] = history[now][k]
           /\ UNCHANGED <<cancelled, pc, proc, out, pipe, payloads, collectedAt, call,
                          failed, collections>>
<1>1. history \in Seq(Clusters) /\ now \in Nat /\ now > 0 /\ cluster \in Clusters
  BY PresentCluster DEF TypeInv, DataTypes
<1>2. PICK record \in [state : {"absent", "Q", "R"}, since : Nat] :
         ClusterChange(j, record)
  <2>1. now + 1 + ClockAhead \in Nat /\ NoTime \in Nat
    BY <1>1, ClientAssumption DEF NoTime
  <2> QED
    BY <2>1 DEF Submit, StartJob, EndJob, Absent
<1>3. [cluster EXCEPT ![j] = record] \in Clusters
  BY <1>1 DEF Clusters
<1>4. history' = Append(history, [cluster EXCEPT ![j] = record])
  BY <1>2 DEF ClusterChange
<1>5. \A k \in Jobs \ {j} : [cluster EXCEPT ![j] = record][k] = history[now][k]
  BY <1>1 DEF Clusters, cluster
<1> HIDE DEF cluster
<1>6. /\ UNCHANGED <<cancelled, pc, proc, out, pipe, payloads, collectedAt, call,
                     failed, collections>>
  BY <1>2 DEF ClusterChange, processVars
<1> QED
  BY <1>1, <1>3, <1>4, <1>5, <1>6 DEF now

\* No step of the client, of its commands or of the cluster leaves the types.
LEMMA TypeInvStep == TypeInv /\ [Next]_vars => TypeInv'
<1> SUFFICES ASSUME TypeInv, [Next]_vars PROVE TypeInv'
  OBVIOUS
<1>0. now \in Nat /\ now > 0 /\ cluster \in Clusters
  BY PresentCluster
<1>1. ASSUME NEW j \in Jobs, Submit(j) \/ StartJob(j) \/ EndJob(j)
      PROVE  TypeInv'
  <2>1. DataTypes'
    BY <1>0, <1>1, ClusterGrows DEF TypeInv, DataTypes
  <2>2. Progress'
    BY <1>1, ClusterGrows DEF TypeInv, Progress
  <2> QED
    BY <2>1, <2>2 DEF TypeInv
<1>2. CASE Cancel
  <2>1. DataTypes'
    BY <1>2 DEF TypeInv, DataTypes, Cancel, processVars, now
  <2>2. Progress'
    BY <1>2 DEF TypeInv, Progress, Cancel, processVars
  <2> QED
    BY <2>1, <2>2 DEF TypeInv
<1>3. CASE BeginCollect
  <2>1. call' \in [started : Nat, doomed : BOOLEAN, returned : Answers]
    BY <1>0, <1>3 DEF BeginCollect, TypeInv, DataTypes, Answers
  <2>2. payloads' \in Payloads /\ failed' \in SUBSET Commands
    BY <1>3 DEF BeginCollect, NoPayload, Payloads
  <2>3. /\ pc' = "jobs" /\ collectedAt' \in Nat /\ collections' \in Nat
        /\ UNCHANGED <<history, cancelled, proc, out, pipe>>
    BY <1>3 DEF BeginCollect, TypeInv, DataTypes, pbsVars, processVars, NoTime
  <2>4. DataTypes'
    BY <2>1, <2>2, <2>3 DEF TypeInv, DataTypes, now, Commands, BaseCommands
  <2>5. Progress'
    BY <2>3
    DEF TypeInv, Progress, AfterJobs, AfterNodes, AfterQueues, AfterServer, VersionCommands
  <2> QED
    BY <2>4, <2>5 DEF TypeInv
<1>4. CASE StartCommand \/ StartRefused \/ CommandExits \/ CommandKilled
  <2>1. out' \in Outputs /\ (out'.kind = "ok" => out'.seen \in Clusters)
    <3>1. out \in Outputs /\ (out.kind = "ok" => out.seen \in Clusters)
      BY DEF TypeInv, DataTypes
    <3>2. NoOutput \in Outputs /\ NoOutput.kind # "ok"
      BY DEF NoOutput, Outputs
    <3>3. CASE StartCommand
      BY <3>1, <3>3 DEF StartCommand
    <3>4. CASE StartRefused \/ CommandKilled
      BY <3>2, <3>4 DEF StartRefused, CommandKilled
    <3>5. CASE CommandExits
      <4>1. \/ out' = [kind |-> "ok", seen |-> cluster]
            \/ out' = [kind |-> "malformed", seen |-> Nil]
            \/ out' = NoOutput
        BY <3>5 DEF CommandExits
      <4>2. [kind |-> "ok", seen |-> cluster] \in Outputs
        BY <1>0 DEF Outputs
      <4>3. [kind |-> "malformed", seen |-> Nil] \in Outputs
        BY DEF Outputs
      <4> HIDE DEF cluster
      <4> QED
        BY <1>0, <3>2, <4>1, <4>2, <4>3
    <3> QED
      BY <1>4, <3>3, <3>4, <3>5
  <2>2. pipe' \in BOOLEAN
    BY <1>4, ClientAssumption
    DEF StartCommand, StartRefused, CommandExits, CommandKilled, TypeInv, DataTypes
  <2>3. /\ pc \notin {"idle", "stamp"} /\ proc' \in {"running", "exited"}
        /\ UNCHANGED <<history, cancelled, pc, payloads, collectedAt, call, failed, collections>>
    BY <1>4
    DEF StartCommand, StartRefused, CommandExits, CommandKilled, TypeInv, Progress, pbsVars,
        AtCommand, Commands, BaseCommands, VersionCommands
  <2>4. DataTypes'
    BY <2>1, <2>2, <2>3 DEF TypeInv, DataTypes, now
  <2>5. Progress'
    BY <2>3 DEF TypeInv, Progress
  <2> QED
    BY <2>4, <2>5 DEF TypeInv
<1>5. CASE ChildExits
  <2>1. DataTypes'
    BY <1>5 DEF TypeInv, DataTypes, ChildExits, pbsVars, now
  <2>2. Progress'
    BY <1>5 DEF TypeInv, Progress, ChildExits
  <2> QED
    BY <2>1, <2>2 DEF TypeInv
<1>6. ASSUME NEW kinds, Output(kinds), pc \in Commands,
             pc' \in Commands \union {"idle", "stamp"}, payloads' \in Payloads,
             collectedAt' = collectedAt,
             call' \in [started : Nat, doomed : BOOLEAN, returned : Answers]
      PROVE  DataTypes'
  <2>1. /\ history' = history /\ cancelled' = cancelled /\ collections' = collections
        /\ proc' = "none" /\ pipe' = FALSE /\ failed' \in SUBSET (failed \union {pc})
        /\ out' \in Outputs /\ out'.kind # "ok"
    BY <1>6, OutputTaken
  <2>2. failed' \in SUBSET Commands
    BY <1>6, <2>1 DEF TypeInv, DataTypes
  <2> QED
    BY <1>6, <2>1, <2>2 DEF TypeInv, DataTypes, now
<1>7. CASE PayloadDecoded
  <2>1. /\ pc \in BaseCommands /\ Output({"ok"})
        /\ payloads' = [payloads EXCEPT ![pc] = Answer(pc, out.seen)]
        /\ pc' = AfterCommand[pc] /\ UNCHANGED <<collectedAt, call>>
    BY <1>7 DEF PayloadDecoded
  <2>2. out.seen \in Clusters
    <3>1. out.kind = "ok"
      BY <2>1 DEF Output
    <3> QED
      BY <3>1 DEF TypeInv, DataTypes
  <2>3. payloads \in Payloads
    BY DEF TypeInv, DataTypes
  <2>4. payloads' \in Payloads
    BY <2>1, <2>2, <2>3, AnswerTypes DEF Payloads, BaseCommands
  <2>5. pc \in Commands /\ pc' \in Commands \union {"idle", "stamp"}
    BY <2>1, Successor DEF Commands, BaseCommands, VersionCommands
  <2>6. DataTypes'
    BY <1>6, <2>1, <2>4, <2>5 DEF TypeInv, DataTypes
  <2>7. /\ pc' \in AfterJobs => payloads'.jobs \in Clusters
        /\ pc' \in AfterNodes => payloads'.nodes \in Nat
        /\ pc' \in AfterQueues => payloads'.queues \in Counts
        /\ pc' \in AfterServer => payloads'.server \in Counts
    <3>1. CASE pc = "jobs"
      BY <2>1, <2>2, <2>3, <3>1, AnswerTypes
      DEF AfterCommand, Payloads, AfterJobs, AfterNodes, AfterQueues, AfterServer,
          VersionCommands
    <3>2. CASE pc = "nodes"
      BY <2>1, <2>2, <2>3, <3>2, AnswerTypes
      DEF AfterCommand, Payloads, AfterJobs, AfterNodes, AfterQueues, AfterServer,
          VersionCommands, TypeInv, Progress
    <3>3. CASE pc = "queues"
      BY <2>1, <2>2, <2>3, <3>3, AnswerTypes
      DEF AfterCommand, Payloads, AfterJobs, AfterNodes, AfterQueues, AfterServer,
          VersionCommands, TypeInv, Progress
    <3>4. CASE pc = "server"
      BY <2>1, <2>2, <2>3, <3>4, AnswerTypes
      DEF AfterCommand, Payloads, AfterJobs, AfterNodes, AfterQueues, AfterServer,
          VersionCommands, TypeInv, Progress
    <3> QED
      BY <2>1, <3>1, <3>2, <3>3, <3>4 DEF BaseCommands
  <2>8. Progress'
    BY <2>1, <2>7, OutputTaken, Successor DEF Progress
  <2> QED
    BY <2>6, <2>8 DEF TypeInv
<1>8. CASE VersionFound \/ VersionFallsBack \/ VersionUnknown
  <2>1. /\ \E kinds : Output(kinds)
        /\ pc \in VersionCommands /\ pc' \in {"pbsnodes version", "stamp"}
        /\ collectedAt' = collectedAt /\ call' = call
    BY <1>8 DEF VersionFound, VersionFallsBack, VersionUnknown, VersionCommands
  <2>2. payloads' \in Payloads
        /\ payloads'.jobs = payloads.jobs /\ payloads'.nodes = payloads.nodes
        /\ payloads'.queues = payloads.queues /\ payloads'.server = payloads.server
    BY <1>8 DEF VersionFound, VersionFallsBack, VersionUnknown, TypeInv, DataTypes, Payloads
  <2>3. pc \in Commands /\ pc' \in Commands \union {"idle", "stamp"}
    BY <2>1 DEF Commands, VersionCommands
  <2>4. DataTypes'
    BY <1>6, <2>1, <2>2, <2>3 DEF TypeInv, DataTypes
  <2>5. proc' = "none" /\ out' = NoOutput /\ pipe' = FALSE
    BY <2>1, OutputTaken
  <2>6. Progress'
    BY <2>1, <2>2, <2>5
    DEF TypeInv, Progress, AfterJobs, AfterNodes, AfterQueues, AfterServer, VersionCommands
  <2> QED
    BY <2>4, <2>6 DEF TypeInv
<1>9. CASE StampSnapshot
  <2>1. pc = "stamp" /\ pc' \in {"idle", "inspection"} /\ collectedAt' = now
        /\ UNCHANGED <<history, cancelled, proc, out, pipe, payloads, failed, collections>>
    BY <1>9 DEF StampSnapshot, StampTime, Return, pbsVars, processVars
  <2>2. Success(now, Nil, FALSE) \in Answers
    BY <1>0, <2>1, SuccessTyped
  <2>3. call' \in [started : Nat, doomed : BOOLEAN, returned : Answers]
    <3>1. call' = call \/ Return(Success(now, Nil, FALSE))
      BY <1>9 DEF StampSnapshot, StampTime
    <3>2. call \in [started : Nat, doomed : BOOLEAN, returned : Answers]
      BY DEF TypeInv, DataTypes
    <3>3. ASSUME NEW answer \in Answers, Return(answer)
          PROVE  call' \in [started : Nat, doomed : BOOLEAN, returned : Answers]
      BY <3>2, <3>3 DEF Return
    <3> QED
      BY <2>2, <3>1, <3>2, <3>3
  <2>4. DataTypes'
    <3>1. pc' \in Commands \union {"idle", "stamp"} /\ collectedAt' \in Nat
      BY <1>0, <2>1 DEF Commands
    <3> QED
      BY <2>1, <2>3, <3>1 DEF TypeInv, DataTypes, now
  <2>5. pc' = "inspection" => IncludeDetailedJobData
    BY <1>9 DEF StampSnapshot, Return
  <2>6. Progress'
    BY <2>1, <2>5
    DEF TypeInv, Progress, AfterJobs, AfterNodes, AfterQueues, AfterServer, VersionCommands
  <2> QED
    BY <2>4, <2>6 DEF TypeInv
<1>10. CASE BaseCommandFails \/ InspectionDone \/ InspectionFails
  <2>1. /\ \E kinds : Output(kinds)
        /\ payloads' = payloads /\ collectedAt' = collectedAt
        /\ pc \in Commands /\ pc' = "idle"
    BY <1>10 DEF BaseCommandFails, InspectionDone, InspectionFails, Return, Commands
  <2>2. PICK answer \in Answers : Return(answer)
    <3>1. CASE BaseCommandFails
      BY <3>1 DEF BaseCommandFails, Answers
    <3>2. CASE InspectionDone
      <4>1. /\ pc = "inspection" /\ Output({"ok"})
            /\ Return(Success(collectedAt, JobInspection(out.seen, collectedAt), FALSE))
        BY <3>2 DEF InspectionDone
      <4>2. out.seen \in Clusters /\ collectedAt \in Nat
        <5>1. out.kind = "ok"
          BY <4>1 DEF Output
        <5> QED
          BY <5>1 DEF TypeInv, DataTypes
      <4> QED
        BY <4>1, <4>2, InspectionOfCluster, SuccessTyped
    <3>3. CASE InspectionFails
      <4>1. collectedAt \in Nat
        BY DEF TypeInv, DataTypes
      <4> QED
        BY <3>3, <4>1, SuccessTyped DEF InspectionFails
    <3> QED
      BY <1>10, <3>1, <3>2, <3>3
  <2>3. call' \in [started : Nat, doomed : BOOLEAN, returned : Answers]
    <3>1. call \in [started : Nat, doomed : BOOLEAN, returned : Answers]
      BY DEF TypeInv, DataTypes
    <3> QED
      BY <2>2, <3>1 DEF Return
  <2>4. DataTypes'
    BY <1>6, <2>1, <2>3 DEF TypeInv, DataTypes
  <2>5. proc' = "none" /\ out' = NoOutput /\ pipe' = FALSE
    BY <2>1, OutputTaken
  <2>6. Progress'
    BY <2>1, <2>5
    DEF Progress, AfterJobs, AfterNodes, AfterQueues, AfterServer, VersionCommands
  <2> QED
    BY <2>4, <2>6 DEF TypeInv
<1>11. CASE UNCHANGED vars
  <2>1. DataTypes'
    BY <1>11 DEF TypeInv, DataTypes, vars, now
  <2>2. Progress'
    BY <1>11 DEF TypeInv, Progress, vars
  <2> QED
    BY <2>1, <2>2 DEF TypeInv
<1> QED
  BY <1>1, <1>2, <1>3, <1>4, <1>5, <1>7, <1>8, <1>9, <1>10, <1>11 DEF Next, Client

\* TypeInv implies what the runs check.
LEMMA TypesChecked == TypeInv => TypeOK
<1> SUFFICES ASSUME TypeInv PROVE TypeOK
  OBVIOUS
<1>1. /\ pc \in Commands \union {"idle", "stamp"}
      /\ proc \in {"none", "running", "exited"}
      /\ out.kind \in {"ok", "malformed", "failed"}
      /\ pipe \in BOOLEAN
      /\ collectedAt \in Nat
      /\ failed \subseteq Commands
  BY DEF TypeInv, DataTypes, Outputs
<1>2. call.returned \in Answers
  BY DEF TypeInv, DataTypes
<1> QED
  BY <1>1, <1>2 DEF TypeOK, Answers

\* TypeInv is an invariant.
LEMMA TypeInvHolds == Spec => []TypeInv
BY TypeInvInit, TypeInvStep, PTL DEF Spec

\* TypeOK for any cluster and any options: what Collect returns has the type of
\* a pbs.CollectionResult, its waits and its runtimes are natural numbers.
THEOREM AnswersHaveTypes == Spec => []TypeOK
BY TypeInvHolds, TypesChecked, PTL

-----------------------------------------------------------------------------
(* Failures. *)

\* What failed is recorded along the way: a base command that fails ends the
\* collection, the second version command is run when the first has failed.
FailuresOnTheWay ==
    /\ Collecting => call.returned = Failed
    /\ pc \in BaseCommands \union {"qstat version"} => failed = {}
    /\ pc = "pbsnodes version" => failed = {"qstat version"}
    /\ pc \in BaseCommands \union VersionCommands => payloads.version = "unknown"
    /\ pc \in {"stamp", "inspection"} =>
          /\ failed \subseteq VersionCommands
          /\ VersionCommands \subseteq failed => payloads.version = "unknown"
    /\ OnlyBaseCommandsFail

\* A collection that has not begun has not failed.
LEMMA FailuresInit == Init => FailuresOnTheWay
BY DEF Init, FailuresOnTheWay, OnlyBaseCommandsFail, Collecting, BaseCommands, VersionCommands

\* Steps that leave the collection alone leave its failures alone.
LEMMA FailuresKept ==
    ASSUME FailuresOnTheWay,
           UNCHANGED <<pc, payloads, call, failed, collections>>
    PROVE  FailuresOnTheWay'
BY DEF FailuresOnTheWay, OnlyBaseCommandsFail, Collecting, Succeeded, LastSnapshot

\* The outcomes of a command, and what each adds to the failures.
LEMMA FailuresOfOutput ==
    ASSUME TypeInv
    PROVE  /\ Output({"ok"}) => failed' = failed
           /\ Output({"failed"}) => failed' = failed \union {pc}
           /\ Output({"ok", "malformed"}) /\ pc \in VersionCommands => failed' = failed
           /\ Output({"failed", "malformed"}) /\ pc \notin VersionCommands =>
                 failed' = failed \union {pc}
BY DEF Output

\* Every step records its failures.
LEMMA FailuresStep == TypeInv /\ FailuresOnTheWay /\ [Next]_vars => FailuresOnTheWay'
<1> SUFFICES ASSUME TypeInv, FailuresOnTheWay, [Next]_vars PROVE FailuresOnTheWay'
  OBVIOUS
<1>1. CASE \E j \in Jobs : Submit(j) \/ StartJob(j) \/ EndJob(j)
  BY <1>1, ClusterGrows, FailuresKept
<1>2. CASE Cancel \/ StartCommand \/ StartRefused \/ CommandExits \/ CommandKilled \/ ChildExits
  BY <1>2, FailuresKept
  DEF Cancel, StartCommand, StartRefused, CommandExits, CommandKilled, ChildExits
<1>3. CASE BeginCollect
  <2>1. pc' = "jobs" /\ failed' = {} /\ payloads'.version = "unknown"
        /\ call'.returned = Failed
    BY <1>3 DEF BeginCollect, NoPayload
  <2> QED
    BY <2>1
    DEF FailuresOnTheWay, OnlyBaseCommandsFail, Collecting, BaseCommands, VersionCommands
<1>4. CASE PayloadDecoded
  <2>1. /\ pc \in BaseCommands /\ pc' = AfterCommand[pc] /\ call' = call
        /\ payloads' = [payloads EXCEPT ![pc] = Answer(pc, out.seen)]
        /\ failed' = failed
    BY <1>4, FailuresOfOutput DEF PayloadDecoded
  <2>2. pc' \in BaseCommands \union {"qstat version"} /\ pc' # "idle"
    BY <2>1, Successor DEF BaseCommands
  <2>3. payloads'.version = payloads.version
    <3>1. payloads \in Payloads
      BY DEF TypeInv, DataTypes
    <3> QED
      BY <2>1, <3>1 DEF Payloads, BaseCommands
  <2>4. Collecting /\ Collecting'
    BY <2>1, <2>2 DEF Collecting, BaseCommands
  <2> QED
    BY <2>1, <2>2, <2>3, <2>4
    DEF FailuresOnTheWay, OnlyBaseCommandsFail, BaseCommands, VersionCommands
<1>5. CASE BaseCommandFails
  <2>1. /\ pc \in BaseCommands /\ pc' = "idle" /\ call'.returned = Failed
        /\ failed' = failed \union {pc}
    BY <1>5, FailuresOfOutput DEF BaseCommandFails, Return, BaseCommands, VersionCommands
  <2>2. call'.returned.err
    BY <2>1 DEF Failed
  <2> QED
    BY <2>1, <2>2
    DEF FailuresOnTheWay, OnlyBaseCommandsFail, Succeeded, Collecting, BaseCommands,
        VersionCommands
<1>6. CASE VersionFound \/ VersionFallsBack \/ VersionUnknown
  <2>1. /\ pc \in VersionCommands /\ pc' \in {"pbsnodes version", "stamp"} /\ call' = call
    BY <1>6 DEF VersionFound, VersionFallsBack, VersionUnknown, VersionCommands
  <2>2. /\ pc = "qstat version" => failed = {}
        /\ pc = "pbsnodes version" => failed = {"qstat version"}
        /\ payloads.version = "unknown" /\ call.returned = Failed
    BY <2>1 DEF FailuresOnTheWay, Collecting, VersionCommands
  <2>3. CASE VersionFound
    <3>1. failed' = failed /\ pc' = "stamp"
      BY <2>3, FailuresOfOutput DEF VersionFound
    <3>2. failed' \subseteq VersionCommands /\ ~(VersionCommands \subseteq failed')
      BY <2>1, <2>2, <3>1 DEF VersionCommands
    <3> QED
      BY <2>1, <2>2, <3>1, <3>2
      DEF FailuresOnTheWay, OnlyBaseCommandsFail, Collecting, BaseCommands, VersionCommands
  <2>4. CASE VersionFallsBack
    <3>1. failed' = {"qstat version"} /\ pc' = "pbsnodes version" /\ payloads' = payloads
      BY <2>2, <2>4, FailuresOfOutput DEF VersionFallsBack
    <3> QED
      BY <2>1, <2>2, <3>1
      DEF FailuresOnTheWay, OnlyBaseCommandsFail, Collecting, BaseCommands, VersionCommands
  <2>5. CASE VersionUnknown
    <3>1. failed' = {"qstat version", "pbsnodes version"} /\ pc' = "stamp"
          /\ payloads' = payloads
      BY <2>2, <2>5, FailuresOfOutput DEF VersionUnknown
    <3> QED
      BY <2>1, <2>2, <3>1
      DEF FailuresOnTheWay, OnlyBaseCommandsFail, Collecting, BaseCommands, VersionCommands
  <2> QED
    BY <1>6, <2>3, <2>4, <2>5
<1>7. ASSUME pc \in {"stamp", "inspection"}, pc' = "idle", NEW at, NEW inspection,
             NEW error \in BOOLEAN, Return(Success(at, inspection, error)),
             failed' \in SUBSET (failed \union {"inspection"}),
             failed \in SUBSET failed',
             error <=> "inspection" \in failed'
      PROVE  FailuresOnTheWay'
  <2>1. /\ failed \subseteq VersionCommands
        /\ VersionCommands \subseteq failed => payloads.version = "unknown"
    BY <1>7 DEF FailuresOnTheWay
  <2>2. /\ ~call'.returned.err
        /\ call'.returned.result.JobInspectionError = error
        /\ call'.returned.result.Snapshot.Version = payloads.version
    BY <1>7 DEF Return, Success
  <2>3. failed' \intersect BaseCommands = {}
    BY <1>7, <2>1 DEF BaseCommands, VersionCommands
  <2>4. VersionCommands \subseteq failed' => VersionCommands \subseteq failed
    BY <1>7 DEF VersionCommands
  <2>5. OnlyBaseCommandsFail'
    BY <1>7, <2>1, <2>2, <2>3, <2>4
    DEF OnlyBaseCommandsFail, LastSnapshot, Collecting, Succeeded
  <2> QED
    BY <1>7, <2>5 DEF FailuresOnTheWay, Collecting, BaseCommands, VersionCommands
<1>8. CASE StampSnapshot
  <2>1. pc = "stamp" /\ failed' = failed /\ payloads' = payloads /\ collectedAt' = now
    BY <1>8 DEF StampSnapshot, StampTime
  <2>2. failed \subseteq VersionCommands /\ call.returned = Failed
    BY <2>1 DEF FailuresOnTheWay, Collecting
  <2>3. CASE pc' = "inspection" /\ call' = call
    BY <2>1, <2>2, <2>3
    DEF FailuresOnTheWay, OnlyBaseCommandsFail, Collecting, BaseCommands, VersionCommands
  <2>4. CASE pc' = "idle" /\ Return(Success(now, Nil, FALSE))
    <3>1. "inspection" \notin failed'
      BY <2>1, <2>2 DEF VersionCommands
    <3> QED
      BY <1>7, <2>1, <2>4, <3>1
  <2> QED
    BY <1>8, <2>1, <2>3, <2>4 DEF StampSnapshot, Return
<1>9. CASE InspectionDone \/ InspectionFails
  <2>1. pc = "inspection" /\ pc' = "idle"
    BY <1>9 DEF InspectionDone, InspectionFails, Return
  <2>2. failed \subseteq VersionCommands
    BY <2>1 DEF FailuresOnTheWay
  <2>3. CASE InspectionDone
    <3>1. failed' = failed /\ "inspection" \notin failed'
      BY <2>2, <2>3, FailuresOfOutput DEF InspectionDone, VersionCommands
    <3>2. Return(Success(collectedAt, JobInspection(out.seen, collectedAt), FALSE))
      BY <2>3 DEF InspectionDone
    <3> QED
      BY <1>7, <2>1, <3>1, <3>2
  <2>4. CASE InspectionFails
    <3>1. failed' = failed \union {"inspection"}
      BY <2>1, <2>4, FailuresOfOutput DEF InspectionFails, VersionCommands
    <3>2. Return(Success(collectedAt, Nil, TRUE))
      BY <2>4 DEF InspectionFails
    <3> QED
      BY <1>7, <2>1, <3>1, <3>2
  <2> QED
    BY <1>9, <2>3, <2>4
<1>10. CASE UNCHANGED vars
  BY <1>10, FailuresKept DEF vars
<1> QED
  BY <1>1, <1>2, <1>3, <1>4, <1>5, <1>6, <1>8, <1>9, <1>10 DEF Next, Client

\* FailuresOnTheWay is an invariant.
LEMMA FailuresHold == Spec => []FailuresOnTheWay
BY TypeInvHolds, FailuresInit, FailuresStep, PTL DEF Spec

\* OnlyBaseCommandsFail for any cluster and any options.
THEOREM FailuresCostTheirPart == Spec => []OnlyBaseCommandsFail
<1>1. FailuresOnTheWay => OnlyBaseCommandsFail
  BY DEF FailuresOnTheWay
<1> QED
  BY <1>1, FailuresHold, PTL

-----------------------------------------------------------------------------
(* The order of what Collect reads. *)

\* From instant s to instant t the history h showed these parts, one after the
\* other.
JobsRead(h, s, t, jobs) == \E i \in s .. t : jobs = h[i]

NodesRead(h, s, t, jobs, nodes) ==
    \E j \in s .. t : JobsRead(h, s, j, jobs) /\ nodes = NodesOf(h[j])

QueuesRead(h, s, t, jobs, nodes, queues) ==
    \E k \in s .. t : NodesRead(h, s, k, jobs, nodes) /\ queues = QueuesOf(h[k])

ServerRead(h, s, t, jobs, nodes, queues, server) ==
    \E l \in s .. t : QueuesRead(h, s, l, jobs, nodes, queues) /\ server = ServerOf(h[l])

\* How a snapshot was read from a history by a collection that started at s.
SnapshotRead(snapshot, h, s) ==
    /\ s \in 1 .. Len(h)
    /\ snapshot.CollectedAt \in s .. Len(h)
    /\ ServerRead(h, s, snapshot.CollectedAt, snapshot.Jobs, snapshot.Nodes,
                  snapshot.Queues, snapshot.Server)
    /\ snapshot.QueueWaits = QueueWaits(snapshot.Jobs, snapshot.CollectedAt)
    /\ snapshot.JobInspection # Nil =>
          \E m \in snapshot.CollectedAt .. Len(h) :
             snapshot.JobInspection = JobInspection(h[m], snapshot.CollectedAt)

\* A history that goes on as another does.
Extends(h2, h) ==
    /\ Len(h) \in Nat /\ Len(h2) \in Nat /\ Len(h) <= Len(h2)
    /\ \A t \in 1 .. Len(h) : h2[t] = h[t]

\* What was read by t was read by any later instant, of any longer history.
LEMMA ReadStays ==
    ASSUME NEW h, NEW h2, Extends(h2, h), NEW s \in 1 .. Len(h),
           NEW t \in Nat, NEW u \in Nat, t <= u, t <= Len(h),
           NEW jobs, NEW nodes, NEW queues, NEW server
    PROVE  /\ JobsRead(h, s, t, jobs) => JobsRead(h2, s, u, jobs)
           /\ NodesRead(h, s, t, jobs, nodes) => NodesRead(h2, s, u, jobs, nodes)
           /\ QueuesRead(h, s, t, jobs, nodes, queues) =>
                 QueuesRead(h2, s, u, jobs, nodes, queues)
           /\ ServerRead(h, s, t, jobs, nodes, queues, server) =>
                 ServerRead(h2, s, u, jobs, nodes, queues, server)
<1>1. Len(h) \in Nat /\ s \in Nat /\ \A i \in s .. Len(h) : h2[i] = h[i]
  BY DEF Extends
<1>2. \A v \in s .. Len(h), w \in Nat :
         v <= w /\ JobsRead(h, s, v, jobs) => JobsRead(h2, s, w, jobs)
  BY <1>1 DEF JobsRead
<1>3. \A v \in s .. Len(h), w \in Nat :
         v <= w /\ NodesRead(h, s, v, jobs, nodes) => NodesRead(h2, s, w, jobs, nodes)
  BY <1>1, <1>2 DEF NodesRead
<1>4. \A v \in s .. Len(h), w \in Nat :
         v <= w /\ QueuesRead(h, s, v, jobs, nodes, queues) =>
            QueuesRead(h2, s, w, jobs, nodes, queues)
  BY <1>1, <1>3 DEF QueuesRead
<1>5. \A v \in s .. Len(h), w \in Nat :
         v <= w /\ ServerRead(h, s, v, jobs, nodes, queues, server) =>
            ServerRead(h2, s, w, jobs, nodes, queues, server)
  BY <1>1, <1>4 DEF ServerRead
<1>6. CASE t < s
  BY <1>1, <1>6 DEF JobsRead, NodesRead, QueuesRead, ServerRead
<1>7. CASE t >= s
  BY <1>1, <1>2, <1>3, <1>4, <1>5, <1>7
<1> QED
  BY <1>1, <1>6, <1>7

\* A snapshot that was read from a history was read from any longer one.
LEMMA SnapshotStays ==
    ASSUME NEW h, NEW h2, Extends(h2, h), NEW s, NEW snapshot, SnapshotRead(snapshot, h, s)
    PROVE  SnapshotRead(snapshot, h2, s)
<1> DEFINE at == snapshot.CollectedAt
<1>1. /\ Len(h) \in Nat /\ Len(h2) \in Nat /\ Len(h) <= Len(h2)
      /\ s \in 1 .. Len(h) /\ at \in s .. Len(h)
      /\ \A i \in 1 .. Len(h) : h2[i] = h[i]
  BY DEF Extends, SnapshotRead
<1>2. ServerRead(h2, s, at, snapshot.Jobs, snapshot.Nodes, snapshot.Queues, snapshot.Server)
  BY <1>1, ReadStays DEF SnapshotRead
<1>3. snapshot.JobInspection # Nil =>
         \E m \in at .. Len(h2) : snapshot.JobInspection = JobInspection(h2[m], at)
  <2>1. SUFFICES ASSUME snapshot.JobInspection # Nil
                 PROVE  \E m \in at .. Len(h2) :
                           snapshot.JobInspection = JobInspection(h2[m], at)
    OBVIOUS
  <2>2. PICK m \in at .. Len(h) : snapshot.JobInspection = JobInspection(h[m], at)
    BY <2>1 DEF SnapshotRead
  <2>3. m \in at .. Len(h2) /\ h2[m] = h[m]
    BY <1>1, <2>2
  <2> QED
    BY <2>2, <2>3
<1>4. s \in 1 .. Len(h2) /\ at \in s .. Len(h2)
  BY <1>1
<1> QED
  BY <1>2, <1>3, <1>4 DEF SnapshotRead

\* The parts read so far, and the output that is yet to be decoded, in order.
ReadsInOrder ==
    /\ Collecting => call.started \in 1 .. now
    /\ pc \in AfterJobs => JobsRead(history, call.started, now, payloads.jobs)
    /\ pc \in AfterNodes =>
          NodesRead(history, call.started, now, payloads.jobs, payloads.nodes)
    /\ pc \in AfterQueues =>
          QueuesRead(history, call.started, now, payloads.jobs, payloads.nodes,
                     payloads.queues)
    /\ pc \in AfterServer =>
          ServerRead(history, call.started, now, payloads.jobs, payloads.nodes,
                     payloads.queues, payloads.server)
    /\ pc = "inspection" =>
          /\ collectedAt \in call.started .. now
          /\ ServerRead(history, call.started, collectedAt, payloads.jobs, payloads.nodes,
                        payloads.queues, payloads.server)
    /\ Collecting /\ out.kind = "ok" =>
          \E m \in call.started .. now :
             /\ out.seen = history[m]
             /\ pc = "nodes" => JobsRead(history, call.started, m, payloads.jobs)
             /\ pc = "queues" =>
                   NodesRead(history, call.started, m, payloads.jobs, payloads.nodes)
             /\ pc = "server" =>
                   QueuesRead(history, call.started, m, payloads.jobs, payloads.nodes,
                              payloads.queues)
             /\ pc = "inspection" => collectedAt <= m
    /\ Succeeded => SnapshotRead(LastSnapshot, history, call.started)

\* Nothing has been read yet.
LEMMA ReadsInit == Init => ReadsInOrder
BY DEF Init, ReadsInOrder, Collecting, Succeeded, Failed, NoOutput, AfterJobs, AfterNodes,
       AfterQueues, AfterServer, VersionCommands

\* The history only grows.
LEMMA HistoryExtends == TypeInv => Extends(history, history)
BY PresentCluster DEF Extends, now

\* Steps that leave the collection alone leave what it has read alone.
LEMMA ReadsKept ==
    ASSUME TypeInv, ReadsInOrder, Extends(history', history),
           UNCHANGED <<pc, payloads, collectedAt, call>>,
           out' = out \/ out'.kind # "ok"
    PROVE  ReadsInOrder'
<1>1. /\ now \in Nat /\ now' \in Nat /\ now <= now' /\ collectedAt \in Nat
      /\ \A i \in 1 .. now : history'[i] = history[i]
  BY PresentCluster DEF TypeInv, DataTypes, Extends, now
<1>2. CASE Collecting
  <2>1. call.started \in 1 .. now /\ call'.started = call.started
    BY <1>2 DEF ReadsInOrder
  <2> DEFINE s == call.started
             jobs == payloads.jobs
             nodes == payloads.nodes
             queues == payloads.queues
             server == payloads.server
  <2>2. \A t \in s .. now, u \in Nat :
           t <= u =>
              /\ JobsRead(history, s, t, jobs) => JobsRead(history', s, u, jobs)
              /\ NodesRead(history, s, t, jobs, nodes) => NodesRead(history', s, u, jobs, nodes)
              /\ QueuesRead(history, s, t, jobs, nodes, queues) =>
                    QueuesRead(history', s, u, jobs, nodes, queues)
              /\ ServerRead(history, s, t, jobs, nodes, queues, server) =>
                    ServerRead(history', s, u, jobs, nodes, queues, server)
    <3>1. s \in 1 .. Len(history) /\ \A t \in s .. now : t \in Nat /\ t <= Len(history)
      BY <1>1, <2>1 DEF now
    <3> HIDE DEF s, jobs, nodes, queues, server
    <3> QED
      BY <3>1, ReadStays
  <2>3. now \in s .. now
    BY <1>1, <2>1
  <2>4. /\ pc \in AfterJobs => JobsRead(history', s, now', jobs)
        /\ pc \in AfterNodes => NodesRead(history', s, now', jobs, nodes)
        /\ pc \in AfterQueues => QueuesRead(history', s, now', jobs, nodes, queues)
        /\ pc \in AfterServer => ServerRead(history', s, now', jobs, nodes, queues, server)
    BY <1>1, <2>2, <2>3 DEF ReadsInOrder
  <2>5. pc = "inspection" =>
           /\ collectedAt \in s .. now'
           /\ ServerRead(history', s, collectedAt, jobs, nodes, queues, server)
    BY <1>1, <2>1, <2>2 DEF ReadsInOrder
  <2>6. out.kind = "ok" =>
           \E m \in s .. now' :
              /\ out.seen = history'[m]
              /\ pc = "nodes" => JobsRead(history', s, m, jobs)
              /\ pc = "queues" => NodesRead(history', s, m, jobs, nodes)
              /\ pc = "server" => QueuesRead(history', s, m, jobs, nodes, queues)
              /\ pc = "inspection" => collectedAt <= m
    <3>1. SUFFICES ASSUME out.kind = "ok"
                   PROVE  \E m \in s .. now' :
                             /\ out.seen = history'[m]
                             /\ pc = "nodes" => JobsRead(history', s, m, jobs)
                             /\ pc = "queues" => NodesRead(history', s, m, jobs, nodes)
                             /\ pc = "server" =>
                                   QueuesRead(history', s, m, jobs, nodes, queues)
                             /\ pc = "inspection" => collectedAt <= m
      OBVIOUS
    <3>2. PICK m \in s .. now :
             /\ out.seen = history[m]
             /\ pc = "nodes" => JobsRead(history, s, m, jobs)
             /\ pc = "queues" => NodesRead(history, s, m, jobs, nodes)
             /\ pc = "server" => QueuesRead(history, s, m, jobs, nodes, queues)
             /\ pc = "inspection" => collectedAt <= m
      BY <1>2, <3>1 DEF ReadsInOrder
    <3>3. m \in s .. now' /\ m \in Nat /\ m <= m /\ history'[m] = history[m]
      BY <1>1, <2>1, <3>2
    <3> QED
      BY <2>2, <3>2, <3>3
  <2>7. Collecting' /\ ~Succeeded' /\ call.started \in 1 .. now'
    BY <1>1, <1>2, <2>1 DEF Collecting, Succeeded
  <2> QED
    BY <2>1, <2>4, <2>5, <2>6, <2>7 DEF ReadsInOrder
<1>3. CASE ~Collecting
  <2>1. Succeeded => SnapshotRead(LastSnapshot, history', call.started)
    BY SnapshotStays DEF ReadsInOrder
  <2>2. ~Collecting' /\ (Succeeded' <=> Succeeded) /\ LastSnapshot' = LastSnapshot
    BY <1>3 DEF Collecting, Succeeded, LastSnapshot
  <2>3. pc = "idle"
    BY <1>3 DEF Collecting
  <2> QED
    BY <2>1, <2>2, <2>3
    DEF ReadsInOrder, AfterJobs, AfterNodes, AfterQueues, AfterServer, VersionCommands
<1> QED
  BY <1>2, <1>3

\* A successful answer is a snapshot that was read in order.
LEMMA AnswerRead ==
    ASSUME TypeInv, ReadsInOrder, pc \in {"stamp", "inspection"}, pc' = "idle",
           history' = history, NEW error, NEW inspection,
           NEW at \in call.started .. now, Return(Success(at, inspection, error)),
           ServerRead(history, call.started, at, payloads.jobs, payloads.nodes,
                      payloads.queues, payloads.server),
           inspection # Nil =>
              \E m \in at .. now : inspection = JobInspection(history[m], at)
    PROVE  ReadsInOrder'
<1>1. call.started \in 1 .. now
  BY DEF ReadsInOrder, Collecting
<1>2. /\ call'.started = call.started
      /\ call'.returned = Success(at, inspection, error)
  BY DEF Return
<1> DEFINE snapshot == call'.returned.result.Snapshot
<1>3. /\ snapshot.CollectedAt = at /\ snapshot.Jobs = payloads.jobs
      /\ snapshot.Nodes = payloads.nodes /\ snapshot.Queues = payloads.queues
      /\ snapshot.Server = payloads.server /\ snapshot.JobInspection = inspection
      /\ snapshot.QueueWaits = QueueWaits(payloads.jobs, at)
  BY <1>2 DEF Success
<1>4. SnapshotRead(snapshot, history, call.started)
  <2> HIDE DEF snapshot
  <2> QED
    BY <1>1, <1>3 DEF SnapshotRead, now
<1>5. SnapshotRead(LastSnapshot, history, call.started)'
  BY <1>2, <1>4 DEF LastSnapshot
<1>6. ~Collecting'
  BY DEF Collecting
<1> QED
  BY <1>5, <1>6
  DEF ReadsInOrder, AfterJobs, AfterNodes, AfterQueues, AfterServer, VersionCommands

\* What is decoded was read after what was decoded before it.
LEMMA ReadsStep == TypeInv /\ ReadsInOrder /\ [Next]_vars => ReadsInOrder'
<1> SUFFICES ASSUME TypeInv, ReadsInOrder, [Next]_vars PROVE ReadsInOrder'
  OBVIOUS
<1>0. now \in Nat /\ now > 0 /\ Extends(history, history)
  BY PresentCluster, HistoryExtends
<1>1. ASSUME NEW j \in Jobs, Submit(j) \/ StartJob(j) \/ EndJob(j)
      PROVE  ReadsInOrder'
  <2>1. Extends(history', history)
    BY <1>1, ClusterGrows DEF Extends, now
  <2> QED
    BY <1>1, <2>1, ClusterGrows, ReadsKept
<1>2. CASE Cancel \/ StartCommand \/ StartRefused \/ CommandKilled \/ ChildExits
  <2>1. /\ UNCHANGED <<history, pc, payloads, collectedAt, call>>
        /\ out' = out \/ out' = NoOutput
    BY <1>2
    DEF Cancel, StartCommand, StartRefused, CommandKilled, ChildExits, pbsVars, processVars
  <2>2. NoOutput.kind # "ok"
    BY DEF NoOutput
  <2> QED
    BY <1>0, <2>1, <2>2, ReadsKept
<1>3. CASE CommandExits
  <2>1. UNCHANGED <<history, pc, payloads, collectedAt, call>>
    BY <1>3 DEF CommandExits, pbsVars
  <2>2. CASE out'.kind # "ok"
    BY <1>0, <2>1, <2>2, ReadsKept
  <2>3. CASE out'.kind = "ok"
    <3>1. out'.seen = history[now]
      BY <1>3, <2>3 DEF CommandExits, NoOutput, cluster
    <3>2. Collecting
      BY <1>3 DEF CommandExits, TypeInv, Progress, Collecting
    <3>3. call.started \in 1 .. now /\ now \in call.started .. now
      BY <1>0, <3>2 DEF ReadsInOrder
    <3>4. /\ pc = "nodes" => JobsRead(history, call.started, now, payloads.jobs)
          /\ pc = "queues" =>
                NodesRead(history, call.started, now, payloads.jobs, payloads.nodes)
          /\ pc = "server" =>
                QueuesRead(history, call.started, now, payloads.jobs, payloads.nodes,
                           payloads.queues)
          /\ pc = "inspection" => collectedAt <= now
      BY <1>0, <3>3 DEF ReadsInOrder, AfterJobs, AfterNodes, AfterQueues
    <3> QED
      BY <2>1, <3>1, <3>2, <3>3, <3>4 DEF ReadsInOrder, Collecting, Succeeded, now
  <2> QED
    BY <2>2, <2>3
<1>4. CASE BeginCollect
  <2>1. /\ pc' = "jobs" /\ call'.started = now /\ history' = history /\ out' = out
        /\ pc = "idle"
    BY <1>4 DEF BeginCollect, pbsVars, processVars, Collecting
  <2>2. out'.kind # "ok"
    BY <2>1 DEF TypeInv, Progress, NoOutput
  <2> QED
    BY <1>0, <2>1, <2>2
    DEF ReadsInOrder, Collecting, Succeeded, now, AfterJobs, AfterNodes, AfterQueues,
        AfterServer, VersionCommands
<1>5. CASE PayloadDecoded
  <2>1. /\ pc \in BaseCommands /\ Output({"ok"})
        /\ payloads' = [payloads EXCEPT ![pc] = Answer(pc, out.seen)]
        /\ pc' = AfterCommand[pc] /\ UNCHANGED <<collectedAt, call>>
    BY <1>5 DEF PayloadDecoded
  <2>2. out.kind = "ok" /\ out' = NoOutput /\ history' = history
    BY <2>1 DEF Output, pbsVars
  <2>3. payloads \in Payloads
    BY DEF TypeInv, DataTypes
  <2>4. Collecting /\ call.started \in 1 .. now
    BY <2>1 DEF ReadsInOrder, Collecting, BaseCommands
  <2>5. PICK m \in call.started .. now :
           /\ out.seen = history[m]
           /\ pc = "nodes" => JobsRead(history, call.started, m, payloads.jobs)
           /\ pc = "queues" =>
                 NodesRead(history, call.started, m, payloads.jobs, payloads.nodes)
           /\ pc = "server" =>
                 QueuesRead(history, call.started, m, payloads.jobs, payloads.nodes,
                            payloads.queues)
    BY <2>2, <2>4 DEF ReadsInOrder
  <2>6. /\ pc' \in AfterJobs => JobsRead(history, call.started, now, payloads'.jobs)
        /\ pc' \in AfterNodes =>
              NodesRead(history, call.started, now, payloads'.jobs, payloads'.nodes)
        /\ pc' \in AfterQueues =>
              QueuesRead(history, call.started, now, payloads'.jobs, payloads'.nodes,
                         payloads'.queues)
        /\ pc' \in AfterServer =>
              ServerRead(history, call.started, now, payloads'.jobs, payloads'.nodes,
                         payloads'.queues, payloads'.server)
        /\ pc' \notin {"idle", "inspection"}
    <3>1. CASE pc = "jobs"
      <4>1. pc' = "nodes" /\ payloads'.jobs = history[m]
        BY <2>1, <2>3, <2>5, <3>1 DEF AfterCommand, Answer, Payloads
      <4> QED
        BY <4>1 DEF JobsRead, AfterJobs, AfterNodes, AfterQueues, AfterServer, VersionCommands
    <3>2. CASE pc = "nodes"
      <4>1. /\ pc' = "queues" /\ payloads'.nodes = NodesOf(history[m])
            /\ payloads'.jobs = payloads.jobs
        BY <2>1, <2>3, <2>5, <3>2 DEF AfterCommand, Answer, Payloads
      <4>2. /\ JobsRead(history, call.started, now, payloads.jobs)
            /\ NodesRead(history, call.started, now, payloads.jobs, NodesOf(history[m]))
        BY <2>5, <3>2 DEF NodesRead, ReadsInOrder, AfterJobs
      <4> QED
        BY <4>1, <4>2 DEF AfterJobs, AfterNodes, AfterQueues, AfterServer, VersionCommands
    <3>3. CASE pc = "queues"
      <4>1. /\ pc' = "server" /\ payloads'.queues = QueuesOf(history[m])
            /\ payloads'.jobs = payloads.jobs /\ payloads'.nodes = payloads.nodes
        BY <2>1, <2>3, <2>5, <3>3 DEF AfterCommand, Answer, Payloads
      <4>2. /\ JobsRead(history, call.started, now, payloads.jobs)
            /\ NodesRead(history, call.started, now, payloads.jobs, payloads.nodes)
            /\ QueuesRead(history, call.started, now, payloads.jobs, payloads.nodes,
                          QueuesOf(history[m]))
        BY <2>5, <3>3 DEF QueuesRead, ReadsInOrder, AfterJobs, AfterNodes
      <4> QED
        BY <4>1, <4>2 DEF AfterJobs, AfterNodes, AfterQueues, AfterServer, VersionCommands
    <3>4. CASE pc = "server"
      <4>1. /\ pc' = "qstat version" /\ payloads'.server = ServerOf(history[m])
            /\ payloads'.jobs = payloads.jobs /\ payloads'.nodes = payloads.nodes
            /\ payloads'.queues = payloads.queues
        BY <2>1, <2>3, <2>5, <3>4 DEF AfterCommand, Answer, Payloads
      <4>2. /\ JobsRead(history, call.started, now, payloads.jobs)
            /\ NodesRead(history, call.started, now, payloads.jobs, payloads.nodes)
            /\ QueuesRead(history, call.started, now, payloads.jobs, payloads.nodes,
                          payloads.queues)
            /\ ServerRead(history, call.started, now, payloads.jobs, payloads.nodes,
                          payloads.queues, ServerOf(history[m]))
        BY <2>5, <3>4 DEF ServerRead, ReadsInOrder, AfterJobs, AfterNodes, AfterQueues
      <4> QED
        BY <4>1, <4>2
    <3> QED
      BY <2>1, <3>1, <3>2, <3>3, <3>4 DEF BaseCommands
  <2>7. now' = now /\ call' = call /\ out'.kind # "ok" /\ ~Succeeded'
    BY <2>1, <2>2, <2>6 DEF now, NoOutput, Succeeded, Collecting
  <2> QED
    BY <2>2, <2>4, <2>6, <2>7 DEF ReadsInOrder
<1>6. CASE VersionFound \/ VersionFallsBack \/ VersionUnknown
  <2>1. /\ pc \in VersionCommands /\ pc' \in {"pbsnodes version", "stamp"} /\ call' = call
        /\ out' = NoOutput /\ history' = history
    BY <1>6
    DEF VersionFound, VersionFallsBack, VersionUnknown, VersionCommands, Output, pbsVars
  <2>2. payloads'.jobs = payloads.jobs /\ payloads'.nodes = payloads.nodes
        /\ payloads'.queues = payloads.queues /\ payloads'.server = payloads.server
    BY <1>6 DEF VersionFound, VersionFallsBack, VersionUnknown, TypeInv, DataTypes, Payloads
  <2>3. pc \in AfterJobs /\ pc \in AfterNodes /\ pc \in AfterQueues /\ pc \in AfterServer
        /\ Collecting
    BY <2>1 DEF AfterJobs, AfterNodes, AfterQueues, AfterServer, Collecting, VersionCommands
  <2>4. /\ call'.started \in 1 .. now'
        /\ JobsRead(history', call'.started, now', payloads'.jobs)
        /\ NodesRead(history', call'.started, now', payloads'.jobs, payloads'.nodes)
        /\ QueuesRead(history', call'.started, now', payloads'.jobs, payloads'.nodes,
                      payloads'.queues)
        /\ ServerRead(history', call'.started, now', payloads'.jobs, payloads'.nodes,
                      payloads'.queues, payloads'.server)
    BY <2>1, <2>2, <2>3 DEF ReadsInOrder, now
  <2>5. out'.kind # "ok" /\ ~Succeeded'
    BY <2>1 DEF NoOutput, Succeeded, Collecting
  <2> QED
    BY <2>1, <2>4, <2>5 DEF ReadsInOrder
<1>7. CASE StampSnapshot
  <2>1. /\ pc = "stamp" /\ collectedAt' = now
        /\ UNCHANGED <<history, out, payloads>>
    BY <1>7 DEF StampSnapshot, StampTime, pbsVars, processVars
  <2>2. /\ call.started \in 1 .. now /\ now \in call.started .. now
        /\ ServerRead(history, call.started, now, payloads.jobs, payloads.nodes,
                      payloads.queues, payloads.server)
    BY <1>0, <2>1 DEF ReadsInOrder, Collecting, AfterServer
  <2>3. CASE pc' = "inspection" /\ call' = call
    <3>1. /\ JobsRead(history, call.started, now, payloads.jobs)
          /\ NodesRead(history, call.started, now, payloads.jobs, payloads.nodes)
          /\ QueuesRead(history, call.started, now, payloads.jobs, payloads.nodes,
                        payloads.queues)
      BY <2>1 DEF ReadsInOrder, AfterJobs, AfterNodes, AfterQueues, AfterServer
    <3>2. out'.kind # "ok" /\ ~Succeeded' /\ now' = now
      BY <2>1, <2>3 DEF TypeInv, Progress, NoOutput, Succeeded, Collecting, now
    <3> QED
      BY <2>1, <2>2, <2>3, <3>1, <3>2 DEF ReadsInOrder
  <2>4. CASE pc' = "idle" /\ Return(Success(now, Nil, FALSE))
    BY <2>1, <2>2, <2>4, AnswerRead
  <2> QED
    BY <1>7, <2>1, <2>3, <2>4 DEF StampSnapshot, Return
<1>8. CASE BaseCommandFails
  <2>1. pc' = "idle" /\ call'.returned = Failed
    BY <1>8 DEF BaseCommandFails, Return
  <2>2. ~Succeeded' /\ ~Collecting'
    BY <2>1 DEF Succeeded, Failed, Collecting
  <2> QED
    BY <2>1, <2>2
    DEF ReadsInOrder, AfterJobs, AfterNodes, AfterQueues, AfterServer, VersionCommands
<1>9. CASE InspectionDone \/ InspectionFails
  <2>1. /\ pc = "inspection" /\ pc' = "idle" /\ history' = history
        /\ InspectionDone => out.kind = "ok"
    BY <1>9 DEF InspectionDone, InspectionFails, Return, Output, pbsVars
  <2>2. /\ collectedAt \in call.started .. now
        /\ ServerRead(history, call.started, collectedAt, payloads.jobs, payloads.nodes,
                      payloads.queues, payloads.server)
    BY <2>1 DEF ReadsInOrder
  <2>3. CASE InspectionDone
    <3>1. Return(Success(collectedAt, JobInspection(out.seen, collectedAt), FALSE))
      BY <2>3 DEF InspectionDone
    <3>2. PICK m \in call.started .. now : out.seen = history[m] /\ collectedAt <= m
      BY <2>1, <2>3 DEF ReadsInOrder, Collecting
    <3>3. m \in collectedAt .. now
      BY <1>0, <2>2, <3>2
    <3> QED
      BY <2>1, <2>2, <3>1, <3>2, <3>3, AnswerRead
  <2>4. CASE InspectionFails
    <3>1. Return(Success(collectedAt, Nil, TRUE))
      BY <2>4 DEF InspectionFails
    <3> QED
      BY <2>1, <2>2, <3>1, AnswerRead
  <2> QED
    BY <1>9, <2>3, <2>4
<1>10. CASE UNCHANGED vars
  BY <1>0, <1>10, ReadsKept DEF vars
<1> QED
  BY <1>1, <1>2, <1>3, <1>4, <1>5, <1>6, <1>7, <1>8, <1>9, <1>10 DEF Next, Client

\* ReadsInOrder is an invariant.
LEMMA ReadsHold == Spec => []ReadsInOrder
BY TypeInvHolds, ReadsInit, ReadsStep, PTL DEF Spec

\* What was read in order is in order.
LEMMA ReadsAreInOrder == TypeInv /\ ReadsInOrder => PartsInOrder
<1> SUFFICES ASSUME TypeInv, ReadsInOrder, Succeeded
             PROVE  \E i \in call.started .. now :
                       \E j \in i .. now : \E k \in j .. now : \E l \in k .. now :
                          /\ LastSnapshot.Jobs = history[i]
                          /\ LastSnapshot.Nodes = NodesOf(history[j])
                          /\ LastSnapshot.Queues = QueuesOf(history[k])
                          /\ LastSnapshot.Server = ServerOf(history[l])
                          /\ LastSnapshot.CollectedAt \in l .. now
                          /\ LastSnapshot.JobInspection # Nil =>
                                \E m \in LastSnapshot.CollectedAt .. now :
                                   LastSnapshot.JobInspection =
                                      JobInspection(history[m], LastSnapshot.CollectedAt)
  BY DEF PartsInOrder
<1> DEFINE s == call.started
           S == LastSnapshot
<1>1. now \in Nat /\ SnapshotRead(S, history, s)
  BY PresentCluster DEF ReadsInOrder
<1> HIDE DEF S, s
<1>2. /\ s \in 1 .. now /\ S.CollectedAt \in s .. now
      /\ ServerRead(history, s, S.CollectedAt, S.Jobs, S.Nodes, S.Queues, S.Server)
  BY <1>1 DEF SnapshotRead, now
<1>3. PICK l \in s .. S.CollectedAt :
         QueuesRead(history, s, l, S.Jobs, S.Nodes, S.Queues) /\ S.Server = ServerOf(history[l])
  BY <1>2 DEF ServerRead
<1>4. PICK k \in s .. l :
         NodesRead(history, s, k, S.Jobs, S.Nodes) /\ S.Queues = QueuesOf(history[k])
  BY <1>3 DEF QueuesRead
<1>5. PICK j \in s .. k : JobsRead(history, s, j, S.Jobs) /\ S.Nodes = NodesOf(history[j])
  BY <1>4 DEF NodesRead
<1>6. PICK i \in s .. j : S.Jobs = history[i]
  BY <1>5 DEF JobsRead
<1>7. i \in s .. now /\ j \in i .. now /\ k \in j .. now /\ l \in k .. now
      /\ S.CollectedAt \in l .. now
  BY <1>1, <1>2, <1>3, <1>4, <1>5, <1>6
<1>8. S.JobInspection # Nil =>
         \E m \in S.CollectedAt .. now :
            S.JobInspection = JobInspection(history[m], S.CollectedAt)
  BY <1>1 DEF SnapshotRead, now
<1> QED
  BY <1>3, <1>4, <1>5, <1>6, <1>7, <1>8 DEF S, s

\* PartsInOrder for any cluster, any options and any number of changes: every
\* part of a snapshot was read during its collection, in the order of the
\* commands, and the stamp lies between the last of them and the inspection.
THEOREM SnapshotsReadInOrder == Spec => []PartsInOrder
BY TypeInvHolds, ReadsHold, ReadsAreInOrder, PTL

-----------------------------------------------------------------------------
(* The waits of a job. *)

\* A job waits once: it never returns to Q.
JobsWaitOnce ==
    \A j \in Jobs : \A t, u \in 1 .. now :
        history[t][j].state = "Q" /\ history[u][j].state = "Q" =>
            history[t][j].since = history[u][j].since

\* There is but one instant.
LEMMA WaitOnceInit == Init => JobsWaitOnce
BY DEF Init, JobsWaitOnce, now

\* PBS gives no two jobs the same id, and a job that runs does not wait again.
LEMMA WaitOnceStep == TypeInv /\ JobsWaitOnce /\ [Next]_vars => JobsWaitOnce'
<1> SUFFICES ASSUME TypeInv, JobsWaitOnce, [Next]_vars PROVE JobsWaitOnce'
  OBVIOUS
<1>0. now \in Nat /\ now > 0 /\ cluster \in Clusters
  BY PresentCluster
<1>1. ASSUME NEW i \in Jobs, Submit(i) \/ StartJob(i) \/ EndJob(i)
      PROVE  JobsWaitOnce'
  <2>1. /\ now' = now + 1
        /\ \A t \in 1 .. now : history'[t] = history[t]
        /\ \A k \in Jobs \ {i} : history'[now'][k] = history[now][k]
    BY <1>1, ClusterGrows
  <2>2. ASSUME NEW j \in Jobs, NEW t \in 1 .. now, history[t][j].state = "Q",
               history'[now'][j].state = "Q"
        PROVE  history[t][j].since = history'[now'][j].since
    <3>1. CASE j # i
      <4>1. history'[now'][j] = history[now][j] /\ now \in 1 .. now
        BY <1>0, <2>1, <3>1
      <4> QED
        BY <2>2, <4>1 DEF JobsWaitOnce
    <3>2. CASE j = i
      <4>2. CASE Submit(i)
        BY <2>2, <3>2, <4>2 DEF Submit, Absent
      <4>3. CASE StartJob(i)
        <5>1. history' = Append(history, [cluster EXCEPT ![i] =
                                            [state |-> "R", since |-> now + 1 + ClockAhead]])
          BY <4>3 DEF StartJob, ClusterChange
        <5>2. history'[now'][i].state = "R"
          BY <1>0, <2>1, <5>1 DEF TypeInv, DataTypes, Clusters, now
        <5> QED
          BY <2>2, <3>2, <5>2
      <4>4. CASE EndJob(i)
        <5>1. history' = Append(history, [cluster EXCEPT ![i] = Absent])
          BY <4>4 DEF EndJob, ClusterChange
        <5>2. history'[now'][i].state = "absent"
          BY <1>0, <2>1, <5>1 DEF TypeInv, DataTypes, Clusters, now, Absent
        <5> QED
          BY <2>2, <3>2, <5>2
      <4> QED
        BY <1>1, <4>2, <4>3, <4>4
    <3> QED
      BY <3>1, <3>2
  <2>3. \A t \in 1 .. now' : t \in 1 .. now \/ t = now'
    BY <1>0, <2>1
  <2>4. ASSUME NEW j \in Jobs, NEW t \in 1 .. now', NEW u \in 1 .. now',
               history'[t][j].state = "Q", history'[u][j].state = "Q"
        PROVE  history'[t][j].since = history'[u][j].since
    <3>1. CASE t \in 1 .. now /\ u \in 1 .. now
      BY <2>1, <2>4, <3>1 DEF JobsWaitOnce
    <3>2. CASE t \in 1 .. now /\ u = now'
      BY <2>1, <2>2, <2>4, <3>2
    <3>3. CASE t = now' /\ u \in 1 .. now
      BY <2>1, <2>2, <2>4, <3>3
    <3>4. CASE t = now' /\ u = now'
      BY <3>4
    <3> QED
      BY <2>3, <2>4, <3>1, <3>2, <3>3, <3>4
  <2> QED
    BY <2>4 DEF JobsWaitOnce
<1>2. CASE UNCHANGED history
  BY <1>2 DEF JobsWaitOnce, now
<1>3. \/ \E i \in Jobs : Submit(i) \/ StartJob(i) \/ EndJob(i)
      \/ UNCHANGED history
  BY DEF Next, Client, Cancel, BeginCollect, StartRefused, CommandExits, CommandKilled,
         ChildExits, StartCommand, PayloadDecoded, BaseCommandFails, VersionFound,
         VersionFallsBack, VersionUnknown, StampSnapshot, InspectionDone, InspectionFails,
         Output, pbsVars, vars
<1> QED
  BY <1>1, <1>2, <1>3

\* The queue histograms and the inspection take the wait of a job to the same
\* stamp, whatever happened to the job between the two commands.
LEMMA OneWaitPerJob == TypeInv /\ ReadsInOrder /\ JobsWaitOnce => WaitsAgree
<1> SUFFICES ASSUME TypeInv, ReadsInOrder, JobsWaitOnce, Succeeded,
                    LastSnapshot.JobInspection # Nil,
                    NEW w \in LastSnapshot.QueueWaits,
                    NEW i \in LastSnapshot.JobInspection.Jobs, w.job = i.job, i.state = "Q"
             PROVE  w.wait = i.elapsed
  BY DEF WaitsAgree
<1> DEFINE at == LastSnapshot.CollectedAt
<1>1. /\ PartsInOrder /\ LastSnapshot.QueueWaits = QueueWaits(LastSnapshot.Jobs, at)
      /\ call.started \in 1 .. now /\ now \in Nat /\ at \in 1 .. now
  BY ReadsAreInOrder, PresentCluster DEF ReadsInOrder, SnapshotRead, now
<1>2. PICK t \in call.started .. now : LastSnapshot.Jobs = history[t]
  BY <1>1 DEF PartsInOrder
<1>3. PICK u \in at .. now : LastSnapshot.JobInspection = JobInspection(history[u], at)
  BY <1>1 DEF PartsInOrder
<1> HIDE DEF at
<1>4. PICK j \in Jobs : /\ history[t][j].state = "Q"
                        /\ w = [job |-> j, wait |-> ElapsedAt(history[t][j].since, at)]
  BY <1>1, <1>2 DEF QueueWaits, JobsIn
<1>5. PICK k \in Jobs :
         i = [job |-> k, state |-> history[u][k].state,
              elapsed |-> ElapsedAt(history[u][k].since, at)]
  BY <1>3 DEF JobInspection, JobsIn
<1>6. j = k /\ history[u][k].state = "Q"
  BY <1>4, <1>5
<1>7. t \in 1 .. now /\ u \in 1 .. now
  BY <1>1, <1>2, <1>3
<1>8. history[t][j].since = history[u][j].since
  BY <1>4, <1>6, <1>7 DEF JobsWaitOnce
<1> QED
  BY <1>4, <1>5, <1>6, <1>8

\* WaitsAgree for any cluster: it rests on the order of the reads, and on PBS
\* giving no two jobs the same id.
THEOREM WaitsOfOneJobAgree == Spec => []WaitsAgree
<1>1. Spec => []JobsWaitOnce
  BY TypeInvHolds, WaitOnceInit, WaitOnceStep, PTL DEF Spec
<1> QED
  BY <1>1, TypeInvHolds, ReadsHold, OneWaitPerJob, PTL

-----------------------------------------------------------------------------
(* The contract. *)

\* A collection that was begun under a done context gets no further than its
\* first command, which does not start.
DoomedGoesNowhere ==
    Collecting /\ call.doomed =>
        /\ cancelled
        /\ pc = "jobs"
        /\ proc \in {"none", "exited"}
        /\ out.kind = "failed"

\* No collection has begun.
LEMMA DoomedInit == Init => DoomedGoesNowhere
BY DEF Init, DoomedGoesNowhere, Collecting

\* Nothing but a refused start follows, and then the failure of Collect.
LEMMA DoomedStep == TypeInv /\ DoomedGoesNowhere /\ [Next]_vars => DoomedGoesNowhere'
<1> SUFFICES ASSUME TypeInv, DoomedGoesNowhere, [Next]_vars PROVE DoomedGoesNowhere'
  OBVIOUS
<1>1. CASE \E j \in Jobs : Submit(j) \/ StartJob(j) \/ EndJob(j)
  BY <1>1, ClusterGrows DEF DoomedGoesNowhere, Collecting
<1>2. CASE BeginCollect
  <2>1. /\ pc' = "jobs" /\ call'.doomed = cancelled /\ cancelled' = cancelled
        /\ pc = "idle" /\ proc' = proc /\ out' = out
    BY <1>2 DEF BeginCollect, Collecting, pbsVars, processVars
  <2>2. proc = "none" /\ out = NoOutput
    BY <2>1 DEF TypeInv, Progress
  <2> QED
    BY <2>1, <2>2 DEF DoomedGoesNowhere, NoOutput
<1>3. CASE Cancel \/ StartCommand \/ StartRefused \/ CommandExits \/ CommandKilled \/ ChildExits
  BY <1>3
  DEF Cancel, StartCommand, StartRefused, CommandExits, CommandKilled, ChildExits, AtCommand,
      Commands, BaseCommands, DoomedGoesNowhere, Collecting, NoOutput, pbsVars, processVars,
      TypeInv, Progress
<1>4. CASE PayloadDecoded \/ VersionFound \/ VersionFallsBack \/ VersionUnknown \/ StampSnapshot
           \/ InspectionDone \/ InspectionFails
  <2>1. pc = "jobs" => out.kind = "ok"
    BY <1>4
    DEF PayloadDecoded, VersionFound, VersionFallsBack, VersionUnknown, StampSnapshot,
        InspectionDone, InspectionFails, Output, VersionCommands
  <2>2. Collecting
    BY <1>4
    DEF PayloadDecoded, VersionFound, VersionFallsBack, VersionUnknown, StampSnapshot,
        InspectionDone, InspectionFails, VersionCommands, BaseCommands, Collecting
  <2>3. call'.doomed = call.doomed
    <3>1. UNCHANGED call \/ \E answer : Return(answer)
      BY <1>4
      DEF PayloadDecoded, VersionFound, VersionFallsBack, VersionUnknown, StampSnapshot,
          InspectionDone, InspectionFails
    <3> QED
      BY <3>1 DEF Return
  <2> QED
    BY <2>1, <2>2, <2>3 DEF DoomedGoesNowhere
<1>5. CASE BaseCommandFails
  BY <1>5 DEF BaseCommandFails, Return, DoomedGoesNowhere, Collecting
<1>6. CASE UNCHANGED vars
  BY <1>6 DEF vars, DoomedGoesNowhere, Collecting
<1> QED
  BY <1>1, <1>2, <1>3, <1>4, <1>5, <1>6 DEF Next, Client

\* The call of the contract.
ContractCall == [phase    |-> IF Collecting THEN "collecting" ELSE "idle",
                 started  |-> call.started,
                 doomed   |-> call.doomed,
                 returned |-> Summary(call.returned)]

\* A failed collection is summarised as it is.
LEMMA FailedSummary == Summary(Failed) = Failed
BY DEF Summary, Failed

\* Every inspection makes a result with the stamp.
LEMMA ResultsOfInspections ==
    ASSUME NEW at, NEW attempted, NEW error, NEW data,
           [attempted |-> attempted, error |-> error, data |-> data] \in Inspections
    PROVE  [Snapshot |-> [CollectedAt |-> at, JobInspection |-> data],
            JobInspectionAttempted |-> attempted,
            JobInspectionError     |-> error] \in SnapshotResults(at)
<1> DEFINE k == [attempted |-> attempted, error |-> error, data |-> data]
           Result(t, i) == [Snapshot |-> [CollectedAt |-> t, JobInspection |-> i.data],
                            JobInspectionAttempted |-> i.attempted,
                            JobInspectionError     |-> i.error]
<1>1. SnapshotResults(at) = {Result(t, i) : t \in {NoTime, at}, i \in Inspections}
  BY DEF SnapshotResults
<1>2. SUFFICES Result(at, k) \in SnapshotResults(at)
  OBVIOUS
<1>3. k \in Inspections
  OBVIOUS
<1> HIDE DEF Result, k
<1> QED
  BY <1>1, <1>3

\* The contract allows what Collect returns without an error.
LEMMA SuccessAllowed ==
    ASSUME NEW at, NEW inspection \in JobInspections \union {Nil}, NEW error \in BOOLEAN,
           \/ ~IncludeDetailedJobData /\ inspection = Nil /\ error = FALSE
           \/ IncludeDetailedJobData /\ inspection = Nil /\ error = TRUE
           \/ /\ IncludeDetailedJobData /\ inspection # Nil /\ error = FALSE
              /\ Cardinality({i \in inspection.Jobs : i.state = "R"}) \in RunningJobs
    PROVE  Summary(Success(at, inspection, error)) \in CollectReturns(at, FALSE)
<1> DEFINE running == Cardinality({i \in inspection.Jobs : i.state = "R"})
           data == IF inspection = Nil THEN Nil ELSE running
<1>1. Summary(Success(at, inspection, error)) =
         [err |-> FALSE,
          result |-> [Snapshot |-> [CollectedAt |-> at, JobInspection |-> data],
                      JobInspectionAttempted |-> IncludeDetailedJobData,
                      JobInspectionError |-> error]]
  BY DEF Summary, Success
<1>2. [attempted |-> IncludeDetailedJobData, error |-> error, data |-> data] \in Inspections
  <2> HIDE DEF running
  <2>1. IncludeDetailedJobData \in BOOLEAN
    BY ClientAssumption DEF IncludeDetailedJobData
  <2>2. CASE ~IncludeDetailedJobData
    BY <2>1, <2>2 DEF Inspections
  <2>3. CASE IncludeDetailedJobData /\ inspection = Nil
    BY <2>1, <2>3 DEF Inspections
  <2>4. CASE IncludeDetailedJobData /\ inspection # Nil
    <3>1. running \in RunningJobs /\ data = running /\ error = FALSE
      BY <2>4 DEF running
    <3> HIDE DEF data
    <3> QED
      BY <2>1, <2>4, <3>1 DEF Inspections
  <2> QED
    BY <2>1, <2>2, <2>3, <2>4
<1> HIDE DEF data, running
<1>3. [Snapshot |-> [CollectedAt |-> at, JobInspection |-> data],
       JobInspectionAttempted |-> IncludeDetailedJobData,
       JobInspectionError |-> error] \in SnapshotResults(at)
  BY <1>2, ResultsOfInspections
<1> QED
  BY <1>1, <1>3 DEF CollectReturns

\* The contract of the interface and the one this module reads are the same.
LEMMA SameContract ==
    \A at, doomed : Contract!CollectReturns(at, doomed) = CollectReturns(at, doomed)
BY DEF Contract!CollectReturns, Contract!SnapshotResults, Contract!Inspections,
       Contract!IncludeDetailedJobData, Contract!Failed, Contract!NilSnapshotResult,
       Contract!NoTime, CollectReturns, SnapshotResults, Inspections,
       IncludeDetailedJobData, Failed, NilSnapshotResult, NoTime

\* Where Collect returns, the contract answers.
LEMMA ReturnAnswers ==
    ASSUME TypeInv, Collecting, pc' = "idle", NEW answer, Return(answer),
           UNCHANGED <<history, cancelled>>,
           NEW at \in call.started .. now,
           Summary(answer) \in CollectReturns(at, call.doomed)
    PROVE  Contract!CollectAnswers
<1>1. ContractCall' = [phase |-> "idle", started |-> call.started, doomed |-> call.doomed,
                       returned |-> Summary(answer)]
  BY DEF ContractCall, Return, Collecting
<1>2. /\ ContractCall.phase = "collecting" /\ ContractCall.started = call.started
      /\ ContractCall.doomed = call.doomed
  BY DEF ContractCall
<1>3. Summary(answer) \in Contract!CollectReturns(at, ContractCall.doomed)
  BY <1>2, SameContract
<1>4. /\ ContractCall' = [phase |-> "idle", started |-> ContractCall.started,
                          doomed |-> ContractCall.doomed, returned |-> Summary(answer)]
      /\ at \in ContractCall.started .. now
      /\ UNCHANGED <<now, cancelled>>
  BY <1>1, <1>2 DEF now
<1>5. Contract!Collecting
  BY <1>2 DEF Contract!Collecting, ContractCall
<1> QED
  BY <1>3, <1>4, <1>5 DEF Contract!CollectAnswers, ContractCall

\* Every step of the client, of its commands and of the cluster is a step of the
\* contract, or none.
LEMMA ContractStep ==
    TypeInv /\ FailuresOnTheWay /\ ReadsInOrder /\ DoomedGoesNowhere /\ [Next]_vars =>
        [Contract!CallNext]_(Contract!callVars)
<1> SUFFICES ASSUME TypeInv, FailuresOnTheWay, ReadsInOrder, DoomedGoesNowhere, [Next]_vars
             PROVE  [Contract!CallNext]_(Contract!callVars)
  OBVIOUS
<1>0. now \in Nat /\ now > 0 /\ IncludeDetailedJobData \in BOOLEAN
  BY PresentCluster, ClientAssumption DEF IncludeDetailedJobData
<1>1. ASSUME UNCHANGED <<history, cancelled, call>>, Collecting' <=> Collecting
      PROVE  UNCHANGED Contract!callVars
  <2>1. UNCHANGED <<now, cancelled, ContractCall>>
    BY <1>1 DEF now, ContractCall, Summary
  <2> QED
    BY <2>1 DEF Contract!callVars, ContractCall
<1>2. ASSUME NEW j \in Jobs, Submit(j) \/ StartJob(j) \/ EndJob(j)
      PROVE  Contract!TimePasses
  <2>1. /\ now' \in Nat /\ now' > now /\ UNCHANGED <<cancelled, pc, call>>
    BY <1>2, ClusterGrows
  <2>2. UNCHANGED <<cancelled, ContractCall>>
    BY <2>1 DEF ContractCall, Collecting, Summary
  <2> QED
    BY <2>1, <2>2 DEF Contract!TimePasses, ContractCall
<1>3. CASE Cancel
  <2>1. /\ ~cancelled /\ cancelled' = TRUE /\ UNCHANGED <<history, pc, call>>
    BY <1>3 DEF Cancel
  <2>2. UNCHANGED <<now, ContractCall>>
    BY <2>1 DEF ContractCall, Collecting, Summary, now
  <2>3. Contract!ContextDone
    BY <2>1, <2>2 DEF Contract!ContextDone, ContractCall
  <2> QED
    BY <2>3 DEF Contract!CallNext
<1>4. CASE BeginCollect
  <2>1. /\ ~Collecting /\ Collecting' /\ UNCHANGED <<history, cancelled>>
        /\ call' = [started |-> now, doomed |-> cancelled, returned |-> Failed]
    BY <1>4 DEF BeginCollect, Collecting, pbsVars
  <2>2. ContractCall' = [phase |-> "collecting", started |-> now, doomed |-> cancelled,
                         returned |-> Failed]
    BY <2>1, FailedSummary DEF ContractCall
  <2>3. ~Contract!Collecting /\ Contract!Failed = Failed
    BY <2>1 DEF Contract!Collecting, Contract!Failed, Failed
  <2>4. UNCHANGED <<now, cancelled>>
    BY <2>1 DEF now
  <2>5. Contract!Collect
    BY <2>2, <2>3, <2>4 DEF Contract!Collect, ContractCall
  <2> QED
    BY <2>5 DEF Contract!CallNext
<1>5. CASE BaseCommandFails
  <2>1. /\ Collecting /\ pc' = "idle" /\ Return(Failed) /\ UNCHANGED <<history, cancelled>>
    BY <1>5 DEF BaseCommandFails, Return, Output, pbsVars, Collecting, BaseCommands
  <2>2. now \in call.started .. now
    BY <1>0, <2>1 DEF ReadsInOrder
  <2>3. Summary(Failed) \in CollectReturns(now, call.doomed)
    BY FailedSummary DEF CollectReturns
  <2>4. Contract!CollectAnswers
    BY <2>1, <2>2, <2>3, ReturnAnswers
  <2> QED
    BY <2>4 DEF Contract!CallNext
<1>6. ASSUME NEW at \in call.started .. now, NEW answer, pc # "jobs", Collecting, pc' = "idle",
             Return(answer), UNCHANGED <<history, cancelled>>,
             Summary(answer) \in CollectReturns(at, FALSE)
      PROVE  Contract!CollectAnswers
  <2>1. call.doomed = FALSE
    BY <1>6 DEF DoomedGoesNowhere, TypeInv, DataTypes
  <2> QED
    BY <1>6, <2>1, ReturnAnswers
<1>7. CASE StampSnapshot
  <2>1. /\ pc = "stamp" /\ UNCHANGED <<history, cancelled>> /\ Collecting
    BY <1>7 DEF StampSnapshot, Collecting, pbsVars
  <2>2. CASE IncludeDetailedJobData
    <3>1. UNCHANGED call /\ Collecting'
      BY <1>7, <2>2 DEF StampSnapshot, Collecting
    <3> QED
      BY <1>1, <2>1, <3>1
  <2>3. CASE ~IncludeDetailedJobData
    <3>1. Return(Success(now, Nil, FALSE)) /\ pc' = "idle"
      BY <1>7, <2>3 DEF StampSnapshot, StampTime, Return
    <3>2. Summary(Success(now, Nil, FALSE)) \in CollectReturns(now, FALSE)
      BY <2>3, SuccessAllowed
    <3>3. now \in call.started .. now
      BY <1>0, <2>1 DEF ReadsInOrder
    <3>4. Contract!CollectAnswers
      BY <1>6, <2>1, <3>1, <3>2, <3>3
    <3> QED
      BY <3>4 DEF Contract!CallNext
  <2> QED
    BY <2>2, <2>3
<1>8. CASE InspectionDone \/ InspectionFails
  <2>1. /\ pc = "inspection" /\ pc' = "idle" /\ UNCHANGED <<history, cancelled>> /\ Collecting
    BY <1>8 DEF InspectionDone, InspectionFails, Return, Output, pbsVars, Collecting
  <2>2. collectedAt \in call.started .. now /\ collectedAt \in Nat
    BY <2>1 DEF ReadsInOrder, TypeInv, DataTypes
  <2>3. IncludeDetailedJobData
    BY <2>1 DEF Progress, TypeInv
  <2>4. CASE InspectionDone
    <3>1. /\ Return(Success(collectedAt, JobInspection(out.seen, collectedAt), FALSE))
          /\ out.kind = "ok"
      BY <2>4 DEF InspectionDone, Output
    <3>2. out.seen \in Clusters
      BY <3>1 DEF TypeInv, DataTypes
    <3>3. Summary(Success(collectedAt, JobInspection(out.seen, collectedAt), FALSE))
             \in CollectReturns(collectedAt, FALSE)
      BY <2>2, <2>3, <3>2, SuccessAllowed, InspectionOfCluster, RunningCounted
    <3>4. Contract!CollectAnswers
      BY <1>6, <2>1, <2>2, <3>1, <3>3
    <3> QED
      BY <3>4 DEF Contract!CallNext
  <2>5. CASE InspectionFails
    <3>1. Return(Success(collectedAt, Nil, TRUE))
      BY <2>5 DEF InspectionFails
    <3>2. Summary(Success(collectedAt, Nil, TRUE)) \in CollectReturns(collectedAt, FALSE)
      BY <2>3, SuccessAllowed
    <3>3. Contract!CollectAnswers
      BY <1>6, <2>1, <2>2, <3>1, <3>2
    <3> QED
      BY <3>3 DEF Contract!CallNext
  <2> QED
    BY <1>8, <2>4, <2>5
<1>9. CASE StartCommand \/ StartRefused \/ CommandExits \/ CommandKilled \/ ChildExits
           \/ UNCHANGED vars
  <2>1. UNCHANGED <<history, cancelled, call, pc>>
    BY <1>9
    DEF StartCommand, StartRefused, CommandExits, CommandKilled, ChildExits, vars, pbsVars
  <2> QED
    BY <1>1, <2>1 DEF Collecting
<1>10. CASE PayloadDecoded \/ VersionFound \/ VersionFallsBack \/ VersionUnknown
  <2>1. /\ UNCHANGED <<history, cancelled, call>> /\ pc \in BaseCommands \union VersionCommands
    BY <1>10
    DEF PayloadDecoded, VersionFound, VersionFallsBack, VersionUnknown, Output, pbsVars,
        VersionCommands
  <2>2. pc' # "idle"
    <3>1. CASE PayloadDecoded
      BY <3>1, Successor DEF PayloadDecoded
    <3>2. CASE VersionFound \/ VersionFallsBack \/ VersionUnknown
      BY <3>2 DEF VersionFound, VersionFallsBack, VersionUnknown
    <3> QED
      BY <1>10, <3>1, <3>2
  <2> QED
    BY <1>1, <2>1, <2>2 DEF Collecting, BaseCommands, VersionCommands
<1>11. (\E j \in Jobs : Submit(j) \/ StartJob(j) \/ EndJob(j)) => Contract!CallNext
  BY <1>2 DEF Contract!CallNext
<1> QED
  BY <1>3, <1>4, <1>5, <1>7, <1>8, <1>9, <1>10, <1>11 DEF Next, Client

\* The first state of the client is the first of the contract.
LEMMA ContractInit == Init => Contract!CallInit
<1> SUFFICES ASSUME Init PROVE Contract!CallInit
  OBVIOUS
<1>1. now = 1 /\ ~Collecting /\ cancelled = FALSE
  BY DEF Init, now, Collecting
<1>2. ContractCall = [phase |-> "idle", started |-> NoTime, doomed |-> FALSE,
                      returned |-> Failed]
  BY <1>1, FailedSummary DEF Init, ContractCall
<1>3. Contract!Failed = Failed /\ Contract!NoTime = NoTime
  BY DEF Contract!Failed, Failed, Contract!NoTime, NoTime
<1> QED
  BY <1>1, <1>2, <1>3 DEF Contract!CallInit, ContractCall

\* KeepsContract for any cluster and any options: whatever its commands do, the
\* client returns only what the worker relies on, stamped during the call.
THEOREM ClientKeepsContract == Spec => KeepsContract
<1>1. Spec => []DoomedGoesNowhere
  BY TypeInvHolds, DoomedInit, DoomedStep, PTL DEF Spec
<1> QED
  BY <1>1, TypeInvHolds, FailuresHold, ReadsHold, ContractInit, ContractStep, PTL
  DEF Spec, KeepsContract, Contract!CallSpec
=============================================================================
