--------------------------- MODULE MCAggregation ----------------------------
(***************************************************************************)
(* A small instance of Aggregation for TLC.                                *)
(***************************************************************************)
EXTENDS Aggregation

Job(queue, state, euser, owner, age) ==
    [Queue |-> queue, JobState |-> state, EffectiveUser |-> euser,
     JobOwner |-> owner, Age |-> age]

\* Queued ahead of the clock, on the bound of a bucket, above all bounds, by
\* lower-case letter, without queue, without qtime; running with either name
\* of its user; in a state without a name.
SomeRecords ==
    {Job("batch", "Q", "ann", <<"ann">>, -1),
     Job("batch", "q", "", <<"bob", "host">>, 5),
     Job("long", "Q", "bob", <<"ann">>, 9),
     Job("", "Q", "ann", <<"ann">>, 5),
     Job("batch", "Q", "", <<"">>, NoAge),
     Job("batch", "R", "", <<"ann", "host">>, 5),
     Job("long", "R", "", <<"">>, 9),
     Job("batch", "S", "bob", <<"">>, 1)}

Ids == {<<"1", ".server">>, <<"2", ".server">>, <<"3", ".server">>}

SomeJobs == UNION {[ids -> SomeRecords] : ids \in
    {{}, {<<"1", ".server">>}, {<<"1", ".server">>, <<"2", ".server">>}, Ids}}

\* What the second answer says of a job in addition: a resource in each
\* spelling, one left out, and a use that is out of date unless the job runs.
Detailed(job) == job @@
    [StartAge       |-> IF job.JobState \in {"Q", "q"} THEN NoAge ELSE 2,
     Resource_List  |-> [r \in RequestedResources |->
                            CASE r = "mem"      -> {[form |-> "other", value |-> 0]}
                              [] r = "walltime" -> {[form |-> "plain", value |-> 0]}
                              [] r = "ncpus"    -> {[form |-> "plain", value |-> 2]}
                              [] r = "nodect"   -> {[form |-> "none",  value |-> 0]}
                              [] OTHER          -> {}],
     resources_used |-> [r \in UsedResources |->
                            IF r \in {"cpupercent", "cput"}
                            THEN {[form |-> "plain", value |-> 150]} ELSE {}]]

AllDetailed(jobs) == [id \in DOMAIN jobs |-> Detailed(jobs[id])]

SomeNumbers == {"1", "2", "01"}

\* 1.server01, 2.server01, 1[].server01, interactive
RawIds == {<<"1", ".server", "01">>, <<"2", ".server", "01">>,
           <<"1", "[].server", "01">>, <<"interactive">>}

\* foo, foo@host, foo@bar@host, bar@host, @host
RawOwners == {<<"foo">>, <<"foo", "host">>, <<"foo", "bar", "host">>,
              <<"bar", "host">>, <<"", "host">>}

DetailedJobs ==
    UNION {[ids -> {Detailed(Job("batch", "R", "", owner, 5)) : owner \in RawOwners}] :
              ids \in SUBSET RawIds}

Number(value) == {[form |-> "plain", value |-> value]}

Amounts(available, total) == <<<<{available}, {total}>>, <<>>>>

\* States in either field; fractions in either field, one alone, one of which
\* a part is no number.
SomeNodes ==
    LET Node(state, summary, cpus, gpus) ==
            [states |-> <<state, summary>>, cpus |-> cpus, gpus |-> gpus,
             memory |-> Amounts(4, 8), JobsList |-> 1,
             counts |-> <<{}, Number(0), Number(2)>>]
    IN  [n1 |-> Node("free", "", Amounts(3, 4), <<<<>>, <<{1}, {2}>>>>),
         n2 |-> Node("", "<various>", Amounts(0, 4), <<<<{2}>>, <<{1}, {2}>>>>),
         n3 |-> Node("state-unknown", "", Amounts(4, 4), Amounts(2, 2)),
         n4 |-> Node("offline", "free", <<<<>>, <<>>>>, <<<<{1}, {}>>, <<>>>>),
         n5 |-> Node("down", "", Amounts(0, 0), <<<<>>, <<>>>>),
         n6 |-> Node("resv-exclusive", "", Amounts(4, 4), <<<<>>, <<>>>>)]

QueueRecord(counts) ==
    [state_count |-> counts, enabled |-> "true", started |-> "1",
     walltimes |-> <<{}, {[form |-> "other", value |-> 0]}, Number(6)>>]

ServerRecord(counts) ==
    [server_state |-> "Active", scheduling |-> "true", job_history_enable |-> "",
     state_count |-> counts,
     license_count |-> <<<<"Avail_Global", {3}>>, <<"Used", {1}>>, <<"Used", {2}>>>>,
     numbers |-> [name \in ServerNumbers \union ServerQuantities |-> Number(1)]]

Queues(records) == [Queue |-> Empty, Queues |-> records]
Servers(records) == [Server |-> records, Servers |-> Empty]
Nodes(records) == [nodes |-> Empty, Nodes |-> records]

\* One queue of the jobs, one that is idle, one without counts.
StaleQueues ==
    Queues([batch |-> QueueRecord(<<<<"Running", {1}>>, <<"Queued", {1}>>>>),
            idle  |-> QueueRecord(<<<<"Held", {2}>>>>)])

\* What PBS counts among jobs, after a part that does not count.
Counts(jobs, queues) ==
    LET in(states) == Cardinality({j \in DOMAIN jobs : /\ jobs[j].JobState \in states
                                                      /\ jobs[j].Queue \in queues})
    IN  <<<<"Transit", {}>>, <<"Running", {in({"R"})}>>, <<"Queued", {in({"Q", "q"})}>>>>

NamedQueues == {"batch", "long"}

CurrentQueues(jobs) ==
    Queues([queue \in NamedQueues |-> QueueRecord(Counts(jobs, {queue}))])

CurrentServers(jobs) ==
    Servers(1 :> ServerRecord(Counts(jobs, NamedQueues))
            @@ 2 :> ServerRecord(Counts(jobs, NamedQueues)))

Answer(jobs, nodes, queues, server, again) ==
    [jobs |-> jobs, nodes |-> nodes, queues |-> queues, server |-> server,
     inspection |-> again]

\* The answers agree; the tables are of another instant and the jobs are not
\* inspected; only the inspection knows of jobs.
SomeAnswers ==
    {Answer(jobs, Nodes(SomeNodes), CurrentQueues(jobs), CurrentServers(jobs),
            {AllDetailed(jobs)}) : jobs \in SomeJobs}
    \union {Answer(jobs, Nodes(Empty), StaleQueues, Servers(Empty), {}) : jobs \in SomeJobs}
    \union {Answer(Empty, Nodes(Empty), StaleQueues, Servers(Empty), {jobs}) :
               jobs \in DetailedJobs}

SmallBuckets == {1, 5}
=============================================================================
