---------------------------- MODULE ServerTables ----------------------------
(***************************************************************************)
(* Queues and the server, from the answers of qstat -Q and qstat -B to     *)
(* their series.  The names of servers are numbers, in the order of the    *)
(* strings; a switch is the text PBS gives, in lower case.                 *)
(***************************************************************************)
EXTENDS Scalars, FiniteSetsExt

BoolValue(text) == text \in {"true", "t", "yes", "y", "1"}

\* Go's maps: a key that is not there has the value zero.
At(map, key) == IF key \in DOMAIN map THEN map[key] ELSE 0

ParseQueues(payload) ==
    LET records == Records(payload.Queue, payload.Queues)
    IN  [queue \in DOMAIN records |->
            LET record == records[queue]
                counts == ParseNamedCounts(record.state_count)
            IN  [Running  |-> At(counts, "Running"),
                 Queued   |-> At(counts, "Queued"),
                 Enabled  |-> BoolValue(record.enabled),
                 Started  |-> BoolValue(record.started),
                 Walltime |-> FirstDuration(record.walltimes)]]

\* The states the server counts and their labels.
ServerStates == [running |-> "Running", queued |-> "Queued", held |-> "Held",
                 waiting |-> "Waiting", exiting |-> "Exiting"]

\* Numbers are pbs_server_jobs{state="total"}, the assigned resources, and the
\* limits of arrays and of the history.
ServerNumbers == {"total_jobs", "ncpus", "nodect", "max_array_size"}
ServerQuantities == {"mem", "job_history_duration"}

NoServerData ==
    [State    |-> "", Scheduling |-> FALSE, JobHistoryEnabled |-> FALSE,
     Jobs     |-> [state \in DOMAIN ServerStates |-> 0],
     Numbers  |-> [name \in ServerNumbers \union ServerQuantities |-> 0],
     Licenses |-> [available |-> 0, used |-> 0]]

\* Of several servers the first by name.
ParseServer(payload) ==
    LET records == Records(payload.Server, payload.Servers)
        record  == records[Min(DOMAIN records)]
        counts  == ParseNamedCounts(record.state_count)
        license == ParseNamedCounts(record.license_count)
    IN  IF DOMAIN records = {} THEN NoServerData ELSE
        [State    |-> record.server_state,
         Scheduling |-> BoolValue(record.scheduling),
         JobHistoryEnabled |-> BoolValue(record.job_history_enable),
         Jobs     |-> [state \in DOMAIN ServerStates |-> At(counts, ServerStates[state])],
         Numbers  |-> [name \in ServerNumbers \union ServerQuantities |->
                          ValueOrZero(IF name \in ServerNumbers
                                      THEN OptionalNumber(record.numbers[name])
                                      ELSE OptionalQuantity(record.numbers[name]))],
         Licenses |-> [available |-> At(license, "Avail_Global"), used |-> At(license, "Used")]]

\* collectServer.
ServerSeries(server) ==
    [active              |-> server.State = "Active",
     scheduling_enabled  |-> server.Scheduling,
     job_history_enabled |-> server.JobHistoryEnabled,
     jobs     |-> [label \in DOMAIN server.Jobs \union {"total"} |->
                      IF label = "total" THEN server.Numbers["total_jobs"]
                      ELSE server.Jobs[label]],
     numbers  |-> [name \in DOMAIN server.Numbers \ {"total_jobs"} |-> server.Numbers[name]],
     licenses |-> server.Licenses]
=============================================================================
