----------------------------- MODULE NodeTable ------------------------------
(***************************************************************************)
(* Nodes, from the answer of pbsnodes to series: parseNodesJSON and        *)
(* collectNodes.  Of a node only what is added up or counted is told       *)
(* apart: its state, its jobs and, of its processors, graphics processors  *)
(* and memory, what is available and what there is in all.  PBS gives each *)
(* in one of two fields, as available/total; such a text is the sequence   *)
(* of its parts between the slashes, a part the set of the number it is.   *)
(***************************************************************************)
EXTENDS Scalars, FiniteSetsExt

Resources == {"cpus", "gpus", "memory"}

NodeStates == {"free", "job-busy", "offline", "down"}

\* Faulty: a state nobody thought of is kept as it is.
KeepNodeState(state) == IF state = "<various>" THEN "job-busy" ELSE state

NormalizeNodeState(state) ==
    CASE state = "<various>"     -> "job-busy"
      [] state \in NodeStates    -> state
      [] OTHER                   -> "down"

\* A part that is not a number is zero.
ParseFraction(parts) ==
    IF Len(parts) # 2
    THEN [available |-> 0, total |-> 0]
    ELSE [available |-> ValueOrZero(parts[1]), total |-> ValueOrZero(parts[2])]

NoNodeData == [Nodes |-> [node \in {} |-> 0], Count |-> [state \in NodeStates |-> 0]]

\* njobs, "Total Jobs" and "Running Jobs", or else the length of the list; the
\* number of the field jobs is shadowed by that list.
JobCount(record) ==
    LET count == FirstPositive(record.counts)
    IN  IF count = 0 THEN record.JobsList ELSE count

\* parseNodesJSON: a node in no known state is left out.  A state that is none
\* of the first three is counted as down.
ParseNodes(payload) ==
    LET records       == Records(payload.nodes, payload.Nodes)
        stateOf(node) == FirstText(records[node].states, "")
        known         == {node \in DOMAIN records : stateOf(node) # "state-unknown"}
        normalized    == [node \in known |-> NormalizeNodeState(stateOf(node))]
        counted       == [node \in known |->
                             IF normalized[node] \in NodeStates \ {"down"}
                             THEN normalized[node] ELSE "down"]
    IN  [Nodes |-> [node \in known |->
                       [State  |-> normalized[node],
                        Jobs   |-> JobCount(records[node]),
                        Amount |-> [r \in Resources |->
                                       ParseFraction(FirstText(records[node][r], <<>>))]]],
         Count |-> [state \in NodeStates |->
                       Cardinality({node \in known : counted[node] = state})]]

-----------------------------------------------------------------------------
(* Series. *)

\* Three series of one node.
AmountSeries(amount) ==
    [available |-> amount.available,
     used      |-> amount.total - amount.available,
     total     |-> amount.total]

\* used/total, of the nodes that have any of the resource.
Utilization(nodes, r) ==
    [node \in {n \in DOMAIN nodes : nodes[n].Amount[r].total > 0} |->
        <<AmountSeries(nodes[node].Amount[r]).used, nodes[node].Amount[r].total>>]

\* The three sums of the loop of collectNodes.
Cluster(nodes, r) ==
    [part \in {"available", "used", "total"} |->
        SumFunction([node \in DOMAIN nodes |-> AmountSeries(nodes[node].Amount[r])[part]])]
=============================================================================
