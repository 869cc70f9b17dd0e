---------------------------- MODULE FamilyProofs ----------------------------
(***************************************************************************)
(* Proofs that the families of /metrics agree: those of the nodes among    *)
(* each other, those of jobs, queues and server, and the aggregates of     *)
(* the jobs with the series of each of them.                               *)
(***************************************************************************)
EXTENDS AggregationProofs, SequenceTheorems

-----------------------------------------------------------------------------
(* Values. *)

\* The first text is one of the texts, or blank.
LEMMA FirstOfTexts ==
    ASSUME NEW texts, IsSequence(texts), NEW blank
    PROVE  FirstText(texts, blank) = blank \/ FirstText(texts, blank) \in Range(texts)
<1> DEFINE given == {i \in DOMAIN texts : texts[i] # blank}
<1>1. given \subseteq Nat
  BY DEF IsSequence
<1>2. given # {} => Min(given) \in given
  <2> HIDE DEF given
  <2> QED
    BY <1>1, LeastNumber DEF Min
<1>3. given # {} => texts[Min(given)] \in Range(texts)
  <2>1. \A i \in given : texts[i] \in Range(texts)
    BY DEF Range
  <2> HIDE DEF given
  <2> QED
    BY <1>2, <2>1
<1> QED
  BY <1>3 DEF FirstText

\* A value of the set, or zero.
LEMMA OptionalIsNumber ==
    ASSUME NEW optional \in SUBSET Int
    PROVE  /\ ValueOrZero(optional) \in Int
           /\ optional \subseteq Nat => ValueOrZero(optional) \in Nat
<1>1. CASE optional = {}
  <2>1. ValueOrZero(optional) = 0
    BY <1>1 DEF ValueOrZero
  <2> QED
    BY <2>1
<1>2. CASE optional # {}
  <2>1. ValueOrZero(optional) \in optional
    BY <1>2 DEF ValueOrZero
  <2> QED
    BY <2>1
<1> QED
  BY <1>1, <1>2

\* Fractions are numbers, whatever their text; the total is never negative.
LEMMA FractionIsNumbers ==
    ASSUME NEW parts \in Seq(SUBSET Int), Len(parts) = 2 => parts[2] \subseteq Nat
    PROVE  ParseFraction(parts).available \in Int /\ ParseFraction(parts).total \in Nat
<1>1. CASE Len(parts) # 2
  BY <1>1 DEF ParseFraction
<1>2. CASE Len(parts) = 2
  <2>1. parts[1] \in SUBSET Int /\ parts[2] \in SUBSET Int
    BY <1>2
  <2>2. ValueOrZero(parts[1]) \in Int /\ ValueOrZero(parts[2]) \in Nat
    BY <1>2, <2>1, OptionalIsNumber
  <2> QED
    BY <1>2, <2>2 DEF ParseFraction
<1> QED
  BY <1>1, <1>2

\* No text is a fraction of zeros.
LEMMA NoFraction ==
    ParseFraction(<<>>).available \in Int /\ ParseFraction(<<>>).total \in Nat
<1>1. Len(<<>>) = 0
  BY EmptySeq
<1>2. ParseFraction(<<>>) = [available |-> 0, total |-> 0]
  BY <1>1 DEF ParseFraction
<1> QED
  BY <1>2

-----------------------------------------------------------------------------
(* Nodes. *)

\* What ParseNodes makes of the nodes of an answer.
LEMMA NodesParsed ==
    ASSUME NEW answer \in Answers
    PROVE  LET data == ParseNodes(answer.nodes)
               nodes == data.Nodes
           IN  /\ IsFiniteSet(DOMAIN nodes)
               /\ \A node \in DOMAIN nodes :
                     /\ nodes[node].State \in NodeStates
                     /\ \A r \in Resources :
                           /\ nodes[node].Amount[r].available \in Int
                           /\ nodes[node].Amount[r].total \in Nat
               /\ \A state \in NodeStates :
                     data.Count[state] =
                        Cardinality({node \in DOMAIN nodes : nodes[node].State = state})
<1> DEFINE data == ParseNodes(answer.nodes)
           nodes == data.Nodes
           records == NodeRecords(answer)
           stateOf(node) == FirstText(records[node].states, "")
           known == {node \in DOMAIN records : stateOf(node) # "state-unknown"}
           normalized(node) == NormalizeNodeState(stateOf(node))
           text(node, r) == FirstText(records[node][r], <<>>)
<1>1. /\ DOMAIN nodes = known
      /\ \A node \in known :
            /\ nodes[node].State = normalized(node)
            /\ \A r \in Resources : nodes[node].Amount[r] = ParseFraction(text(node, r))
  BY DEF ParseNodes, NodeRecords
<1>2. \A state \in NodeStates :
         data.Count[state] =
            Cardinality({node \in known :
               (IF normalized(node) \in NodeStates \ {"down"}
                THEN normalized(node) ELSE "down") = state})
  <2> DEFINE counted == [node \in known |->
                           IF normalized(node) \in NodeStates \ {"down"}
                           THEN normalized(node) ELSE "down"]
  <2>1. \A state \in NodeStates :
           data.Count[state] = Cardinality({node \in known : counted[node] = state})
    BY DEF ParseNodes, NodeRecords
  <2> QED
    BY <2>1
<1>3. \A state : NormalizeNodeState(state) \in NodeStates
  BY DEF NormalizeNodeState, NodeStates
<1>4. \A node \in known : nodes[node].State \in NodeStates
  BY <1>1, <1>3
<1>5. ASSUME NEW node \in known, NEW r \in Resources
      PROVE  nodes[node].Amount[r].available \in Int /\ nodes[node].Amount[r].total \in Nat
  <2> DEFINE texts == records[node][r]
             parts == FirstText(texts, <<>>)
  <2>1. /\ IsSequence(texts)
        /\ \A t \in Range(texts) :
              t \in Seq(SUBSET Int) /\ (Len(t) = 2 => t[2] \subseteq Nat)
    BY TablesAssumption
  <2>2. nodes[node].Amount[r] = ParseFraction(parts)
    BY <1>1
  <2> HIDE DEF texts, nodes
  <2>3. parts = <<>> \/ parts \in Range(texts)
    BY <2>1, FirstOfTexts
  <2> HIDE DEF parts
  <2>4. CASE parts = <<>>
    BY <2>2, <2>4, NoFraction
  <2>5. CASE parts \in Range(texts)
    BY <2>1, <2>2, <2>5, FractionIsNumbers
  <2> QED
    BY <2>3, <2>4, <2>5
<1>6. IsFiniteSet(known)
  BY TablesAssumption, FS_Subset
<1>7. ASSUME NEW state \in NodeStates
      PROVE  data.Count[state] = Cardinality({node \in known : nodes[node].State = state})
  <2>1. \A node \in known :
           nodes[node].State =
              IF normalized(node) \in NodeStates \ {"down"} THEN normalized(node) ELSE "down"
    BY <1>1, <1>4
  <2>2. {node \in known : nodes[node].State = state} =
           {node \in known : (IF normalized(node) \in NodeStates \ {"down"}
                              THEN normalized(node) ELSE "down") = state}
    <3> HIDE DEF known, nodes, normalized
    <3> QED
      BY <2>1
  <2> QED
    BY <1>2, <2>2
<1> HIDE DEF known, nodes
<1> QED
  BY <1>1, <1>4, <1>5, <1>6, <1>7 DEF nodes

\* What is used of the resources of a cluster and what is available add up to the
\* total, and there is one exactly when some node has a utilization.
LEMMA ClusterAddsUp ==
    ASSUME NEW nodes, IsFiniteSet(DOMAIN nodes), NEW r,
           \A node \in DOMAIN nodes : /\ nodes[node].Amount[r].available \in Int
                                      /\ nodes[node].Amount[r].total \in Nat
    PROVE  LET sums == Cluster(nodes, r)
           IN  /\ sums.available + sums.used = sums.total
               /\ sums.total > 0 <=> DOMAIN Utilization(nodes, r) # {}
<1> DEFINE D == DOMAIN nodes
           of(part) == [node \in D |-> AmountSeries(nodes[node].Amount[r])[part]]
           sum(part) == SumFunctionOnSet(of(part), D)
<1>1. /\ Cluster(nodes, r).available = sum("available")
      /\ Cluster(nodes, r).used = sum("used")
      /\ Cluster(nodes, r).total = sum("total")
  BY DEF Cluster, SumFunction
<1>2. \A node \in D :
         /\ of("available")[node] = nodes[node].Amount[r].available
         /\ of("used")[node] = nodes[node].Amount[r].total - nodes[node].Amount[r].available
         /\ of("total")[node] = nodes[node].Amount[r].total
  BY DEF AmountSeries
<1>3. DOMAIN Utilization(nodes, r) = {node \in D : nodes[node].Amount[r].total > 0}
  BY DEF Utilization
<1> DEFINE available == of("available")
           used == of("used")
           total == of("total")
<1> HIDE DEF available, used, total
<1>4. \A node \in D :
         /\ available[node] \in Int /\ used[node] \in Int /\ total[node] \in Nat
         /\ total[node] = available[node] + used[node]
         /\ total[node] = nodes[node].Amount[r].total
  BY <1>2 DEF available, used, total
<1>5. SumFunctionOnSet(total, D) = SumFunctionOnSet(available, D) + SumFunctionOnSet(used, D)
  BY <1>4, SumOfSums
<1>6. SumFunctionOnSet(total, D) > 0 <=> \E node \in D : total[node] > 0
  BY <1>4, SumOfNaturals
<1>7. DOMAIN Utilization(nodes, r) # {} <=> \E node \in D : total[node] > 0
  BY <1>3, <1>4
<1> QED
  BY <1>1, <1>5, <1>6, <1>7 DEF available, used, total

\* The families of the nodes agree.
LEMMA NodesOfScrape == IInv => NodeCountsMatch
<1> SUFFICES ASSUME IInv, Shown PROVE NodeCountsMatch
  BY DEF NodeCountsMatch
<1> DEFINE nodes == nodeData.Nodes
<1>1. payload \in Answers /\ nodeData = ParseNodes(payload.nodes)
  BY DEF IInv, Loops, Scraped, Shown
<1>2. /\ IsFiniteSet(DOMAIN nodes)
      /\ \A node \in DOMAIN nodes :
            /\ nodes[node].State \in NodeStates
            /\ \A r \in Resources : /\ nodes[node].Amount[r].available \in Int
                                    /\ nodes[node].Amount[r].total \in Nat
      /\ \A state \in NodeStates :
            nodeData.Count[state] =
               Cardinality({node \in DOMAIN nodes : nodes[node].State = state})
  BY <1>1, NodesParsed
<1>3. /\ series.pbs_nodes = nodeData.Count
      /\ series.pbs_node_state = [node \in DOMAIN nodes |-> nodes[node].State]
      /\ \A r \in Resources : /\ series.pbs_node_utilization[r] = Utilization(nodes, r)
                              /\ series.pbs_cluster[r] = Cluster(nodes, r)
  BY ShownFamilies
<1> HIDE DEF nodes
<1>4. ASSUME NEW state \in NodeStates
      PROVE  series.pbs_nodes[state] =
                Cardinality({node \in DOMAIN series.pbs_node_state :
                                series.pbs_node_state[node] = state})
  <2>1. {node \in DOMAIN series.pbs_node_state : series.pbs_node_state[node] = state}
           = {node \in DOMAIN nodes : nodes[node].State = state}
    BY <1>3
  <2> QED
    BY <1>2, <1>3, <2>1
<1>5. ASSUME NEW node \in DOMAIN series.pbs_node_state
      PROVE  series.pbs_node_state[node] \in NodeStates
  BY <1>2, <1>3
<1>6. ASSUME NEW r \in Resources
      PROVE  LET sums == series.pbs_cluster[r] IN
             /\ sums.available + sums.used = sums.total
             /\ sums.total > 0 <=> DOMAIN series.pbs_node_utilization[r] # {}
  <2>1. \A node \in DOMAIN nodes : /\ nodes[node].Amount[r].available \in Int
                                   /\ nodes[node].Amount[r].total \in Nat
    BY <1>2
  <2> QED
    BY <1>2, <1>3, <2>1, ClusterAddsUp
<1> QED
  BY <1>4, <1>5, <1>6 DEF NodeCountsMatch

\* pbs_nodes counts the nodes that are shown, each in one of the four states, and
\* the cluster is made of the same nodes, whatever their fractions look like.
THEOREM NodeFamiliesAgree == Spec => []NodeCountsMatch
BY NodesOfScrape, AggregationInvariant, PTL

-----------------------------------------------------------------------------
(* Jobs, queues and the server. *)

\* The labels of the two states all three answers count, the names PBS has for
\* them, and their letters.
CountedStates == {<<"running", "Running", "R">>, <<"queued", "Queued", "Q">>}

\* A text of counts says a number for a name, and nothing else for it.
Says(parts, name, number) ==
    {part \in Range(parts) : part[1] = name} = {<<name, {number}>>}

\* The jobs in a state, those of them in a queue, and their numbers.
JobsIn(letter) == {j \in Jobs : ToUpper(payload.jobs[j].JobState) = letter}
NumberIn(letter, queue) == Cardinality({j \in JobsIn(letter) : payload.jobs[j].Queue = queue})

\* The number a text says for a name is the one that is taken from it.
LEMMA NamedCount ==
    ASSUME NEW parts, IsSequence(parts), NEW name, NEW number, Says(parts, name, number)
    PROVE  At(ParseNamedCounts(parts), name) = number
<1> DEFINE valid == {i \in DOMAIN parts : parts[i][2] # {}}
           named == {i \in valid : parts[i][1] = name}
           IsLast(i) == parts[i][1] = name /\ \A j \in valid : parts[j][1] = name => j <= i
           last == CHOOSE i \in valid : IsLast(i)
<1>1. PICK n \in Nat : DOMAIN parts = 1 .. n
  BY DEF IsSequence
<1>2. \A i \in named : parts[i] = <<name, {number}>>
  BY DEF Says, Range
<1>3. named # {}
  <2>1. <<name, {number}>> \in Range(parts)
    BY DEF Says
  <2>2. PICK i \in DOMAIN parts : parts[i] = <<name, {number}>>
    BY <2>1 DEF Range
  <2>3. parts[i][1] = name /\ parts[i][2] = {number}
    BY <2>2
  <2>4. i \in named
    BY <2>3
  <2> QED
    BY <2>4
<1>4. PICK i \in named : \A j \in named : j <= i
  <2>1. named \subseteq 1 .. n
    BY <1>1
  <2> HIDE DEF named
  <2> QED
    BY <1>3, <2>1, GreatestNumber
<1>5. i \in valid /\ IsLast(i)
  BY <1>4
<1>6. last \in valid /\ IsLast(last)
  <2> HIDE DEF valid, IsLast
  <2> QED
    BY <1>5
<1>7. last \in named
  BY <1>6
<1>8. name \in DOMAIN ParseNamedCounts(parts)
         /\ ParseNamedCounts(parts)[name] = ValueOrZero(parts[last][2])
  <2>1. name \in {parts[k][1] : k \in valid}
    BY <1>7
  <2> QED
    BY <2>1 DEF ParseNamedCounts
<1>9. parts[last][2] = {number}
  <2> HIDE DEF last
  <2> QED
    BY <1>2, <1>7
<1>10. ValueOrZero({number}) = number
  BY DEF ValueOrZero
<1> HIDE DEF last
<1> QED
  BY <1>8, <1>9, <1>10 DEF At

\* The server shows what the first of the servers says.
LEMMA ServerCounts ==
    ASSUME NEW answer \in Answers, DOMAIN ServerRecords(answer) # {},
           NEW c \in CountedStates, NEW number,
           \A server \in DOMAIN ServerRecords(answer) :
              Says(ServerRecords(answer)[server].state_count, c[2], number)
    PROVE  ServerSeries(ParseServer(answer.server)).jobs[c[1]] = number
<1> DEFINE records == ServerRecords(answer)
           first == Min(DOMAIN records)
           counts == ParseNamedCounts(records[first].state_count)
           server == ParseServer(answer.server)
<1>1. first \in DOMAIN records
  <2>1. DOMAIN records \subseteq Nat
    BY TablesAssumption
  <2> HIDE DEF records
  <2> QED
    BY <2>1, LeastNumber DEF Min, records
<1>2. At(counts, c[2]) = number
  <2>1. IsSequence(records[first].state_count)
    BY <1>1, TablesAssumption
  <2> QED
    BY <1>1, <2>1, NamedCount
<1>3. server.Jobs = [state \in DOMAIN ServerStates |-> At(counts, ServerStates[state])]
  BY DEF ParseServer, ServerRecords
<1> HIDE DEF server, counts
<1>4. c[1] \in DOMAIN server.Jobs /\ c[1] # "total" /\ server.Jobs[c[1]] = At(counts, c[2])
  BY <1>3 DEF CountedStates, ServerStates
<1>5. ServerSeries(server).jobs[c[1]] = server.Jobs[c[1]]
  BY <1>4 DEF ServerSeries
<1> QED
  BY <1>2, <1>4, <1>5 DEF server

\* A queue shows what the answer says of it.
LEMMA QueueCounts ==
    ASSUME NEW answer \in Answers, NEW queue \in DOMAIN QueueRecords(answer), NEW number
    PROVE  LET parts == QueueRecords(answer)[queue].state_count
           IN  /\ DOMAIN ParseQueues(answer.queues) = DOMAIN QueueRecords(answer)
               /\ Says(parts, "Running", number) =>
                     ParseQueues(answer.queues)[queue].Running = number
               /\ Says(parts, "Queued", number) =>
                     ParseQueues(answer.queues)[queue].Queued = number
<1> DEFINE parts == QueueRecords(answer)[queue].state_count
<1>1. IsSequence(parts)
  BY TablesAssumption
<1>2. \A name : Says(parts, name, number) => At(ParseNamedCounts(parts), name) = number
  BY <1>1, NamedCount
<1>3. /\ DOMAIN ParseQueues(answer.queues) = DOMAIN QueueRecords(answer)
      /\ ParseQueues(answer.queues)[queue].Running = At(ParseNamedCounts(parts), "Running")
      /\ ParseQueues(answer.queues)[queue].Queued = At(ParseNamedCounts(parts), "Queued")
  BY DEF ParseQueues, QueueRecords
<1> QED
  BY <1>2, <1>3

\* Two letters stand for a queued job.
LEMMA QueuedLetters ==
    ASSUME NEW state
    PROVE  state \in {"Q", "q"} <=> ToUpper(state) = "Q"
<1>1. CASE state \in {"b", "e", "f", "h", "m", "q", "r", "s", "t", "u", "w", "x"}
  BY <1>1 DEF ToUpper
<1>2. CASE state \notin {"b", "e", "f", "h", "m", "q", "r", "s", "t", "u", "w", "x"}
  <2>1. ToUpper(state) = state
    BY <1>2 DEF ToUpper
  <2> QED
    BY <1>2, <2>1
<1> QED
  BY <1>1, <1>2

\* A state has its own label.
LEMMA LabelOfState ==
    ASSUME NEW c \in CountedStates, NEW state, state \notin {"running", "queued"}
    PROVE  MapStatusLabel(state) = c[1] <=> ToUpper(state) = c[3]
<1>1. ToLower(state) \notin {"running", "queued"}
  BY DEF ToLower
<1>2. MapStatusLabel(state) = "running" <=> ToUpper(state) = "R"
  BY <1>1 DEF MapStatusLabel
<1>3. MapStatusLabel(state) = "queued" <=> ToUpper(state) = "Q"
  BY <1>1 DEF MapStatusLabel
<1> QED
  BY <1>2, <1>3 DEF CountedStates

\* The jobs by state are the jobs in that state.
LEMMA StatesCounted ==
    ASSUME IInv, Shown, NEW c \in CountedStates
    PROVE  At(jobData.StatusCount, c[1]) = Cardinality(JobsIn(c[3]))
<1> DEFINE jobs == payload.jobs
           labels == Labels(jobs)
<1>1. Loops /\ Counted = DOMAIN jobs /\ IsFiniteSet(DOMAIN jobs)
  BY Progress DEF IInv, Shown, Jobs
<1>2. jobData.StatusCount = TallyOn(DOMAIN jobs, labels)
  BY <1>1 DEF Loops, CountsOf
<1>3. \A j \in DOMAIN jobs : labels[j] = c[1] <=> ToUpper(jobs[j].JobState) = c[3]
  <2>1. \A j \in DOMAIN jobs : jobs[j].JobState \notin {"running", "queued"}
    BY <1>1, JobsAssumption DEF Loops
  <2> QED
    BY <2>1, LabelOfState DEF Labels
<1>4. {j \in DOMAIN jobs : labels[j] = c[1]} = JobsIn(c[3])
  BY <1>3 DEF JobsIn, Jobs
<1> HIDE DEF labels, jobs
<1>5. At(jobData.StatusCount, c[1]) = Cardinality({j \in DOMAIN jobs : labels[j] = c[1]})
  BY <1>1, <1>2, TallyByKey
<1> QED
  BY <1>4, <1>5

\* The numbers of the queues add up to those of all the jobs in a state, if each of
\* the jobs is in one of the queues.
LEMMA QueuesAddUp ==
    ASSUME IsFiniteSet(Jobs), NEW queues, IsFiniteSet(queues),
           \A j \in Jobs : payload.jobs[j].Queue \in queues,
           NEW letter, NEW number, \A queue \in queues : number[queue] = NumberIn(letter, queue)
    PROVE  SumFunctionOnSet(number, queues) = Cardinality(JobsIn(letter))
<1> DEFINE part == [j \in Jobs |-> payload.jobs[j].Queue]
           S == JobsIn(letter)
<1>1. IsFiniteSet(S) /\ \A j \in S : part[j] \in queues
  BY FS_Subset DEF JobsIn
<1>2. ASSUME NEW queue \in queues
      PROVE  number[queue] = Cardinality(InPart(S, part, queue))
  <2>1. InPart(S, part, queue) = {j \in S : payload.jobs[j].Queue = queue}
    BY DEF InPart, JobsIn
  <2> QED
    BY <2>1 DEF NumberIn
<1> HIDE DEF part, S
<1>3. SumFunctionOnSet(number, queues) = Cardinality(S)
  BY <1>1, <1>2, SumOfParts
<1> QED
  BY <1>3 DEF S

\* What the answers say when they agree.
LEMMA AnswersSay ==
    ASSUME AnswersAgree
    PROVE  /\ \A j \in Jobs : payload.jobs[j].Queue \in DOMAIN QueueRecords(payload)
           /\ DOMAIN ServerRecords(payload) # {}
           /\ \A c \in CountedStates :
                 /\ \A queue \in DOMAIN QueueRecords(payload) :
                       Says(QueueRecords(payload)[queue].state_count, c[2], NumberIn(c[3], queue))
                 /\ \A server \in DOMAIN ServerRecords(payload) :
                       Says(ServerRecords(payload)[server].state_count, c[2],
                            Cardinality(JobsIn(c[3])))
<1> DEFINE queues == QueueRecords(payload)
           servers == ServerRecords(payload)
           in(S, letter) == Cardinality({j \in Jobs : /\ ToUpper(payload.jobs[j].JobState) = letter
                                                     /\ payload.jobs[j].Queue \in S})
<1>1. /\ \A j \in Jobs : payload.jobs[j].Queue \in DOMAIN queues
      /\ \A queue \in DOMAIN queues :
            /\ Says(queues[queue].state_count, "Running", in({queue}, "R"))
            /\ Says(queues[queue].state_count, "Queued", in({queue}, "Q"))
      /\ DOMAIN servers # {}
      /\ \A server \in DOMAIN servers :
            /\ Says(servers[server].state_count, "Running", in(DOMAIN queues, "R"))
            /\ Says(servers[server].state_count, "Queued", in(DOMAIN queues, "Q"))
  BY DEF AnswersAgree, Says
<1>2. ASSUME NEW letter, NEW queue PROVE in({queue}, letter) = NumberIn(letter, queue)
  <2>1. {j \in Jobs : /\ ToUpper(payload.jobs[j].JobState) = letter
                      /\ payload.jobs[j].Queue \in {queue}}
           = {j \in JobsIn(letter) : payload.jobs[j].Queue = queue}
    BY DEF JobsIn
  <2> QED
    BY <2>1 DEF NumberIn
<1>3. ASSUME NEW letter PROVE in(DOMAIN queues, letter) = Cardinality(JobsIn(letter))
  <2>1. {j \in Jobs : /\ ToUpper(payload.jobs[j].JobState) = letter
                      /\ payload.jobs[j].Queue \in DOMAIN queues} = JobsIn(letter)
    BY <1>1 DEF JobsIn
  <2> QED
    BY <2>1
<1> HIDE DEF in, queues, servers
<1>4. ASSUME NEW c \in CountedStates
      PROVE  /\ \A queue \in DOMAIN queues :
                   Says(queues[queue].state_count, c[2], NumberIn(c[3], queue))
             /\ \A server \in DOMAIN servers :
                   Says(servers[server].state_count, c[2], Cardinality(JobsIn(c[3])))
  <2>1. (c[2] = "Running" /\ c[3] = "R") \/ (c[2] = "Queued" /\ c[3] = "Q")
    BY DEF CountedStates
  <2>2. CASE c[2] = "Running" /\ c[3] = "R"
    BY <1>1, <1>2, <1>3, <2>2
  <2>3. CASE c[2] = "Queued" /\ c[3] = "Q"
    BY <1>1, <1>2, <1>3, <2>3
  <2> QED
    BY <2>1, <2>2, <2>3
<1> QED
  BY <1>1, <1>4 DEF queues, servers

\* The sums of the families of a scrape.
LEMMA FamiliesOfScrape == IInv => FamiliesAgree
<1> SUFFICES ASSUME IInv, Shown, AnswersAgree PROVE FamiliesAgree
  BY DEF FamiliesAgree
<1> DEFINE queues == DOMAIN series.pbs_queue_jobs
           shown(state) == [queue \in queues |-> series.pbs_queue_jobs[queue][state]]
           running == [queue \in queues |-> At(series.pbs_jobs_running_by_queue, queue)]
<1>1. /\ payload \in Answers /\ queueData = ParseQueues(payload.queues)
      /\ serverData = ParseServer(payload.server) /\ IsFiniteSet(Jobs)
  BY Progress DEF IInv, Loops, Scraped, Shown
<1>2. /\ series.pbs_jobs = jobData.StatusCount
      /\ series.pbs_jobs_running_by_queue = jobData.QueueJobCount
      /\ series.pbs_queue_jobs = [queue \in DOMAIN queueData |-> QueueJobs(queue)]
      /\ series.pbs_server = ServerSeries(serverData)
  BY ShownFamilies
<1>3. queues = DOMAIN QueueRecords(payload) /\ IsFiniteSet(queues)
  <2>1. DOMAIN queueData = DOMAIN QueueRecords(payload)
    BY <1>1 DEF ParseQueues, QueueRecords
  <2> QED
    BY <1>1, <1>2, <2>1, TablesAssumption
<1>4. \A j \in Jobs : payload.jobs[j].Queue \in queues
  BY <1>3, AnswersSay
<1>5. ASSUME NEW c \in CountedStates, NEW queue \in queues
      PROVE  series.pbs_queue_jobs[queue][c[1]] = NumberIn(c[3], queue)
  <2>1. Says(QueueRecords(payload)[queue].state_count, c[2], NumberIn(c[3], queue))
    BY <1>3, AnswersSay
  <2>2. /\ c[2] = "Running" => queueData[queue].Running = NumberIn(c[3], queue)
        /\ c[2] = "Queued" => queueData[queue].Queued = NumberIn(c[3], queue)
    BY <1>1, <1>3, <2>1, QueueCounts
  <2>3. series.pbs_queue_jobs[queue] = QueueJobs(queue)
    BY <1>2
  <2>4. /\ QueueJobs(queue)["running"] = queueData[queue].Running
        /\ QueueJobs(queue)["queued"] = queueData[queue].Queued
    BY DEF QueueJobs
  <2>5. (c[1] = "running" /\ c[2] = "Running") \/ (c[1] = "queued" /\ c[2] = "Queued")
    BY DEF CountedStates
  <2> HIDE DEF queues
  <2>6. CASE c[1] = "running" /\ c[2] = "Running"
    BY <2>2, <2>3, <2>4, <2>6
  <2>7. CASE c[1] = "queued" /\ c[2] = "Queued"
    BY <2>2, <2>3, <2>4, <2>7
  <2> QED
    BY <2>5, <2>6, <2>7
<1>6. ASSUME NEW queue \in queues PROVE running[queue] = NumberIn("R", queue)
  <2>1. At(jobData.QueueJobCount, queue)
           = Cardinality({j \in Running(payload.jobs) : payload.jobs[j].Queue = queue})
    BY RunningCounted
  <2>2. JobsIn("R") = Running(payload.jobs)
    BY DEF JobsIn, Running, Jobs
  <2>3. running[queue] = At(jobData.QueueJobCount, queue)
    BY <1>2
  <2> QED
    BY <2>1, <2>2, <2>3 DEF NumberIn
<1>7. ASSUME NEW c \in CountedStates
      PROVE  /\ series.pbs_server.jobs[c[1]] = Cardinality(JobsIn(c[3]))
             /\ At(series.pbs_jobs, c[1]) = Cardinality(JobsIn(c[3]))
             /\ SumFunction(shown(c[1])) = Cardinality(JobsIn(c[3]))
  <2>1. series.pbs_server.jobs[c[1]] = Cardinality(JobsIn(c[3]))
    BY <1>1, <1>2, AnswersSay, ServerCounts
  <2>2. At(series.pbs_jobs, c[1]) = Cardinality(JobsIn(c[3]))
    BY <1>2, StatesCounted
  <2>3. SumFunction(shown(c[1])) = Cardinality(JobsIn(c[3]))
    <3> DEFINE number == shown(c[1])
    <3>1. SumFunction(number) = SumFunctionOnSet(number, queues)
      BY DEF SumFunction
    <3>2. \A queue \in queues : number[queue] = NumberIn(c[3], queue)
      BY <1>5
    <3> HIDE DEF number, queues
    <3>3. SumFunctionOnSet(number, queues) = Cardinality(JobsIn(c[3]))
      BY <1>1, <1>3, <1>4, <3>2, QueuesAddUp
    <3> QED
      BY <3>1, <3>3 DEF number
  <2> QED
    BY <2>1, <2>2, <2>3
<1>8. SumFunction(running) = Cardinality(JobsIn("R"))
  <2>1. SumFunction(running) = SumFunctionOnSet(running, queues)
    BY DEF SumFunction
  <2> HIDE DEF running, queues
  <2>2. SumFunctionOnSet(running, queues) = Cardinality(JobsIn("R"))
    BY <1>1, <1>3, <1>4, <1>6, QueuesAddUp
  <2> QED
    BY <2>1, <2>2
<1>9. /\ series.pbs_server.jobs["running"] = Cardinality(JobsIn("R"))
      /\ At(series.pbs_jobs, "running") = Cardinality(JobsIn("R"))
      /\ SumFunction(shown("running")) = Cardinality(JobsIn("R"))
  <2>1. <<"running", "Running", "R">> \in CountedStates
    BY DEF CountedStates
  <2> HIDE DEF shown
  <2> QED
    BY <1>7, <2>1
<1>10. /\ series.pbs_server.jobs["queued"] = Cardinality(JobsIn("Q"))
       /\ At(series.pbs_jobs, "queued") = Cardinality(JobsIn("Q"))
       /\ SumFunction(shown("queued")) = Cardinality(JobsIn("Q"))
  <2>1. <<"queued", "Queued", "Q">> \in CountedStates
    BY DEF CountedStates
  <2> HIDE DEF shown
  <2> QED
    BY <1>7, <2>1
<1>11. \A state \in {"running", "queued"} :
          /\ series.pbs_server.jobs[state] = At(series.pbs_jobs, state)
          /\ series.pbs_server.jobs[state] = SumFunction(shown(state))
  <2> HIDE DEF shown
  <2> QED
    BY <1>9, <1>10
<1>12. series.pbs_server.jobs.running = SumFunction(running)
  <2> HIDE DEF running
  <2> QED
    BY <1>8, <1>9
<1> QED
  BY <1>11, <1>12 DEF FamiliesAgree

\* Families by state, by queue and of the server show the same numbers when the
\* answers they come from do.
THEOREM CountsOfJobsAgree == Spec => []FamiliesAgree
BY FamiliesOfScrape, AggregationInvariant, PTL

-----------------------------------------------------------------------------
(* The aggregates of the jobs and the series of each. *)

\* The labels of the inspected jobs.
LabelsOf(records) ==
    [id \in DOMAIN records |-> JobInspectionLabelValues(ParseJobInspection(records)[id])]

\* The samples of a family: labels and value, job by job.
LEMMA SamplesOf ==
    ASSUME NEW records, NEW family \in JobFamilies
    PROVE  \A sample :
              sample \in JobSeries(ParseJobInspection(records))[family] <=>
                 \E id \in DOMAIN records :
                    \E value \in JobValues(InspectJob(id, records[id]))[family] :
                       sample = <<LabelsOf(records)[id], value>>
<1> DEFINE jobs == ParseJobInspection(records)
           labels == LabelsOf(records)
           of(id) == {<<labels[id], value>> : value \in JobValues(jobs[id])[family]}
<1>1. DOMAIN jobs = DOMAIN records
  BY DEF ParseJobInspection
<1>2. \A id \in DOMAIN records : /\ jobs[id] = InspectJob(id, records[id])
                                 /\ labels[id] = JobInspectionLabelValues(jobs[id])
  BY DEF ParseJobInspection, LabelsOf
<1>3. JobSeries(jobs)[family] = UNION {of(id) : id \in DOMAIN records}
  <2> HIDE DEF jobs, labels
  <2>1. JobSeries(jobs)[family] =
           UNION {{<<JobInspectionLabelValues(jobs[id]), value>> :
                      value \in JobValues(jobs[id])[family]} : id \in DOMAIN jobs}
    BY DEF JobSeries
  <2> QED
    BY <1>1, <1>2, <2>1
<1> HIDE DEF jobs, labels
<1> QED
  BY <1>2, <1>3 DEF jobs, labels

\* The values of a job: one for its existence, and its wait while it waits.
LEMMA ValuesOf ==
    ASSUME NEW id, NEW record
    PROVE  LET values == JobValues(InspectJob(id, record))
           IN  /\ values[<<"info">>] = {1}
               /\ values[<<"queue_wait_seconds">>] =
                     IF record.JobState \in {"Q", "q"}
                     THEN OptionalElapsedSeconds(record.Age) ELSE {}
               /\ <<"info">> \in JobFamilies /\ <<"queue_wait_seconds">> \in JobFamilies
<1>1. <<"info">> \in JobFamilies /\ <<"queue_wait_seconds">> \in JobFamilies
  BY DEF JobFamilies
<1>2. InspectJob(id, record).QueueWaitSeconds =
         IF record.JobState \in {"Q", "q"} THEN OptionalElapsedSeconds(record.Age) ELSE {}
  BY DEF InspectJob
<1>3. \A job : /\ JobValues(job)[<<"info">>] = {1}
               /\ JobValues(job)[<<"queue_wait_seconds">>] = job.QueueWaitSeconds
  BY <1>1 DEF JobValues
<1> QED
  BY <1>1, <1>2, <1>3

\* The inspected jobs, when they are those of the first answer.
LEMMA InspectedAlike ==
    ASSUME IInv, NEW records \in payload.inspection, AnswersAlike(records), NEW id \in Jobs
    PROVE  /\ id \in DOMAIN records
           /\ records[id].Queue = payload.jobs[id].Queue
           /\ records[id].JobState = payload.jobs[id].JobState
           /\ records[id].Age = payload.jobs[id].Age
           /\ LabelsOf(records)[id].queue = payload.jobs[id].Queue
           /\ LabelsOf(records)[id].job_state = payload.jobs[id].JobState
<1>1. {"Queue", "JobState", "Age"} \subseteq DOMAIN payload.jobs[id]
  BY JobsAssumption DEF IInv, Loops, Jobs
<1>2. /\ id \in DOMAIN records
      /\ records[id].Queue = payload.jobs[id].Queue
      /\ records[id].JobState = payload.jobs[id].JobState
      /\ records[id].Age = payload.jobs[id].Age
  BY <1>1 DEF AnswersAlike
<1>3. /\ LabelsOf(records)[id].queue = records[id].Queue
      /\ LabelsOf(records)[id].job_state = records[id].JobState
  BY <1>2 DEF LabelsOf, ParseJobInspection, InspectJob, JobInspectionLabelValues
<1> QED
  BY <1>2, <1>3

\* A scrape that is shown has told the inspected jobs apart.
LEMMA ShownInspection ==
    ASSUME IInv, Shown, IncludeJobInspectionMetrics, NEW records \in payload.inspection
    PROVE  /\ \A a, b \in DOMAIN records : LabelsOf(records)[a] = LabelsOf(records)[b] => a = b
           /\ \A family \in JobFamilies :
                 series.pbs_job[family] = JobSeries(ParseJobInspection(records))[family]
<1> DEFINE jobs == ParseJobInspection(records)
<1>1. InspectedJobs = {jobs}
  <2>1. \A other \in payload.inspection : other = records
    BY JobsAssumption DEF IInv, Loops
  <2>2. inspection = {ParseJobInspection(other) : other \in payload.inspection}
    BY DEF IInv, Scraped, Shown
  <2> QED
    BY <2>1, <2>2 DEF InspectedJobs
<1>2. ~Duplicates(jobs)
  BY <1>1 DEF IInv, Scraped, Shown
<1>3. DOMAIN jobs = DOMAIN records
  BY DEF ParseJobInspection
<1>4. \A a, b \in DOMAIN records : LabelsOf(records)[a] = LabelsOf(records)[b] => a = b
  <2> HIDE DEF jobs
  <2>1. \A a \in DOMAIN records : LabelsOf(records)[a] = JobInspectionLabelValues(jobs[a])
    BY DEF LabelsOf, jobs
  <2> QED
    BY <1>2, <1>3, <2>1 DEF Duplicates
<1> HIDE DEF jobs
<1>5. \A family \in JobFamilies : series.pbs_job[family] = JobSeries(jobs)[family]
  <2>1. \A family \in JobFamilies :
           series.pbs_job[family] = UNION {JobSeries(js)[family] : js \in InspectedJobs}
    BY ShownFamilies
  <2>2. \A family : UNION {JobSeries(js)[family] : js \in {jobs}} = JobSeries(jobs)[family]
    OBVIOUS
  <2> QED
    BY <1>1, <2>1, <2>2
<1> QED
  BY <1>4, <1>5 DEF jobs

\* The waits shown of the jobs of a queue are those of the jobs that wait in it.
LEMMA WaitSamples ==
    ASSUME IInv, Shown, IncludeJobInspectionMetrics,
           NEW records \in payload.inspection, AnswersAlike(records),
           NEW queue, queue # ""
    PROVE  {sample \in series.pbs_job[<<"queue_wait_seconds">>] : sample[1].queue = queue}
              = {<<LabelsOf(records)[id], WaitTimes(payload.jobs)[id]>> :
                    id \in WaitingIn(payload.jobs, queue)}
<1> DEFINE family == <<"queue_wait_seconds">>
           labels == LabelsOf(records)
           values(id) == JobValues(InspectJob(id, records[id]))[family]
           wait == WaitTimes(payload.jobs)
<1>1. \A sample : sample \in series.pbs_job[family] <=>
         \E id \in Jobs : \E value \in values(id) : sample = <<labels[id], value>>
  <2>1. family \in JobFamilies
    BY ValuesOf
  <2>2. DOMAIN records = Jobs
    BY DEF AnswersAlike
  <2>3. series.pbs_job[family] = JobSeries(ParseJobInspection(records))[family]
    BY <2>1, ShownInspection
  <2>4. \A sample :
           sample \in JobSeries(ParseJobInspection(records))[family] <=>
              \E id \in DOMAIN records : \E value \in values(id) : sample = <<labels[id], value>>
    BY <2>1, SamplesOf
  <2> HIDE DEF family, labels, values
  <2> QED
    BY <2>2, <2>3, <2>4
<1>2. ASSUME NEW id \in Jobs
      PROVE  values(id) = IF ToUpper(payload.jobs[id].JobState) = "Q"
                             /\ payload.jobs[id].Age # NoAge
                          THEN {wait[id]} ELSE {}
  <2>1. records[id].JobState = payload.jobs[id].JobState /\ records[id].Age = payload.jobs[id].Age
    BY InspectedAlike
  <2>2. values(id) = IF payload.jobs[id].JobState \in {"Q", "q"}
                     THEN OptionalElapsedSeconds(payload.jobs[id].Age) ELSE {}
    <3>1. values(id) = IF records[id].JobState \in {"Q", "q"}
                       THEN OptionalElapsedSeconds(records[id].Age) ELSE {}
      BY ValuesOf
    <3> HIDE DEF values
    <3> QED
      BY <2>1, <3>1
  <2>3. payload.jobs[id].JobState \in {"Q", "q"} <=> ToUpper(payload.jobs[id].JobState) = "Q"
    BY QueuedLetters
  <2>4. OptionalElapsedSeconds(payload.jobs[id].Age) =
           IF payload.jobs[id].Age # NoAge THEN {wait[id]} ELSE {}
    BY DEF OptionalElapsedSeconds, WaitSeconds, WaitTimes, Jobs
  <2> HIDE DEF values, wait
  <2> QED
    BY <2>2, <2>3, <2>4
<1>3. \A id \in Jobs : labels[id].queue = payload.jobs[id].Queue
  BY InspectedAlike
<1>4. \A id : id \in WaitingIn(payload.jobs, queue) <=>
                 /\ id \in Jobs /\ payload.jobs[id].Queue = queue
                 /\ ToUpper(payload.jobs[id].JobState) = "Q" /\ payload.jobs[id].Age # NoAge
  BY DEF WaitingIn, WaitingJobs, Waits, Jobs
<1> HIDE DEF family, labels, values, wait
<1>5. ASSUME NEW sample, sample \in series.pbs_job[family], sample[1].queue = queue
      PROVE  \E id \in WaitingIn(payload.jobs, queue) : sample = <<labels[id], wait[id]>>
  <2>1. PICK id \in Jobs : \E value \in values(id) : sample = <<labels[id], value>>
    BY <1>1, <1>5
  <2>2. ToUpper(payload.jobs[id].JobState) = "Q" /\ payload.jobs[id].Age # NoAge
        /\ sample = <<labels[id], wait[id]>>
    BY <1>2, <2>1
  <2>3. sample[1] = labels[id]
    BY <2>2
  <2> QED
    BY <1>3, <1>4, <1>5, <2>2, <2>3
<1>6. ASSUME NEW id \in WaitingIn(payload.jobs, queue)
      PROVE  <<labels[id], wait[id]>> \in series.pbs_job[family] /\ labels[id].queue = queue
  BY <1>1, <1>2, <1>3, <1>4
<1>7. {sample \in series.pbs_job[family] : sample[1].queue = queue}
         = {<<labels[id], wait[id]>> : id \in WaitingIn(payload.jobs, queue)}
  BY ONLY <1>5, <1>6
<1> QED
  BY <1>7 DEF family, labels, wait

\* The jobs shown running in a queue are those that run in it.
LEMMA RunningSamples ==
    ASSUME IInv, Shown, IncludeJobInspectionMetrics,
           NEW records \in payload.inspection, AnswersAlike(records), NEW queue
    PROVE  {sample \in {sample \in series.pbs_job[<<"info">>] : sample[1].queue = queue} :
               ToUpper(sample[1].job_state) = "R"}
              = {<<LabelsOf(records)[id], 1>> :
                    id \in {j \in Running(payload.jobs) : payload.jobs[j].Queue = queue}}
<1> DEFINE family == <<"info">>
           labels == LabelsOf(records)
           inQueue == {j \in Running(payload.jobs) : payload.jobs[j].Queue = queue}
<1>1. \A sample : sample \in series.pbs_job[family] <=>
         \E id \in Jobs : sample = <<labels[id], 1>>
  <2>1. family \in JobFamilies
    BY ValuesOf
  <2>2. DOMAIN records = Jobs
    BY DEF AnswersAlike
  <2>3. series.pbs_job[family] = JobSeries(ParseJobInspection(records))[family]
    BY <2>1, ShownInspection
  <2>4. \A id : JobValues(InspectJob(id, records[id]))[family] = {1}
    BY ValuesOf
  <2>5. \A sample :
           sample \in JobSeries(ParseJobInspection(records))[family] <=>
              \E id \in DOMAIN records :
                 \E value \in JobValues(InspectJob(id, records[id]))[family] :
                    sample = <<labels[id], value>>
    BY <2>1, SamplesOf
  <2> HIDE DEF family, labels
  <2> QED
    BY <2>2, <2>3, <2>4, <2>5
<1>2. \A id \in Jobs : labels[id].queue = payload.jobs[id].Queue
                          /\ labels[id].job_state = payload.jobs[id].JobState
  BY InspectedAlike
<1>3. \A id : id \in inQueue <=> /\ id \in Jobs /\ payload.jobs[id].Queue = queue
                                 /\ ToUpper(payload.jobs[id].JobState) = "R"
  BY DEF Running, Jobs
<1> HIDE DEF family, labels, inQueue
<1>4. ASSUME NEW sample, sample \in series.pbs_job[family], sample[1].queue = queue,
             ToUpper(sample[1].job_state) = "R"
      PROVE  \E id \in inQueue : sample = <<labels[id], 1>>
  <2>1. PICK id \in Jobs : sample = <<labels[id], 1>>
    BY <1>1, <1>4
  <2>2. sample[1] = labels[id]
    BY <2>1
  <2> QED
    BY <1>2, <1>3, <1>4, <2>1, <2>2
<1>5. ASSUME NEW id \in inQueue
      PROVE  /\ <<labels[id], 1>> \in series.pbs_job[family] /\ labels[id].queue = queue
             /\ ToUpper(labels[id].job_state) = "R"
  BY <1>1, <1>2, <1>3
<1> QED
  BY <1>4, <1>5 DEF family, labels, inQueue

\* Samples of jobs with their values.
Samples(jobs, labels, value) == {<<labels[id], value[id]>> : id \in jobs}

\* Samples are as many as the jobs they are of, and their values add up to those
\* of the jobs.
LEMMA SamplesMeasured ==
    ASSUME NEW S, IsFiniteSet(S), NEW labels, NEW value, \A id \in S : value[id] \in Int,
           \A a, b \in S : labels[a] = labels[b] => a = b,
           NEW samples, samples = Samples(S, labels, value)
    PROVE  /\ Cardinality(samples) = Cardinality(S)
           /\ SumFunction([sample \in samples |-> sample[2]]) = SumFunctionOnSet(value, S)
           /\ \A sample \in samples : \E id \in S : sample[2] = value[id]
           /\ \A id \in S : \E sample \in samples : sample[2] = value[id]
<1> DEFINE name == [id \in S |-> <<labels[id], value[id]>>]
           of == [sample \in samples |-> sample[2]]
<1>1. samples = {name[id] : id \in S}
  BY DEF Samples
<1>2. \A id \in S : name[id][1] = labels[id] /\ name[id][2] = value[id]
  OBVIOUS
<1> HIDE DEF name
<1>3. \A a, b \in S : name[a] = name[b] => a = b
  BY <1>2
<1>4. \A id \in S : value[id] \in Int /\ of[name[id]] = value[id]
  BY <1>1, <1>2
<1>5. SumFunction(of) = SumFunctionOnSet(of, samples)
  BY DEF SumFunction
<1>6. Cardinality({name[id] : id \in S}) = Cardinality(S)
  BY <1>3, NamesCounted
<1> HIDE DEF of
<1>7. SumFunctionOnSet(of, {name[id] : id \in S}) = SumFunctionOnSet(value, S)
  BY <1>3, <1>4, SumRenamed
<1>8. /\ \A sample \in samples : \E id \in S : sample[2] = value[id]
      /\ \A id \in S : \E sample \in samples : sample[2] = value[id]
  BY <1>1, <1>2
<1> QED
  BY <1>1, <1>5, <1>6, <1>7, <1>8 DEF of

\* The aggregates of a queue and the series of its jobs.
LEMMA InspectionOfScrape == IInv => InspectionAgrees
<1> SUFFICES ASSUME IInv, Shown, IncludeJobInspectionMetrics,
                    NEW records \in payload.inspection, AnswersAlike(records),
                    NEW queue \in DOMAIN series.pbs_queue_job_wait_seconds
             PROVE  LET info       == series.pbs_queue_job_wait_seconds[queue]
                        seriesOf(family) == {sample \in series.pbs_job[family] :
                                                sample[1].queue = queue}
                        waits      == seriesOf(<<"queue_wait_seconds">>)
                        running    == {sample \in seriesOf(<<"info">>) :
                                          ToUpper(sample[1].job_state) = "R"}
                    IN  /\ Cardinality(waits) = info.Count
                        /\ SumFunction([sample \in waits |-> sample[2]]) = info.Sum
                        /\ \A sample \in waits : sample[2] <= info.Oldest
                        /\ waits # {} => \E sample \in waits : sample[2] = info.Oldest
                        /\ Cardinality(running) = At(series.pbs_jobs_running_by_queue, queue)
  BY DEF InspectionAgrees
<1> DEFINE info == series.pbs_queue_job_wait_seconds[queue]
           waits == {sample \in series.pbs_job[<<"queue_wait_seconds">>] : sample[1].queue = queue}
           running == {sample \in {sample \in series.pbs_job[<<"info">>] : sample[1].queue = queue} :
                          ToUpper(sample[1].job_state) = "R"}
           labels == LabelsOf(records)
           wait == WaitTimes(payload.jobs)
           W == WaitingIn(payload.jobs, queue)
           R == {j \in Running(payload.jobs) : payload.jobs[j].Queue = queue}
<1>1. payload \in Answers /\ IsFiniteSet(Jobs) /\ queueData = ParseQueues(payload.queues)
  BY Progress DEF IInv, Loops, Scraped, Shown
<1>2. queue \in DOMAIN queueData /\ info = QueueWaitSeries(queue)
      /\ series.pbs_jobs_running_by_queue = jobData.QueueJobCount
  BY ShownFamilies
<1>3. queue # ""
  <2>1. DOMAIN queueData = DOMAIN QueueRecords(payload)
    BY <1>1 DEF ParseQueues, QueueRecords
  <2> QED
    BY <1>1, <1>2, <2>1, TablesAssumption
<1>4. W \subseteq Jobs /\ R \subseteq Jobs /\ IsFiniteSet(W) /\ IsFiniteSet(R)
  <2>1. W \subseteq Jobs /\ R \subseteq Jobs
    BY DEF WaitingIn, WaitingJobs, Running, Jobs
  <2> HIDE DEF W, R
  <2> QED
    BY <1>1, <2>1, FS_Subset
<1>5. \A a, b \in Jobs : labels[a] = labels[b] => a = b
  BY ShownInspection DEF AnswersAlike
<1>6. Describes(info, W, wait)
  BY <1>2, WaitsCounted
<1>7. waits = Samples(W, labels, wait)
  BY <1>3, WaitSamples DEF Samples
<1>8. running = {<<labels[id], 1>> : id \in R}
  BY RunningSamples
<1>9. Cardinality(R) = At(jobData.QueueJobCount, queue)
  BY RunningCounted
<1>10. \A id \in W : wait[id] \in Int
  <2>1. \A id \in Jobs : payload.jobs[id].Age \in Int \union {NoAge}
    BY <1>1, JobsAssumption DEF Jobs
  <2>2. \A id \in W : payload.jobs[id].Age # NoAge
    BY DEF WaitingIn, WaitingJobs, Waits
  <2>3. \A id \in W : payload.jobs[id].Age \in Int
    BY <1>4, <2>1, <2>2
  <2> HIDE DEF W
  <2> QED
    BY <1>4, <2>3 DEF WaitTimes, WaitSeconds, Jobs
<1> HIDE DEF info, waits, running, labels, wait, W, R
<1>11. \A a, b : (a \in W /\ b \in W) \/ (a \in R /\ b \in R) =>
          (labels[a] = labels[b] => a = b)
  BY <1>4, <1>5
<1>12. /\ Cardinality(waits) = Cardinality(W)
       /\ SumFunction([sample \in waits |-> sample[2]]) = SumFunctionOnSet(wait, W)
       /\ \A sample \in waits : \E id \in W : sample[2] = wait[id]
       /\ \A id \in W : \E sample \in waits : sample[2] = wait[id]
  BY <1>4, <1>7, <1>10, <1>11, SamplesMeasured
<1>13. Cardinality(running) = Cardinality(R)
  <2> DEFINE name == [id \in R |-> <<labels[id], 1>>]
  <2>1. running = {name[id] : id \in R}
    BY <1>8
  <2>2. \A id \in R : name[id][1] = labels[id]
    OBVIOUS
  <2> HIDE DEF name
  <2>3. \A a, b \in R : name[a] = name[b] => a = b
    BY <1>11, <2>2
  <2>4. Cardinality({name[id] : id \in R}) = Cardinality(R)
    BY <1>4, <2>3, NamesCounted
  <2> QED
    BY <2>1, <2>4
<1>14. /\ Cardinality(waits) = info.Count
       /\ SumFunction([sample \in waits |-> sample[2]]) = info.Sum
  BY <1>6, <1>12 DEF Describes
<1>15. \A sample \in waits : sample[2] <= info.Oldest
  BY <1>6, <1>12 DEF Describes
<1>16. waits # {} => \E sample \in waits : sample[2] = info.Oldest
  <2>1. waits # {} => W # {}
    BY <1>12
  <2>2. W # {} => \E id \in W : wait[id] = info.Oldest
    BY <1>6 DEF Describes
  <2> QED
    BY <1>12, <2>1, <2>2
<1> QED
  BY <1>2, <1>9, <1>13, <1>14, <1>15, <1>16 DEF info, waits, running

\* Aggregates and per-job series tell the same story when PBS gives both commands
\* the same jobs.
THEOREM PerJobSeriesAgree == Spec => []InspectionAgrees
BY InspectionOfScrape, AggregationInvariant, PTL
=============================================================================
