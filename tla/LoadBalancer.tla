------------------------------ MODULE LoadBalancer ------------------------------
(***************************************************************************)
(* fusion_code_modelization/loadbalancer: LoadBalancer with its four       *)
(* strategies and the state it keeps in state.json, for one process at a   *)
(* time.  A process makes its strategy from the configuration it is given, *)
(* then loads the state, which replaces configuration, metrics and index.  *)
(*                                                                         *)
(* Abstractions: of the percentages of a node there is the one number they *)
(* are weighed to; update_metrics is called for a node at a time; rebalance,*)
(* overview and prediction only read.                                      *)
(***************************************************************************)
EXTENDS StateFile, Selection, SequencesExt, Integers

CONSTANTS Nodes, Sessions,
          Loads,    \* what is measured of a node
          MaxTurns  \* bound on the round-robin index (the code has none)

Measured == [percent : 0 .. 100, active : Nat, max : Nat, weight : Nat]

ASSUME LoadsAssumption == Loads \subseteq Measured
ASSUME TurnsAssumption == MaxTurns \in Nat
ASSUME NodesAssumption == "none" \notin Nodes

VARIABLES state,    \* state.json
          balancing, \* whether a process has a balancer
          config,   \* config.strategy
          object,   \* the class of _strategy
          metrics,  \* _metrics: the nodes in the order of the map
          rr_index,
          affinity, \* of AffinityBasedStrategy
          ring,     \* of RoundRobinStrategy: its cycle and the next in it
          turns,    \* round-robin choices since the nodes or the index changed
          decision  \* of the last select_node

balancerVars ==
    <<state, balancing, config, object, metrics, rr_index, affinity, ring, turns, decision>>

Strategies == {"round_robin", "least_loaded", "weighted_capacity", "affinity_based"}
NoDecision == [node |-> "none"]
NoRing == [list |-> <<>>, next |-> 1]
NoTurns == [n \in Nodes |-> 0]

Score(m) == m.load.percent * m.load.weight
Overloaded(m) == Score(m) > 80 \/ m.load.active >= m.load.max
NodeIds(list) == [i \in DOMAIN list |-> list[i].node]

BalancerInit ==
    /\ state = Absent
    /\ balancing = FALSE
    /\ config = "least_loaded" /\ object = "least_loaded"
    /\ metrics = <<>> /\ rr_index = 0
    /\ affinity = <<>> /\ ring = NoRing
    /\ turns = NoTurns
    /\ decision = NoDecision

-----------------------------------------------------------------------------
(* Strategies *)

\* The first of those that nothing is better than: min and max with a key.
FirstBest(list, Better(_, _)) ==
    list[CHOOSE i \in DOMAIN list :
           /\ \A j \in DOMAIN list : ~Better(list[j], list[i])
           /\ \A j \in 1 .. i - 1 : Better(list[i], list[j])]

Free(list) == Picked(list, {i \in DOMAIN list : ~Overloaded(list[i])})
FreeOrAll(list) == IF Free(list) = <<>> THEN list ELSE Free(list)

LeastLoaded(list) == FirstBest(FreeOrAll(list), LAMBDA a, b : Score(a) < Score(b))

\* available_capacity * weight, compared without fractions.
Heavier(a, b) ==
    LET Room(m) == (m.load.max - m.load.active) * m.load.weight
    IN  Room(a) * b.load.max > Room(b) * a.load.max

\* Mutant: overloaded nodes are weighed too.
WeightedCapacityAll(list) == FirstBest(list, LAMBDA a, b : a.load.weight > b.load.weight)

WeightedCapacity(list) ==
    IF Free(list) = <<>> THEN FirstBest(list, LAMBDA a, b : a.load.weight > b.load.weight)
                         ELSE FirstBest(Free(list), Heavier)

\* The node that the session has, if it can still take it.
Preferred(list, session) ==
    Picked(list, {i \in DOMAIN list : /\ session \in DOMAIN affinity
                                      /\ list[i].node = affinity[session]
                                      /\ ~Overloaded(list[i])})

AffinityBased(list, session) ==
    IF Preferred(list, session) # <<>> THEN Preferred(list, session)[1] ELSE LeastLoaded(list)

\* RoundRobinStrategy.select: a cycle over the metrics as they were when the
\* list of nodes last changed, overloaded ones included.
Ring(list) == IF NodeIds(ring.list) = NodeIds(list) THEN ring ELSE [list |-> list, next |-> 1]

\* What _strategy.select(metrics) returns.
ByObject(list) ==
    CASE object = "round_robin" -> Ring(list).list[Ring(list).next]
      [] object = "weighted_capacity" -> WeightedCapacity(list)
      [] object \in {"least_loaded", "affinity_based"} -> LeastLoaded(list)

Sticky == config = "affinity_based" /\ object = "affinity_based"
InTurn == config = "round_robin"

-----------------------------------------------------------------------------
(* Processes *)

\* LoadBalancer, with _load_state: the strategy is not made anew.
LoadState(given) ==
    /\ ~balancing
    /\ balancing' = TRUE
    /\ object' = given
    /\ affinity' = <<>> /\ ring' = NoRing
    /\ IF state.form = "whole"
       THEN /\ config' = state.data.config
            /\ metrics' = state.data.metrics
            /\ rr_index' = state.data.rr_index
            /\ UNCHANGED turns
       ELSE /\ config' = given
            /\ metrics' = <<>> /\ rr_index' = 0
            /\ turns' = NoTurns
    /\ decision' = NoDecision
    /\ UNCHANGED state

BalancerEnds ==
    /\ balancing' = FALSE
    /\ config' = "least_loaded" /\ object' = "least_loaded"
    /\ metrics' = <<>> /\ rr_index' = 0
    /\ affinity' = <<>> /\ ring' = NoRing
    /\ decision' = NoDecision

CloseBalancer == balancing /\ BalancerEnds /\ UNCHANGED <<state, turns>>

\* update_metrics; nothing is written.
UpdateMetrics(node, load) ==
    LET new == [node |-> node, load |-> load] IN
    /\ balancing
    /\ new \notin ToSet(metrics)
    /\ metrics' = IF node \in ToSet(NodeIds(metrics))
                  THEN [i \in DOMAIN metrics |-> IF metrics[i].node = node THEN new ELSE metrics[i]]
                  ELSE Append(metrics, new)
    /\ turns' = NoTurns
    /\ decision' = NoDecision
    /\ UNCHANGED <<state, balancing, config, object, rr_index, affinity, ring>>

-----------------------------------------------------------------------------
(* select_node *)

Chosen(session) ==
    CASE Sticky -> AffinityBased(metrics, session)
      [] InTurn -> FreeOrAll(metrics)[(rr_index % Len(FreeOrAll(metrics))) + 1]
      [] OTHER -> ByObject(metrics)

\* Mutant: the index is saved before it is raised.
NextStateOldIndex == [config |-> config, metrics |-> metrics, rr_index |-> rr_index]

\* _save_state
NextState == [config |-> config, metrics |-> metrics, rr_index |-> rr_index']

SelectNode(session) ==
    LET chosen == Chosen(session) IN
    /\ balancing /\ metrics # <<>>
    /\ InTurn => rr_index < MaxTurns
    /\ \/ /\ rr_index' = (IF InTurn THEN rr_index + 1 ELSE rr_index)
          /\ turns' = (IF InTurn THEN [turns EXCEPT ![chosen.node] = @ + 1] ELSE turns)
          /\ affinity' = (IF Sticky /\ Preferred(metrics, session) = <<>>
                          THEN [s \in DOMAIN affinity \cup {session} |->
                                  IF s = session THEN chosen.node ELSE affinity[s]]
                          ELSE affinity)
          /\ ring' = (IF ~InTurn /\ object = "round_robin"
                      THEN [Ring(metrics) EXCEPT !.next = (@ % Len(metrics)) + 1]
                      ELSE ring)
          /\ state' = Whole(NextState)
          /\ decision' = [node |-> chosen.node, session |-> session, wait |-> Overloaded(chosen),
                          had |-> IF session \in DOMAIN affinity THEN affinity[session] ELSE "none"]
          /\ UNCHANGED <<balancing, config, object, metrics>>
       \/ /\ BalancerEnds
          /\ state' = Torn
          /\ UNCHANGED turns

BalancerNext ==
    \/ \E given \in Strategies : LoadState(given)
    \/ CloseBalancer
    \/ \E node \in Nodes, load \in Loads : UpdateMetrics(node, load)
    \/ \E session \in Sessions : SelectNode(session)

BalancerSpec == BalancerInit /\ [][BalancerNext]_balancerVars

-----------------------------------------------------------------------------
(* Properties *)

Metric == [node : Nodes, load : Loads]
Listed(list) == /\ list \in Seq(Metric)
                /\ \A i, j \in DOMAIN list : list[i].node = list[j].node => i = j

\* The variables keep their types.
BalancerTypeOK ==
    /\ state.form \in {"absent", "torn", "whole"}
    /\ state.form = "whole" => /\ Listed(state.data.metrics) /\ state.data.config \in Strategies
                               /\ state.data.rr_index \in 0 .. MaxTurns
    /\ balancing \in BOOLEAN
    /\ config \in Strategies /\ object \in Strategies
    /\ Listed(metrics) /\ Listed(ring.list)
    /\ rr_index \in 0 .. MaxTurns
    /\ DOMAIN affinity \subseteq Sessions
    /\ turns \in [Nodes -> 0 .. MaxTurns]

\* Round robin is fair across processes: as long as the nodes stay as they
\* are, no available node is ahead of another by more than one choice
\* (balancer.py:50,141).
TurnsFair ==
    balancing /\ InTurn =>
        \A a, b \in ToSet(NodeIds(FreeOrAll(metrics))) : turns[a] - turns[b] \in -1 .. 1

\* A balancer whose strategy is the one of its configuration chooses a node
\* it knows, an overloaded one only when all are, says so by a wait, and
\* keeps a session on the node it has while that can take it (balancer.py:42).
ChoiceSound ==
    LET Known(node) == \E m \in ToSet(metrics) : m.node = node
        Full(node) == \E m \in ToSet(metrics) : m.node = node /\ Overloaded(m)
    IN  decision # NoDecision /\ config = object =>
            /\ Known(decision.node)
            /\ Full(decision.node) => \A m \in ToSet(metrics) : Overloaded(m)
            /\ decision.wait <=> Full(decision.node)
            /\ Sticky /\ Known(decision.had) /\ ~Full(decision.had) => decision.node = decision.had
=============================================================================
