------------------------------ MODULE TraceStore ------------------------------
(***************************************************************************)
(* fusion_code_modelization/trace: TraceStore and the TraceTracker over    *)
(* it, of one process at a time.  Memory holds what the current files held *)
(* when the store was made, and what was added since: an append that fails *)
(* is only logged.                                                         *)
(*                                                                         *)
(* Abstractions: nodes and edges are numbered in the order of their making,*)
(* and what an edge links is left out, since link_nodes asks nothing of it;*)
(* so are the two adjacency maps, which follow from the edges; searches,   *)
(* chains and reports only read.                                           *)
(***************************************************************************)
EXTENDS LogFiles

CONSTANTS MaxRotations, \* MAX_TRACE_ROTATIONS
          TraceLines,   \* the lines that make a file full
          MaxNodes,     \* bounds on the nodes and on the edges (the code has none)
          MaxEdges,
          MaxLosses     \* bound on the appends that fail

ASSUME TraceAssumption == /\ MaxRotations \in Nat \ {0} /\ TraceLines \in Nat \ {0}
                          /\ MaxNodes \in Nat /\ MaxEdges \in Nat
                          /\ MaxLosses \in Nat

VARIABLES trace,   \* the files of nodes.jsonl and of edges.jsonl
          tracker, \* whether the process has a tracker, and its memory
          made,    \* how many nodes and edges have been made
          losses   \* how many appends have failed or stopped halfway

traceVars == <<trace, tracker, made, losses>>

Kinds == {"nodes", "edges"}

NoTracker == [open |-> FALSE, nodes |-> {}, edges |-> {}]

TraceInit == /\ trace = [kind \in Kinds |-> [k \in {} |-> <<>>]]
             /\ tracker = NoTracker
             /\ made = [kind \in Kinds |-> 0]
             /\ losses = 0

\* _load reads the current files; nothing reads the rotated ones.
Loaded == [open  |-> TRUE,
           nodes |-> ToSet(Entries(Current(trace.nodes))),
           edges |-> ToSet(Entries(Current(trace.edges)))]

\* _get_trace_tracker
Tracker == IF tracker.open THEN tracker ELSE Loaded

\* _append_node and _append_edge: rotation and append, any OSError swallowed.
AppendTo(kind, entry) ==
    LET dir == trace[kind]
        rotation == IF Full(dir, TraceLines) THEN RotateTrace(dir, MaxRotations)
                                             ELSE NoRotation(dir)
    IN  /\ made' = [made EXCEPT ![kind] = @ + 1]
        /\ \/ /\ trace' = [trace EXCEPT ![kind] = Appended(rotation, entry)]
              /\ UNCHANGED losses
           \/ /\ losses < MaxLosses
              /\ \E left \in Interrupted(rotation, entry) :
                   trace' = [trace EXCEPT ![kind] = left]
              /\ losses' = losses + 1

\* create_node and link_nodes
AddTo(kind) == LET entry == made[kind] + 1 IN
             /\ tracker' = [Tracker EXCEPT ![kind] = @ \cup {entry}]
             /\ AppendTo(kind, entry)

AddNode == AddTo("nodes")
AddEdge == AddTo("edges")

RoomForNode == made.nodes < MaxNodes
RoomForEdge == made.edges < MaxEdges
=============================================================================
