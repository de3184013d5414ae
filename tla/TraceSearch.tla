------------------------------ MODULE TraceSearch ------------------------------
(***************************************************************************)
(* fusion_code_modelization/trace: what TraceTracker computes from the     *)
(* graph in the memory of TraceStore.  The graph grows by create_node and  *)
(* link_nodes, and a store made anew may have lost nodes that edges name   *)
(* (TraceStore.tla says when).                                             *)
(*                                                                         *)
(* Abstractions: nodes are numbered in the order of the map _nodes; an edge*)
(* is a pair of node identifiers with its place in _edges; the type of an  *)
(* artifact stands for all a report filters or counts by.                  *)
(***************************************************************************)
EXTENDS Selection, Sequences, FiniteSetsExt

CONSTANTS Ids,      \* node identifiers, in the order of their making
          Artifact, \* of each its artifact_id
          MaxLinks, \* bound on the edges (the code has none)
          Depths    \* the values of max_depth that are asked for

ASSUME SearchAssumption == Ids \subseteq Nat /\ MaxLinks \in Nat /\ Depths \subseteq Nat

VARIABLES nodes, edges

searchVars == <<nodes, edges>>

SearchInit == nodes = {} /\ edges = <<>>

CreateNode(id) == /\ \A other \in nodes : other < id
                  /\ nodes' = nodes \cup {id}
                  /\ UNCHANGED edges

\* link_nodes asks nothing of the two identifiers.
LinkNodes(source, target) ==
    /\ Len(edges) < MaxLinks
    /\ edges' = Append(edges, [source |-> source, target |-> target])
    /\ UNCHANGED nodes

\* Another process, whose store reads the files.
Reload(left) == nodes' = left /\ UNCHANGED edges

SearchNext == \/ \E id \in Ids : CreateNode(id)
              \/ \E source, target \in Ids : LinkNodes(source, target)
              \/ \E id \in nodes : Reload(nodes \ {id})

SearchSpec == SearchInit /\ [][SearchNext]_searchVars

-----------------------------------------------------------------------------
(* trace_forward and trace_backward *)

Ways == {"forward", "backward"}
From(e, way) == IF way = "forward" THEN e.source ELSE e.target
To(e, way) == IF way = "forward" THEN e.target ELSE e.source

\* _adjacency or _reverse_adjacency of a node, with repetitions.
Neighbors(id, way) ==
    LET out == Picked(edges, {i \in DOMAIN edges : From(edges[i], way) = id})
    IN  [n \in DOMAIN out |-> To(out[n], way)]

Links(i, id, neighbor, way) == From(edges[i], way) = id /\ To(edges[i], way) = neighbor

\* The place of the first edge from one node to another.
FirstEdge(id, neighbor, way) ==
    CHOOSE i \in DOMAIN edges : /\ Links(i, id, neighbor, way)
                                /\ \A j \in 1 .. i - 1 : ~Links(j, id, neighbor, way)

\* Every visited node is queued once, when it is visited, so that the queue
\* is a suffix of the visited nodes, each with its depth.
Entry(id, depth) == [id |-> id, depth |-> depth]
Visited(found) == {found.nodes[i].id : i \in DOMAIN found.nodes}

\* Mutant: a neighbour is queued at the depth of the node itself.
LookAtSameDepth(found, at, neighbor, way) ==
    [nodes |-> IF neighbor \in nodes \ Visited(found)
               THEN Append(found.nodes, Entry(neighbor, at.depth)) ELSE found.nodes,
     edges |-> found.edges \cup {FirstEdge(at.id, neighbor, way)}]

LookAt(found, at, neighbor, way) ==
    [nodes |-> IF neighbor \in nodes \ Visited(found)
               THEN Append(found.nodes, Entry(neighbor, at.depth + 1)) ELSE found.nodes,
     edges |-> found.edges \cup {FirstEdge(at.id, neighbor, way)}]

Expanded(found, at, way) ==
    LET list == Neighbors(at.id, way)
        after[n \in 0 .. Len(list)] ==
          IF n = 0 THEN found ELSE LookAt(after[n - 1], at, list[n], way)
    IN  after[Len(list)]

\* The search after its loop has run once for every node there is.
Search(start, way, maxDepth) ==
    LET run[turn \in 0 .. Cardinality(nodes)] ==
          IF turn = 0 THEN [nodes |-> <<Entry(start, 0)>>, edges |-> {}]
          ELSE LET found == run[turn - 1] IN
               IF turn \in DOMAIN found.nodes /\ found.nodes[turn].depth < maxDepth
               THEN Expanded(found, found.nodes[turn], way)
               ELSE found
    IN  run[Cardinality(nodes)]

\* find_nodes_by_artifact_id
WithArtifact(artifact) == {id \in nodes : Artifact[id] = artifact}

\* TraceChain, whose depth is always max_depth.
Chain(artifact, way, maxDepth) ==
    LET start == Min(WithArtifact(artifact))
        found == Search(start, way, maxDepth)
    IN  IF WithArtifact(artifact) = {} THEN [nodes |-> <<>>, edges |-> {}]
        ELSE [start |-> start, end |-> found.nodes[Len(found.nodes)].id,
              nodes |-> found.nodes, edges |-> found.edges]

-----------------------------------------------------------------------------
(* generate_report without filters *)

\* get_orphan_node_ids
Orphans == {id \in nodes : \A i \in DOMAIN edges : id \notin {edges[i].source, edges[i].target}}

-----------------------------------------------------------------------------
(* Properties *)

\* The nodes and edges keep their types.
SearchTypeOK == /\ nodes \subseteq Ids /\ IsFiniteSet(nodes)
                /\ edges \in Seq([source : Ids, target : Ids])
                /\ Len(edges) <= MaxLinks

\* The known nodes at each distance, at most, from where a search starts.
Within(start, way, depth) ==
    LET reach[k \in 0 .. depth] ==
          IF k = 0 THEN {start}
          ELSE LET near == reach[k - 1]
                   Linked(id) == \E i \in DOMAIN edges :
                                   From(edges[i], way) \in near /\ To(edges[i], way) = id
               IN  near \cup {id \in nodes : Linked(id)}
    IN  reach

\* A trace finds every known node within max_depth links of the first node of
\* the artifact, once, ends on one of the farthest, and holds one edge for
\* each two nodes linked within that depth.
TraceExact(id, way, depth) ==
    LET start == Min(WithArtifact(Artifact[id]))
        reach == Within(start, way, depth)
        chain == Chain(Artifact[id], way, depth)
    IN  /\ chain.start = start
        /\ Visited(chain) = reach[depth]
        /\ Len(chain.nodes) = Cardinality(reach[depth])
        /\ \A k \in 0 .. depth : chain.end \in reach[k] => reach[k] = reach[depth]
        /\ \A i \in DOMAIN edges :
             Cardinality({j \in chain.edges : edges[j] = edges[i]})
               = (IF From(edges[i], way) \in reach[depth - 1] THEN 1 ELSE 0)

\* The report's orphans are the nodes from which neither trace shows an edge,
\* as far as a trace starts from them.
OrphanUntraced(id) ==
    id = Min(WithArtifact(Artifact[id])) =>
        (id \in Orphans <=> \A way \in Ways : Chain(Artifact[id], way, 1).edges = {})

\* A trace finds exactly what is linked within its depth (tracker.py:43,83),
\* and the orphans of a report are the nodes whose traces are empty (store.py:74).
SearchExact ==
    \A id \in nodes : /\ \A way \in Ways, depth \in Depths \ {0} : TraceExact(id, way, depth)
                      /\ OrphanUntraced(id)
=============================================================================
