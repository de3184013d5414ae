-------------------------- MODULE MCClusterScheduler --------------------------
(* ClusterScheduler on small sets of nodes, tasks and requests for TLC.      *)
EXTENDS ClusterScheduler, TLC

\* The model values are interchangeable: no action or property singles one out.
Symmetry == Permutations(Nodes) \cup Permutations(Tasks)
               \cup Permutations(Requests) \cup Permutations(Sessions)
=============================================================================
