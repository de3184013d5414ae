--------------------------- MODULE MCSessionEngine ---------------------------
(* Instances of SessionEngine, with its refinement, for TLC. *)
EXTENDS SessionRefinement, TLC

\* Sessions and callers are interchangeable: no action or invariant names one.
Symmetry == Permutations(Sessions) \cup Permutations(Callers)
=============================================================================
