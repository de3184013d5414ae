----------------------------- MODULE Selection -----------------------------
(***************************************************************************)
(* Parts of a sequence in its order, by their positions.  SelectSeq would  *)
(* do for TLC; proofs need to say from which places the elements come.     *)
(***************************************************************************)
EXTENDS Integers, FiniteSets

\* A set of numbers, from the least on.
InOrder(S) == [i \in 1 .. Cardinality(S) |->
                  CHOOSE k \in S : Cardinality({j \in S : j <= k}) = i]

\* [x for x in list if ...]: the elements at the positions S.
Picked(list, S) == [i \in DOMAIN InOrder(S) |-> list[InOrder(S)[i]]]
=============================================================================
