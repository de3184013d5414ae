-------------------------- MODULE MCSnapshotManager --------------------------
(* Paths are alike: no definition of SnapshotManager orders or names them. *)
EXTENDS SnapshotManager

CONSTANTS lf, crlf  \* one text with its two line ends

MCNewlines == [text \in Texts |-> IF text = crlf THEN lf ELSE text]

Symmetry == Permutations(Paths)
=============================================================================
