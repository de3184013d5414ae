--------------------------- MODULE MCPullRequest ---------------------------
(* No change or two, of which the second may be refused or be of the same  *)
(* file; the registries of a program: none, the default one, and one with  *)
(* handlers of a caller.                                                   *)
EXTENDS PullRequest

MCRegistries ==
    {NoRegistry,
     Register(Register(DefaultRegistry, "pre_exec", "guard_evaluate"), "pre_exec", "custom")}

MCChangeLists ==
    LET written == [name |-> "f1", path |-> "plain", delete |-> FALSE, text |-> {"secret"}]
        deleted == [written EXCEPT !.delete = TRUE]
        refused == [name |-> "f2", path |-> "system", delete |-> TRUE, text |-> {}]
    IN  {<<>>, <<written, refused>>, <<written, deleted>>}

\* The parts meet in the audit handler and in the tracker only.  So each log
\* is filled up on its own, and calls begin with both of them empty.
OneAtATime ==
    \/ calls' = 0 /\ (clock' = 0 \/ made'.edges = 0)
    \/ /\ calls' > calls => calls > 0 \/ (clock = 0 /\ made.edges = 0)
       /\ pc = "idle" => UNCHANGED auditVars
       /\ cutoff' = 1
       /\ made'.edges <= 1
       /\ stops' + losses' <= 1
=============================================================================
