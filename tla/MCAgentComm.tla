----------------------------- MODULE MCAgentComm -----------------------------
(* Two agents that work together, and one alone.  What a program sends itself  *)
(* is a delivery of what was not submitted.                                    *)
EXTENDS AgentComm

CONSTANTS a1, a2

MCAgentLists == {<<a1>>, <<a1, a2>>}
MCContents == {Said("result_delivery")}

Symmetry == Permutations(Processes) \cup Permutations(Results)

\* A behaviour has a collaboration, or a channel without one: the two would share
\* nothing but the lines of a file.
OneName == Cardinality({c \in Names : agents'[c] # <<>>}) <= 1

\* Writes fail where two agents work.
TwoAgentsFail == failures' = 0 \/ \E c \in Names : Len(agents'[c]) > 1

\* Of the messages on a queue a program has sent one itself.
OneDirect ==
    \A p \in Processes, c \in Names : Alive(p) =>
        Cardinality({k \in DOMAIN memory[p].queue[c] : memory[p].queue[c][k].direct}) <= 1
=============================================================================
