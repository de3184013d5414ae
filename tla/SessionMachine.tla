--------------------------- MODULE SessionMachine ---------------------------
(***************************************************************************)
(* What a session promises its one user: it is born once, moves along the  *)
(* table of transitions, completed is terminal, its transcript grows by    *)
(* whole turns and only while it may chat, and what is gone never returns. *)
(***************************************************************************)
EXTENDS Integers, Sequences

CONSTANTS Sessions, ValidTransitions,
          Chats,   \* names of the turns
          NoSession  \* stands for what an unborn or gone session holds

VARIABLES phase,    \* "unborn", "alive" or "gone"
          session   \* [state, distributed, messages] of an alive session

vars == <<phase, session>>

Alive == {s \in Sessions : phase[s] = "alive"}

Init == /\ phase = [s \in Sessions |-> "unborn"]
        /\ session = [s \in Sessions |-> NoSession]

\* A session is born idle and local: empty, or with the transcript of another.
Born(s) ==
    /\ phase[s] = "unborn"
    /\ phase' = [phase EXCEPT ![s] = "alive"]
    /\ \E log \in {<<>>} \cup {session[t].messages : t \in Alive} :
         session' = [session EXCEPT ![s] =
             [state |-> "idle", distributed |-> FALSE, messages |-> log]]

\* A move to cluster_running may distribute the session; no move undoes that.
Move(s) ==
    /\ s \in Alive
    /\ \E target \in ValidTransitions[session[s].state] \ {"idle"} :
         \E spread \in {FALSE, target = "cluster_running"} :
           session' = [session EXCEPT ![s].state = target,
                                      ![s].distributed = @ \/ spread]
    /\ UNCHANGED phase

User(n) == [role |-> "user", chat |-> n]
Assistant(n) == [role |-> "assistant", chat |-> n]

\* A question, and its answer if there was one; the session is running after.
Turn(s) ==
    /\ s \in Alive
    /\ session[s].state \in {"idle", "running"}
    /\ \E n \in Chats :
         /\ \A i \in DOMAIN session[s].messages : session[s].messages[i].chat # n
         /\ \E turn \in {<<User(n)>>, <<User(n), Assistant(n)>>} :
              session' = [session EXCEPT ![s].state = "running",
                                         ![s].messages = @ \o turn]
    /\ UNCHANGED phase

\* A session may also come to nothing while it is being born.
Die(s) == /\ phase[s] \in {"unborn", "alive"}
          /\ phase' = [phase EXCEPT ![s] = "gone"]
          /\ session' = [session EXCEPT ![s] = NoSession]

Next == \E s \in Sessions : Born(s) \/ Move(s) \/ Turn(s) \/ Die(s)

Spec == Init /\ [][Next]_vars
=============================================================================
