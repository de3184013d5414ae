----------------------------- MODULE TaskGraph -----------------------------
(***************************************************************************)
(* What a workflow promises: the tasks of one plan are run once each, none *)
(* before the tasks it depends on are settled, the tasks that can never be *)
(* run are blocked once nothing else is left, and only then the plan gets  *)
(* a verdict, which follows from what became of every task.                *)
(***************************************************************************)
EXTENDS Integers, Sequences

CONSTANT TaskLists   \* the plans: sequences of [task_id, depends_on]

VARIABLES tasks,     \* the plan, <<>> before it is made
          begun,     \* has the plan been made?
          outcome,   \* what has become of each task
          verdict    \* "none" until the plan is closed

vars == <<tasks, begun, outcome, verdict>>

Settled(o) == {i \in DOMAIN o : o[i] \in {"completed", "failed"}}

\* The tasks that may be started when the tasks have come to o.
Startable(ts, o) ==
    {i \in DOMAIN ts :
        /\ o[i] = "waiting"
        /\ \A d \in ts[i].depends_on : \E j \in Settled(o) : ts[j].task_id = d}

Quiet(o) == \A i \in DOMAIN o : o[i] # "active"

VerdictOn(o) ==
    IF DOMAIN o # {} /\ \A i \in DOMAIN o : o[i] = "completed" THEN "completed"
    ELSE IF \E i \in DOMAIN o : o[i] = "completed" THEN "partial"
    ELSE "failed"

\* Some startable tasks are started; or, if there are none and nothing is
\* active, the rest is blocked and the plan is given its verdict.
Advance(ts, o) ==
    \/ \E S \in SUBSET Startable(ts, o) :
         /\ S # {}
         /\ outcome' = [i \in DOMAIN ts |-> IF i \in S THEN "active" ELSE o[i]]
         /\ verdict' = "none"
    \/ /\ Startable(ts, o) = {}
       /\ Quiet(o)
       /\ outcome' = [i \in DOMAIN ts |->
                         IF o[i] = "waiting" THEN "blocked" ELSE o[i]]
       /\ verdict' = VerdictOn(outcome')

Init == tasks = <<>> /\ begun = FALSE /\ outcome = <<>> /\ verdict = "none"

Begin ==
    /\ ~begun
    /\ begun' = TRUE
    /\ \E ts \in TaskLists : /\ tasks' = ts
                             /\ Advance(ts, [i \in DOMAIN ts |-> "waiting"])

Settle(i) ==
    /\ outcome[i] = "active"
    /\ \E o \in {"completed", "failed"} : outcome' = [outcome EXCEPT ![i] = o]
    /\ UNCHANGED <<tasks, begun, verdict>>

Proceed ==
    /\ begun
    /\ verdict = "none"
    /\ Advance(tasks, outcome)
    /\ UNCHANGED <<tasks, begun>>

Next == Begin \/ (\E i \in DOMAIN outcome : Settle(i)) \/ Proceed

\* A plan that has begun is carried on until it has a verdict; whether a plan
\* is ever begun is up to the environment.
Spec == /\ Init
        /\ [][Next]_vars
        /\ WF_vars(begun /\ Next)
=============================================================================
