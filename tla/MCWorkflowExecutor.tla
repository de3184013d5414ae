------------------------ MODULE MCWorkflowExecutor ------------------------
(* Instances of WorkflowExecutor for TLC: the plans a model may answer with. *)
EXTENDS WorkflowExecutor

CONSTANTS p1, p2, t1, t2, t3

Task(id, deps) == [task_id |-> id, depends_on |-> deps]

\* Every plan of up to three tasks with names of their own, whatever they are
\* said to depend on: chains in any order, forks, joins, cycles with and without
\* a tail, tasks that depend on themselves or on a task the plan does not have.
UniquePlans ==
    {<<Task(t1, a)>> : a \in SUBSET {t1, t2}} \cup
    {<<Task(t1, a), Task(t2, b)>> : a, b \in SUBSET {t1, t2, t3}} \cup
    {<<Task(t1, a), Task(t2, b), Task(t3, c)>> :
        a, b, c \in SUBSET {t1, t2, t3}}

\* Plans whose tasks share a name, as "T?" does for every unnamed task.
Duplicates == {<<Task(t1, {}), Task(t1, {})>>,
               <<Task(t1, {}), Task(t1, {t2}), Task(t2, {})>>}

SharedPlans == {<<Task(t1, {})>>,
                <<Task(t1, {}), Task(t2, {t1})>>,
                <<Task(t1, {}), Task(t2, {}), Task(t3, {t1, t2})>>,
                <<Task(t1, {t2}), Task(t2, {t1}), Task(t3, {})>>} \cup Duplicates
=============================================================================
