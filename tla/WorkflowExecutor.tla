-------------------------- MODULE WorkflowExecutor --------------------------
(***************************************************************************)
(* fusion_code_modelization/workflow: one WorkflowExecutor, shared by      *)
(* every request of the server, runs the plans that TaskDecomposer makes.  *)
(*                                                                         *)
(* A step is what happens between two awaits of the event loop: a plan     *)
(* gives up control while the model answers (decompose, execute_subtask,   *)
(* merge_results) and while its sub-tasks wait for the semaphore.          *)
(*                                                                         *)
(* Abstractions: an answer of the model is the slot that asked for it; a   *)
(* prompt is the set of dependency outputs pasted into it.                 *)
(***************************************************************************)
EXTENDS Integers, FiniteSets, Sequences

CONSTANTS Plans,        \* the calls of run_workflow, all on one executor
          TaskIds,      \* the names a plan may use for its tasks
          Shapes,       \* the task lists the model's answer may parse to
          MaxParallel,  \* the permits of the semaphore of one execute()
          NoOutput,     \* an empty SubTaskResult.output
          NoResult      \* a task id that has no entry yet

SubTask == [task_id : TaskIds, depends_on : SUBSET TaskIds]

ASSUME ShapesAssumption == Shapes \subseteq Seq(SubTask)
ASSUME ParallelAssumption == MaxParallel \in Nat

VARIABLES subtasks,    \* plan.subtasks, fixed once decompose has returned
          pc,          \* where run_workflow is suspended
          status,      \* SubTask.status of each slot of the plan
          completed,   \* completed_ids, local to execute()
          job,         \* the coroutine run_task of each slot
          ret,         \* what execute_subtask returned for each slot
          prompt,      \* the dependency outputs in the slot's prompt
          results,     \* self._results: shared by all plans, never cleared
          report,      \* result.subtask_results
          planStatus   \* plan.status, which is also result.status in the end

vars == <<subtasks, pc, status, completed, job, ret, prompt, results, report,
          planStatus>>

Outputs == (Plans \X Nat) \cup {NoOutput}
SubTaskResult == [status : {"completed", "failed"}, output : Outputs,
                  error : {"", "llm_failed", "deadlock"}]
Table == [TaskIds -> SubTaskResult \cup {NoResult}]

ASSUME NoResultAssumption == NoResult \notin SubTaskResult

EmptyTable == [t \in TaskIds |-> NoResult]

Slots(p) == DOMAIN subtasks[p]
Ids(tasks, S) == {tasks[i].task_id : i \in S}
Wave(p) == {i \in Slots(p) : status[p][i] = "running"}
Calling(p) == {i \in Slots(p) : job[p][i] = "calling"}

Init ==
    /\ subtasks = [p \in Plans |-> <<>>]
    /\ pc = [p \in Plans |-> "idle"]
    /\ status = [p \in Plans |-> <<>>]
    /\ completed = [p \in Plans |-> {}]
    /\ job = [p \in Plans |-> <<>>]
    /\ ret = [p \in Plans |-> <<>>]
    /\ prompt = [p \in Plans |-> <<>>]
    /\ results = EmptyTable
    /\ report = [p \in Plans |-> EmptyTable]
    /\ planStatus = [p \in Plans |-> "planned"]

-----------------------------------------------------------------------------
(* The while loop of execute(), run without an await from the end of one   *)
(* gather to the next: with the statuses st, the ids done and the shared   *)
(* results res it either launches the next wave or leaves the loop.        *)

Pending(tasks, st) == {i \in DOMAIN tasks : st[i] = "pending"}

\* Mutants of Ready: dependencies read off the shared results; asked to be
\* completed, as in ready_tasks.
ReadyByResults(tasks, st, done) ==
    {i \in Pending(tasks, st) :
        tasks[i].depends_on \subseteq {t \in TaskIds : results[t] # NoResult}}
ReadyCompleted(tasks, st, done) ==
    {i \in Pending(tasks, st) :
        /\ tasks[i].task_id \notin done
        /\ tasks[i].depends_on \subseteq
              {tasks[j].task_id : j \in {k \in DOMAIN tasks : st[k] = "completed"}}}
Ready(tasks, st, done) ==
    {i \in Pending(tasks, st) : /\ tasks[i].task_id \notin done
                                /\ tasks[i].depends_on \subseteq done}

LoopEntered(tasks, done) == Cardinality(done) < Len(tasks)

\* The ready tasks become "running" and their coroutines queue for a permit.
Launch(p, tasks, st, done, res, jobs) ==
    LET ready == Ready(tasks, st, done) IN
    /\ LoopEntered(tasks, done)
    /\ ready # {}
    /\ pc' = [pc EXCEPT ![p] = "executing"]
    /\ status' = [status EXCEPT ![p] =
           [i \in DOMAIN tasks |-> IF i \in ready THEN "running" ELSE st[i]]]
    /\ job' = [job EXCEPT ![p] =
           [i \in DOMAIN tasks |-> IF i \in ready THEN "queued" ELSE jobs[i]]]
    /\ completed' = [completed EXCEPT ![p] = done]
    /\ results' = res
    /\ planStatus' = [planStatus EXCEPT ![p] = "running"]
    /\ UNCHANGED report

\* What the last lines of execute() make of a table of results.
Listed(table) == {t \in DOMAIN table : table[t] # NoResult}
AllOk(table) == /\ Listed(table) # {}
                /\ \A t \in Listed(table) : table[t].status = "completed"
\* Mutant: one failure fails the workflow.
VerdictStrict(table) ==
    IF \E t \in Listed(table) : table[t].status = "failed"
    THEN "failed" ELSE "partial"
Verdict(table) ==
    IF \E t \in Listed(table) : table[t].status = "completed"
    THEN "partial" ELSE "failed"

DeadlockResult == [status |-> "failed", output |-> NoOutput,
                   error |-> "deadlock"]

\* No task is ready: the pending ones are failed as a deadlock, and the whole
\* shared table becomes the result of this plan.
Leave(p, tasks, st, done, res, jobs) ==
    LET stuck == IF LoopEntered(tasks, done) THEN Pending(tasks, st) ELSE {}
        table == [t \in TaskIds |-> IF t \in Ids(tasks, stuck)
                                    THEN DeadlockResult ELSE res[t]]
    IN
    /\ ~ (LoopEntered(tasks, done) /\ Ready(tasks, st, done) # {})
    /\ status' = [status EXCEPT ![p] =
           [i \in DOMAIN tasks |-> IF i \in stuck THEN "failed" ELSE st[i]]]
    /\ job' = [job EXCEPT ![p] = jobs]
    /\ completed' = [completed EXCEPT ![p] = done \cup Ids(tasks, stuck)]
    /\ results' = table
    /\ report' = [report EXCEPT ![p] = table]
    /\ \/ /\ AllOk(table)
          /\ pc' = [pc EXCEPT ![p] = "merging"]
          /\ planStatus' = [planStatus EXCEPT ![p] = "running"]
       \/ /\ ~ AllOk(table)
          /\ pc' = [pc EXCEPT ![p] = "done"]
          /\ planStatus' = [planStatus EXCEPT ![p] = Verdict(table)]

Loop(p, tasks, st, done, res, jobs) ==
    \/ Launch(p, tasks, st, done, res, jobs)
    \/ Leave(p, tasks, st, done, res, jobs)

-----------------------------------------------------------------------------
\* A request: run_workflow asks the model to decompose the goal.
RunWorkflow(p) ==
    /\ pc[p] = "idle"
    /\ pc' = [pc EXCEPT ![p] = "decomposing"]
    /\ UNCHANGED <<subtasks, status, completed, job, ret, prompt, results,
                   report, planStatus>>

\* decompose returns (an empty list when the answer failed or did not parse)
\* and execute() runs up to its first gather.
Decomposed(p) ==
    /\ pc[p] = "decomposing"
    /\ \E tasks \in Shapes \cup {<<>>} :
         /\ subtasks' = [subtasks EXCEPT ![p] = tasks]
         /\ ret' = [ret EXCEPT ![p] = [i \in DOMAIN tasks |-> NoResult]]
         /\ prompt' = [prompt EXCEPT ![p] = [i \in DOMAIN tasks |-> {}]]
         /\ Loop(p, tasks, [i \in DOMAIN tasks |-> "pending"], {}, results,
                 [i \in DOMAIN tasks |-> "none"])

\* Mutants of Acquire: every known output is pasted; one permit too few.
AcquirePastesAll(p, i) ==
    /\ job[p][i] = "queued"
    /\ Cardinality(Calling(p)) < MaxParallel
    /\ job' = [job EXCEPT ![p][i] = "calling"]
    /\ prompt' = [prompt EXCEPT ![p][i] =
           {results[d].output : d \in {e \in TaskIds :
                 results[e] # NoResult /\ results[e].output # NoOutput}}]
    /\ UNCHANGED <<subtasks, pc, status, completed, ret, results, report,
                   planStatus>>
AcquireTooFew(p, i) ==
    /\ job[p][i] = "queued"
    /\ Cardinality(Calling(p)) + 1 < MaxParallel
    /\ job' = [job EXCEPT ![p][i] = "calling"]
    /\ UNCHANGED <<subtasks, pc, status, completed, ret, prompt, results, report,
                   planStatus>>

\* The first coroutine in the semaphore's queue gets a permit; execute_subtask
\* pastes the outputs that the shared table now holds for its dependencies.
Acquire(p, i) ==
    /\ job[p][i] = "queued"
    /\ \A j \in Slots(p) : job[p][j] = "queued" => i <= j
    /\ Cardinality(Calling(p)) < MaxParallel
    /\ job' = [job EXCEPT ![p][i] = "calling"]
    /\ prompt' = [prompt EXCEPT ![p][i] =
           {results[d].output : d \in {e \in subtasks[p][i].depends_on :
                 results[e] # NoResult /\ results[e].output # NoOutput}}]
    /\ UNCHANGED <<subtasks, pc, status, completed, ret, results, report,
                   planStatus>>

Answers(p, i) ==
    {[status |-> "completed", output |-> <<p, i>>, error |-> ""],
     [status |-> "completed", output |-> NoOutput, error |-> ""],
     [status |-> "failed", output |-> NoOutput, error |-> "llm_failed"]}

\* The model answers, fails or times out: execute_subtask returns and its
\* permit is released.
Reply(p, i) ==
    /\ job[p][i] = "calling"
    /\ \E r \in Answers(p, i) : ret' = [ret EXCEPT ![p][i] = r]
    /\ job' = [job EXCEPT ![p][i] = "returned"]
    /\ UNCHANGED <<subtasks, pc, status, completed, prompt, results, report,
                   planStatus>>

\* Later slots of the wave overwrite earlier ones that bear the same id.
Stored(p) ==
    [t \in TaskIds |->
        LET named == {i \in Wave(p) : subtasks[p][i].task_id = t} IN
        IF named = {} THEN results[t]
        ELSE ret[p][CHOOSE i \in named : \A j \in named : j <= i]]

\* gather has every result of the wave: they are stored in the order of the
\* plan, and the loop goes on.
Collect(p) ==
    /\ pc[p] = "executing"
    /\ \A i \in Wave(p) : job[p][i] = "returned"
    /\ Loop(p, subtasks[p],
            [i \in Slots(p) |-> IF i \in Wave(p) THEN ret[p][i].status
                                                 ELSE status[p][i]],
            completed[p] \cup Ids(subtasks[p], Wave(p)), Stored(p), job[p])
    /\ UNCHANGED <<subtasks, ret, prompt>>

\* merge_results returns a text, also when the model failed ("Merge error").
Merged(p) ==
    /\ pc[p] = "merging"
    /\ pc' = [pc EXCEPT ![p] = "done"]
    /\ planStatus' = [planStatus EXCEPT ![p] = "completed"]
    /\ UNCHANGED <<subtasks, status, completed, job, ret, prompt, results,
                   report>>

\* What the event loop and the model's timeouts carry on by themselves.
Progress(p) ==
    \/ Decomposed(p)
    \/ \E i \in Slots(p) : Acquire(p, i) \/ Reply(p, i)
    \/ Collect(p)
    \/ Merged(p)

Next == \E p \in Plans : RunWorkflow(p) \/ Progress(p)

Spec == Init /\ [][Next]_vars

FairSpec == Spec /\ \A p \in Plans : WF_vars(Progress(p))

-----------------------------------------------------------------------------
(* Properties *)

\* Types of the executor's state: every table of a plan has one entry per task
\* of the plan (SubTask, SubTaskResult, WorkflowResult of workflow/).
TypeOK ==
    /\ subtasks \in [Plans -> Seq(SubTask)]
    /\ pc \in [Plans -> {"idle", "decomposing", "executing", "merging", "done"}]
    /\ status \in [Plans -> Seq({"pending", "running", "completed", "failed"})]
    /\ job \in [Plans -> Seq({"none", "queued", "calling", "returned"})]
    /\ ret \in [Plans -> Seq(SubTaskResult \cup {NoResult})]
    /\ prompt \in [Plans -> Seq(SUBSET Outputs)]
    /\ \A p \in Plans : /\ DOMAIN status[p] = Slots(p)
                        /\ DOMAIN job[p] = Slots(p)
                        /\ DOMAIN ret[p] = Slots(p)
                        /\ DOMAIN prompt[p] = Slots(p)
    /\ completed \in [Plans -> SUBSET TaskIds]
    /\ results \in Table
    /\ report \in [Plans -> Table]
    /\ planStatus \in [Plans -> {"planned", "running", "completed", "partial",
                                 "failed"}]

Launched(p) == {i \in Slots(p) : job[p][i] # "none"}

\* No coroutine of a task is created before each task it depends on has come to
\* an end (completed or failed) within the same plan, whatever other plans do
\* to the shared results (execute: the ready list and the gather barrier).
DependenciesSettled ==
    \A p \in Plans : \A i \in Launched(p) :
        \A d \in subtasks[p][i].depends_on :
            \E j \in Slots(p) : /\ subtasks[p][j].task_id = d
                                /\ status[p][j] \in {"completed", "failed"}

UniqueIds(p) ==
    \A i, j \in Slots(p) :
        subtasks[p][i].task_id = subtasks[p][j].task_id => i = j

\* S is closed when it has every task all of whose dependencies it has; the
\* runnable tasks are those of the least closed set: the ones that depend,
\* however indirectly, on no cycle and on no task that is not in the plan.
Closed(tasks, S) ==
    \A i \in DOMAIN tasks : tasks[i].depends_on \subseteq Ids(tasks, S) => i \in S
Runnable(tasks) ==
    {i \in DOMAIN tasks :
        \A S \in SUBSET DOMAIN tasks : Closed(tasks, S) => i \in S}

\* Only runnable tasks are ever launched: no order of answers, no failure and
\* no duplicate name gets a task of a dependency cycle started.
OnlyRunnableLaunched ==
    \A p \in Plans : Launched(p) \subseteq Runnable(subtasks[p])

\* When the loop of execute() is over, the tasks it ran are exactly the
\* runnable ones, each with the status its own call returned, and the others
\* are failed: the "deadlock" branch neither gives up on a task that could
\* still run nor leaves one pending.
DeadlockExact ==
    \A p \in Plans :
        (pc[p] \in {"merging", "done"} /\ UniqueIds(p)) =>
            /\ Launched(p) = Runnable(subtasks[p])
            /\ \A i \in Slots(p) :
                 status[p][i] = IF i \in Launched(p) THEN ret[p][i].status
                                                     ELSE "failed"

\* With one plan on the executor, a task's prompt holds exactly the non-empty
\* outputs of the tasks it depends on (dep_outputs in execute_subtask).
PromptFromOwnDependencies ==
    \A p \in Plans : \A i \in Slots(p) :
        (UniqueIds(p) /\ job[p][i] \in {"calling", "returned"}) =>
            prompt[p][i] =
                {ret[p][j].output : j \in {k \in Slots(p) :
                    /\ subtasks[p][k].task_id \in subtasks[p][i].depends_on
                    /\ ret[p][k].output # NoOutput}}

\* Every workflow that was requested comes to an end with a verdict: no
\* interleaving of plans leaves one waiting for a permit or in its loop.
Termination ==
    \A p \in Plans :
        pc[p] # "idle" ~> (pc[p] = "done" /\
                           planStatus[p] \in {"completed", "partial", "failed"})

-----------------------------------------------------------------------------
(* One plan with unique names, seen as a TaskGraph: a task is settled when  *)
(* its call returns, and blocked by the deadlock branch.                    *)

OutcomeOf(p, i) ==
    IF job[p][i] = "returned" THEN ret[p][i].status
    ELSE IF job[p][i] \in {"queued", "calling"} THEN "active"
    ELSE IF status[p][i] = "failed" THEN "blocked" ELSE "waiting"

Begun(p) == pc[p] \notin {"idle", "decomposing"}

\* The plan whose run is mapped: meaningful when Plans has one element.
ThePlan == CHOOSE p \in Plans : TRUE

Graph == INSTANCE TaskGraph WITH
    TaskLists <- Shapes \cup {<<>>},
    tasks     <- subtasks[ThePlan],
    begun     <- Begun(ThePlan),
    outcome   <- [i \in Slots(ThePlan) |-> OutcomeOf(ThePlan, i)],
    verdict   <- IF pc[ThePlan] = "done" THEN planStatus[ThePlan] ELSE "none"

\* The executor runs a plan the way TaskGraph says, up to the verdict: waves,
\* permits and the deadlock branch are one of its schedules.
ImplementsTaskGraph == Graph!Spec

-----------------------------------------------------------------------------
(* What the repository's tests say of a plan, and the code does not keep.  *)

\* A plan all of whose tasks completed is completed (test_execute_simple_plan).
AllCompletedIsCompleted ==
    \A p \in Plans :
        (pc[p] = "done" /\ Slots(p) # {}
            /\ \A i \in Slots(p) : status[p][i] = "completed")
        => planStatus[p] = "completed"

=============================================================================
