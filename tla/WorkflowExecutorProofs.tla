----------------------- MODULE WorkflowExecutorProofs -----------------------
(***************************************************************************)
(* Theorems about WorkflowExecutor: for any number of plans on one         *)
(* executor, any task lists, any number of permits and any order of the    *)
(* model's answers, dependencies come first, only runnable tasks are       *)
(* started, and the deadlock branch fails exactly the others.  One plan on *)
(* an executor of its own is told what its own tasks answered, and runs    *)
(* the graph of its tasks.                                                 *)
(***************************************************************************)
EXTENDS WorkflowExecutor, SequenceTheorems, FiniteSetTheorems,
        WellFoundedInduction, TLAPS

-----------------------------------------------------------------------------
(* Sequences and finite sets *)

\* A function on the slots of a plan is a sequence.
LEMMA SlotsSeq ==
    ASSUME NEW X, NEW S, NEW q \in Seq(X), NEW f \in [DOMAIN q -> S]
    PROVE  f \in Seq(S)
<1>1. DOMAIN q = 1 .. Len(q) /\ Len(q) \in Nat
  BY LenProperties
<1> QED BY <1>1, SeqDef

\* A non-empty set of numbers up to n has a greatest element.
LEMMA Greatest ==
    ASSUME NEW n \in Nat, NEW S \in SUBSET (1 .. n), S # {}
    PROVE  \E i \in S : \A j \in S : j <= i
<1> DEFINE T == {n - i : i \in S}
           Less == {pair \in Nat \X Nat : pair[1] < pair[2]}
<1>1. T \subseteq Nat /\ T # {}
  <2>1. PICK i \in S : TRUE
    OBVIOUS
  <2>2. n - i \in T
    OBVIOUS
  <2>3. \A j \in S : n - j \in Nat
    OBVIOUS
  <2> QED BY <2>2, <2>3
<1>2. IsWellFoundedOn(Less, Nat)
  BY NatLessThanWellFounded, Zenon DEF OpToRel
<1> HIDE DEF Less
<1>3. PICK x \in T : \A y \in T : <<y, x>> \notin Less
  BY <1>1, <1>2, WFMin
<1>4. \A y \in T : ~(y < x)
  BY <1>1, <1>3 DEF Less
<1>5. PICK i \in S : x = n - i
  OBVIOUS
<1>6. \A j \in S : ~(n - j < n - i)
  BY <1>4, <1>5
<1> QED BY <1>6

\* A set of slots has no more names than slots.
LEMMA FewNames ==
    ASSUME NEW tasks \in Seq(SubTask), NEW S \in SUBSET DOMAIN tasks
    PROVE  /\ IsFiniteSet(Ids(tasks, S))
           /\ Cardinality(Ids(tasks, S)) <= Cardinality(S)
<1> DEFINE f == [i \in S |-> tasks[i].task_id]
<1>1. IsFiniteSet(S)
  <2>1. DOMAIN tasks = 1 .. Len(tasks) /\ Len(tasks) \in Nat
    BY LenProperties
  <2>2. IsFiniteSet(1 .. Len(tasks))
    BY <2>1, FS_Interval
  <2> QED BY <2>1, <2>2, FS_Subset
<1>2. f \in Surjection(S, Ids(tasks, S))
  BY DEF Surjection, Ids
<1> QED BY <1>1, <1>2, FS_Surjection

\* When as many names are done as the plan has slots, every slot is done.
LEMMA AllDone ==
    ASSUME NEW tasks \in Seq(SubTask), NEW S \in SUBSET DOMAIN tasks,
           ~LoopEntered(tasks, Ids(tasks, S))
    PROVE  S = DOMAIN tasks
<1>1. DOMAIN tasks = 1 .. Len(tasks) /\ Len(tasks) \in Nat
  BY LenProperties
<1>2. IsFiniteSet(DOMAIN tasks) /\ Cardinality(DOMAIN tasks) = Len(tasks)
  <2>1. \A n \in Nat : IsFiniteSet(1 .. n) /\ Cardinality(1 .. n) = n
    BY FS_Interval
  <2> QED BY <1>1, <2>1
<1>3. /\ Cardinality(Ids(tasks, S)) \in Nat
      /\ Cardinality(Ids(tasks, S)) <= Cardinality(S)
  BY FewNames, FS_CardinalityType
<1>4. /\ IsFiniteSet(S)
      /\ Cardinality(S) <= Cardinality(DOMAIN tasks)
      /\ Cardinality(DOMAIN tasks) = Cardinality(S) => DOMAIN tasks = S
  BY <1>2, FS_Subset
<1>5. Cardinality(S) \in Nat
  BY <1>4, FS_CardinalityType
<1> QED BY <1>1, <1>2, <1>3, <1>4, <1>5 DEF LoopEntered

-----------------------------------------------------------------------------
(* The inductive invariant: what is known of one plan, from the values of   *)
(* its task list, its statuses, its finished ids, its coroutines and their  *)
(* results.                                                                 *)

Started(jobs) == {i \in DOMAIN jobs : jobs[i] # "none"}
Ended(st) == {i \in DOMAIN st : st[i] \in {"completed", "failed"}}

\* A task is started after those it depends on, and only if it is runnable.
WellStarted(tasks, done, jobs) ==
    /\ \A i \in Started(jobs) : tasks[i].depends_on \subseteq done
    /\ Started(jobs) \subseteq Runnable(tasks)

\* Between two waves no task is running.
Between(tasks, st, done, jobs, rt) ==
    /\ st \in [DOMAIN tasks -> {"pending", "completed", "failed"}]
    /\ jobs \in [DOMAIN tasks -> {"none", "returned"}]
    /\ rt \in [DOMAIN tasks -> SubTaskResult \cup {NoResult}]
    /\ \A i \in DOMAIN tasks : jobs[i] = "none" <=> st[i] = "pending"
    /\ \A i \in DOMAIN tasks :
         jobs[i] = "returned" => rt[i] \in SubTaskResult /\ st[i] = rt[i].status
    /\ done = Ids(tasks, Ended(st))
    /\ WellStarted(tasks, done, jobs)

\* While a wave runs, its tasks are queued, calling or returned.
Running(tasks, st, done, jobs, rt) ==
    /\ st \in [DOMAIN tasks -> {"pending", "running", "completed", "failed"}]
    /\ jobs \in [DOMAIN tasks -> {"none", "queued", "calling", "returned"}]
    /\ rt \in [DOMAIN tasks -> SubTaskResult \cup {NoResult}]
    /\ \A i \in DOMAIN tasks : jobs[i] = "none" <=> st[i] = "pending"
    /\ \A i \in DOMAIN tasks : jobs[i] \in {"queued", "calling"} => st[i] = "running"
    /\ \A i \in DOMAIN tasks :
         jobs[i] = "returned" =>
             rt[i] \in SubTaskResult /\ st[i] \in {"running", rt[i].status}
    /\ done = Ids(tasks, Ended(st))
    /\ WellStarted(tasks, done, jobs)

\* After the loop, with unique names the tasks that ran are the runnable ones.
Over(tasks, st, jobs, rt) ==
    /\ st \in [DOMAIN tasks -> {"completed", "failed"}]
    /\ jobs \in [DOMAIN tasks -> {"none", "returned"}]
    /\ WellStarted(tasks, Ids(tasks, Ended(st)), jobs)
    /\ (\A i, j \in DOMAIN tasks : tasks[i].task_id = tasks[j].task_id => i = j)
       => /\ Started(jobs) = Runnable(tasks)
          /\ \A i \in DOMAIN tasks :
               st[i] = IF i \in Started(jobs) THEN rt[i].status ELSE "failed"

PlanInv(p) ==
    /\ pc[p] \in {"idle", "decomposing"} => subtasks[p] = <<>>
    /\ pc[p] = "executing" =>
         Running(subtasks[p], status[p], completed[p], job[p], ret[p])
    /\ pc[p] \in {"merging", "done"} =>
         Over(subtasks[p], status[p], job[p], ret[p])

Inv == TypeOK /\ \A p \in Plans : PlanInv(p)

-----------------------------------------------------------------------------
(* The loop of execute() *)

\* The loop marks some slots of a table and leaves the others.
Marked(tasks, S, mark, table) ==
    [i \in DOMAIN tasks |-> IF i \in S THEN mark ELSE table[i]]

\* A wave keeps the invariant: a ready task has its dependencies done, so any
\* closed set that has the tasks started before it has this task too.
LEMMA WaveStarts ==
    ASSUME NEW tasks \in Seq(SubTask), NEW st, NEW done, NEW jobs, NEW rt,
           Between(tasks, st, done, jobs, rt)
    PROVE  Running(tasks, Marked(tasks, Ready(tasks, st, done), "running", st), done,
                   Marked(tasks, Ready(tasks, st, done), "queued", jobs), rt)
<1> DEFINE ready == Ready(tasks, st, done)
           st2 == Marked(tasks, ready, "running", st)
           jobs2 == Marked(tasks, ready, "queued", jobs)
<1>1. /\ ready \subseteq DOMAIN tasks
      /\ \A i \in ready : st[i] = "pending" /\ tasks[i].depends_on \subseteq done
  BY DEF Ready, Pending
<1>2. /\ st \in [DOMAIN tasks -> {"pending", "completed", "failed"}]
      /\ jobs \in [DOMAIN tasks -> {"none", "returned"}]
      /\ done = Ids(tasks, Ended(st))
      /\ WellStarted(tasks, done, jobs)
  BY DEF Between
<1>3. Ended(st2) = Ended(st)
  BY <1>1, <1>2 DEF Ended, Marked
<1>4. Started(jobs2) = Started(jobs) \cup ready
  BY <1>1, <1>2 DEF Started, Marked
<1>5. Ended(st) \subseteq Started(jobs)
  BY DEF Between, Ended, Started
<1>6. ready \subseteq Runnable(tasks)
  <2> SUFFICES ASSUME NEW i \in ready, NEW S \in SUBSET DOMAIN tasks,
                      Closed(tasks, S)
               PROVE  i \in S
    BY <1>1 DEF Runnable
  <2>1. Ended(st) \subseteq S
    BY <1>2, <1>5 DEF WellStarted, Runnable
  <2>2. tasks[i].depends_on \subseteq Ids(tasks, S)
    BY <1>1, <1>2, <2>1 DEF Ids
  <2> QED BY <1>1, <2>2 DEF Closed
<1>7. WellStarted(tasks, done, jobs2)
  BY <1>1, <1>2, <1>4, <1>6 DEF WellStarted
<1>8. /\ st2 \in [DOMAIN tasks -> {"pending", "running", "completed", "failed"}]
      /\ jobs2 \in [DOMAIN tasks -> {"none", "queued", "calling", "returned"}]
      /\ \A i \in DOMAIN tasks : jobs2[i] = "none" <=> st2[i] = "pending"
      /\ \A i \in DOMAIN tasks :
           jobs2[i] \in {"queued", "calling"} => st2[i] = "running"
      /\ \A i \in DOMAIN tasks : jobs2[i] = "returned" =>
           rt[i] \in SubTaskResult /\ st2[i] \in {"running", rt[i].status}
  BY <1>1 DEF Between, Marked
<1>9. /\ rt \in [DOMAIN tasks -> SubTaskResult \cup {NoResult}]
      /\ done = Ids(tasks, Ended(st2))
  BY <1>2, <1>3 DEF Between
<1> QED BY <1>7, <1>8, <1>9 DEF Running

\* The tasks that the deadlock branch fails.
Stuck(tasks, st, done) ==
    IF LoopEntered(tasks, done) THEN Pending(tasks, st) ELSE {}

\* The end of the loop keeps it: the tasks that ran are closed when none is
\* ready, and all there are when the loop is not entered.
LEMMA LoopEnds ==
    ASSUME NEW tasks \in Seq(SubTask), NEW st, NEW done, NEW jobs, NEW rt,
           Between(tasks, st, done, jobs, rt),
           ~(LoopEntered(tasks, done) /\ Ready(tasks, st, done) # {})
    PROVE  Over(tasks, Marked(tasks, Stuck(tasks, st, done), "failed", st), jobs, rt)
<1> DEFINE stuck == Stuck(tasks, st, done)
           st2 == Marked(tasks, stuck, "failed", st)
           L == Started(jobs)
<1>1. /\ st \in [DOMAIN tasks -> {"pending", "completed", "failed"}]
      /\ jobs \in [DOMAIN tasks -> {"none", "returned"}]
      /\ done = Ids(tasks, Ended(st))
      /\ WellStarted(tasks, done, jobs)
      /\ \A i \in DOMAIN tasks : jobs[i] = "none" <=> st[i] = "pending"
      /\ \A i \in DOMAIN tasks : jobs[i] = "returned" => st[i] = rt[i].status
  BY DEF Between
<1>2. L \subseteq DOMAIN tasks /\ Ended(st) = L /\ Pending(tasks, st) = DOMAIN tasks \ L
  BY <1>1 DEF Ended, Started, Pending
<1>3. ~LoopEntered(tasks, done) => L = DOMAIN tasks
  BY <1>1, <1>2, AllDone
<1>4. stuck = DOMAIN tasks \ L
  BY <1>2, <1>3 DEF Stuck
<1> HIDE DEF stuck
<1>5. st2 \in [DOMAIN tasks -> {"completed", "failed"}]
  BY <1>1, <1>4 DEF Started, Marked
<1>6. WellStarted(tasks, Ids(tasks, Ended(st2)), jobs)
  <2>1. done \subseteq Ids(tasks, Ended(st2))
    BY <1>1, <1>2, <1>5 DEF Ids, Ended
  <2> QED BY <1>1, <2>1 DEF WellStarted
<1>7. ASSUME \A i, j \in DOMAIN tasks :
                 tasks[i].task_id = tasks[j].task_id => i = j
      PROVE  L = Runnable(tasks)
  <2>1. Closed(tasks, L)
    <3> SUFFICES ASSUME NEW i \in DOMAIN tasks, i \notin L,
                        tasks[i].depends_on \subseteq Ids(tasks, L)
                 PROVE  FALSE
      BY DEF Closed
    <3>1. tasks[i].task_id \notin done
      BY <1>1, <1>2, <1>7 DEF Ids
    <3>2. i \in Ready(tasks, st, done)
      BY <1>1, <1>2, <3>1 DEF Ready
    <3> QED BY <1>3, <3>2
  <2>2. Runnable(tasks) \subseteq L
    BY <1>2, <2>1 DEF Runnable
  <2> QED BY <1>1, <2>2 DEF WellStarted
<1>8. \A i \in DOMAIN tasks :
          st2[i] = IF i \in L THEN rt[i].status ELSE "failed"
  BY <1>1, <1>4 DEF Started, Marked
<1> QED BY <1>1, <1>5, <1>6, <1>7, <1>8 DEF Over, stuck

-----------------------------------------------------------------------------
(* Steps *)

LEMMA IdsType ==
    ASSUME NEW tasks \in Seq(SubTask), NEW S \in SUBSET DOMAIN tasks
    PROVE  Ids(tasks, S) \subseteq TaskIds
<1>1. \A i \in DOMAIN tasks : tasks[i] \in SubTask
  BY ElementOfSeq, LenProperties
<1> QED BY <1>1 DEF Ids, SubTask

\* A step that touches one plan leaves the invariant of the others alone.
LEMMA OtherPlans ==
    ASSUME Inv, NEW p \in Plans, PlanInv(p)',
           \A q \in Plans \ {p} :
               /\ subtasks'[q] = subtasks[q] /\ pc'[q] = pc[q]
               /\ status'[q] = status[q] /\ completed'[q] = completed[q]
               /\ job'[q] = job[q] /\ ret'[q] = ret[q]
    PROVE  \A q \in Plans : PlanInv(q)'
<1> SUFFICES ASSUME NEW q \in Plans \ {p} PROVE PlanInv(q)'
  OBVIOUS
<1> QED BY DEF Inv, PlanInv

\* What the tables of one plan must be for the types to hold after a step.
LEMMA TypeStep ==
    ASSUME TypeOK, NEW p \in Plans, NEW tasks \in Seq(SubTask), NEW st, NEW jobs,
           NEW rt, NEW done \in SUBSET TaskIds,
           subtasks' = [subtasks EXCEPT ![p] = tasks],
           st \in [DOMAIN tasks -> {"pending", "running", "completed", "failed"}],
           status' = [status EXCEPT ![p] = st],
           jobs \in [DOMAIN tasks -> {"none", "queued", "calling", "returned"}],
           job' = [job EXCEPT ![p] = jobs],
           rt \in [DOMAIN tasks -> SubTaskResult \cup {NoResult}],
           ret' = [ret EXCEPT ![p] = rt],
           completed' = [completed EXCEPT ![p] = done]
    PROVE  /\ subtasks' \in [Plans -> Seq(SubTask)]
           /\ status' \in [Plans -> Seq({"pending", "running", "completed", "failed"})]
           /\ job' \in [Plans -> Seq({"none", "queued", "calling", "returned"})]
           /\ ret' \in [Plans -> Seq(SubTaskResult \cup {NoResult})]
           /\ completed' \in [Plans -> SUBSET TaskIds]
           /\ \A q \in Plans : /\ DOMAIN status'[q] = DOMAIN subtasks'[q]
                               /\ DOMAIN job'[q] = DOMAIN subtasks'[q]
                               /\ DOMAIN ret'[q] = DOMAIN subtasks'[q]
<1>1. /\ st \in Seq({"pending", "running", "completed", "failed"})
      /\ jobs \in Seq({"none", "queued", "calling", "returned"})
      /\ rt \in Seq(SubTaskResult \cup {NoResult})
  BY SlotsSeq
<1>2. \A q \in Plans :
          /\ subtasks'[q] = IF q = p THEN tasks ELSE subtasks[q]
          /\ status'[q] = IF q = p THEN st ELSE status[q]
          /\ job'[q] = IF q = p THEN jobs ELSE job[q]
          /\ ret'[q] = IF q = p THEN rt ELSE ret[q]
  BY DEF TypeOK
<1>3. /\ DOMAIN st = DOMAIN tasks /\ DOMAIN jobs = DOMAIN tasks
      /\ DOMAIN rt = DOMAIN tasks
  OBVIOUS
<1>4. \A q \in Plans : /\ DOMAIN status'[q] = DOMAIN subtasks'[q]
                       /\ DOMAIN job'[q] = DOMAIN subtasks'[q]
                       /\ DOMAIN ret'[q] = DOMAIN subtasks'[q]
  BY <1>2, <1>3 DEF TypeOK, Slots
<1> QED BY <1>1, <1>4 DEF TypeOK

\* One run of the loop, from between two waves.
LEMMA LoopStep ==
    ASSUME Inv, NEW p \in Plans, NEW tasks \in Seq(SubTask), NEW st, NEW jobs,
           NEW rt, NEW done \in SUBSET TaskIds, NEW res \in Table,
           Between(tasks, st, done, jobs, rt), Loop(p, tasks, st, done, res, jobs),
           subtasks' = [subtasks EXCEPT ![p] = tasks],
           ret' = [ret EXCEPT ![p] = rt],
           prompt' \in [Plans -> Seq(SUBSET Outputs)],
           \A q \in Plans : DOMAIN prompt'[q] = DOMAIN subtasks'[q]
    PROVE  Inv'
<1>1. CASE Launch(p, tasks, st, done, res, jobs)
  <2> DEFINE ready == Ready(tasks, st, done)
             st2 == Marked(tasks, ready, "running", st)
             jobs2 == Marked(tasks, ready, "queued", jobs)
  <2>1. Running(tasks, st2, done, jobs2, rt)
    BY WaveStarts
  <2>2. /\ pc' = [pc EXCEPT ![p] = "executing"]
        /\ status' = [status EXCEPT ![p] = st2]
        /\ job' = [job EXCEPT ![p] = jobs2]
        /\ completed' = [completed EXCEPT ![p] = done]
        /\ results' = res
        /\ planStatus' = [planStatus EXCEPT ![p] = "running"]
        /\ report' = report
    BY <1>1 DEF Launch, Marked
  <2> HIDE DEF st2, jobs2, ready
  <2>3. TypeOK'
    <3>1. /\ st2 \in [DOMAIN tasks -> {"pending", "running", "completed", "failed"}]
          /\ jobs2 \in [DOMAIN tasks -> {"none", "queued", "calling", "returned"}]
          /\ rt \in [DOMAIN tasks -> SubTaskResult \cup {NoResult}]
      BY <2>1 DEF Running
    <3>2. /\ pc' \in [Plans -> {"idle", "decomposing", "executing", "merging", "done"}]
          /\ planStatus' \in [Plans -> {"planned", "running", "completed", "partial",
                                        "failed"}]
          /\ results' \in Table
          /\ report' \in [Plans -> Table]
      BY <2>2 DEF Inv, TypeOK
    <3> QED BY <3>1, <3>2, <2>2, TypeStep DEF Inv, TypeOK, Slots
  <2>4. /\ subtasks'[p] = tasks /\ status'[p] = st2 /\ job'[p] = jobs2
        /\ completed'[p] = done /\ ret'[p] = rt /\ pc'[p] = "executing"
    BY <2>2 DEF Inv, TypeOK
  <2>5. PlanInv(p)'
    BY <2>1, <2>4 DEF PlanInv
  <2> QED BY <2>2, <2>3, <2>5, OtherPlans DEF Inv, TypeOK
<1>2. CASE Leave(p, tasks, st, done, res, jobs)
  <2> DEFINE stuck == Stuck(tasks, st, done)
             table == [t \in TaskIds |-> IF t \in Ids(tasks, stuck)
                                         THEN DeadlockResult ELSE res[t]]
             st2 == Marked(tasks, stuck, "failed", st)
             done2 == done \cup Ids(tasks, stuck)
  <2>1. Over(tasks, st2, jobs, rt)
    BY <1>2, LoopEnds DEF Leave
  <2>2. /\ status' = [status EXCEPT ![p] = st2]
        /\ job' = [job EXCEPT ![p] = jobs]
        /\ completed' = [completed EXCEPT ![p] = done2]
        /\ results' = table
        /\ report' = [report EXCEPT ![p] = table]
    BY <1>2 DEF Leave, Marked, Stuck
  <2>3. PICK v \in {"running", "partial", "failed"},
             place \in {"merging", "done"} :
               /\ planStatus' = [planStatus EXCEPT ![p] = v]
               /\ pc' = [pc EXCEPT ![p] = place]
    BY <1>2 DEF Leave, Verdict
  <2>4. table \in Table
    BY DEF Table, SubTaskResult, DeadlockResult, Outputs
  <2>5. done2 \in SUBSET TaskIds
    BY IdsType DEF Pending, Stuck
  <2> HIDE DEF stuck, table, st2, done2
  <2>6. TypeOK'
    <3>1. /\ st2 \in [DOMAIN tasks -> {"pending", "running", "completed", "failed"}]
          /\ jobs \in [DOMAIN tasks -> {"none", "queued", "calling", "returned"}]
          /\ rt \in [DOMAIN tasks -> SubTaskResult \cup {NoResult}]
      BY <2>1 DEF Over, Between
    <3>2. /\ pc' \in [Plans -> {"idle", "decomposing", "executing", "merging", "done"}]
          /\ planStatus' \in [Plans -> {"planned", "running", "completed", "partial",
                                        "failed"}]
          /\ results' \in Table
          /\ report' \in [Plans -> Table]
      BY <2>2, <2>3, <2>4 DEF Inv, TypeOK
    <3> QED BY <3>1, <3>2, <2>2, <2>5, TypeStep DEF Inv, TypeOK, Slots
  <2>7. /\ subtasks'[p] = tasks /\ status'[p] = st2 /\ job'[p] = jobs
        /\ ret'[p] = rt /\ pc'[p] \in {"merging", "done"}
    BY <2>2, <2>3 DEF Inv, TypeOK
  <2>8. PlanInv(p)'
    BY <2>1, <2>7 DEF PlanInv
  <2> QED BY <2>2, <2>3, <2>6, <2>8, OtherPlans DEF Inv, TypeOK
<1> QED BY <1>1, <1>2 DEF Loop

LEMMA RunWorkflowStep ==
    ASSUME Inv, NEW p \in Plans, RunWorkflow(p)
    PROVE  Inv'
<1>1. /\ pc[p] = "idle" /\ pc' = [pc EXCEPT ![p] = "decomposing"]
      /\ UNCHANGED <<subtasks, status, completed, job, ret, prompt, results,
                     report, planStatus>>
  BY DEF RunWorkflow
<1>2. TypeOK'
  BY <1>1 DEF Inv, TypeOK, Slots
<1>3. pc'[p] = "decomposing" /\ subtasks'[p] = <<>>
  BY <1>1 DEF Inv, TypeOK, PlanInv
<1>4. PlanInv(p)'
  BY <1>3 DEF PlanInv
<1> QED BY <1>1, <1>2, <1>4, OtherPlans DEF Inv, TypeOK

LEMMA DecomposedStep ==
    ASSUME Inv, NEW p \in Plans, Decomposed(p)
    PROVE  Inv'
<1>1. PICK tasks \in Shapes \cup {<<>>} :
        /\ subtasks' = [subtasks EXCEPT ![p] = tasks]
        /\ ret' = [ret EXCEPT ![p] = [i \in DOMAIN tasks |-> NoResult]]
        /\ prompt' = [prompt EXCEPT ![p] = [i \in DOMAIN tasks |-> {}]]
        /\ Loop(p, tasks, [i \in DOMAIN tasks |-> "pending"], {}, results,
                [i \in DOMAIN tasks |-> "none"])
  BY DEF Decomposed
<1> DEFINE st == [i \in DOMAIN tasks |-> "pending"]
           jobs == [i \in DOMAIN tasks |-> "none"]
           rt == [i \in DOMAIN tasks |-> NoResult]
           asked == [i \in DOMAIN tasks |-> {}]
<1>2. tasks \in Seq(SubTask)
  BY ShapesAssumption, EmptySeq
<1>3. Between(tasks, st, {}, jobs, rt)
  <2>1. Ended(st) = {} /\ Started(jobs) = {}
    BY DEF Ended, Started
  <2>2. Ids(tasks, Ended(st)) = {} /\ WellStarted(tasks, {}, jobs)
    BY <2>1 DEF Ids, WellStarted
  <2> QED BY <2>2 DEF Between
<1>4. /\ prompt' \in [Plans -> Seq(SUBSET Outputs)]
      /\ \A q \in Plans : DOMAIN prompt'[q] = DOMAIN subtasks'[q]
  <2>1. asked \in [DOMAIN tasks -> SUBSET Outputs]
    OBVIOUS
  <2>2. asked \in Seq(SUBSET Outputs) /\ DOMAIN asked = DOMAIN tasks
    BY <1>2, <2>1, SlotsSeq
  <2> HIDE DEF asked
  <2>3. \A q \in Plans : /\ subtasks'[q] = IF q = p THEN tasks ELSE subtasks[q]
                         /\ prompt'[q] = IF q = p THEN asked ELSE prompt[q]
    BY <1>1 DEF Inv, TypeOK, asked
  <2>4. \A q \in Plans : DOMAIN prompt'[q] = DOMAIN subtasks'[q]
    BY <2>2, <2>3 DEF Inv, TypeOK, Slots
  <2> QED BY <1>1, <2>2, <2>4 DEF Inv, TypeOK, asked
<1>5. results \in Table
  BY DEF Inv, TypeOK
<1> HIDE DEF st, jobs, rt
<1>6. /\ Loop(p, tasks, st, {}, results, jobs)
      /\ subtasks' = [subtasks EXCEPT ![p] = tasks]
      /\ ret' = [ret EXCEPT ![p] = rt]
  BY <1>1 DEF st, jobs, rt
<1> QED BY <1>2, <1>3, <1>4, <1>5, <1>6, LoopStep

\* A slot that waits for a permit or for the model belongs to a running wave.
LEMMA InWave ==
    ASSUME Inv, NEW p \in Plans, NEW i \in Slots(p),
           job[p][i] \in {"queued", "calling"}
    PROVE  /\ pc[p] = "executing" /\ PlanInv(p)
           /\ Running(subtasks[p], status[p], completed[p], job[p], ret[p])
           /\ status[p][i] = "running"
<1>1. subtasks[p] # <<>>
  BY DEF Slots
<1>2. pc[p] \notin {"merging", "done"}
  BY DEF Inv, PlanInv, Over, Slots
<1>3. pc[p] = "executing"
  BY <1>1, <1>2 DEF Inv, TypeOK, PlanInv
<1> QED BY <1>3 DEF Inv, PlanInv, Running, Slots

LEMMA AcquireStep ==
    ASSUME Inv, NEW p \in Plans, NEW i \in Slots(p), Acquire(p, i)
    PROVE  Inv'
<1> DEFINE jobs == [job[p] EXCEPT ![i] = "calling"]
           pasted == {results[d].output : d \in {e \in subtasks[p][i].depends_on :
                          results[e] # NoResult /\ results[e].output # NoOutput}}
           asked == [prompt[p] EXCEPT ![i] = pasted]
<1>1. /\ job[p][i] = "queued"
      /\ job' = [job EXCEPT ![p] = jobs]
      /\ prompt' = [prompt EXCEPT ![p] = asked]
      /\ UNCHANGED <<subtasks, pc, status, completed, ret, results, report,
                     planStatus>>
  BY DEF Acquire
<1>2. /\ pc[p] = "executing"
      /\ Running(subtasks[p], status[p], completed[p], job[p], ret[p])
      /\ status[p][i] = "running"
  BY <1>1, InWave
<1>3. jobs \in Seq({"none", "queued", "calling", "returned"}) /\ DOMAIN jobs = Slots(p)
  <2>1. jobs \in [DOMAIN subtasks[p] -> {"none", "queued", "calling", "returned"}]
    BY <1>2 DEF Running
  <2>2. subtasks[p] \in Seq(SubTask)
    BY DEF Inv, TypeOK
  <2> HIDE DEF jobs
  <2> QED BY <2>1, <2>2, SlotsSeq DEF Slots
<1>4. asked \in Seq(SUBSET Outputs) /\ DOMAIN asked = Slots(p)
  <2>1. subtasks[p] \in Seq(SubTask) /\ prompt[p] \in Seq(SUBSET Outputs)
        /\ DOMAIN prompt[p] = Slots(p)
    BY DEF Inv, TypeOK
  <2>2. subtasks[p][i] \in SubTask
    BY <2>1, ElementOfSeq, LenProperties DEF Slots
  <2>3. pasted \in SUBSET Outputs
    <3> SUFFICES ASSUME NEW d \in subtasks[p][i].depends_on, results[d] # NoResult
                 PROVE  results[d].output \in Outputs
      OBVIOUS
    <3>1. results[d] \in SubTaskResult
      BY <2>2 DEF Inv, TypeOK, Table, SubTask
    <3> QED BY <3>1 DEF SubTaskResult
  <2> HIDE DEF pasted
  <2>4. prompt[p] \in [DOMAIN prompt[p] -> SUBSET Outputs]
    BY <2>1, LenProperties, ElementOfSeq
  <2>5. asked \in [DOMAIN prompt[p] -> SUBSET Outputs]
    BY <2>3, <2>4
  <2> QED BY <2>1, <2>5, SlotsSeq
<1>5. Running(subtasks[p], status[p], completed[p], jobs, ret[p])
  <2>1. Started(jobs) = Started(job[p])
    BY <1>1, <1>2 DEF Started, Running, Slots
  <2> QED BY <1>2, <2>1 DEF Running, WellStarted, Slots
<1> HIDE DEF jobs, asked
<1>6. \A q \in Plans : /\ job'[q] = IF q = p THEN jobs ELSE job[q]
                       /\ prompt'[q] = IF q = p THEN asked ELSE prompt[q]
  BY <1>1 DEF Inv, TypeOK
<1>7. TypeOK'
  <2>1. \A q \in Plans : DOMAIN job'[q] = DOMAIN subtasks'[q]
                         /\ DOMAIN prompt'[q] = DOMAIN subtasks'[q]
    BY <1>1, <1>3, <1>4, <1>6 DEF Inv, TypeOK, Slots
  <2> QED BY <1>1, <1>3, <1>4, <2>1 DEF Inv, TypeOK, Slots
<1>8. PlanInv(p)'
  BY <1>1, <1>2, <1>5, <1>6 DEF PlanInv
<1> QED BY <1>1, <1>6, <1>7, <1>8, OtherPlans DEF Inv

LEMMA ReplyStep ==
    ASSUME Inv, NEW p \in Plans, NEW i \in Slots(p), Reply(p, i)
    PROVE  Inv'
<1>1. PICK r \in Answers(p, i) : ret' = [ret EXCEPT ![p][i] = r]
  BY DEF Reply
<1> DEFINE jobs == [job[p] EXCEPT ![i] = "returned"]
           rt == [ret[p] EXCEPT ![i] = r]
<1>2. /\ job[p][i] = "calling"
      /\ job' = [job EXCEPT ![p] = jobs]
      /\ ret' = [ret EXCEPT ![p] = rt]
      /\ UNCHANGED <<subtasks, pc, status, completed, prompt, results, report,
                     planStatus>>
  BY <1>1 DEF Reply
<1>3. /\ pc[p] = "executing"
      /\ Running(subtasks[p], status[p], completed[p], job[p], ret[p])
      /\ status[p][i] = "running"
  BY <1>2, InWave
<1>4. subtasks[p] \in Seq(SubTask) /\ DOMAIN subtasks[p] = Slots(p)
  BY DEF Inv, TypeOK, Slots
<1>5. r \in SubTaskResult
  <2>1. i \in Nat
    BY <1>4, LenProperties
  <2>2. <<p, i>> \in Outputs /\ NoOutput \in Outputs
    BY <2>1 DEF Outputs
  <2>3. \A o \in Outputs : \A st \in {"completed", "failed"} :
        \A e \in {"", "llm_failed", "deadlock"} :
            [status |-> st, output |-> o, error |-> e] \in SubTaskResult
    BY DEF SubTaskResult
  <2>4. \/ r = [status |-> "completed", output |-> <<p, i>>, error |-> ""]
        \/ r = [status |-> "completed", output |-> NoOutput, error |-> ""]
        \/ r = [status |-> "failed", output |-> NoOutput, error |-> "llm_failed"]
    BY DEF Answers
  <2> QED BY <2>2, <2>3, <2>4
<1>6. /\ jobs \in [DOMAIN subtasks[p] -> {"none", "queued", "calling", "returned"}]
      /\ rt \in [DOMAIN subtasks[p] -> SubTaskResult \cup {NoResult}]
  BY <1>3, <1>5 DEF Running
<1>7. Running(subtasks[p], status[p], completed[p], jobs, rt)
  <2>1. Started(jobs) = Started(job[p])
    BY <1>2, <1>3 DEF Started, Running, Slots
  <2>2. WellStarted(subtasks[p], completed[p], jobs)
    BY <1>3, <2>1 DEF Running, WellStarted
  <2>3. \A j \in DOMAIN subtasks[p] :
          /\ jobs[j] = IF j = i THEN "returned" ELSE job[p][j]
          /\ rt[j] = IF j = i THEN r ELSE ret[p][j]
    BY <1>3 DEF Running
  <2>4. /\ \A j \in DOMAIN subtasks[p] : jobs[j] = "none" <=> status[p][j] = "pending"
        /\ \A j \in DOMAIN subtasks[p] :
             jobs[j] \in {"queued", "calling"} => status[p][j] = "running"
        /\ \A j \in DOMAIN subtasks[p] : jobs[j] = "returned" =>
             rt[j] \in SubTaskResult /\ status[p][j] \in {"running", rt[j].status}
    BY <1>3, <1>5, <2>3 DEF Running
  <2> HIDE DEF jobs, rt
  <2> QED BY <1>3, <1>6, <2>2, <2>4 DEF Running
<1> HIDE DEF jobs, rt
<1>8. jobs \in Seq({"none", "queued", "calling", "returned"}) /\ DOMAIN jobs = Slots(p)
  BY <1>4, <1>6, SlotsSeq
<1>9. rt \in Seq(SubTaskResult \cup {NoResult}) /\ DOMAIN rt = Slots(p)
  BY <1>4, <1>6, SlotsSeq
<1>10. \A q \in Plans : /\ job'[q] = IF q = p THEN jobs ELSE job[q]
                        /\ ret'[q] = IF q = p THEN rt ELSE ret[q]
  BY <1>2 DEF Inv, TypeOK
<1>11. TypeOK'
  <2>1. \A q \in Plans : DOMAIN job'[q] = DOMAIN subtasks'[q]
                         /\ DOMAIN ret'[q] = DOMAIN subtasks'[q]
    BY <1>2, <1>8, <1>9, <1>10 DEF Inv, TypeOK, Slots
  <2> QED BY <1>2, <1>8, <1>9, <2>1 DEF Inv, TypeOK, Slots
<1>12. PlanInv(p)'
  BY <1>2, <1>3, <1>7, <1>10 DEF PlanInv
<1> QED BY <1>2, <1>10, <1>11, <1>12, OtherPlans DEF Inv

\* The table after a wave: where several slots bear a name, the last one counts.
LEMMA StoredType ==
    ASSUME Inv, NEW p \in Plans, \A i \in Wave(p) : ret[p][i] \in SubTaskResult
    PROVE  Stored(p) \in Table
<1> DEFINE named(t) == {i \in Wave(p) : subtasks[p][i].task_id = t}
<1>1. ASSUME NEW t \in TaskIds, named(t) # {}
      PROVE  ret[p][CHOOSE i \in named(t) : \A j \in named(t) : j <= i]
                 \in SubTaskResult
  <2>1. Len(subtasks[p]) \in Nat /\ named(t) \in SUBSET (1 .. Len(subtasks[p]))
    BY LenProperties DEF Inv, TypeOK, Wave, Slots
  <2>2. \E i \in named(t) : \A j \in named(t) : j <= i
    BY <1>1, <2>1, Greatest
  <2>3. (CHOOSE i \in named(t) : \A j \in named(t) : j <= i) \in named(t)
    BY <2>2
  <2>4. named(t) \subseteq Wave(p)
    OBVIOUS
  <2> QED BY <2>3, <2>4
<1>2. \A t \in TaskIds : results[t] \in SubTaskResult \cup {NoResult}
  BY DEF Inv, TypeOK, Table
<1> QED BY <1>1, <1>2 DEF Stored, Table

\* The statuses and the finished ids when the wave is collected.
Collected(p) ==
    [i \in Slots(p) |-> IF i \in Wave(p) THEN ret[p][i].status ELSE status[p][i]]
Done(p) == completed[p] \cup Ids(subtasks[p], Wave(p))

LEMMA CollectBetween ==
    ASSUME Inv, NEW p \in Plans, Collect(p)
    PROVE  /\ Between(subtasks[p], Collected(p), Done(p), job[p], ret[p])
           /\ Running(subtasks[p], status[p], completed[p], job[p], ret[p])
           /\ Ended(Collected(p)) = Ended(status[p]) \cup Wave(p)
           /\ Loop(p, subtasks[p], Collected(p), Done(p), Stored(p), job[p])
           /\ \A i \in Wave(p) : ret[p][i] \in SubTaskResult
<1> DEFINE tasks == subtasks[p]
           W == Wave(p)
           st == Collected(p)
           done == Done(p)
<1>1. /\ Running(tasks, status[p], completed[p], job[p], ret[p])
      /\ tasks \in Seq(SubTask) /\ Slots(p) = DOMAIN tasks
      /\ \A i \in W : job[p][i] = "returned"
      /\ Loop(p, tasks, st, done, Stored(p), job[p])
  BY DEF Collect, Inv, PlanInv, TypeOK, Slots, Collected, Done
<1>2. W \subseteq DOMAIN tasks /\ \A i \in DOMAIN tasks : i \in W <=> status[p][i] = "running"
  BY <1>1 DEF Wave
<1>3. \A i \in W : ret[p][i] \in SubTaskResult
  BY <1>1, <1>2 DEF Running
<1>4. \A i \in W : ret[p][i].status \in {"completed", "failed"}
  BY <1>3 DEF SubTaskResult
<1> HIDE DEF W
<1>5. st \in [DOMAIN tasks -> {"pending", "completed", "failed"}]
  BY <1>1, <1>2, <1>4 DEF Running, Collected, W
<1>6. job[p] \in [DOMAIN tasks -> {"none", "returned"}]
  BY <1>1, <1>2 DEF Running
<1>7. \A i \in DOMAIN tasks :
        /\ job[p][i] = "none" <=> st[i] = "pending"
        /\ job[p][i] = "returned" =>
             ret[p][i] \in SubTaskResult /\ st[i] = ret[p][i].status
  BY <1>1, <1>2, <1>4 DEF Running, Collected, W
<1>8. Ended(st) = Ended(status[p]) \cup W
  BY <1>1, <1>2, <1>4, <1>5 DEF Ended, Running, Collected, W
<1>9. done = Ids(tasks, Ended(st))
  BY <1>1, <1>8 DEF Running, Ids, Done, W
<1>10. WellStarted(tasks, done, job[p])
  BY <1>1 DEF Running, WellStarted, Done
<1> HIDE DEF st, done
<1>11. Between(tasks, st, done, job[p], ret[p])
  BY <1>1, <1>5, <1>6, <1>7, <1>9, <1>10 DEF Between, Running
<1> QED BY <1>1, <1>3, <1>8, <1>11 DEF W, st, done

LEMMA CollectStep ==
    ASSUME Inv, NEW p \in Plans, Collect(p)
    PROVE  Inv'
<1> DEFINE tasks == subtasks[p]
           st == Collected(p)
           done == Done(p)
<1>1. /\ tasks \in Seq(SubTask)
      /\ Between(tasks, st, done, job[p], ret[p])
      /\ Loop(p, tasks, st, done, Stored(p), job[p])
      /\ UNCHANGED <<subtasks, ret, prompt>>
  BY CollectBetween DEF Collect, Inv, TypeOK
<1>2. done \in SUBSET TaskIds
  <2>1. Ended(st) \in SUBSET DOMAIN tasks /\ done = Ids(tasks, Ended(st))
    BY <1>1 DEF Ended, Between
  <2> HIDE DEF tasks
  <2> QED BY <1>1, <2>1, IdsType
<1>3. Stored(p) \in Table
  BY CollectBetween, StoredType
<1>4. /\ subtasks' = [subtasks EXCEPT ![p] = tasks]
      /\ ret' = [ret EXCEPT ![p] = ret[p]]
      /\ prompt' \in [Plans -> Seq(SUBSET Outputs)]
      /\ \A q \in Plans : DOMAIN prompt'[q] = DOMAIN subtasks'[q]
  BY <1>1 DEF Inv, TypeOK, Slots
<1> HIDE DEF tasks, st, done
<1> QED BY <1>1, <1>2, <1>3, <1>4, LoopStep

LEMMA MergedStep ==
    ASSUME Inv, NEW p \in Plans, Merged(p)
    PROVE  Inv'
<1>1. /\ pc[p] = "merging" /\ pc' = [pc EXCEPT ![p] = "done"]
      /\ planStatus' = [planStatus EXCEPT ![p] = "completed"]
      /\ UNCHANGED <<subtasks, status, completed, job, ret, prompt, results,
                     report>>
  BY DEF Merged
<1>2. TypeOK'
  BY <1>1 DEF Inv, TypeOK, Slots
<1>3. PlanInv(p)'
  BY <1>1 DEF Inv, TypeOK, PlanInv
<1> QED BY <1>1, <1>2, <1>3, OtherPlans DEF Inv, TypeOK

-----------------------------------------------------------------------------

LEMMA InitInv == Init => Inv
<1> SUFFICES ASSUME Init PROVE Inv
  OBVIOUS
<1>1. \A S : <<>> \in Seq(S)
  BY EmptySeq
<1>2. EmptyTable \in Table
  BY DEF EmptyTable, Table
<1>3. TypeOK
  BY <1>1, <1>2 DEF Init, TypeOK, Slots
<1> QED BY <1>3 DEF Inv, Init, PlanInv

LEMMA NextInv == Inv /\ [Next]_vars => Inv'
<1> SUFFICES ASSUME Inv, [Next]_vars PROVE Inv'
  OBVIOUS
<1>1. ASSUME NEW p \in Plans, RunWorkflow(p) PROVE Inv'
  BY <1>1, RunWorkflowStep
<1>2. ASSUME NEW p \in Plans, Decomposed(p) PROVE Inv'
  BY <1>2, DecomposedStep
<1>3. ASSUME NEW p \in Plans, NEW i \in Slots(p), Acquire(p, i) PROVE Inv'
  BY <1>3, AcquireStep
<1>4. ASSUME NEW p \in Plans, NEW i \in Slots(p), Reply(p, i) PROVE Inv'
  BY <1>4, ReplyStep
<1>5. ASSUME NEW p \in Plans, Collect(p) PROVE Inv'
  BY <1>5, CollectStep
<1>6. ASSUME NEW p \in Plans, Merged(p) PROVE Inv'
  BY <1>6, MergedStep
<1>7. CASE UNCHANGED vars
  <2>1. TypeOK'
    BY <1>7 DEF vars, Inv, TypeOK, Slots
  <2>2. \A p \in Plans : PlanInv(p)'
    BY <1>7 DEF vars, Inv, PlanInv
  <2> QED BY <2>1, <2>2 DEF Inv
<1> QED
  BY <1>1, <1>2, <1>3, <1>4, <1>5, <1>6, <1>7 DEF Next, Progress

LEMMA Invariance == Spec => []Inv
BY InitInv, NextInv, PTL DEF Spec

\* The types of the executor's state, for any plans and any task lists.
THEOREM TypeCorrect == Spec => []TypeOK
<1>1. Inv => TypeOK
  BY DEF Inv
<1> QED BY <1>1, Invariance, PTL

\* What the invariant says of the coroutines of one plan, wherever it stands.
LEMMA StartedFacts ==
    ASSUME Inv, NEW p \in Plans
    PROVE  /\ Launched(p) = Started(job[p])
           /\ \/ Launched(p) = {}
              \/ WellStarted(subtasks[p], Ids(subtasks[p], Ended(status[p])), job[p])
<1>1. Launched(p) = Started(job[p])
  BY DEF Inv, TypeOK, Launched, Started, Slots
<1>2. CASE pc[p] \in {"idle", "decomposing"}
  BY <1>1, <1>2 DEF Inv, PlanInv, Launched, Slots
<1>3. CASE pc[p] = "executing"
  BY <1>1, <1>3 DEF Inv, PlanInv, Running
<1>4. CASE pc[p] \in {"merging", "done"}
  BY <1>1, <1>4 DEF Inv, PlanInv, Over
<1>5. pc[p] \in {"idle", "decomposing", "executing", "merging", "done"}
  BY DEF Inv, TypeOK
<1> QED BY <1>1, <1>2, <1>3, <1>4, <1>5

\* No task is started before the tasks it depends on have come to an end in the
\* same plan, whatever the other plans on the executor do.
THEOREM DependenciesFirst == Spec => []DependenciesSettled
<1>1. ASSUME Inv PROVE DependenciesSettled
  <2> SUFFICES ASSUME NEW p \in Plans, NEW i \in Launched(p),
                      NEW d \in subtasks[p][i].depends_on
               PROVE  \E j \in Slots(p) : /\ subtasks[p][j].task_id = d
                                          /\ status[p][j] \in {"completed", "failed"}
    BY DEF DependenciesSettled
  <2>1. d \in Ids(subtasks[p], Ended(status[p]))
    BY <1>1, StartedFacts DEF WellStarted
  <2>2. Ended(status[p]) \subseteq Slots(p)
    BY <1>1 DEF Inv, TypeOK, Ended
  <2> QED BY <2>1, <2>2 DEF Ids, Ended
<1> QED BY <1>1, Invariance, PTL

\* Only tasks that depend on no cycle and on no missing task are ever started.
THEOREM RunnableOnly == Spec => []OnlyRunnableLaunched
<1>1. Inv => OnlyRunnableLaunched
  BY StartedFacts DEF WellStarted, OnlyRunnableLaunched
<1> QED BY <1>1, Invariance, PTL

\* When the loop of execute() is over, the runnable tasks have run, with the
\* status of their own answer, and exactly the others are failed.
THEOREM DeadlockBranchExact == Spec => []DeadlockExact
<1>1. ASSUME Inv PROVE DeadlockExact
  <2> SUFFICES ASSUME NEW p \in Plans, pc[p] \in {"merging", "done"}, UniqueIds(p)
               PROVE  /\ Launched(p) = Runnable(subtasks[p])
                      /\ \A i \in Slots(p) : status[p][i] =
                           IF i \in Launched(p) THEN ret[p][i].status ELSE "failed"
    BY DEF DeadlockExact
  <2>1. Over(subtasks[p], status[p], job[p], ret[p])
    BY <1>1 DEF Inv, PlanInv
  <2>2. Launched(p) = Started(job[p])
    BY <1>1, StartedFacts
  <2> QED BY <2>1, <2>2 DEF Over, UniqueIds, Slots
<1> QED BY <1>1, Invariance, PTL

-----------------------------------------------------------------------------
(* One plan on the executor, with names of its own: what the shared table   *)
(* holds, in terms of the values of the plan.                               *)

Distinct(tasks) ==
    \A i, j \in DOMAIN tasks : tasks[i].task_id = tasks[j].task_id => i = j

\* The table holds what the tasks that came to an end returned, and no more.
Filled(tasks, st, rt, res) ==
    /\ \A j \in Ended(st) : res[tasks[j].task_id] = rt[j]
    /\ \A t \in TaskIds \ Ids(tasks, Ended(st)) : res[t] = NoResult

\* What is pasted into the prompt of slot i, from the table.
Pasted(tasks, res, i) ==
    {res[d].output : d \in {e \in tasks[i].depends_on :
        res[e] # NoResult /\ res[e].output # NoOutput}}

\* The outputs of the slots that slot i depends on.
Owed(tasks, rt, i) ==
    {rt[j].output : j \in {k \in DOMAIN tasks :
        /\ tasks[k].task_id \in tasks[i].depends_on
        /\ rt[k].output # NoOutput}}

\* A slot whose task a started one depends on has come to an end.
LEMMA DependencySlot ==
    ASSUME NEW tasks, Distinct(tasks), NEW st, NEW done, NEW jobs, NEW rt,
           Running(tasks, st, done, jobs, rt), NEW i \in Started(jobs),
           NEW k \in DOMAIN tasks, tasks[k].task_id \in tasks[i].depends_on
    PROVE  k \in Ended(st) /\ jobs[k] = "returned" /\ rt[k] \in SubTaskResult
<1>1. tasks[k].task_id \in Ids(tasks, Ended(st))
  BY DEF Running, WellStarted
<1>2. PICK j \in Ended(st) : tasks[j].task_id = tasks[k].task_id
  BY <1>1 DEF Ids
<1>3. j \in DOMAIN tasks
  BY DEF Running, Ended
<1>4. k \in Ended(st)
  BY <1>2, <1>3 DEF Distinct
<1>5. jobs[k] = "returned"
  BY <1>4 DEF Running, Ended
<1> QED
  BY <1>4, <1>5 DEF Running

\* Hence what is pasted is what is owed.
LEMMA PastedIsOwed ==
    ASSUME NEW tasks, Distinct(tasks), NEW st, NEW done, NEW jobs, NEW rt, NEW res,
           Running(tasks, st, done, jobs, rt), Filled(tasks, st, rt, res),
           NEW i \in Started(jobs)
    PROVE  Pasted(tasks, res, i) = Owed(tasks, rt, i)
<1>1. ASSUME NEW d \in tasks[i].depends_on
      PROVE  \E k \in DOMAIN tasks : tasks[k].task_id = d /\ res[d] = rt[k]
  <2>1. d \in Ids(tasks, Ended(st))
    BY DEF Running, WellStarted
  <2>2. PICK k \in Ended(st) : tasks[k].task_id = d
    BY <2>1 DEF Ids
  <2> QED
    BY <2>2 DEF Running, Ended, Filled
<1>2. ASSUME NEW k \in DOMAIN tasks, tasks[k].task_id \in tasks[i].depends_on
      PROVE  res[tasks[k].task_id] = rt[k] /\ rt[k] # NoResult
  BY <1>2, DependencySlot, NoResultAssumption DEF Filled
<1> QED
  BY <1>1, <1>2 DEF Pasted, Owed

\* An answer leaves what is owed to the started slots as it was.
LEMMA OwedStays ==
    ASSUME NEW tasks, Distinct(tasks), NEW st, NEW done, NEW jobs, NEW rt,
           Running(tasks, st, done, jobs, rt), NEW i \in Started(jobs), NEW k, NEW rec,
           jobs[k] = "calling"
    PROVE  Owed(tasks, [rt EXCEPT ![k] = rec], i) = Owed(tasks, rt, i)
<1>1. \A j \in DOMAIN tasks : tasks[j].task_id \in tasks[i].depends_on =>
          [rt EXCEPT ![k] = rec][j] = rt[j]
  BY DependencySlot DEF Running
<1> QED
  BY <1>1 DEF Owed

-----------------------------------------------------------------------------
(* The loop, as TaskGraph sees it *)

OutcomeFrom(tasks, st, jobs, rt) ==
    [i \in DOMAIN tasks |->
        IF jobs[i] = "returned" THEN rt[i].status
        ELSE IF jobs[i] \in {"queued", "calling"} THEN "active"
        ELSE IF st[i] = "failed" THEN "blocked" ELSE "waiting"]

\* Between two waves, what is ready is what may be started.
LEMMA ReadyIsStartable ==
    ASSUME NEW tasks, Distinct(tasks), NEW st, NEW done, NEW jobs, NEW rt,
           Between(tasks, st, done, jobs, rt)
    PROVE  LET o == OutcomeFrom(tasks, st, jobs, rt)
           IN /\ Graph!Startable(tasks, o) = Ready(tasks, st, done)
              /\ Graph!Quiet(o)
              /\ \A i \in DOMAIN tasks : o[i] = "waiting" <=> i \in Pending(tasks, st)
<1> DEFINE o == OutcomeFrom(tasks, st, jobs, rt)
<1>1. \A i \in DOMAIN tasks : /\ jobs[i] \in {"none", "returned"}
                              /\ jobs[i] = "none" <=> st[i] = "pending"
                              /\ jobs[i] = "returned" => /\ rt[i] \in SubTaskResult
                                                         /\ st[i] = rt[i].status
  BY DEF Between
<1>2. \A i \in DOMAIN tasks :
        /\ o[i] = IF st[i] = "pending" THEN "waiting" ELSE st[i]
        /\ st[i] \in {"pending", "completed", "failed"}
  BY <1>1 DEF OutcomeFrom, Between
<1>3. DOMAIN o = DOMAIN tasks /\ DOMAIN st = DOMAIN tasks /\ done = Ids(tasks, Ended(st))
  BY DEF OutcomeFrom, Between
<1> HIDE DEF o
<1>4. Graph!Settled(o) = Ended(st)
  BY <1>2, <1>3 DEF Graph!Settled, Ended
<1>5. \A i \in Pending(tasks, st) : tasks[i].task_id \notin done
  BY <1>3 DEF Distinct, Ids, Pending, Ended
<1>6. Graph!Startable(tasks, o) = Ready(tasks, st, done)
  BY <1>2, <1>3, <1>4, <1>5 DEF Graph!Startable, Ready, Pending, Ids
<1>7. Graph!Quiet(o)
  BY <1>2, <1>3 DEF Graph!Quiet
<1> QED
  BY <1>2, <1>6, <1>7 DEF o, Pending

\* A wave makes the ready tasks active.
LEMMA WaveOutcome ==
    ASSUME NEW tasks, NEW st, NEW jobs, NEW rt, NEW ready \in SUBSET DOMAIN tasks
    PROVE  OutcomeFrom(tasks, Marked(tasks, ready, "running", st),
                       Marked(tasks, ready, "queued", jobs), rt)
           = [i \in DOMAIN tasks |->
                 IF i \in ready THEN "active" ELSE OutcomeFrom(tasks, st, jobs, rt)[i]]
BY DEF OutcomeFrom, Marked

\* The end of the loop blocks those that wait.
Final(o) == [i \in DOMAIN o |-> IF o[i] = "waiting" THEN "blocked" ELSE o[i]]

\* What Leave makes of the table.
TableAfter(tasks, stuck, res) ==
    [t \in TaskIds |-> IF t \in Ids(tasks, stuck) THEN DeadlockResult ELSE res[t]]

LEMMA EndOutcome ==
    ASSUME NEW tasks \in Seq(SubTask), Distinct(tasks), NEW st, NEW done, NEW jobs, NEW rt,
           NEW res, Between(tasks, st, done, jobs, rt), Filled(tasks, st, rt, res)
    PROVE  LET o == OutcomeFrom(tasks, st, jobs, rt)
               stuck == Stuck(tasks, st, done)
               table == TableAfter(tasks, stuck, res)
           IN /\ OutcomeFrom(tasks, Marked(tasks, stuck, "failed", st), jobs, rt) = Final(o)
              /\ AllOk(table) <=> /\ DOMAIN tasks # {}
                                  /\ \A i \in DOMAIN tasks : Final(o)[i] = "completed"
              /\ Graph!VerdictOn(Final(o)) =
                     IF AllOk(table) THEN "completed" ELSE Verdict(table)
<1> DEFINE o == OutcomeFrom(tasks, st, jobs, rt)
           stuck == Stuck(tasks, st, done)
           table == TableAfter(tasks, stuck, res)
           ran == Ended(st)
<1>1. /\ st \in [DOMAIN tasks -> {"pending", "completed", "failed"}]
      /\ done = Ids(tasks, ran) /\ ran \in SUBSET DOMAIN tasks
      /\ \A i \in DOMAIN tasks : /\ jobs[i] \in {"none", "returned"}
                                 /\ jobs[i] = "none" <=> st[i] = "pending"
                                 /\ jobs[i] = "returned" => /\ rt[i] \in SubTaskResult
                                                            /\ st[i] = rt[i].status
  BY DEF Between, Ended
<1>2. stuck = DOMAIN tasks \ ran
  <2>1. ~LoopEntered(tasks, done) => ran = DOMAIN tasks
    BY <1>1, AllDone
  <2> QED
    BY <1>1, <2>1 DEF Stuck, Pending, Ended
<1>3. \A i \in DOMAIN tasks :
        /\ i \in ran <=> jobs[i] = "returned"
        /\ o[i] = IF i \in ran THEN rt[i].status ELSE "waiting"
        /\ Final(o)[i] = IF i \in ran THEN rt[i].status ELSE "blocked"
        /\ i \in ran => rt[i] \in SubTaskResult /\ rt[i].status \in {"completed", "failed"}
  BY <1>1 DEF OutcomeFrom, Final, Ended, SubTaskResult
<1>4. DOMAIN Final(o) = DOMAIN tasks
  BY DEF Final, OutcomeFrom
<1>5. OutcomeFrom(tasks, Marked(tasks, stuck, "failed", st), jobs, rt) = Final(o)
  BY <1>1, <1>2, <1>3 DEF OutcomeFrom, Final, Marked
<1>6. \A i \in DOMAIN tasks : tasks[i].task_id \in TaskIds
  <2>1. \A i \in DOMAIN tasks : tasks[i] \in SubTask
    BY ElementOfSeq, LenProperties
  <2> QED
    BY <2>1 DEF SubTask
<1>7. \A i \in DOMAIN tasks :
        /\ table[tasks[i].task_id] = IF i \in ran THEN rt[i] ELSE DeadlockResult
        /\ tasks[i].task_id \in Listed(table)
  <2>1. ASSUME NEW i \in DOMAIN tasks
        PROVE  table[tasks[i].task_id] = IF i \in ran THEN rt[i] ELSE DeadlockResult
    <3>1. tasks[i].task_id \in Ids(tasks, stuck) <=> i \notin ran
      BY <1>2 DEF Ids, Distinct
    <3> QED
      BY <1>6, <3>1 DEF TableAfter, Filled
  <2>2. DeadlockResult \in SubTaskResult
    BY DEF DeadlockResult, SubTaskResult, Outputs
  <2>3. DOMAIN table = TaskIds
    BY DEF TableAfter
  <2> QED
    BY <1>3, <1>6, <2>1, <2>2, <2>3, NoResultAssumption DEF Listed
<1>8. \A t \in Listed(table) : \E i \in DOMAIN tasks : tasks[i].task_id = t
  <2> SUFFICES ASSUME NEW t \in TaskIds, table[t] # NoResult
               PROVE  \E i \in DOMAIN tasks : tasks[i].task_id = t
    BY DEF Listed, TableAfter
  <2>1. CASE t \in Ids(tasks, stuck)
    BY <1>2, <2>1 DEF Ids
  <2>2. CASE t \notin Ids(tasks, stuck)
    <3>1. res[t] # NoResult
      BY <2>2 DEF TableAfter
    <3> QED
      BY <1>1, <3>1 DEF Filled, Ids
  <2> QED
    BY <2>1, <2>2
<1>9. DeadlockResult.status = "failed"
  BY DEF DeadlockResult
<1> HIDE DEF o, stuck, table, ran
<1>10. \A i \in DOMAIN tasks :
         table[tasks[i].task_id].status = "completed" <=> Final(o)[i] = "completed"
  BY <1>3, <1>7, <1>9
<1>11. AllOk(table) <=> /\ DOMAIN tasks # {}
                        /\ \A i \in DOMAIN tasks : Final(o)[i] = "completed"
  BY <1>7, <1>8, <1>10 DEF AllOk
<1>12. (\E t \in Listed(table) : table[t].status = "completed")
           <=> \E i \in DOMAIN tasks : Final(o)[i] = "completed"
  BY <1>7, <1>8, <1>10
<1>13. Graph!VerdictOn(Final(o)) = IF AllOk(table) THEN "completed" ELSE Verdict(table)
  BY <1>4, <1>11, <1>12 DEF Graph!VerdictOn, Verdict
<1> QED
  BY <1>5, <1>11, <1>13 DEF o, stuck, table

-----------------------------------------------------------------------------
(* The inductive invariant of a single plan *)

\* One request on the executor.
OnePlan == \E p : Plans = {p}

\* The model gives every task of a plan a name of its own.
OwnNames == \A tasks \in Shapes : Distinct(tasks)

Solo(p) ==
    /\ pc[p] \in {"idle", "decomposing"} => results = EmptyTable
    /\ OwnNames => Distinct(subtasks[p])
    /\ Distinct(subtasks[p]) =>
         /\ pc[p] = "executing" => Filled(subtasks[p], status[p], ret[p], results)
         /\ pc[p] = "merging" =>
              /\ Slots(p) # {}
              /\ \A i \in Slots(p) :
                   OutcomeFrom(subtasks[p], status[p], job[p], ret[p])[i] = "completed"
         /\ \A i \in Started(job[p]) :
              job[p][i] # "queued" => prompt[p][i] = Owed(subtasks[p], ret[p], i)

\* The plan after a step, in the terms of TaskGraph.
LEMMA MappedAfter ==
    ASSUME NEW p, ThePlan = p, NEW tasks, NEW st, NEW jobs, NEW rt,
           subtasks'[p] = tasks, status'[p] = st, job'[p] = jobs, ret'[p] = rt
    PROVE  [i \in Slots(ThePlan) |-> OutcomeOf(ThePlan, i)]'
               = OutcomeFrom(tasks, st, jobs, rt)
BY DEF Slots, OutcomeOf, OutcomeFrom

LEMMA MappedBefore ==
    ASSUME NEW p, ThePlan = p
    PROVE  [i \in Slots(ThePlan) |-> OutcomeOf(ThePlan, i)]
               = OutcomeFrom(subtasks[p], status[p], job[p], ret[p])
BY DEF Slots, OutcomeOf, OutcomeFrom

\* What holds when the loop of the plan runs, and of the prompts after it.
AtLoop(p, tasks, st, done, jobs, rt, res) ==
    /\ tasks \in Seq(SubTask)
    /\ Between(tasks, st, done, jobs, rt)
    /\ OwnNames => Distinct(tasks)
    /\ Distinct(tasks) => /\ Filled(tasks, st, rt, res)
                          /\ \A i \in Started(jobs) :
                               prompt'[p][i] = Owed(tasks, rt, i)

\* From the outcomes o on: a step of the graph, unless every task is completed;
\* then the verdict waits for merge_results.
Onward(p, tasks, o) ==
    \/ Graph!Advance(tasks, o)
    \/ /\ pc'[p] = "merging" /\ DOMAIN tasks # {}
       /\ \A i \in DOMAIN tasks : o[i] = "completed"
       /\ [i \in Slots(ThePlan) |-> OutcomeOf(ThePlan, i)]' = o

\* One run of the loop.
LEMMA LoopSolo ==
    ASSUME Inv, NEW p, Plans = {p}, ThePlan = p, NEW tasks, NEW st, NEW jobs, NEW rt,
           NEW done, NEW res, AtLoop(p, tasks, st, done, jobs, rt, res),
           Loop(p, tasks, st, done, res, jobs),
           subtasks' = [subtasks EXCEPT ![p] = tasks], ret' = [ret EXCEPT ![p] = rt]
    PROVE  /\ Solo(p)' /\ Begun(p)'
           /\ Distinct(tasks) => Onward(p, tasks, OutcomeFrom(tasks, st, jobs, rt))
<1>0. /\ tasks \in Seq(SubTask) /\ Between(tasks, st, done, jobs, rt)
      /\ OwnNames => Distinct(tasks)
      /\ Distinct(tasks) => Filled(tasks, st, rt, res)
      /\ Distinct(tasks) =>
           \A i \in Started(jobs) : prompt'[p][i] = Owed(tasks, rt, i)
  BY DEF AtLoop
<1> DEFINE o == OutcomeFrom(tasks, st, jobs, rt)
<1>1. subtasks'[p] = tasks /\ ret'[p] = rt
  BY DEF Inv, TypeOK
<1>2. CASE Launch(p, tasks, st, done, res, jobs)
  <2> DEFINE ready == Ready(tasks, st, done)
             st2 == Marked(tasks, ready, "running", st)
             jobs2 == Marked(tasks, ready, "queued", jobs)
  <2>1. /\ pc'[p] = "executing" /\ status'[p] = st2 /\ job'[p] = jobs2
        /\ results' = res /\ ready # {} /\ ready \in SUBSET DOMAIN tasks
    BY <1>2 DEF Launch, Marked, Inv, TypeOK, Ready, Pending
  <2>2. Begun(p)'
    BY <2>1 DEF Begun
  <2>3. Ended(st2) = Ended(st)
    BY <1>0 DEF Ended, Marked, Ready, Pending, Between
  <2>4. \A i \in Started(jobs2) : jobs2[i] # "queued" => i \in Started(jobs)
    BY <1>0 DEF Started, Marked, Between
  <2> HIDE DEF ready, st2, jobs2
  <2>5. Solo(p)'
    BY <1>0, <1>1, <2>1, <2>3, <2>4 DEF Solo, Filled
  <2>6. ASSUME Distinct(tasks) PROVE Graph!Advance(tasks, o)
    <3>1. Graph!Startable(tasks, o) = ready
      BY <1>0, <2>6, ReadyIsStartable DEF ready
    <3>2. OutcomeFrom(tasks, st2, jobs2, rt)
              = [i \in DOMAIN tasks |-> IF i \in ready THEN "active" ELSE o[i]]
      BY <2>1, WaveOutcome DEF st2, jobs2
    <3>3. [i \in Slots(ThePlan) |-> OutcomeOf(ThePlan, i)]'
              = [i \in DOMAIN tasks |-> IF i \in ready THEN "active" ELSE o[i]]
      BY <1>1, <2>1, <3>2, MappedAfter
    <3> HIDE DEF o
    <3> QED
      BY <2>1, <3>1, <3>3 DEF Graph!Advance
  <2> QED
    BY <2>2, <2>5, <2>6 DEF Onward
<1>3. CASE Leave(p, tasks, st, done, res, jobs)
  <2> DEFINE stuck == Stuck(tasks, st, done)
             table == TableAfter(tasks, stuck, res)
             st2 == Marked(tasks, stuck, "failed", st)
  <2>1. /\ status'[p] = st2 /\ job'[p] = jobs
        /\ \/ AllOk(table) /\ pc'[p] = "merging"
           \/ ~AllOk(table) /\ pc'[p] = "done" /\ planStatus'[p] = Verdict(table)
    BY <1>3 DEF Leave, Marked, Stuck, TableAfter, Inv, TypeOK
  <2>2. Begun(p)'
    BY <2>1 DEF Begun
  <2>3. ASSUME Distinct(tasks)
        PROVE  /\ OutcomeFrom(tasks, st2, jobs, rt) = Final(o)
               /\ AllOk(table) <=> /\ DOMAIN tasks # {}
                                   /\ \A i \in DOMAIN tasks : Final(o)[i] = "completed"
               /\ Graph!VerdictOn(Final(o)) =
                      IF AllOk(table) THEN "completed" ELSE Verdict(table)
               /\ Graph!Startable(tasks, o) = Ready(tasks, st, done)
               /\ Graph!Quiet(o)
    BY <1>0, <2>3, EndOutcome, ReadyIsStartable
  <2> HIDE DEF stuck, table, st2
  <2>4. Solo(p)'
    BY <1>0, <1>1, <2>1, <2>3 DEF Solo, Slots
  <2>5. DOMAIN o = DOMAIN tasks
    BY DEF OutcomeFrom
  <2>6. ASSUME Distinct(tasks), AllOk(table)
        PROVE  /\ pc'[p] = "merging" /\ DOMAIN tasks # {}
               /\ \A i \in DOMAIN tasks : o[i] = "completed"
               /\ [i \in Slots(ThePlan) |-> OutcomeOf(ThePlan, i)]' = o
    <3>1. \A i \in DOMAIN tasks : o[i] = "completed"
      BY <2>3, <2>5, <2>6 DEF Final
    <3>2. Final(o) = o
      BY <3>1, <2>5 DEF Final, OutcomeFrom
    <3>3. [i \in Slots(ThePlan) |-> OutcomeOf(ThePlan, i)]' = Final(o)
      BY <1>1, <2>1, <2>3, <2>6, MappedAfter
    <3> QED
      BY <2>1, <2>3, <2>6, <3>1, <3>2, <3>3
  <2>7. ASSUME Distinct(tasks), ~AllOk(table) PROVE Graph!Advance(tasks, o)
    <3>1. [i \in Slots(ThePlan) |-> OutcomeOf(ThePlan, i)]' = Final(o)
      BY <1>1, <2>1, <2>3, <2>7, MappedAfter
    <3>2. Ready(tasks, st, done) = {}
      <4>1. CASE ~LoopEntered(tasks, done)
        <5>1. Ended(st) = DOMAIN tasks
          BY <1>0, <4>1, AllDone DEF Between, Ended
        <5> QED
          BY <5>1 DEF Ready, Pending, Ended
      <4> QED
        BY <1>3, <4>1 DEF Leave
    <3>3. pc'[p] = "done" /\ planStatus'[p] = Graph!VerdictOn(Final(o))
      BY <2>1, <2>3, <2>7
    <3> QED
      BY <2>3, <2>5, <2>7, <3>1, <3>2, <3>3 DEF Graph!Advance, Final
  <2> QED
    BY <2>2, <2>4, <2>6, <2>7 DEF Onward
<1> QED
  BY <1>2, <1>3 DEF Loop

-----------------------------------------------------------------------------
(* Steps of a single plan *)

\* What a step of the only plan must do: keep the invariant, and be a step of the
\* graph or none.
GraphStep == [Graph!Next]_(Graph!vars)

LEMMA RequestSolo ==
    ASSUME Inv, NEW p, Plans = {p}, ThePlan = p, Solo(p), RunWorkflow(p)
    PROVE  Solo(p)' /\ GraphStep
<1>1. /\ pc[p] = "idle" /\ pc'[p] = "decomposing"
      /\ UNCHANGED <<subtasks, status, completed, job, ret, prompt, results, planStatus>>
  BY DEF RunWorkflow, Inv, TypeOK
<1>2. Solo(p)'
  BY <1>1 DEF Solo
<1>3. UNCHANGED Graph!vars
  BY <1>1 DEF Graph!vars, Begun, Slots, OutcomeOf
<1> QED
  BY <1>2, <1>3 DEF GraphStep

LEMMA DecomposedSolo ==
    ASSUME Inv, NEW p, Plans = {p}, ThePlan = p, Solo(p), Decomposed(p)
    PROVE  Solo(p)' /\ (Distinct(subtasks'[p]) => GraphStep)
<1>1. PICK tasks \in Shapes \cup {<<>>} :
        /\ subtasks' = [subtasks EXCEPT ![p] = tasks]
        /\ ret' = [ret EXCEPT ![p] = [i \in DOMAIN tasks |-> NoResult]]
        /\ prompt' = [prompt EXCEPT ![p] = [i \in DOMAIN tasks |-> {}]]
        /\ Loop(p, tasks, [i \in DOMAIN tasks |-> "pending"], {}, results,
                [i \in DOMAIN tasks |-> "none"])
  BY DEF Decomposed
<1> DEFINE st == [i \in DOMAIN tasks |-> "pending"]
           jobs == [i \in DOMAIN tasks |-> "none"]
           rt == [i \in DOMAIN tasks |-> NoResult]
<1>2. tasks \in Seq(SubTask)
  BY ShapesAssumption, EmptySeq
<1>3. pc[p] = "decomposing" /\ results = EmptyTable
  BY DEF Decomposed, Solo
<1>4. Ended(st) = {} /\ Started(jobs) = {} /\ Ids(tasks, Ended(st)) = {}
  BY DEF Ended, Started, Ids
<1>5. Between(tasks, st, {}, jobs, rt)
  BY <1>4 DEF Between, WellStarted
<1>6. Filled(tasks, st, rt, results)
  BY <1>3, <1>4 DEF Filled, EmptyTable
<1>7. OwnNames => Distinct(tasks)
  BY DEF OwnNames, Distinct
<1>8. OutcomeFrom(tasks, st, jobs, rt) = [i \in DOMAIN tasks |-> "waiting"]
  BY DEF OutcomeFrom
<1> HIDE DEF st, jobs, rt
<1>9. /\ Loop(p, tasks, st, {}, results, jobs)
      /\ ret' = [ret EXCEPT ![p] = rt]
  BY <1>1 DEF st, jobs, rt
<1> DEFINE o == OutcomeFrom(tasks, st, jobs, rt)
<1>10. /\ Solo(p)' /\ Begun(p)'
       /\ Distinct(tasks) => Onward(p, tasks, o)
  <2>1. PICK none, res : none = {} /\ res = results
    OBVIOUS
  <2>2. AtLoop(p, tasks, st, none, jobs, rt, res)
    BY <1>2, <1>4, <1>5, <1>6, <1>7, <2>1 DEF AtLoop
  <2>3. /\ Loop(p, tasks, st, none, res, jobs)
        /\ subtasks' = [subtasks EXCEPT ![p] = tasks]
        /\ ret' = [ret EXCEPT ![p] = rt]
    BY <1>1, <1>9, <2>1
  <2> HIDE DEF o
  <2>4. /\ Solo(p)' /\ Begun(p)'
        /\ Distinct(tasks) => Onward(p, tasks, OutcomeFrom(tasks, st, jobs, rt))
    BY <2>2, <2>3, LoopSolo, Zenon
  <2> QED
    BY <2>4 DEF o
<1>11. subtasks'[p] = tasks
  BY <1>1 DEF Inv, TypeOK
<1>12. ASSUME Distinct(tasks) PROVE Graph!Begin
  <2>1. Graph!Advance(tasks, o)
    BY <1>8, <1>10, <1>12 DEF Onward
  <2>2. ~Begun(p) /\ Begun(p)'
    BY <1>3, <1>10 DEF Begun
  <2> QED
    BY <1>8, <1>11, <2>1, <2>2 DEF Graph!Begin
<1> QED
  BY <1>10, <1>11, <1>12 DEF GraphStep, Graph!Next

LEMMA AcquireSolo ==
    ASSUME Inv, NEW p, Plans = {p}, ThePlan = p, Solo(p), NEW i \in Slots(p), Acquire(p, i)
    PROVE  Solo(p)' /\ GraphStep
<1> DEFINE jobs == [job[p] EXCEPT ![i] = "calling"]
           asked == [prompt[p] EXCEPT ![i] = Pasted(subtasks[p], results, i)]
<1>1. /\ job[p][i] = "queued" /\ job'[p] = jobs /\ prompt'[p] = asked
      /\ UNCHANGED <<subtasks, pc, status, completed, ret, results, report, planStatus>>
  BY DEF Acquire, Pasted, Inv, TypeOK
<1>2. /\ pc[p] = "executing"
      /\ Running(subtasks[p], status[p], completed[p], job[p], ret[p])
  BY <1>1, InWave
<1>3. /\ DOMAIN subtasks[p] = Slots(p) /\ DOMAIN job[p] = Slots(p)
      /\ DOMAIN prompt[p] = Slots(p)
  BY DEF Inv, TypeOK, Slots
<1>4. \A j \in Slots(p) : /\ jobs[j] = IF j = i THEN "calling" ELSE job[p][j]
                          /\ asked[j] = IF j = i THEN Pasted(subtasks[p], results, i)
                                                 ELSE prompt[p][j]
  BY <1>3
<1>5. Started(jobs) = Started(job[p]) /\ i \in Started(job[p])
  BY <1>1, <1>3, <1>4 DEF Started
<1> HIDE DEF jobs, asked
<1>6. ASSUME Distinct(subtasks[p])
      PROVE  asked[i] = Owed(subtasks[p], ret[p], i)
  BY <1>2, <1>4, <1>5, <1>6, PastedIsOwed DEF Solo
<1>7. Solo(p)'
  BY <1>1, <1>2, <1>3, <1>4, <1>5, <1>6 DEF Solo, Started
<1>8. OutcomeFrom(subtasks[p], status[p], jobs, ret[p])
          = OutcomeFrom(subtasks[p], status[p], job[p], ret[p])
  BY <1>1, <1>3, <1>4 DEF OutcomeFrom
<1>9. [j \in Slots(ThePlan) |-> OutcomeOf(ThePlan, j)]'
          = [j \in Slots(ThePlan) |-> OutcomeOf(ThePlan, j)]
  <2>1. [j \in Slots(ThePlan) |-> OutcomeOf(ThePlan, j)]'
            = OutcomeFrom(subtasks[p], status[p], jobs, ret[p])
    BY <1>1, MappedAfter
  <2> QED
    BY <1>8, <2>1, MappedBefore
<1>10. UNCHANGED Graph!vars
  BY <1>1, <1>9 DEF Graph!vars, Begun
<1> QED
  BY <1>7, <1>10 DEF GraphStep

LEMMA AnswerStatus ==
    ASSUME NEW p, NEW i, NEW r \in Answers(p, i)
    PROVE  r.status \in {"completed", "failed"}
<1>1. PICK q : q = <<p, i>>
  OBVIOUS
<1>2. CASE r = [status |-> "completed", output |-> q, error |-> ""]
  BY <1>2
<1>3. CASE r = [status |-> "completed", output |-> NoOutput, error |-> ""]
  BY <1>3
<1>4. CASE r = [status |-> "failed", output |-> NoOutput, error |-> "llm_failed"]
  BY <1>4
<1> QED
  BY <1>1, <1>2, <1>3, <1>4 DEF Answers

LEMMA ReplySolo ==
    ASSUME Inv, NEW p, Plans = {p}, ThePlan = p, Solo(p), NEW i \in Slots(p), Reply(p, i)
    PROVE  Solo(p)' /\ GraphStep
<1>1. PICK r \in Answers(p, i) : ret' = [ret EXCEPT ![p][i] = r]
  BY DEF Reply
<1> DEFINE jobs == [job[p] EXCEPT ![i] = "returned"]
           rt == [ret[p] EXCEPT ![i] = r]
           o == OutcomeFrom(subtasks[p], status[p], job[p], ret[p])
<1>2. /\ job[p][i] = "calling" /\ job'[p] = jobs /\ ret'[p] = rt
      /\ UNCHANGED <<subtasks, pc, status, completed, prompt, results, report, planStatus>>
  BY <1>1 DEF Reply, Inv, TypeOK
<1>3. /\ pc[p] = "executing" /\ status[p][i] = "running"
      /\ Running(subtasks[p], status[p], completed[p], job[p], ret[p])
  BY <1>2, InWave
<1>4. /\ DOMAIN subtasks[p] = Slots(p) /\ DOMAIN job[p] = Slots(p)
      /\ DOMAIN ret[p] = Slots(p)
  BY DEF Inv, TypeOK, Slots
<1>5. \A j \in Slots(p) : /\ jobs[j] = IF j = i THEN "returned" ELSE job[p][j]
                          /\ rt[j] = IF j = i THEN r ELSE ret[p][j]
  BY <1>4
<1>6. Started(jobs) = Started(job[p])
  BY <1>2, <1>4, <1>5 DEF Started
<1>7. i \notin Ended(status[p]) /\ Ended(status[p]) \subseteq Slots(p)
  BY <1>3, <1>4 DEF Ended, Running
<1>8. ASSUME Distinct(subtasks[p])
      PROVE  /\ Filled(subtasks[p], status[p], rt, results)
             /\ \A j \in Started(jobs) :
                  jobs[j] # "queued" => prompt[p][j] = Owed(subtasks[p], rt, j)
  <2>1. Filled(subtasks[p], status[p], rt, results)
    BY <1>3, <1>5, <1>7, <1>8 DEF Filled, Solo
  <2>2. ASSUME NEW j \in Started(jobs), jobs[j] # "queued"
        PROVE  prompt[p][j] = Owed(subtasks[p], rt, j)
    <3>1. Owed(subtasks[p], rt, j) = Owed(subtasks[p], ret[p], j)
      BY <1>2, <1>3, <1>6, <1>8, OwedStays
    <3>2. j \in Started(job[p]) /\ job[p][j] # "queued"
      BY <1>2, <1>4, <1>5, <1>6, <2>2 DEF Started
    <3> QED
      BY <1>8, <3>1, <3>2 DEF Solo
  <2> QED
    BY <2>1, <2>2
<1>9. r.status \in {"completed", "failed"}
  BY AnswerStatus
<1>10. OutcomeFrom(subtasks[p], status[p], jobs, rt) = [o EXCEPT ![i] = r.status]
  BY <1>4, <1>5 DEF OutcomeFrom
<1>11. o[i] = "active" /\ i \in DOMAIN o
  BY <1>2, <1>4 DEF OutcomeFrom
<1> HIDE DEF jobs, rt, o
<1>12. Solo(p)'
  BY <1>2, <1>3, <1>8 DEF Solo
<1>13. /\ [j \in Slots(ThePlan) |-> OutcomeOf(ThePlan, j)]' = [o EXCEPT ![i] = r.status]
       /\ [j \in Slots(ThePlan) |-> OutcomeOf(ThePlan, j)] = o
  BY <1>2, <1>10, MappedAfter, MappedBefore DEF o
<1>14. Graph!Settle(i)
  BY <1>2, <1>9, <1>11, <1>13 DEF Graph!Settle, Begun
<1>15. Graph!Next
  BY <1>11, <1>13, <1>14 DEF Graph!Next
<1> QED
  BY <1>12, <1>15 DEF GraphStep

LEMMA MergedSolo ==
    ASSUME Inv, NEW p, Plans = {p}, ThePlan = p, Solo(p), Merged(p)
    PROVE  Solo(p)' /\ (Distinct(subtasks'[p]) => GraphStep)
<1> DEFINE o == OutcomeFrom(subtasks[p], status[p], job[p], ret[p])
<1>1. /\ pc[p] = "merging" /\ pc'[p] = "done" /\ planStatus'[p] = "completed"
      /\ UNCHANGED <<subtasks, status, completed, job, ret, prompt, results, report>>
  BY DEF Merged, Inv, TypeOK
<1>2. Solo(p)'
  BY <1>1 DEF Solo
<1>3. ASSUME Distinct(subtasks[p]) PROVE Graph!Proceed
  <2>1. /\ DOMAIN o = Slots(p) /\ Slots(p) # {}
        /\ \A i \in Slots(p) : o[i] = "completed"
    BY <1>1, <1>3 DEF Solo, OutcomeFrom, Slots
  <2>2. o = [i \in DOMAIN subtasks[p] |-> IF o[i] = "waiting" THEN "blocked" ELSE o[i]]
    BY <2>1 DEF OutcomeFrom, Slots
  <2> HIDE DEF o
  <2>3. /\ [j \in Slots(ThePlan) |-> OutcomeOf(ThePlan, j)]' = o
        /\ [j \in Slots(ThePlan) |-> OutcomeOf(ThePlan, j)] = o
    BY <1>1, MappedAfter, MappedBefore DEF o
  <2>4. Graph!Startable(subtasks[p], o) = {} /\ Graph!Quiet(o)
    BY <2>1 DEF Graph!Startable, Graph!Quiet, Slots
  <2>5. Graph!VerdictOn(o) = "completed"
    BY <2>1 DEF Graph!VerdictOn
  <2>6. Graph!Advance(subtasks[p], o)
    BY <1>1, <2>2, <2>3, <2>4, <2>5 DEF Graph!Advance
  <2> QED
    BY <1>1, <2>3, <2>6 DEF Graph!Proceed, Begun
<1> QED
  BY <1>1, <1>2, <1>3 DEF GraphStep, Graph!Next

\* With distinct names every task of a wave fills an entry of its own.
LEMMA StoredFilled ==
    ASSUME Inv, NEW p \in Plans, Distinct(subtasks[p]), Collect(p),
           Filled(subtasks[p], status[p], ret[p], results)
    PROVE  Filled(subtasks[p], Collected(p), ret[p], Stored(p))
<1> DEFINE tasks == subtasks[p]
           W == Wave(p)
           named(t) == {i \in W : tasks[i].task_id = t}
<1>1. /\ Ended(Collected(p)) = Ended(status[p]) \cup W
      /\ W \subseteq DOMAIN tasks /\ Ended(status[p]) \subseteq DOMAIN tasks
      /\ tasks \in Seq(SubTask)
      /\ \A i \in W : i \notin Ended(status[p])
  BY CollectBetween DEF Wave, Ended, Inv, TypeOK, Slots
<1>2. \A t \in TaskIds : named(t) = {} => Stored(p)[t] = results[t]
  BY DEF Stored
<1>3. \A t \in TaskIds : \A j : named(t) = {j} => Stored(p)[t] = ret[p][j]
  <2> SUFFICES ASSUME NEW t \in TaskIds, NEW j, named(t) = {j}
               PROVE  Stored(p)[t] = ret[p][j]
    OBVIOUS
  <2>1. j <= j
    <3>1. j \in Nat
      BY <1>1, LenProperties
    <3> QED
      BY <3>1
  <2>2. (CHOOSE i \in named(t) : \A k \in named(t) : k <= i) = j
    BY <2>1
  <2>3. Stored(p)[t] = ret[p][CHOOSE i \in named(t) : \A k \in named(t) : k <= i]
    BY DEF Stored
  <2> QED
    BY <2>2, <2>3
<1>4. \A i \in DOMAIN tasks : tasks[i].task_id \in TaskIds
  <2>1. \A i \in DOMAIN tasks : tasks[i] \in SubTask
    BY <1>1, ElementOfSeq, LenProperties
  <2> QED
    BY <2>1 DEF SubTask
<1> HIDE DEF W
<1>5. ASSUME NEW j \in W PROVE Stored(p)[tasks[j].task_id] = ret[p][j]
  <2>1. named(tasks[j].task_id) = {j}
    BY <1>1 DEF Distinct
  <2> QED
    BY <1>1, <1>3, <1>4, <2>1
<1>6. ASSUME NEW j \in Ended(status[p]) PROVE Stored(p)[tasks[j].task_id] = ret[p][j]
  <2>1. named(tasks[j].task_id) = {}
    BY <1>1 DEF Distinct
  <2> QED
    BY <1>1, <1>2, <1>4, <2>1 DEF Filled
<1>7. ASSUME NEW t \in TaskIds \ Ids(tasks, Ended(Collected(p)))
      PROVE  Stored(p)[t] = NoResult
  <2>1. named(t) = {} /\ t \notin Ids(tasks, Ended(status[p]))
    BY <1>1 DEF Ids
  <2> QED
    BY <1>2, <2>1 DEF Filled
<1> QED
  BY <1>1, <1>5, <1>6, <1>7 DEF Filled

LEMMA CollectSolo ==
    ASSUME Inv, NEW p, Plans = {p}, ThePlan = p, Solo(p), Collect(p)
    PROVE  Solo(p)' /\ (Distinct(subtasks'[p]) => GraphStep)
<1> DEFINE o == OutcomeFrom(subtasks[p], status[p], job[p], ret[p])
<1>1. PICK tasks, st, done, jobs, rt, res :
        /\ tasks = subtasks[p] /\ st = Collected(p) /\ done = Done(p)
        /\ jobs = job[p] /\ rt = ret[p] /\ res = Stored(p)
  BY Zenon
<1>2. /\ Between(tasks, st, done, jobs, rt) /\ Loop(p, tasks, st, done, res, jobs)
      /\ Running(tasks, status[p], completed[p], jobs, rt)
      /\ pc[p] = "executing" /\ UNCHANGED <<subtasks, ret, prompt>>
  BY <1>1, CollectBetween DEF Collect
<1>3. Distinct(tasks) => Filled(tasks, st, rt, res)
  BY <1>1, <1>2, StoredFilled DEF Solo
<1>4. Distinct(tasks) => \A i \in Started(jobs) : prompt'[p][i] = Owed(tasks, rt, i)
  BY <1>1, <1>2 DEF Solo, Started, Between
<1>5. AtLoop(p, tasks, st, done, jobs, rt, res)
  BY <1>1, <1>2, <1>3, <1>4 DEF AtLoop, Solo, Inv, TypeOK
<1>6. /\ subtasks' = [subtasks EXCEPT ![p] = tasks] /\ subtasks'[p] = tasks
      /\ ret' = [ret EXCEPT ![p] = rt]
  BY <1>1, <1>2 DEF Inv, TypeOK
<1>7. OutcomeFrom(tasks, st, jobs, rt) = o
  BY <1>1, <1>2 DEF OutcomeFrom, Between, Running
<1> HIDE DEF o
<1>8. /\ Solo(p)' /\ Begun(p)'
      /\ Distinct(tasks) => Onward(p, tasks, OutcomeFrom(tasks, st, jobs, rt))
  BY <1>2, <1>5, <1>6, LoopSolo
<1>9. [i \in Slots(ThePlan) |-> OutcomeOf(ThePlan, i)] = o
  BY MappedBefore DEF o
<1>10. ASSUME Distinct(tasks) PROVE GraphStep
  <2>1. CASE Graph!Advance(tasks, o)
    <3>1. Graph!Proceed
      BY <1>1, <1>2, <1>6, <1>8, <1>9, <2>1 DEF Graph!Proceed, Begun
    <3> QED
      BY <3>1 DEF GraphStep, Graph!Next
  <2>2. CASE pc'[p] = "merging" /\ [i \in Slots(ThePlan) |-> OutcomeOf(ThePlan, i)]' = o
    BY <1>2, <1>9, <2>2 DEF GraphStep, Graph!vars, Begun
  <2> QED
    BY <1>7, <1>8, <1>10, <2>1, <2>2 DEF Onward
<1> QED
  BY <1>6, <1>8, <1>10

LEMMA NextSolo ==
    ASSUME Inv, NEW p, Plans = {p}, ThePlan = p, Solo(p), [Next]_vars
    PROVE  Solo(p)' /\ (Distinct(subtasks'[p]) => GraphStep)
<1>1. CASE UNCHANGED vars
  <2>1. Solo(p)'
    BY <1>1 DEF vars, Solo, Slots
  <2>2. UNCHANGED Graph!vars
    BY <1>1 DEF vars, Graph!vars, Begun, Slots, OutcomeOf
  <2> QED
    BY <2>1, <2>2 DEF GraphStep
<1>2. ASSUME NEW i \in Slots(p), Acquire(p, i) \/ Reply(p, i)
      PROVE  Solo(p)' /\ GraphStep
  BY <1>2, AcquireSolo, ReplySolo
<1> QED
  BY <1>1, <1>2, RequestSolo, DecomposedSolo, CollectSolo, MergedSolo DEF Next, Progress

LEMMA SoloInvariance == ASSUME NEW p, Plans = {p} PROVE Spec => []Solo(p)
<1>1. Init => Solo(p)
  BY DEF Init, Solo, Distinct, Started, Slots
<1>2. ThePlan = p
  BY DEF ThePlan
<1>3. Inv /\ Solo(p) /\ [Next]_vars => Solo(p)'
  BY <1>2, NextSolo
<1> QED
  BY Invariance, <1>1, <1>3, PTL DEF Spec

\* With one plan on the executor a task's prompt holds exactly the non-empty
\* outputs of the tasks it depends on (dep_outputs in execute_subtask): what the
\* shared results say of a dependency is what that dependency returned.
THEOREM PromptIsOwnDependencies == ASSUME OnePlan PROVE Spec => []PromptFromOwnDependencies
<1>1. PICK p : Plans = {p}
  BY DEF OnePlan
<1>2. ASSUME Inv, Solo(p) PROVE PromptFromOwnDependencies
  <2> SUFFICES ASSUME NEW i \in Slots(p), UniqueIds(p), job[p][i] \in {"calling", "returned"}
               PROVE  prompt[p][i] = Owed(subtasks[p], ret[p], i)
    BY <1>1 DEF PromptFromOwnDependencies, Owed, Slots
  <2>1. Distinct(subtasks[p]) /\ i \in Started(job[p])
    BY <1>1, <1>2 DEF Distinct, UniqueIds, Slots, Started, Inv, TypeOK
  <2> QED
    BY <1>2, <2>1 DEF Solo
<1>3. Spec => []Solo(p)
  BY <1>1, SoloInvariance
<1> QED
  BY Invariance, <1>2, <1>3, PTL

\* The safety part of what a workflow promises.
GraphSafety == Graph!Init /\ [][Graph!Next]_(Graph!vars)

\* One plan with names of its own is run the way TaskGraph says: each task once,
\* after the tasks it depends on, the others blocked when nothing else is left,
\* and a verdict that follows from what became of them.  (That it gets its
\* verdict, the fairness of Graph!Spec, is what the run wf_single checks.)
THEOREM RunsTheGraph == ASSUME OnePlan, OwnNames PROVE Spec => GraphSafety
<1>1. PICK p : Plans = {p}
  BY DEF OnePlan
<1>2. ThePlan = p
  BY <1>1 DEF ThePlan
<1>3. Init => Graph!Init
  BY <1>1, <1>2 DEF Init, Graph!Init, Begun, Slots
<1>4. Inv /\ Solo(p) /\ Solo(p)' /\ [Next]_vars => [Graph!Next]_(Graph!vars)
  BY <1>1, <1>2, NextSolo DEF GraphStep, Solo
<1>5. Spec => []Solo(p)
  BY <1>1, SoloInvariance
<1> QED
  BY Invariance, <1>3, <1>4, <1>5, PTL DEF Spec, GraphSafety

=============================================================================
