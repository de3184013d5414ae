----------------------- MODULE ClusterSchedulerProofs -----------------------
(***************************************************************************)
(* Theorems about ClusterScheduler: whatever the number of requests, nodes *)
(* and tasks, and however the schedulers overwrite each other's files and  *)
(* die, no copy of a task is wrong; and one request at a time keeps the    *)
(* ledger of ClusterLedger.                                                *)
(***************************************************************************)
EXTENDS ClusterScheduler, TLAPS

-----------------------------------------------------------------------------
(* The inductive invariant *)

\* A task id that was not drawn yet is nowhere.
Fresh(t) == Copies(t) = {} /\ t \notin told /\ \A r \in Open : t \notin sched[r].mine
FreshIsNowhere == \A t \in Tasks \ drawn : Fresh(t)

\* A request waits only for tasks of its own, and has a copy of each of them.
WaitsForOwn ==
    \A r \in Open : /\ sched[r].working \subseteq sched[r].mine
                    /\ \A t \in sched[r].mine : sched[r].tasks[t] # Absent

\* A task belongs to one open request, which has not reported it yet.
OneOwner ==
    \A r \in Open : \A t \in sched[r].mine :
        /\ t \notin told
        /\ \A q \in Open \ {r} : t \notin sched[q].mine

\* Together with TypeOK, the inductive invariant.
TaskInv == FreshIsNowhere /\ WaitsForOwn /\ OneOwner /\ CopiesAgree /\ WorkingIsRunning

-----------------------------------------------------------------------------
(* Types *)

LEMMA OpenedType ==
    ASSUME TypeOK
    PROVE  /\ Opened \in Scheduler
           /\ Opened.tasks = tasksFile
           /\ Opened.mine = {} /\ Opened.working = {}
BY DEF TypeOK, Opened, Scheduler

\* What a scheduler in use is.
LEMMA SchedulerInUse ==
    ASSUME TypeOK, NEW r \in Requests, ~Idle(r)
    PROVE  sched[r] \in Scheduler
BY DEF TypeOK, Idle

\* A map that is saved has the type of the scheduler that saves it.
LEMMA SaveStateType ==
    ASSUME TypeOK, NEW i \in Scheduler, SaveState(i)
    PROVE  /\ nodesFile' \in NodeMap
           /\ tasksFile' \in TaskMap
           /\ tasksFile' \in {i.tasks, tasksFile}
BY DEF TypeOK, SaveState, Scheduler

\* Scheduler i is j with new running tasks ids, for which it waits.
Extends(i, j, ids) ==
    /\ i \in Scheduler
    /\ i.mine = ids /\ i.working = ids
    /\ \A t \in ids : i.tasks[t] \in TaskDispatch /\ i.tasks[t].status = "running"
    /\ \A t \in Tasks \ ids : i.tasks[t] = j.tasks[t]

\* What dispatching records: one running task for each drawn id.
LEMMA AssignedFacts ==
    ASSUME NEW j \in Scheduler, NEW s \in Sessions, NEW targets \in SUBSET Nodes,
           NEW id \in [targets -> Tasks \ drawn]
    PROVE  Extends(Assigned(j, s, targets, id), j, {id[n] : n \in targets})
<1> DEFINE ids == {id[n] : n \in targets}
           task(t) == Task(s, CHOOSE n \in targets : id[n] = t, "running")
           tasks == [t \in Tasks |-> IF t \in ids THEN task(t) ELSE j.tasks[t]]
           i == [j EXCEPT !.op = "dispatch", !.due = {}, !.mine = ids,
                          !.working = ids, !.tasks = tasks]
<1>1. Assigned(j, s, targets, id) = i
  BY DEF Assigned
<1>2. \A t \in ids : task(t) \in TaskDispatch /\ task(t).status = "running"
  BY DEF Task, TaskDispatch
<1>3. ids \subseteq Tasks
  OBVIOUS
<1> HIDE DEF ids, task
<1>4. tasks \in TaskMap
  BY <1>2 DEF TaskMap, Scheduler
<1>5. i \in Scheduler /\ i.mine = ids /\ i.working = ids /\ i.tasks = tasks
  BY <1>3, <1>4 DEF Scheduler
<1>6. /\ \A t \in ids : tasks[t] = task(t)
      /\ \A t \in Tasks \ ids : tasks[t] = j.tasks[t]
  BY <1>3
<1> QED BY <1>1, <1>2, <1>5, <1>6 DEF ids, Extends

\* Dispatching keeps the types.
LEMMA DispatchType ==
    ASSUME TypeOK, NEW r \in Requests, ~Idle(r), NEW s \in Sessions,
           NEW targets \in SUBSET Nodes, Dispatch(r, s, targets)
    PROVE  TypeOK'
<1> DEFINE i(id) == Assigned(sched[r], s, targets, id)
<1>1. PICK id \in [targets -> Tasks \ drawn] :
         /\ drawn' = drawn \cup {id[n] : n \in targets}
         /\ SaveState(i(id))
         /\ sched' = [sched EXCEPT ![r] = Noted(i(id))]
  BY DEF Dispatch, Injection
<1>2. i(id) \in Scheduler
  BY AssignedFacts, SchedulerInUse DEF Extends
<1> HIDE DEF i
<1>3. Noted(i(id)) \in Scheduler
  BY <1>2 DEF Noted, Scheduler
<1>4. nodesFile' \in NodeMap /\ tasksFile' \in TaskMap
  BY <1>1, <1>2, SaveStateType
<1>5. sched' \in [Requests -> Scheduler \cup {Closed}]
  BY <1>1, <1>3 DEF TypeOK
<1>6. drawn' \in SUBSET Tasks
  BY <1>1 DEF TypeOK
<1>7. told' \in SUBSET Tasks
  BY DEF Dispatch, TypeOK
<1> QED BY <1>4, <1>5, <1>6, <1>7 DEF TypeOK

\* A task that is waited for has a record to write the answer in: the types
\* rest on WaitsForOwn.
LEMMA NextType == TypeOK /\ WaitsForOwn /\ [Next]_vars => TypeOK'
<1> SUFFICES ASSUME TypeOK, WaitsForOwn, [Next]_vars PROVE TypeOK'
  OBVIOUS
<1> USE DEF NodeStatus
<1>1. ASSUME NEW r \in Requests, Load(r) PROVE TypeOK'
  BY <1>1, OpenedType DEF Load, TypeOK
<1>2. ASSUME NEW r \in Requests, NEW n \in Nodes, RegisterNode(r, n) PROVE TypeOK'
  <2>1. [sched[r] EXCEPT !.nodes[n] = "online"] \in Scheduler
    BY <1>2, SchedulerInUse DEF RegisterNode, At, Scheduler, NodeMap
  <2> QED BY <1>2, <2>1, SaveStateType DEF RegisterNode, Close, TypeOK
<1>3. ASSUME NEW r \in Requests, NEW n \in Nodes, RemoveNode(r, n) PROVE TypeOK'
  <2>1. [sched[r] EXCEPT !.nodes[n] = Absent] \in Scheduler
    BY <1>3, SchedulerInUse DEF RemoveNode, At, Scheduler, NodeMap
  <2> QED BY <1>3, <2>1, SaveStateType DEF RemoveNode, Close, TypeOK
<1>4. ASSUME NEW r \in Requests, NEW s \in Sessions, NEW from \in Nodes,
              NEW to \in Nodes, MigrateSession(r, s, from, to)
       PROVE  TypeOK'
  <2>1. PICK t \in Tasks \ drawn :
           /\ drawn' = drawn \cup {t}
           /\ SaveState([sched[r] EXCEPT !.tasks[t] = Task(s, to, "migrated")])
    BY <1>4 DEF MigrateSession
  <2>2. Task(s, to, "migrated") \in TaskDispatch
    BY DEF Task, TaskDispatch
  <2>3. [sched[r] EXCEPT !.tasks[t] = Task(s, to, "migrated")] \in Scheduler
    BY <1>4, <2>2, SchedulerInUse DEF MigrateSession, At, Scheduler, TaskMap
  <2> QED BY <1>4, <2>1, <2>3, SaveStateType DEF MigrateSession, Close, TypeOK
<1>5. ASSUME NEW r \in Requests, NEW s \in Sessions, NEW n \in Nodes,
              DispatchTask(r, s, n)
       PROVE  TypeOK'
  BY <1>5, DispatchType DEF DispatchTask, At
<1>6. ASSUME NEW r \in Requests, NEW s \in Sessions, AutoSchedule(r, s) PROVE TypeOK'
  <2>1. PICK n \in Nodes : Dispatch(r, s, {n})
    BY <1>6 DEF AutoSchedule, Online, Known
  <2> QED BY <1>6, <2>1, DispatchType DEF AutoSchedule, At
<1>7. ASSUME NEW r \in Requests, NEW targets \in SUBSET Nodes,
              DistributeSession(r, targets)
       PROVE  TypeOK'
  <2> DEFINE nodes == [n \in Nodes |-> IF n \in targets \ Known(sched[r].nodes)
                                       THEN "online" ELSE sched[r].nodes[n]]
             i == [sched[r] EXCEPT !.op = "distribute", !.due = targets,
                                   !.nodes = nodes]
  <2>1. sched[r] \in Scheduler
    BY <1>7, SchedulerInUse DEF DistributeSession, At
  <2>2. nodes \in NodeMap
    BY <2>1 DEF Scheduler, NodeMap
  <2>3. \/ sched' = [sched EXCEPT ![r] = i] /\ UNCHANGED <<nodesFile, tasksFile>>
        \/ SaveState(i) /\ sched' = [sched EXCEPT ![r] = Noted(i)]
    BY <1>7 DEF DistributeSession
  <2> HIDE DEF nodes
  <2>4. i \in Scheduler
    BY <2>1, <2>2 DEF Scheduler
  <2> HIDE DEF i
  <2>5. Noted(i) \in Scheduler
    BY <2>4 DEF Noted, Scheduler
  <2> QED BY <1>7, <2>3, <2>4, <2>5, SaveStateType DEF DistributeSession, TypeOK
<1>8. ASSUME NEW r \in Requests, NEW s \in Sessions, DispatchAll(r, s) PROVE TypeOK'
  <2>1. sched[r].due \in SUBSET Nodes
    BY <1>8, SchedulerInUse DEF DispatchAll, At, Scheduler
  <2> QED BY <1>8, <2>1, DispatchType DEF DispatchAll, At
<1>9. ASSUME NEW r \in Requests, GetNodeStatus(r) PROVE TypeOK'
  <2>1. [sched[r] EXCEPT !.op = "status", !.due = Known(sched[r].nodes)] \in Scheduler
    BY <1>9, SchedulerInUse DEF GetNodeStatus, At, Scheduler, Known
  <2>2. sched' = [sched EXCEPT ![r] = [sched[r] EXCEPT !.op = "status",
                                           !.due = Known(sched[r].nodes)]]
    BY <1>9, SchedulerInUse DEF GetNodeStatus, At, TypeOK
  <2> QED BY <1>9, <2>1, <2>2 DEF GetNodeStatus, TypeOK
<1>10. ASSUME NEW r \in Requests, ReadOnly(r) PROVE TypeOK'
  BY <1>10 DEF ReadOnly, Close, TypeOK
<1>11. ASSUME NEW r \in Requests, NEW t \in Tasks, TaskReply(r, t) PROVE TypeOK'
  <2>1. PICK outcome \in {"completed", "failed"} :
          LET i == [sched[r] EXCEPT !.tasks[t].status = outcome,
                                    !.working = @ \ {t}]
          IN SaveState(i) /\ sched' = [sched EXCEPT ![r] = Noted(i)]
    BY <1>11 DEF TaskReply
  <2> DEFINE rec == [sched[r].tasks[t] EXCEPT !.status = outcome]
             i == [sched[r] EXCEPT !.tasks[t].status = outcome,
                                   !.working = @ \ {t}]
  <2>2. sched[r] \in Scheduler
    BY <1>11, SchedulerInUse DEF TaskReply, At
  <2>3. sched[r].tasks[t] \in TaskDispatch
    BY <1>11, <2>2 DEF TaskReply, At, WaitsForOwn, Open, Scheduler, TaskMap
  <2>4. rec \in TaskDispatch
    BY <2>3 DEF TaskDispatch
  <2>5. i = [sched[r] EXCEPT !.tasks = [sched[r].tasks EXCEPT ![t] = rec],
                             !.working = sched[r].working \ {t}]
    BY <2>2 DEF Scheduler, TaskMap
  <2>6. [sched[r].tasks EXCEPT ![t] = rec] \in TaskMap
    BY <2>2, <2>4 DEF Scheduler, TaskMap
  <2>7. i \in Scheduler
    BY <2>2, <2>5, <2>6 DEF Scheduler
  <2> HIDE DEF i, rec
  <2>8. Noted(i) \in Scheduler
    BY <2>7 DEF Noted, Scheduler
  <2>9. SaveState(i) /\ sched' = [sched EXCEPT ![r] = Noted(i)]
    BY <2>1 DEF i
  <2> QED BY <1>11, <2>7, <2>8, <2>9, SaveStateType DEF TaskReply, TypeOK
<1>12. ASSUME NEW r \in Requests, NEW n \in Nodes, HealthReply(r, n) PROVE TypeOK'
  <2>1. PICK health \in NodeStatus :
          sched' = [sched EXCEPT ![r].nodes[n] = health, ![r].due = @ \ {n}]
    BY <1>12 DEF HealthReply
  <2>2. sched[r] \in Scheduler
    BY <1>12, SchedulerInUse DEF HealthReply, At
  <2> DEFINE i == [sched[r] EXCEPT !.nodes[n] = health, !.due = @ \ {n}]
  <2>3. i \in Scheduler
    BY <2>2 DEF Scheduler, NodeMap
  <2>4. sched' = [sched EXCEPT ![r] = i]
    BY <2>1, <2>2 DEF TypeOK
  <2> HIDE DEF i
  <2> QED BY <1>12, <2>3, <2>4 DEF HealthReply, TypeOK
<1>13. ASSUME NEW r \in Requests, Return(r) PROVE TypeOK'
  BY <1>13, SchedulerInUse DEF Return, At, Close, TypeOK, Scheduler
<1>14. ASSUME NEW r \in Requests, StatusSaved(r) PROVE TypeOK'
  BY <1>14, SchedulerInUse, SaveStateType DEF StatusSaved, At, Close, TypeOK
<1>15. ASSUME NEW r \in Requests, StatusHalfSaved(r) PROVE TypeOK'
  BY <1>15, SchedulerInUse DEF StatusHalfSaved, At, Close, TypeOK, Scheduler
<1>16. ASSUME NEW r \in Requests, Die(r) PROVE TypeOK'
  BY <1>16 DEF Die, Close, TypeOK
<1>17. CASE UNCHANGED vars
  BY <1>17 DEF vars, TypeOK
<1> QED BY <1>1, <1>11, <1>12, <1>13, <1>14, <1>15, <1>16, <1>17, <1>2, <1>3, <1>4,
           <1>5, <1>6, <1>7, <1>8, <1>9, <1>10 DEF Next, Resume

-----------------------------------------------------------------------------
(* Copies of tasks *)

\* A scheduler that is open after a step and was so before, waiting for nothing
\* new and with its own tasks as they were; or one that dispatched nothing.
Carried(r) ==
    \/ sched'[r].mine = {} /\ sched'[r].working = {}
    \/ /\ r \in Open
       /\ sched'[r].mine = sched[r].mine
       /\ sched'[r].working = sched[r].working
       /\ sched'[r].tasks = sched[r].tasks

\* A task that a request has just reported.
NewlyTold(t) ==
    /\ t \in drawn
    /\ \A a \in Copies(t) : a.status \in {"running", "completed"}
    /\ \A r \in Open' : t \notin sched'[r].mine

\* A step that leaves no copy that was not there before keeps everything: it may
\* bring back an old copy, but not a wrong one.
LEMMA OldCopies ==
    ASSUME TypeOK, TaskInv, drawn' = drawn,
           \A t \in Tasks : Copies(t)' \subseteq Copies(t),
           \A r \in Open' : Carried(r),
           \A t \in told' \ told : NewlyTold(t)
    PROVE  TaskInv'
<1>1. FreshIsNowhere'
  BY DEF TaskInv, FreshIsNowhere, Fresh, Carried, NewlyTold
<1>2. WaitsForOwn'
  BY DEF TaskInv, WaitsForOwn, Carried
<1>3. OneOwner'
  BY DEF TaskInv, OneOwner, Carried, NewlyTold
<1>4. CopiesAgree'
  BY DEF TaskInv, CopiesAgree, NewlyTold
<1>5. WorkingIsRunning'
  <2> SUFFICES ASSUME NEW r \in Open', NEW t \in sched'[r].working
               PROVE  /\ sched'[r].tasks[t] # Absent
                      /\ \A a \in Copies(t)' : a.status = "running"
                      /\ \A q \in Open' \ {r} : t \notin sched'[q].mine
    BY DEF WorkingIsRunning
  <2>1. /\ r \in Open /\ t \in sched[r].working /\ t \in sched'[r].mine
        /\ sched'[r].tasks = sched[r].tasks
    BY DEF Carried, TaskInv, WaitsForOwn
  <2>2. t \in Tasks
    BY <2>1, SchedulerInUse DEF Open, Scheduler
  <2> QED BY <1>3, <2>1, <2>2 DEF TaskInv, WorkingIsRunning, OneOwner
<1> QED BY <1>1, <1>2, <1>3, <1>4, <1>5 DEF TaskInv

\* A request that has just dispatched the tasks ids.
Started(r, ids) ==
    /\ sched'[r].mine = ids /\ sched'[r].working = ids
    /\ \A t \in ids : /\ sched'[r].tasks[t] # Absent
                      /\ \A a \in Copies(t)' : a.status = "running"

\* A step that draws task ids and records each in one way.
LEMMA NewTasks ==
    ASSUME TypeOK, TaskInv, NEW r \in Requests, NEW ids \in SUBSET (Tasks \ drawn),
           drawn' = drawn \cup ids, told' = told,
           \A t \in Tasks \ ids : Copies(t)' \subseteq Copies(t),
           \A t \in ids : \A a, b \in Copies(t)' : a = b,
           \A q \in Open' : Carried(q) \/ (q = r /\ Started(r, ids))
    PROVE  TaskInv'
<1>1. \A t \in ids : Fresh(t)
  BY DEF TaskInv, FreshIsNowhere
<1>2. FreshIsNowhere'
  BY <1>1 DEF TaskInv, FreshIsNowhere, Fresh, Carried, Started
<1>3. WaitsForOwn'
  BY DEF TaskInv, WaitsForOwn, Carried, Started
<1>4. OneOwner'
  BY <1>1 DEF TaskInv, OneOwner, Carried, Started, Fresh
<1>5. CopiesAgree'
  BY <1>1 DEF TaskInv, CopiesAgree, Fresh
<1>6. WorkingIsRunning'
  <2> SUFFICES ASSUME NEW q \in Open', NEW t \in sched'[q].working
               PROVE  /\ sched'[q].tasks[t] # Absent
                      /\ \A a \in Copies(t)' : a.status = "running"
                      /\ \A p \in Open' \ {q} : t \notin sched'[p].mine
    BY DEF WorkingIsRunning
  <2>1. t \in sched'[q].mine
    BY <1>3 DEF WaitsForOwn
  <2>2. CASE Carried(q)
    <3>1. /\ q \in Open /\ t \in sched[q].working /\ t \in sched[q].mine
          /\ sched'[q].tasks = sched[q].tasks
      BY <2>2, <2>1 DEF Carried
    <3>2. t \in Tasks
      BY <3>1, SchedulerInUse DEF Open, Scheduler
    <3>3. t \notin ids
      BY <1>1, <3>1 DEF Fresh
    <3> QED BY <1>4, <2>1, <3>1, <3>2, <3>3 DEF TaskInv, WorkingIsRunning, OneOwner
  <2>3. CASE q = r /\ Started(r, ids)
    BY <1>4, <2>1, <2>3 DEF Started, OneOwner
  <2> QED BY <2>2, <2>3
<1> QED BY <1>2, <1>3, <1>4, <1>5, <1>6 DEF TaskInv

\* A step that ends a task which is waited for: until then all its copies are
\* running, so that none of them ended otherwise.
LEMMA AnsweredTask ==
    ASSUME TypeOK, TaskInv, NEW r \in Open, NEW t \in sched[r].working, NEW rec,
           rec.session = sched[r].tasks[t].session,
           rec.target = sched[r].tasks[t].target, rec # Absent,
           drawn' = drawn, told' = told,
           \A u \in Tasks \ {t} : Copies(u)' \subseteq Copies(u),
           Copies(t)' \subseteq Copies(t) \cup {rec},
           \A q \in Open' \ {r} : Carried(q),
           sched'[r].mine = sched[r].mine,
           sched'[r].working = sched[r].working \ {t},
           sched'[r].tasks = [sched[r].tasks EXCEPT ![t] = rec]
    PROVE  TaskInv'
<1>1. sched[r] \in Scheduler
  BY SchedulerInUse DEF Open
<1>2. t \in Tasks /\ t \in sched[r].mine
  BY <1>1 DEF Scheduler, TaskInv, WaitsForOwn
<1>3. t \notin told /\ t \in drawn /\ \A q \in Open \ {r} : t \notin sched[q].mine
  BY <1>2 DEF TaskInv, OneOwner, FreshIsNowhere, Fresh
<1>4. /\ \A u \in Tasks \ {t} : sched'[r].tasks[u] = sched[r].tasks[u]
      /\ sched'[r].tasks[t] = rec
  BY <1>1, <1>2 DEF Scheduler, TaskMap
<1>5. sched[r].tasks[t] \in Copies(t)
  BY <1>2 DEF Copies, TaskInv, WaitsForOwn
<1>6. \A a \in Copies(t) : /\ a.status = "running"
                           /\ a.session = rec.session /\ a.target = rec.target
  BY <1>2, <1>5 DEF TaskInv, WorkingIsRunning, CopiesAgree
<1>7. FreshIsNowhere'
  BY <1>3 DEF TaskInv, FreshIsNowhere, Fresh, Carried
<1>8. WaitsForOwn'
  <2> SUFFICES ASSUME NEW q \in Open'
               PROVE  /\ sched'[q].working \subseteq sched'[q].mine
                      /\ \A u \in sched'[q].mine : sched'[q].tasks[u] # Absent
    BY DEF WaitsForOwn
  <2>1. CASE q = r
    <3>1. sched[r].mine \subseteq Tasks
      BY <1>1 DEF Scheduler
    <3>2. \A u \in sched[r].mine : sched'[r].tasks[u] # Absent
      BY <1>4, <3>1 DEF TaskInv, WaitsForOwn
    <3>3. sched'[r].working \subseteq sched'[r].mine
      BY DEF TaskInv, WaitsForOwn
    <3> QED BY <2>1, <3>2, <3>3
  <2>2. CASE q # r
    BY <2>2 DEF Carried, TaskInv, WaitsForOwn
  <2> QED BY <2>1, <2>2
<1>9. OneOwner'
  BY DEF TaskInv, OneOwner, Carried
<1>10. CopiesAgree'
  BY <1>3, <1>6 DEF TaskInv, CopiesAgree
<1>11. WorkingIsRunning'
  <2> SUFFICES ASSUME NEW q \in Open', NEW u \in sched'[q].working
               PROVE  /\ sched'[q].tasks[u] # Absent
                      /\ \A a \in Copies(u)' : a.status = "running"
                      /\ \A p \in Open' \ {q} : u \notin sched'[p].mine
    BY DEF WorkingIsRunning
  <2>1. u \in sched'[q].mine
    BY <1>8 DEF WaitsForOwn
  <2>2. q \in Open /\ u \in sched[q].working /\ u \in sched[q].mine /\ u # t
    BY <2>1, <1>3 DEF Carried
  <2>3. u \in Tasks
    BY <2>2, SchedulerInUse DEF Open, Scheduler
  <2> QED BY <1>8, <1>9, <2>1, <2>2, <2>3 DEF TaskInv, WorkingIsRunning, OneOwner, WaitsForOwn
<1> QED BY <1>7, <1>8, <1>9, <1>10, <1>11 DEF TaskInv

-----------------------------------------------------------------------------
(* Every step keeps the invariant *)

LEMMA InitInv == Init => TypeOK /\ TaskInv
<1> SUFFICES ASSUME Init PROVE TypeOK /\ TaskInv
  OBVIOUS
<1>1. TypeOK
  BY DEF Init, TypeOK, NodeMap, TaskMap
<1>2. Open = {} /\ \A t \in Tasks : Copies(t) = {}
  BY DEF Init, Open, Idle, Copies
<1> QED
  BY <1>1, <1>2 DEF Init, TaskInv, FreshIsNowhere, Fresh, WaitsForOwn, OneOwner,
                    CopiesAgree, WorkingIsRunning

\* Closing a scheduler, with the task file as it was or as that scheduler has it.
LEMMA Closing ==
    ASSUME TypeOK, TaskInv, NEW r \in Open, Close(r), drawn' = drawn,
           tasksFile' \in {tasksFile, sched[r].tasks},
           \A t \in told' \ told : NewlyTold(t)
    PROVE  TaskInv'
<1>1. \A q \in Open' : q \in Open /\ sched'[q] = sched[q]
  BY DEF Close, Open, Idle, TypeOK
<1>2. \A t \in Tasks : Copies(t)' \subseteq Copies(t)
  BY <1>1 DEF Copies
<1> QED BY <1>1, <1>2, OldCopies DEF Carried

LEMMA DispatchInv ==
    ASSUME TypeOK, TaskInv, NEW r \in Open, NEW s \in Sessions,
           NEW targets \in SUBSET Nodes, Dispatch(r, s, targets)
    PROVE  TaskInv'
<1> DEFINE j(id) == Assigned(sched[r], s, targets, id)
<1>1. PICK id \in [targets -> Tasks \ drawn] :
         /\ drawn' = drawn \cup {id[n] : n \in targets}
         /\ SaveState(j(id))
         /\ sched' = [sched EXCEPT ![r] = Noted(j(id))]
  BY DEF Dispatch, Injection
<1> DEFINE i == j(id)
           ids == {id[n] : n \in targets}
<1>2. sched[r] \in Scheduler
  BY SchedulerInUse DEF Open
<1>3. Extends(i, sched[r], ids)
  BY <1>2, AssignedFacts
<1>4. ids \in SUBSET (Tasks \ drawn)
  OBVIOUS
<1>5. drawn' = drawn \cup ids /\ sched' = [sched EXCEPT ![r] = Noted(i)]
  BY <1>1
<1> HIDE DEF j
<1>6. /\ i \in Scheduler /\ i.mine = ids /\ i.working = ids
      /\ \A t \in ids : i.tasks[t] \in TaskDispatch /\ i.tasks[t].status = "running"
      /\ \A t \in Tasks \ ids : i.tasks[t] = sched[r].tasks[t]
  BY <1>3 DEF Extends
<1>7. tasksFile' \in {i.tasks, tasksFile}
  BY <1>1, <1>6, SaveStateType
<1> HIDE DEF i, ids
<1>8. \A t \in ids : Fresh(t)
  BY <1>4 DEF TaskInv, FreshIsNowhere
<1>9. \A t \in ids : tasksFile[t] = Absent /\ \A q \in Open : sched[q].tasks[t] = Absent
  BY <1>8 DEF Fresh, Copies
<1>10. /\ sched'[r].tasks = i.tasks
      /\ sched'[r].mine = ids /\ sched'[r].working = ids
      /\ \A q \in Open' \ {r} : q \in Open /\ sched'[q] = sched[q]
  BY <1>6, <1>5 DEF Idle, Open, Noted, Scheduler, TypeOK
<1>11. \A t \in Tasks \ ids : Copies(t)' \subseteq Copies(t)
  BY <1>6, <1>7, <1>10 DEF Copies
<1>12. \A t \in ids : Copies(t)' \subseteq {i.tasks[t]}
  BY <1>7, <1>9, <1>10 DEF Copies
<1>13. Started(r, ids)
  BY <1>6, <1>10, <1>12, DistinctAssumption DEF Started
<1>14. told' = told
  BY DEF Dispatch
<1>15. \A q \in Open' : Carried(q) \/ (q = r /\ Started(r, ids))
  BY <1>10, <1>13 DEF Carried
<1>16. \A t \in ids : \A a, b \in Copies(t)' : a = b
  BY <1>12
<1>17. r \in Requests
  BY DEF Open
<1> QED BY <1>4, <1>5, <1>11, <1>14, <1>15, <1>16, <1>17, NewTasks

LEMMA ReplyInv ==
    ASSUME TypeOK, TaskInv, NEW r \in Requests, NEW t \in Tasks, TaskReply(r, t)
    PROVE  TaskInv'
<1>1. PICK outcome \in {"completed", "failed"} :
        LET i == [sched[r] EXCEPT !.tasks[t].status = outcome,
                                  !.working = @ \ {t}]
        IN SaveState(i) /\ sched' = [sched EXCEPT ![r] = Noted(i)]
  BY DEF TaskReply
<1> DEFINE rec == [sched[r].tasks[t] EXCEPT !.status = outcome]
           i == [sched[r] EXCEPT !.tasks[t].status = outcome,
                                 !.working = @ \ {t}]
<1>2. sched[r] \in Scheduler /\ r \in Open /\ t \in sched[r].working
  BY SchedulerInUse DEF TaskReply, At, Open
<1>3. sched[r].tasks[t] \in TaskDispatch
  BY <1>2 DEF TaskInv, WaitsForOwn, Scheduler, TaskMap
<1>4. /\ rec \in TaskDispatch
      /\ rec.session = sched[r].tasks[t].session
      /\ rec.target = sched[r].tasks[t].target
  BY <1>3 DEF TaskDispatch
<1>5. /\ i.tasks = [sched[r].tasks EXCEPT ![t] = rec]
      /\ i.mine = sched[r].mine
      /\ i.working = sched[r].working \ {t}
  BY <1>2 DEF Scheduler, TaskMap
<1>6. tasksFile' \in {i.tasks, tasksFile}
  BY <1>1 DEF SaveState
<1>7. sched' = [sched EXCEPT ![r] = Noted(i)]
  BY <1>1
<1>8. /\ Noted(i).tasks = i.tasks /\ Noted(i).mine = i.mine
      /\ Noted(i).working = i.working
  BY <1>2 DEF Scheduler, Noted
<1> HIDE DEF i, rec
<1>9. /\ sched'[r].tasks = [sched[r].tasks EXCEPT ![t] = rec]
      /\ sched'[r].mine = sched[r].mine
      /\ sched'[r].working = sched[r].working \ {t}
      /\ \A q \in Open' \ {r} : q \in Open /\ sched'[q] = sched[q]
  BY <1>5, <1>7, <1>8 DEF TypeOK, Open, Idle
<1>10. \A u \in Tasks \ {t} : i.tasks[u] = sched[r].tasks[u]
  BY <1>2, <1>5 DEF Scheduler, TaskMap
<1>11. i.tasks[t] = rec
  BY <1>2, <1>5 DEF Scheduler, TaskMap
<1>12. \A q \in Open' : /\ q \in Open
                        /\ sched'[q].tasks = IF q = r THEN i.tasks ELSE sched[q].tasks
  BY <1>2, <1>5, <1>9
<1>13. \A u \in Tasks \ {t} : Copies(u)' \subseteq Copies(u)
  BY <1>2, <1>6, <1>10, <1>12 DEF Copies
<1>14. Copies(t)' \subseteq Copies(t) \cup {rec}
  BY <1>2, <1>6, <1>11, <1>12 DEF Copies
<1>15. rec # Absent
  BY <1>4, DistinctAssumption
<1>16. drawn' = drawn /\ told' = told
  BY DEF TaskReply
<1>17. \A q \in Open' \ {r} : Carried(q)
  BY <1>9 DEF Carried
<1> QED BY <1>2, <1>4, <1>9, <1>13, <1>14, <1>15, <1>16, <1>17, AnsweredTask

LEMMA NextInv == TypeOK /\ TaskInv /\ [Next]_vars => TaskInv'
<1> SUFFICES ASSUME TypeOK, TaskInv, [Next]_vars PROVE TaskInv'
  OBVIOUS
<1>1. ASSUME tasksFile' = tasksFile, sched' = sched, drawn' = drawn, told' = told
      PROVE  TaskInv'
  BY <1>1, OldCopies DEF Copies, Open, Idle, Carried
<1>2. ASSUME NEW r \in Requests, Load(r) PROVE TaskInv'
  <2>1. sched' = [sched EXCEPT ![r] = Opened] /\ r \notin Open
    BY <1>2 DEF Load, Open
  <2>2. /\ Opened.tasks = tasksFile /\ Opened.mine = {} /\ Opened.working = {}
    BY OpenedType
  <2>3. sched'[r] = Opened /\ \A q \in Open' \ {r} : q \in Open /\ sched'[q] = sched[q]
    BY <2>1 DEF TypeOK, Open, Idle
  <2>4. \A t \in Tasks : Copies(t)' \subseteq Copies(t)
    BY <1>2, <2>2, <2>3 DEF Copies, Load
  <2> QED BY <1>2, <2>2, <2>3, <2>4, OldCopies DEF Carried, Load
<1>3. ASSUME NEW r \in Requests, ReadOnly(r) PROVE TaskInv'
  BY <1>3, Closing DEF ReadOnly, At, Open
<1>4. ASSUME NEW r \in Requests, NEW n \in Nodes, RegisterNode(r, n) PROVE TaskInv'
  <2>1. tasksFile' \in {tasksFile, sched[r].tasks}
    BY <1>4, SchedulerInUse DEF RegisterNode, At, SaveState, Scheduler
  <2> QED BY <1>4, <2>1, Closing DEF RegisterNode, At, Open
<1>5. ASSUME NEW r \in Requests, NEW n \in Nodes, RemoveNode(r, n) PROVE TaskInv'
  <2>1. tasksFile' \in {tasksFile, sched[r].tasks}
    BY <1>5, SchedulerInUse DEF RemoveNode, At, SaveState, Scheduler
  <2> QED BY <1>5, <2>1, Closing DEF RemoveNode, At, Open
<1>6. ASSUME NEW r \in Requests, NEW s \in Sessions, NEW from \in Nodes,
              NEW to \in Nodes, MigrateSession(r, s, from, to)
       PROVE  TaskInv'
  <2>1. PICK t \in Tasks \ drawn :
           /\ drawn' = drawn \cup {t}
           /\ SaveState([sched[r] EXCEPT !.tasks[t] = Task(s, to, "migrated")])
    BY <1>6 DEF MigrateSession
  <2>2. sched[r] \in Scheduler /\ r \in Open
    BY <1>6, SchedulerInUse DEF MigrateSession, At, Open
  <2> DEFINE tasks == [sched[r].tasks EXCEPT ![t] = Task(s, to, "migrated")]
  <2>3. tasksFile' \in {tasks, tasksFile}
    BY <2>1, <2>2 DEF SaveState, Scheduler
  <2>4. \A u \in Tasks \ {t} : tasks[u] = sched[r].tasks[u]
    BY <2>2 DEF Scheduler, TaskMap
  <2> HIDE DEF tasks
  <2>5. Fresh(t)
    BY DEF TaskInv, FreshIsNowhere
  <2>6. tasksFile[t] = Absent /\ \A q \in Open : sched[q].tasks[t] = Absent
    BY <2>5 DEF Fresh, Copies
  <2>7. \A q \in Open' : q \in Open /\ sched'[q] = sched[q]
    BY <1>6 DEF MigrateSession, Close, Open, Idle, TypeOK
  <2>8. \A u \in Tasks \ {t} : Copies(u)' \subseteq Copies(u)
    BY <2>2, <2>3, <2>4, <2>7 DEF Copies
  <2>9. Copies(t)' \subseteq {tasks[t]}
    BY <2>3, <2>6, <2>7 DEF Copies
  <2> DEFINE ids == {t}
  <2>10. \A q \in Open' : Carried(q) \/ (q = r /\ Started(r, ids))
    BY <2>7 DEF Carried
  <2>11. \A u \in ids : \A a, b \in Copies(u)' : a = b
    BY <2>9
  <2>12. told' = told /\ drawn' = drawn \cup ids
    BY <1>6, <2>1 DEF MigrateSession
  <2>13. ids \in SUBSET (Tasks \ drawn) /\ \A u \in Tasks \ ids : Copies(u)' \subseteq Copies(u)
    BY <2>8
  <2> HIDE DEF ids
  <2> QED BY <2>10, <2>11, <2>12, <2>13, NewTasks
<1>7. ASSUME NEW r \in Requests, NEW s \in Sessions, NEW n \in Nodes,
              DispatchTask(r, s, n)
       PROVE  TaskInv'
  BY <1>7, DispatchInv DEF DispatchTask, At, Open
<1>8. ASSUME NEW r \in Requests, NEW s \in Sessions, AutoSchedule(r, s) PROVE TaskInv'
  <2>1. PICK n \in Nodes : Dispatch(r, s, {n})
    BY <1>8 DEF AutoSchedule, Online, Known
  <2> QED BY <1>8, <2>1, DispatchInv DEF AutoSchedule, At, Open
<1>9. ASSUME NEW r \in Requests, NEW s \in Sessions, DispatchAll(r, s) PROVE TaskInv'
  <2>1. sched[r].due \in SUBSET Nodes /\ r \in Open
    BY <1>9, SchedulerInUse DEF DispatchAll, At, Open, Scheduler
  <2> QED BY <1>9, <2>1, DispatchInv DEF DispatchAll
<1>10. ASSUME NEW r \in Open, NEW i, sched' = [sched EXCEPT ![r] = i],
              i.tasks = sched[r].tasks, i.mine = sched[r].mine,
              i.working = sched[r].working, drawn' = drawn, told' = told,
              tasksFile' \in {tasksFile, sched[r].tasks}
       PROVE  TaskInv'
  <2>1. \A q \in Open' : /\ q \in Open
                         /\ sched'[q].tasks = sched[q].tasks
                         /\ sched'[q].mine = sched[q].mine
                         /\ sched'[q].working = sched[q].working
    BY <1>10 DEF TypeOK, Open, Idle
  <2>2. \A t \in Tasks : Copies(t)' \subseteq Copies(t)
    BY <1>10, <2>1 DEF Copies
  <2> QED BY <1>10, <2>1, <2>2, OldCopies DEF Carried
<1>11. ASSUME NEW r \in Requests, NEW targets \in SUBSET Nodes,
              DistributeSession(r, targets)
       PROVE  TaskInv'
  <2> DEFINE nodes == [n \in Nodes |-> IF n \in targets \ Known(sched[r].nodes)
                                       THEN "online" ELSE sched[r].nodes[n]]
             i == [sched[r] EXCEPT !.op = "distribute", !.due = targets,
                                   !.nodes = nodes]
  <2>1. sched[r] \in Scheduler /\ r \in Open
    BY <1>11, SchedulerInUse DEF DistributeSession, At, Open
  <2>2. \/ sched' = [sched EXCEPT ![r] = i] /\ UNCHANGED <<nodesFile, tasksFile>>
        \/ SaveState(i) /\ sched' = [sched EXCEPT ![r] = Noted(i)]
    BY <1>11 DEF DistributeSession
  <2> HIDE DEF nodes
  <2>3. /\ i.tasks = sched[r].tasks /\ i.mine = sched[r].mine
        /\ i.working = sched[r].working
        /\ Noted(i).tasks = sched[r].tasks /\ Noted(i).mine = sched[r].mine
        /\ Noted(i).working = sched[r].working
    BY <2>1 DEF Scheduler, Noted
  <2> HIDE DEF i
  <2>4. tasksFile' \in {tasksFile, sched[r].tasks}
    BY <2>2, <2>3 DEF SaveState
  <2> QED BY <1>10, <1>11, <2>1, <2>2, <2>3, <2>4 DEF DistributeSession
<1>12. ASSUME NEW r \in Requests, GetNodeStatus(r) PROVE TaskInv'
  <2> DEFINE i == [sched[r] EXCEPT !.op = "status", !.due = Known(sched[r].nodes)]
  <2>1. sched[r] \in Scheduler /\ r \in Open
    BY <1>12, SchedulerInUse DEF GetNodeStatus, At, Open
  <2>2. sched' = [sched EXCEPT ![r] = i]
    BY <1>12, <2>1 DEF GetNodeStatus, TypeOK
  <2>3. /\ i.tasks = sched[r].tasks /\ i.mine = sched[r].mine
        /\ i.working = sched[r].working
    BY <2>1 DEF Scheduler
  <2> HIDE DEF i
  <2> QED BY <1>10, <1>12, <2>1, <2>2, <2>3 DEF GetNodeStatus
<1>13. ASSUME NEW r \in Requests, NEW t \in Tasks, TaskReply(r, t) PROVE TaskInv'
  BY <1>13, ReplyInv
<1>14. ASSUME NEW r \in Requests, NEW n \in Nodes, HealthReply(r, n) PROVE TaskInv'
  <2>1. PICK health \in NodeStatus :
          sched' = [sched EXCEPT ![r].nodes[n] = health, ![r].due = @ \ {n}]
    BY <1>14 DEF HealthReply
  <2> DEFINE i == [sched[r] EXCEPT !.nodes[n] = health, !.due = @ \ {n}]
  <2>2. sched[r] \in Scheduler /\ r \in Open
    BY <1>14, SchedulerInUse DEF HealthReply, At, Open
  <2>3. /\ i.tasks = sched[r].tasks /\ i.mine = sched[r].mine
        /\ i.working = sched[r].working
    BY <2>2 DEF Scheduler
  <2>4. sched' = [sched EXCEPT ![r] = i]
    BY <2>1, <2>2 DEF TypeOK
  <2> HIDE DEF i
  <2> QED BY <1>14, <1>10, <2>2, <2>3, <2>4 DEF HealthReply
<1>15. ASSUME NEW r \in Requests, Return(r) PROVE TaskInv'
  <2>1. sched[r] \in Scheduler /\ r \in Open
    BY <1>15, SchedulerInUse DEF Return, At, Open
  <2>2. ASSUME NEW t \in told' \ told PROVE NewlyTold(t)
    <3>1. t \in sched[r].mine /\ sched[r].tasks[t].status = "completed"
      BY <1>15, <2>2 DEF Return
    <3>2. t \in Tasks /\ sched[r].tasks[t] \in Copies(t) /\ t \in drawn
      BY <2>1, <3>1 DEF Scheduler, Copies, TaskInv, WaitsForOwn, FreshIsNowhere, Fresh
    <3>3. \A a \in Copies(t) : a.status \in {"running", "completed"}
      BY <3>1, <3>2 DEF TaskInv, CopiesAgree
    <3>4. \A q \in Open' : q \in Open \ {r} /\ sched'[q] = sched[q]
      BY <1>15 DEF Return, Close, Open, Idle, TypeOK
    <3> QED BY <2>1, <3>1, <3>2, <3>3, <3>4 DEF NewlyTold, TaskInv, OneOwner
  <2> QED BY <1>15, <2>1, <2>2, Closing DEF Return
<1>16. ASSUME NEW r \in Requests, StatusSaved(r) PROVE TaskInv'
  BY <1>16, Closing DEF StatusSaved, At, SaveState, Open
<1>17. ASSUME NEW r \in Requests, StatusHalfSaved(r) PROVE TaskInv'
  BY <1>17, Closing DEF StatusHalfSaved, At, Open
<1>18. ASSUME NEW r \in Requests, Die(r) PROVE TaskInv'
  BY <1>18, Closing DEF Die, Open
<1>19. CASE UNCHANGED vars
  BY <1>1, <1>19 DEF vars
<1> QED BY <1>2, <1>13, <1>14, <1>15, <1>16, <1>17, <1>18, <1>19, <1>3, <1>4, <1>5,
           <1>6, <1>7, <1>8, <1>9, <1>11, <1>12 DEF Next, Resume

-----------------------------------------------------------------------------
(* Theorems *)

LEMMA Invariance == Spec => [](TypeOK /\ TaskInv)
<1>1. TypeOK /\ TaskInv /\ [Next]_vars => (TypeOK /\ TaskInv)'
  BY NextType, NextInv DEF TaskInv
<1> QED BY InitInv, <1>1, PTL DEF Spec

\* The files and the maps of the schedulers keep their types (NodeInfo and
\* TaskDispatch of cluster/models.py), for all sets of requests, nodes, tasks.
THEOREM TypeCorrect == Spec => []TypeOK
BY Invariance, PTL

\* No copy of a task, in tasks.json or in any scheduler, is ever wrong about its
\* session, its node or how it ended (_load_state and _save_state overwriting
\* each other in any order).
THEOREM NoWrongCopy == Spec => []CopiesAgree
<1>1. TaskInv => CopiesAgree
  BY DEF TaskInv
<1> QED BY Invariance, <1>1, PTL

\* While dispatch_task waits for a node, every copy of the task says running and
\* no other request answers for it.
THEOREM RunningWhileWorking == Spec => []WorkingIsRunning
<1>1. TaskInv => WorkingIsRunning
  BY DEF TaskInv
<1> QED BY Invariance, <1>1, PTL

-----------------------------------------------------------------------------
(* One request at a time *)

Alone == \A p, q \in Requests : p = q

\* The scheduler of the only request knows what the files hold, but for the
\* health it has just learnt.
UpToDate(i) ==
    /\ i.tasks = tasksFile
    /\ i.lastNodes \in {Unsaved, nodesFile} /\ i.lastTasks \in {Unsaved, tasksFile}
    /\ i.op # "status" => i.nodes = nodesFile
    /\ i.op = "status" => /\ Known(i.nodes) = Known(nodesFile)
                          /\ i.due \subseteq Known(nodesFile)
    /\ i.op = "distribute" => i.due \subseteq Known(nodesFile)

AloneInv == (\A r \in Open : UpToDate(sched[r])) /\ ToldIsRecorded

\* A step of the ledger, or none, after which the scheduler knows the files.
Good == AloneInv' /\ (Ledger!Next \/ UNCHANGED <<nodesFile, tasksFile>>)

\* Such a scheduler writes both maps.
LEMMA Saved ==
    ASSUME TypeOK, NEW i \in Scheduler, SaveState(i),
           i.lastNodes \in {Unsaved, nodesFile}, i.lastTasks \in {Unsaved, tasksFile}
    PROVE  nodesFile' = i.nodes /\ tasksFile' = i.tasks
BY DistinctAssumption DEF SaveState, Scheduler, TypeOK

\* The end of the request.
LEMMA ClosedAlone ==
    ASSUME TypeOK, Alone, NEW r \in Requests, Close(r), ToldIsRecorded',
           Ledger!Next \/ UNCHANGED <<nodesFile, tasksFile>>
    PROVE  Good
<1>1. Open' = {}
  BY DEF Alone, Close, Open, Idle, TypeOK
<1> QED
  BY <1>1 DEF Good, AloneInv

\* A step after which the request goes on as scheduler i.
LEMMA GoesOn ==
    ASSUME TypeOK, Alone, NEW r \in Requests, NEW i, sched' = [sched EXCEPT ![r] = i],
           UpToDate(i)', ToldIsRecorded',
           Ledger!Next \/ UNCHANGED <<nodesFile, tasksFile>>
    PROVE  Good
<1>1. \A q \in Open' : sched'[q] = i
  BY DEF Alone, Open, TypeOK
<1> QED
  BY <1>1 DEF Good, AloneInv

LEMMA ToldStays ==
    ASSUME ToldIsRecorded, told' = told, \A t \in told : tasksFile'[t] = tasksFile[t]
    PROVE  ToldIsRecorded'
BY DEF ToldIsRecorded

\* Nothing is told of a task that is not drawn, or that a node works on.
LEMMA NotTold ==
    ASSUME TypeOK, TaskInv
    PROVE  /\ \A t \in Tasks \ drawn : t \notin told /\ tasksFile[t] = Absent
           /\ \A r \in Open : \A t \in sched[r].working :
                 t \notin told /\ sched[r].tasks[t] # Absent
                 /\ sched[r].tasks[t].status = "running"
<1>1. ASSUME NEW r \in Open, NEW t \in sched[r].working
      PROVE  t \in Tasks /\ sched[r].tasks[t] \in Copies(t)
  BY <1>1, SchedulerInUse DEF TaskInv, WaitsForOwn, Copies, Open, Scheduler
<1>2. \A t \in Tasks \ drawn : t \notin told /\ tasksFile[t] = Absent
  BY DEF TaskInv, FreshIsNowhere, Fresh, Copies
<1> QED
  BY <1>1, <1>2 DEF TaskInv, OneOwner, WaitsForOwn, WorkingIsRunning

-----------------------------------------------------------------------------
(* Operations on the registry *)

LEMMA RegisterAlone ==
    ASSUME TypeOK, TaskInv, Alone, AloneInv, NEW r \in Requests, NEW n \in Nodes,
           RegisterNode(r, n)
    PROVE  Good
<1> DEFINE nodes == [sched[r].nodes EXCEPT ![n] = "online"]
           i == [sched[r] EXCEPT !.nodes = nodes]
<1>1. /\ r \in Open /\ sched[r] \in Scheduler /\ sched[r].nodes = nodesFile
      /\ UpToDate(sched[r]) /\ nodesFile \in NodeMap
  BY SchedulerInUse DEF RegisterNode, At, AloneInv, UpToDate, Open, TypeOK
<1>2. i \in Scheduler /\ i.nodes = nodes /\ i.tasks = tasksFile
      /\ i.lastNodes = sched[r].lastNodes /\ i.lastTasks = sched[r].lastTasks
  BY <1>1 DEF Scheduler, NodeMap, NodeStatus, UpToDate
<1>3. SaveState(i)
  BY DEF RegisterNode
<1>4. nodesFile' = [nodesFile EXCEPT ![n] = "online"] /\ tasksFile' = tasksFile
  <2> HIDE DEF i
  <2> QED
    BY <1>1, <1>2, <1>3, Saved DEF UpToDate
<1>5. Ledger!Register \/ Ledger!Check
  <2>1. nodesFile' \in [Nodes -> {"online", "offline", Absent}]
    BY <1>1, <1>4 DEF NodeMap, NodeStatus
  <2> QED
    BY <1>1, <1>4, <2>1, DistinctAssumption
       DEF Ledger!Register, Ledger!Check, NodeMap, NodeStatus
<1>6. ToldIsRecorded'
  BY <1>4, ToldStays DEF AloneInv, RegisterNode
<1> QED
  BY <1>5, <1>6, ClosedAlone DEF RegisterNode, Ledger!Next

LEMMA RemoveAlone ==
    ASSUME TypeOK, TaskInv, Alone, AloneInv, NEW r \in Requests, NEW n \in Nodes,
           RemoveNode(r, n)
    PROVE  Good
<1> DEFINE nodes == [sched[r].nodes EXCEPT ![n] = Absent]
           i == [sched[r] EXCEPT !.nodes = nodes]
<1>1. /\ r \in Open /\ sched[r] \in Scheduler /\ sched[r].nodes = nodesFile
      /\ UpToDate(sched[r]) /\ nodesFile[n] # Absent
  BY SchedulerInUse DEF RemoveNode, At, AloneInv, UpToDate, Open, Known
<1>2. i \in Scheduler /\ i.nodes = nodes /\ i.tasks = tasksFile
      /\ i.lastNodes = sched[r].lastNodes /\ i.lastTasks = sched[r].lastTasks
  BY <1>1 DEF Scheduler, NodeMap, NodeStatus, UpToDate
<1>3. SaveState(i)
  BY DEF RemoveNode
<1>4. nodesFile' = [nodesFile EXCEPT ![n] = Absent] /\ tasksFile' = tasksFile
  <2> HIDE DEF i
  <2> QED
    BY <1>1, <1>2, <1>3, Saved DEF UpToDate
<1>5. Ledger!Remove(n)
  BY <1>1, <1>4 DEF Ledger!Remove
<1>6. ToldIsRecorded'
  BY <1>4, ToldStays DEF AloneInv, RemoveNode
<1> QED
  BY <1>5, <1>6, ClosedAlone DEF RemoveNode, Ledger!Next

\* Half saved or saved, the health of the known nodes is all that changes.
LEMMA StatusAlone ==
    ASSUME TypeOK, TaskInv, Alone, AloneInv, NEW r \in Requests,
           StatusSaved(r) \/ StatusHalfSaved(r)
    PROVE  Good
<1>1. /\ r \in Open /\ sched[r] \in Scheduler /\ UpToDate(sched[r])
      /\ sched[r].op = "status"
  BY SchedulerInUse DEF StatusSaved, StatusHalfSaved, At, AloneInv, Open
<1>2. nodesFile' = sched[r].nodes /\ tasksFile' = tasksFile
  BY <1>1, Saved DEF StatusSaved, StatusHalfSaved, UpToDate
<1>3. Ledger!Check
  BY <1>1, <1>2 DEF Ledger!Check, UpToDate, Known, Scheduler, NodeMap, NodeStatus
<1>4. ToldIsRecorded'
  BY <1>2, ToldStays DEF AloneInv, StatusSaved, StatusHalfSaved
<1> QED
  BY <1>3, <1>4, ClosedAlone DEF StatusSaved, StatusHalfSaved, Ledger!Next

LEMMA HealthAlone ==
    ASSUME TypeOK, TaskInv, Alone, AloneInv, NEW r \in Requests,
           GetNodeStatus(r) \/ \E n \in Nodes : HealthReply(r, n)
    PROVE  Good
<1>1. r \in Open /\ sched[r] \in Scheduler /\ UpToDate(sched[r])
  BY SchedulerInUse DEF GetNodeStatus, HealthReply, At, AloneInv, Open
<1>2. UNCHANGED <<nodesFile, tasksFile, told>>
  BY DEF GetNodeStatus, HealthReply
<1>3. ToldIsRecorded'
  BY <1>2, ToldStays DEF AloneInv
<1>4. CASE GetNodeStatus(r)
  <2>1. PICK i : i = [sched[r] EXCEPT !.op = "status", !.due = Known(sched[r].nodes)]
    OBVIOUS
  <2>2. sched' = [sched EXCEPT ![r] = i]
    BY <1>4, <1>1, <2>1 DEF GetNodeStatus, TypeOK
  <2>3. /\ i.op = "status" /\ i.nodes = nodesFile /\ i.tasks = tasksFile
        /\ i.lastNodes = sched[r].lastNodes /\ i.lastTasks = sched[r].lastTasks
        /\ i.due = Known(nodesFile)
    BY <1>1, <1>4, <2>1 DEF GetNodeStatus, At, UpToDate, Scheduler
  <2>4. UpToDate(i)'
    BY <1>1, <1>2, <2>3 DEF UpToDate, Known
  <2> QED
    BY <1>2, <1>3, <2>2, <2>4, GoesOn
<1>5. ASSUME NEW n \in Nodes, HealthReply(r, n)
      PROVE  Good
  <2>1. PICK health \in NodeStatus :
          sched' = [sched EXCEPT ![r].nodes[n] = health, ![r].due = @ \ {n}]
    BY <1>5 DEF HealthReply
  <2> DEFINE nodes == [sched[r].nodes EXCEPT ![n] = health]
  <2>2. PICK i : i = [sched[r] EXCEPT !.nodes = nodes, !.due = @ \ {n}]
    OBVIOUS
  <2>3. sched' = [sched EXCEPT ![r] = i]
    BY <1>1, <2>1, <2>2 DEF TypeOK
  <2>4. n \in Known(sched[r].nodes)
    BY <1>1, <1>5 DEF HealthReply, At, UpToDate
  <2>5. Known(nodes) = Known(sched[r].nodes)
    BY <1>1, <2>4, DistinctAssumption DEF Known, Scheduler, NodeMap
  <2>6. /\ i.op = "status" /\ i.nodes = nodes /\ i.tasks = tasksFile
        /\ i.lastNodes = sched[r].lastNodes /\ i.lastTasks = sched[r].lastTasks
        /\ i.due \subseteq sched[r].due
    BY <1>1, <1>5, <2>2 DEF HealthReply, At, UpToDate, Scheduler
  <2> HIDE DEF nodes
  <2>7. UpToDate(i)'
    BY <1>1, <1>2, <1>5, <2>5, <2>6 DEF UpToDate, Known, HealthReply, At
  <2> QED
    BY <1>2, <1>3, <2>3, <2>7, GoesOn
<1> QED
  BY <1>4, <1>5

\* A scheduler of its own for the request, which knows what it has just read; or
\* none any more.
LEMMA OpenAlone ==
    ASSUME TypeOK, TaskInv, Alone, AloneInv, NEW r \in Requests,
           Load(r) \/ ReadOnly(r) \/ Die(r)
    PROVE  Good
<1>1. UNCHANGED <<nodesFile, tasksFile, told>>
  BY DEF Load, ReadOnly, Die
<1>2. ToldIsRecorded'
  BY <1>1, ToldStays DEF AloneInv
<1>3. CASE Load(r)
  <2>1. PICK i : i = Opened
    OBVIOUS
  <2>2. UpToDate(i)'
    BY <1>1, <2>1 DEF UpToDate, Opened
  <2> QED
    BY <1>1, <1>2, <1>3, <2>1, <2>2, GoesOn DEF Load
<1> QED
  BY <1>1, <1>2, <1>3, ClosedAlone DEF ReadOnly, Die

-----------------------------------------------------------------------------
(* Operations on tasks *)

LEMMA MigrateAlone ==
    ASSUME TypeOK, TaskInv, Alone, AloneInv, NEW r \in Requests, NEW s \in Sessions,
           NEW from \in Nodes, NEW to \in Nodes, MigrateSession(r, s, from, to)
    PROVE  Good
<1>1. PICK t \in Tasks \ drawn :
         SaveState([sched[r] EXCEPT !.tasks[t] = Task(s, to, "migrated")])
  BY DEF MigrateSession
<1> DEFINE tasks == [sched[r].tasks EXCEPT ![t] = Task(s, to, "migrated")]
           i == [sched[r] EXCEPT !.tasks = tasks]
<1>2. /\ r \in Open /\ sched[r] \in Scheduler /\ UpToDate(sched[r])
      /\ sched[r].op = "loaded" /\ nodesFile[to] # Absent
  BY SchedulerInUse DEF MigrateSession, At, AloneInv, UpToDate, Open, Known
<1>3. Task(s, to, "migrated") \in TaskDispatch
  BY DEF Task, TaskDispatch
<1>4. tasks \in TaskMap
  BY <1>2, <1>3 DEF TaskMap, Scheduler
<1>5. SaveState(i)
  BY <1>1
<1>6. i \in Scheduler /\ i.nodes = nodesFile /\ i.tasks = tasks
      /\ i.lastNodes = sched[r].lastNodes /\ i.lastTasks = sched[r].lastTasks
  BY <1>2, <1>4 DEF Scheduler, UpToDate
<1>7. nodesFile' = nodesFile
      /\ tasksFile' = [tasksFile EXCEPT ![t] = Task(s, to, "migrated")]
  <2> HIDE DEF i
  <2> QED
    BY <1>2, <1>5, <1>6, Saved DEF UpToDate
<1>8. tasksFile[t] = Absent /\ t \notin told
  BY NotTold
<1>9. Ledger!Migrate(t)
  BY <1>2, <1>7, <1>8 DEF Ledger!Migrate, Task
<1>10. ToldIsRecorded'
  BY <1>7, <1>8, ToldStays DEF AloneInv, MigrateSession, TypeOK, TaskMap
<1> QED
  BY <1>9, <1>10, ClosedAlone DEF MigrateSession, Ledger!Next

LEMMA DistributeAlone ==
    ASSUME TypeOK, TaskInv, Alone, AloneInv, NEW r \in Requests,
           NEW targets \in SUBSET Nodes, DistributeSession(r, targets)
    PROVE  Good
<1> DEFINE new == targets \ Known(sched[r].nodes)
           nodes == [n \in Nodes |-> IF n \in new THEN "online" ELSE sched[r].nodes[n]]
<1>1. PICK i : i = [sched[r] EXCEPT !.op = "distribute", !.due = targets,
                                    !.nodes = nodes]
  OBVIOUS
<1>2. /\ r \in Open /\ sched[r] \in Scheduler /\ UpToDate(sched[r])
      /\ sched[r].op = "loaded" /\ sched[r].nodes = nodesFile
  BY SchedulerInUse DEF DistributeSession, At, AloneInv, UpToDate, Open
<1>3. nodes \in NodeMap
  BY <1>2 DEF NodeMap, NodeStatus, Scheduler
<1>4. /\ i \in Scheduler /\ i.op = "distribute" /\ i.due = targets /\ i.nodes = nodes
      /\ i.tasks = tasksFile
      /\ i.lastNodes = sched[r].lastNodes /\ i.lastTasks = sched[r].lastTasks
  BY <1>1, <1>2, <1>3 DEF Scheduler, UpToDate
<1>5. targets \subseteq Known(nodes)
  BY DistinctAssumption DEF Known, NodeStatus
<1>6. CASE targets \subseteq Known(sched[r].nodes)
  <2>1. UNCHANGED <<nodesFile, tasksFile, told>> /\ sched' = [sched EXCEPT ![r] = i]
    BY <1>1, <1>6 DEF DistributeSession
  <2>2. nodes = nodesFile
    BY <1>2, <1>6 DEF Scheduler, NodeMap
  <2>3. ToldIsRecorded'
    BY <2>1, ToldStays DEF AloneInv
  <2> HIDE DEF nodes
  <2>4. UpToDate(i)'
    BY <1>2, <1>4, <1>5, <2>1, <2>2 DEF UpToDate, Known
  <2> QED
    BY <2>1, <2>3, <2>4, GoesOn
<1>7. CASE ~ (targets \subseteq Known(sched[r].nodes))
  <2>1. SaveState(i) /\ sched' = [sched EXCEPT ![r] = Noted(i)] /\ told' = told
    BY <1>1, <1>7 DEF DistributeSession
  <2>2. nodesFile' = nodes /\ tasksFile' = tasksFile
    BY <1>2, <1>4, <2>1, Saved DEF UpToDate
  <2>3. \A n \in Nodes : nodes[n] # nodesFile[n] =>
            nodesFile[n] = Absent /\ nodes[n] = "online"
    BY <1>2 DEF Known
  <2> HIDE DEF nodes
  <2>4. Ledger!Register
    BY <1>3, <2>2, <2>3 DEF Ledger!Register, NodeMap, NodeStatus
  <2>5. ToldIsRecorded'
    BY <2>1, <2>2, ToldStays DEF AloneInv
  <2>6. PICK k : k = Noted(i)
    OBVIOUS
  <2>7. /\ k.op = "distribute" /\ k.due = targets /\ k.nodes = nodes
        /\ k.tasks = tasksFile /\ k.lastNodes = nodes /\ k.lastTasks = tasksFile
    BY <1>4, <2>6 DEF Noted, Scheduler
  <2>8. UpToDate(k)'
    BY <1>5, <2>2, <2>7 DEF UpToDate, Known
  <2> QED
    BY <2>1, <2>4, <2>5, <2>6, <2>8, GoesOn DEF Ledger!Next
<1> QED
  BY <1>6, <1>7

\* Assigned leaves the registry alone, and gives each target a task of its own.
LEMMA AssignedTasks ==
    ASSUME NEW j \in Scheduler, NEW s \in Sessions, NEW targets \in SUBSET Nodes,
           NEW id \in Injection(targets, Tasks \ drawn),
           NEW i, i = Assigned(j, s, targets, id)
    PROVE  /\ i.op = "dispatch" /\ i.nodes = j.nodes
           /\ i.lastNodes = j.lastNodes /\ i.lastTasks = j.lastTasks
           /\ \A t \in {id[n] : n \in targets} :
                 /\ i.tasks[t].session = s
                 /\ i.tasks[t].target \in targets
                 /\ id[i.tasks[t].target] = t
<1> DEFINE ids == {id[n] : n \in targets}
           task(t) == Task(s, CHOOSE n \in targets : id[n] = t, "running")
           tasks == [t \in Tasks |-> IF t \in ids THEN task(t) ELSE j.tasks[t]]
<1>1. i = [j EXCEPT !.op = "dispatch", !.due = {}, !.mine = ids,
                    !.working = ids, !.tasks = tasks]
  BY DEF Assigned
<1>2. \A t \in ids : /\ task(t).session = s
                     /\ task(t).target \in targets
                     /\ id[task(t).target] = t
  BY DEF Task
<1>3. ids \subseteq Tasks
  BY DEF Injection
<1> HIDE DEF task, ids
<1>4. \A t \in ids : tasks[t] = task(t)
  BY <1>3
<1> HIDE DEF tasks
<1>5. /\ i.op = "dispatch" /\ i.nodes = j.nodes /\ i.tasks = tasks
      /\ i.lastNodes = j.lastNodes /\ i.lastTasks = j.lastTasks
  BY <1>1 DEF Scheduler
<1> QED
  BY <1>2, <1>4, <1>5 DEF ids

LEMMA DispatchAlone ==
    ASSUME TypeOK, TaskInv, Alone, AloneInv, NEW r \in Open, NEW s \in Sessions,
           NEW targets \in SUBSET Known(nodesFile), sched[r].op # "status",
           Dispatch(r, s, targets)
    PROVE  Good
<1>1. PICK id \in Injection(targets, Tasks \ drawn) :
         LET i == Assigned(sched[r], s, targets, id)
         IN SaveState(i) /\ sched' = [sched EXCEPT ![r] = Noted(i)]
  BY DEF Dispatch
<1>2. PICK i : i = Assigned(sched[r], s, targets, id)
  OBVIOUS
<1> DEFINE ids == {id[n] : n \in targets}
<1>3. /\ sched[r] \in Scheduler /\ UpToDate(sched[r]) /\ sched[r].nodes = nodesFile
      /\ r \in Requests
  BY SchedulerInUse DEF AloneInv, UpToDate, Open
<1>4. targets \in SUBSET Nodes /\ id \in [targets -> Tasks \ drawn]
  BY DEF Known, Injection
<1>5. Extends(i, sched[r], ids)
  BY <1>2, <1>3, <1>4, AssignedFacts
<1>6. /\ i.op = "dispatch" /\ i.nodes = nodesFile
      /\ i.lastNodes = sched[r].lastNodes /\ i.lastTasks = sched[r].lastTasks
      /\ \A t \in ids : /\ i.tasks[t].session = s
                        /\ i.tasks[t].target \in targets
                        /\ id[i.tasks[t].target] = t
  <2>1. PICK j \in Scheduler : j = sched[r]
    BY <1>3
  <2>2. i = Assigned(j, s, targets, id)
    BY <1>2, <2>1
  <2>3. /\ i.op = "dispatch" /\ i.nodes = j.nodes
        /\ i.lastNodes = j.lastNodes /\ i.lastTasks = j.lastTasks
        /\ \A t \in {id[n] : n \in targets} : /\ i.tasks[t].session = s
                                            /\ i.tasks[t].target \in targets
                                            /\ id[i.tasks[t].target] = t
    BY <1>4, <2>2, AssignedTasks, SMTT(60)
  <2> QED
    BY <1>3, <2>1, <2>3
<1>7. ids \subseteq Tasks \ drawn
  BY <1>4
<1> HIDE DEF ids
<1>8. /\ i \in Scheduler
      /\ \A t \in ids : i.tasks[t] \in TaskDispatch /\ i.tasks[t].status = "running"
      /\ \A t \in Tasks \ ids : i.tasks[t] = tasksFile[t]
  BY <1>3, <1>5 DEF Extends, UpToDate
<1>9. nodesFile' = nodesFile /\ tasksFile' = i.tasks
  BY <1>1, <1>2, <1>3, <1>6, <1>8, Saved DEF UpToDate
<1>10. \A t \in ids : t \notin told /\ tasksFile[t] = Absent
  BY <1>7, NotTold
<1>11. Ledger!Enter(s)
  <2> DEFINE entered == {t \in Tasks : tasksFile[t] = Absent /\ tasksFile'[t] # Absent}
  <2>1. entered = ids
    BY <1>7, <1>8, <1>9, <1>10, DistinctAssumption
  <2> QED
    BY <1>6, <1>8, <1>9, <2>1 DEF Ledger!Enter, Known
<1>12. ToldIsRecorded'
  BY <1>8, <1>9, <1>10, ToldStays DEF AloneInv, Dispatch, TypeOK
<1>13. PICK k : k = Noted(i)
  OBVIOUS
<1>14. /\ k.op = "dispatch" /\ k.nodes = nodesFile /\ k.tasks = i.tasks
       /\ k.lastNodes = nodesFile /\ k.lastTasks = i.tasks
  BY <1>6, <1>8, <1>13 DEF Noted, Scheduler
<1>15. UpToDate(k)'
  BY <1>9, <1>14 DEF UpToDate
<1>16. sched' = [sched EXCEPT ![r] = k]
  BY <1>1, <1>2, <1>13
<1> QED
  BY <1>3, <1>11, <1>12, <1>15, <1>16, GoesOn DEF Ledger!Next

LEMMA ReplyAlone ==
    ASSUME TypeOK, TaskInv, Alone, AloneInv, NEW r \in Requests, NEW t \in Tasks,
           TaskReply(r, t)
    PROVE  Good
<1>1. PICK outcome \in {"completed", "failed"} :
        LET i == [sched[r] EXCEPT !.tasks[t].status = outcome,
                                  !.working = @ \ {t}]
        IN SaveState(i) /\ sched' = [sched EXCEPT ![r] = Noted(i)]
  BY DEF TaskReply
<1> DEFINE rec == [sched[r].tasks[t] EXCEPT !.status = outcome]
           tasks == [sched[r].tasks EXCEPT ![t] = rec]
<1>2. PICK i : i = [sched[r] EXCEPT !.tasks = tasks, !.working = @ \ {t}]
  OBVIOUS
<1>3. /\ sched[r] \in Scheduler /\ r \in Open /\ t \in sched[r].working
      /\ UpToDate(sched[r]) /\ sched[r].op = "dispatch"
      /\ sched[r].tasks = tasksFile /\ sched[r].nodes = nodesFile
  BY SchedulerInUse DEF TaskReply, At, Open, AloneInv, UpToDate
<1>4. /\ t \notin told /\ tasksFile[t] # Absent /\ tasksFile[t].status = "running"
      /\ tasksFile[t] \in TaskDispatch
  BY <1>3, NotTold DEF TypeOK, TaskMap
<1>5. tasks \in TaskMap
  BY <1>3, <1>4 DEF TaskDispatch, TaskMap, Scheduler
<1>6. /\ i \in Scheduler /\ i.op = "dispatch" /\ i.nodes = nodesFile /\ i.tasks = tasks
      /\ i.lastNodes = sched[r].lastNodes /\ i.lastTasks = sched[r].lastTasks
  BY <1>2, <1>3, <1>5 DEF Scheduler
<1>7. SaveState(i) /\ sched' = [sched EXCEPT ![r] = Noted(i)]
  BY <1>1, <1>2
<1>8. nodesFile' = nodesFile /\ tasksFile' = tasks
  BY <1>3, <1>6, <1>7, Saved DEF UpToDate
<1>9. tasks = [tasksFile EXCEPT ![t].status = outcome]
  BY <1>3
<1>10. Ledger!End(t)
  BY <1>1, <1>4, <1>8, <1>9 DEF Ledger!End, Ledger!Ended
<1>11. \A u \in Tasks \ {t} : tasks[u] = tasksFile[u]
  BY <1>9 DEF TypeOK, TaskMap
<1>12. ToldIsRecorded'
  BY <1>4, <1>8, <1>11, ToldStays DEF AloneInv, TaskReply, TypeOK
<1> HIDE DEF tasks
<1>13. PICK k : k = Noted(i)
  OBVIOUS
<1>14. /\ k.op = "dispatch" /\ k.nodes = nodesFile /\ k.tasks = tasks
       /\ k.lastNodes = nodesFile /\ k.lastTasks = tasks
  BY <1>6, <1>13 DEF Noted, Scheduler
<1>15. UpToDate(k)'
  BY <1>8, <1>14 DEF UpToDate
<1> QED
  BY <1>7, <1>10, <1>12, <1>13, <1>15, GoesOn DEF Ledger!Next

\* What is reported is what the scheduler holds, hence what the file holds.
LEMMA ReturnAlone ==
    ASSUME TypeOK, TaskInv, Alone, AloneInv, NEW r \in Requests, Return(r)
    PROVE  Good
<1>1. r \in Open /\ UpToDate(sched[r])
  BY DEF Return, At, AloneInv, Open
<1>2. \A t \in told' \ told : tasksFile[t] # Absent /\ tasksFile[t].status = "completed"
  BY <1>1 DEF Return, UpToDate, TaskInv, WaitsForOwn
<1>3. ToldIsRecorded'
  BY <1>2 DEF Return, AloneInv, ToldIsRecorded
<1> QED
  BY <1>3, ClosedAlone DEF Return

LEMMA NextAlone ==
    ASSUME TypeOK, TaskInv, Alone, AloneInv, [Next]_vars
    PROVE  Good
<1>1. ASSUME NEW r \in Requests, NEW s \in Sessions, NEW n \in Nodes, DispatchTask(r, s, n)
      PROVE  Good
  BY <1>1, DispatchAlone DEF DispatchTask, At, Open, AloneInv, UpToDate
<1>2. ASSUME NEW r \in Requests, NEW s \in Sessions, AutoSchedule(r, s)
      PROVE  Good
  <2>1. PICK n \in Known(sched[r].nodes) : Dispatch(r, s, {n})
    BY <1>2, DistinctAssumption DEF AutoSchedule, Online, Known, NodeStatus
  <2> QED
    BY <1>2, <2>1, DispatchAlone DEF AutoSchedule, At, Open, AloneInv, UpToDate
<1>3. ASSUME NEW r \in Requests, NEW s \in Sessions, DispatchAll(r, s)
      PROVE  Good
  BY <1>3, DispatchAlone DEF DispatchAll, At, Open, AloneInv, UpToDate
<1>4. CASE UNCHANGED vars
  BY <1>4 DEF vars, Good, AloneInv, UpToDate, ToldIsRecorded, Open, Idle, Known
<1> QED
  BY <1>1, <1>2, <1>3, <1>4, OpenAlone, RegisterAlone, RemoveAlone, MigrateAlone,
     DistributeAlone, ReplyAlone, ReturnAlone, HealthAlone, StatusAlone
     DEF Next, Resume

LEMMA AloneInvariance == ASSUME Alone PROVE Spec => []AloneInv
<1>1. Init => AloneInv
  BY DEF Init, AloneInv, ToldIsRecorded, Open, Idle
<1>2. TypeOK /\ TaskInv /\ AloneInv /\ [Next]_vars => AloneInv'
  BY NextAlone DEF Good
<1> QED
  BY Invariance, <1>1, <1>2, PTL DEF Spec

\* One request at a time, what a request reported as completed is what tasks.json
\* says from then on, whatever the requests between do and wherever they are
\* killed (dispatch_task, merge_cluster_results).  That requests do not overlap
\* is needed: the run cl_lost loses the record with two of them.
THEOREM ToldRecordedAlone == ASSUME Alone PROVE Spec => []ToldIsRecorded
<1>1. AloneInv => ToldIsRecorded
  BY DEF AloneInv
<1> QED
  BY AloneInvariance, <1>1, PTL

\* One request at a time, the two files are the ledger that ClusterLedger
\* describes: each write is one of its operations, a crash included, and no
\* operation is lost or undone.
THEOREM LedgerAlone == ASSUME Alone PROVE Spec => ImplementsLedger
<1>1. Init => Ledger!Init
  BY DEF Init, Ledger!Init
<1>2. TypeOK /\ TaskInv /\ AloneInv /\ [Next]_vars => [Ledger!Next]_<<nodesFile, tasksFile>>
  BY NextAlone DEF Good
<1> QED
  BY Invariance, AloneInvariance, <1>1, <1>2, PTL DEF Spec, ImplementsLedger, Ledger!Spec

=============================================================================
