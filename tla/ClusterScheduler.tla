--------------------------- MODULE ClusterScheduler ---------------------------
(***************************************************************************)
(* fusion_code_modelization/cluster: nodes.json and tasks.json, and the    *)
(* ClusterSchedulers that share them.  Every request of the server and     *)
(* every command of the CLI makes a scheduler of its own, which loads both *)
(* files, works on its own maps and writes them back whole.  Others go on  *)
(* between the load and the write (commands are processes of their own, a  *)
(* distribution waits for the event loop), and while nodes work on tasks   *)
(* or answer health checks.                                                *)
(*                                                                         *)
(* Abstractions: the loads of a node are left to chance; a task's result   *)
(* is its status; a distribution names a node once; what happens to the    *)
(* session's own file is in SessionEngine.  Each file is replaced as a     *)
(* whole (write to .tmp, then replace), so no reader sees half of one.     *)
(***************************************************************************)
EXTENDS Functions

CONSTANTS Requests,  \* requests and commands that may be in progress together
          Nodes,     \* node ids
          Sessions,  \* session ids
          Tasks,     \* the task ids that uuid4 may draw: none is drawn twice
          Absent,    \* a key that is not in a map
          Closed,    \* a request without a scheduler
          Unsaved    \* _last_nodes_hash and _last_tasks_hash at first

NodeStatus == {"online", "offline"}
TaskDispatch == [session : Sessions, target : Nodes,
                 status : {"running", "completed", "failed", "migrated"}]
NodeMap == [Nodes -> NodeStatus \cup {Absent}]
TaskMap == [Tasks -> TaskDispatch \cup {Absent}]
Scheduler == [op : {"loaded", "distribute", "dispatch", "status"},
              nodes : NodeMap, tasks : TaskMap,
              lastNodes : NodeMap \cup {Unsaved},
              lastTasks : TaskMap \cup {Unsaved},
              mine : SUBSET Tasks,     \* the tasks this request dispatched
              working : SUBSET Tasks,  \* those whose node has not answered
              due : SUBSET Nodes]      \* nodes it is about to dispatch to, or
                                       \* whose health check is under way

ASSUME DistinctAssumption ==
    /\ Absent \notin NodeStatus \cup TaskDispatch
    /\ Closed \notin Scheduler
    /\ Unsaved \notin NodeMap \cup TaskMap

VARIABLES nodesFile,  \* nodes.json
          tasksFile,  \* tasks.json
          drawn,      \* the task ids that have been drawn
          sched,      \* the scheduler of each request
          told        \* tasks whose completion a request has reported

vars == <<nodesFile, tasksFile, drawn, sched, told>>

Init ==
    /\ nodesFile = [n \in Nodes |-> Absent]
    /\ tasksFile = [t \in Tasks |-> Absent]
    /\ drawn = {}
    /\ sched = [r \in Requests |-> Closed]
    /\ told = {}

Known(nodes) == {n \in Nodes : nodes[n] # Absent}
Online(nodes) == {n \in Nodes : nodes[n] = "online"}

-----------------------------------------------------------------------------
(* __init__, _load_state, _save_state *)

\* Mutant: tasks found running are taken for leftovers of a crash and failed.
OpenedRecovering ==
    [op |-> "loaded", nodes |-> nodesFile,
     tasks |-> [t \in Tasks |->
        IF tasksFile[t] # Absent /\ tasksFile[t].status = "running"
        THEN [tasksFile[t] EXCEPT !.status = "failed"] ELSE tasksFile[t]],
     lastNodes |-> Unsaved, lastTasks |-> Unsaved,
     mine |-> {}, working |-> {}, due |-> {}]

Opened == [op |-> "loaded", nodes |-> nodesFile, tasks |-> tasksFile,
           lastNodes |-> Unsaved, lastTasks |-> Unsaved,
           mine |-> {}, working |-> {}, due |-> {}]

\* Mutant: nothing is written when the nodes have not changed.
SaveStateEarlyReturn(i) ==
    /\ nodesFile' = IF i.nodes # i.lastNodes THEN i.nodes ELSE nodesFile
    /\ tasksFile' = IF i.nodes # i.lastNodes /\ i.tasks # i.lastTasks
                    THEN i.tasks ELSE tasksFile

\* Each map is written when it differs from what this scheduler wrote last:
\* what the file holds by now does not matter.
SaveState(i) ==
    /\ nodesFile' = IF i.nodes # i.lastNodes THEN i.nodes ELSE nodesFile
    /\ tasksFile' = IF i.tasks # i.lastTasks THEN i.tasks ELSE tasksFile

Noted(i) == [i EXCEPT !.lastNodes = i.nodes, !.lastTasks = i.tasks]

Idle(r) == sched[r] = Closed
Close(r) == sched' = [sched EXCEPT ![r] = Closed]
At(r, op) == ~Idle(r) /\ sched[r].op = op

Load(r) ==
    /\ Idle(r)
    /\ sched' = [sched EXCEPT ![r] = Opened]
    /\ UNCHANGED <<nodesFile, tasksFile, drawn, told>>

\* discover_nodes, list_tasks, merge_cluster_results, and what is refused: an
\* unknown node, no node at all.
ReadOnly(r) ==
    /\ At(r, "loaded")
    /\ Close(r)
    /\ UNCHANGED <<nodesFile, tasksFile, drawn, told>>

-----------------------------------------------------------------------------
(* register_node, remove_node, migrate_session *)

RegisterNode(r, n) ==
    /\ At(r, "loaded")
    /\ SaveState([sched[r] EXCEPT !.nodes[n] = "online"])
    /\ Close(r)
    /\ UNCHANGED <<drawn, told>>

RemoveNode(r, n) ==
    /\ At(r, "loaded")
    /\ n \in Known(sched[r].nodes)
    /\ SaveState([sched[r] EXCEPT !.nodes[n] = Absent])
    /\ Close(r)
    /\ UNCHANGED <<drawn, told>>

Task(s, n, status) == [session |-> s, target |-> n, status |-> status]

\* A record of the migration: no task is moved.
MigrateSession(r, s, from, to) ==
    /\ At(r, "loaded")
    /\ {from, to} \subseteq Known(sched[r].nodes)
    /\ \E t \in Tasks \ drawn :
         /\ drawn' = drawn \cup {t}
         /\ SaveState([sched[r] EXCEPT !.tasks[t] = Task(s, to, "migrated")])
    /\ Close(r)
    /\ UNCHANGED told

-----------------------------------------------------------------------------
(* dispatch_task *)

\* Scheduler i once task id[n] of session s is recorded for every target n.
Assigned(i, s, targets, id) ==
    LET ids == {id[n] : n \in targets}
    IN [i EXCEPT
          !.op = "dispatch", !.due = {}, !.mine = ids, !.working = ids,
          !.tasks = [t \in Tasks |->
              IF t \in ids THEN Task(s, CHOOSE n \in targets : id[n] = t, "running")
                           ELSE i.tasks[t]]]

\* Every target gets a task of its own, which is saved as running before the
\* request waits for the nodes.
Dispatch(r, s, targets) ==
    /\ \E id \in Injection(targets, Tasks \ drawn) :
         LET i == Assigned(sched[r], s, targets, id)
         IN /\ drawn' = drawn \cup {id[n] : n \in targets}
            /\ SaveState(i)
            /\ sched' = [sched EXCEPT ![r] = Noted(i)]
    /\ UNCHANGED told

\* An unknown node gets a failed answer, and nothing is recorded.
DispatchTask(r, s, n) ==
    /\ At(r, "loaded")
    /\ n \in Known(sched[r].nodes)
    /\ Dispatch(r, s, {n})

\* The online nodes (those with memory to spare, for a task that needs a GPU);
\* every known node when there is none of these.
AutoSchedule(r, s) ==
    /\ At(r, "loaded")
    /\ \E fit \in SUBSET Online(sched[r].nodes) :
         \E n \in (IF fit = {} THEN Known(sched[r].nodes) ELSE fit) :
             Dispatch(r, s, {n})

\* distribute_session registers the nodes it does not know; the tasks wait for
\* the event loop.  (There are task ids left for them.)
DistributeSession(r, targets) ==
    /\ At(r, "loaded")
    /\ targets # {}
    /\ ExistsInjection(targets, Tasks \ drawn)
    /\ LET i == [sched[r] EXCEPT
                   !.op = "distribute", !.due = targets,
                   !.nodes = [n \in Nodes |->
                       IF n \in targets \ Known(sched[r].nodes)
                       THEN "online" ELSE sched[r].nodes[n]]]
       IN IF targets \subseteq Known(sched[r].nodes)
          THEN /\ sched' = [sched EXCEPT ![r] = i]
               /\ UNCHANGED <<nodesFile, tasksFile>>
          ELSE /\ SaveState(i)
               /\ sched' = [sched EXCEPT ![r] = Noted(i)]
    /\ UNCHANGED <<drawn, told>>

DispatchAll(r, s) ==
    /\ At(r, "distribute")
    /\ Dispatch(r, s, sched[r].due)

\* Mutant of TaskReply: one answer for all.
TaskReplyAll(r, t) ==
    /\ At(r, "dispatch")
    /\ t \in sched[r].working
    /\ \E outcome \in {"completed", "failed"} :
         LET i == [sched[r] EXCEPT
                     !.tasks = [u \in Tasks |->
                         IF u \in sched[r].mine
                         THEN [@[u] EXCEPT !.status = outcome] ELSE @[u]],
                     !.working = @ \ {t}]
         IN /\ SaveState(i)
            /\ sched' = [sched EXCEPT ![r] = Noted(i)]
    /\ UNCHANGED <<drawn, told>>

\* A node answers, fails or times out: the task's status is set and saved.
TaskReply(r, t) ==
    /\ At(r, "dispatch")
    /\ t \in sched[r].working
    /\ \E outcome \in {"completed", "failed"} :
         LET i == [sched[r] EXCEPT !.tasks[t].status = outcome,
                                   !.working = @ \ {t}]
         IN /\ SaveState(i)
            /\ sched' = [sched EXCEPT ![r] = Noted(i)]
    /\ UNCHANGED <<drawn, told>>

\* Mutant: the request waits for every task to be completed.
ReturnWhenCompleted(r) ==
    /\ At(r, "dispatch")
    /\ sched[r].working = {}
    /\ \A t \in sched[r].mine : sched[r].tasks[t].status = "completed"
    /\ told' = told \cup sched[r].mine
    /\ Close(r)
    /\ UNCHANGED <<nodesFile, tasksFile, drawn>>

\* The request reports the statuses of its tasks.
Return(r) ==
    /\ At(r, "dispatch")
    /\ sched[r].working = {}
    /\ told' = told \cup
           {t \in sched[r].mine : sched[r].tasks[t].status = "completed"}
    /\ Close(r)
    /\ UNCHANGED <<nodesFile, tasksFile, drawn>>

-----------------------------------------------------------------------------
(* get_node_status *)

GetNodeStatus(r) ==
    /\ At(r, "loaded")
    /\ Known(sched[r].nodes) # {}
    /\ sched' = [sched EXCEPT ![r].op = "status",
                              ![r].due = Known(sched[r].nodes)]
    /\ UNCHANGED <<nodesFile, tasksFile, drawn, told>>

\* health_check sets the status of the scheduler's own NodeInfo.
HealthReply(r, n) ==
    /\ At(r, "status")
    /\ n \in sched[r].due
    /\ \E health \in NodeStatus :
         sched' = [sched EXCEPT ![r].nodes[n] = health, ![r].due = @ \ {n}]
    /\ UNCHANGED <<nodesFile, tasksFile, drawn, told>>

\* Mutant: nodes that do not answer are dropped.
StatusSavedPruned(r) ==
    /\ At(r, "status")
    /\ sched[r].due = {}
    /\ SaveState([sched[r] EXCEPT !.nodes = [n \in Nodes |->
           IF sched[r].nodes[n] = "offline" THEN Absent ELSE sched[r].nodes[n]]])
    /\ Close(r)
    /\ UNCHANGED <<drawn, told>>

\* Nothing was saved before, so both maps are written as they were loaded but
\* for the new statuses.
StatusSaved(r) ==
    /\ At(r, "status")
    /\ sched[r].due = {}
    /\ SaveState(sched[r])
    /\ Close(r)
    /\ UNCHANGED <<drawn, told>>

\* The process dies between the two files.  (Only here does it matter: in the
\* other operations one of the files is written as it was, or has been before.)
StatusHalfSaved(r) ==
    /\ At(r, "status")
    /\ sched[r].due = {}
    /\ nodesFile' = sched[r].nodes
    /\ Close(r)
    /\ UNCHANGED <<tasksFile, drawn, told>>

-----------------------------------------------------------------------------
\* The process of the request dies: its tasks stay as they were saved last.
Die(r) ==
    /\ ~Idle(r)
    /\ Close(r)
    /\ UNCHANGED <<nodesFile, tasksFile, drawn, told>>

\* What a request does once it has its scheduler.
Resume(r) ==
    \/ ReadOnly(r)
    \/ \E n \in Nodes : RegisterNode(r, n) \/ RemoveNode(r, n)
    \/ \E s \in Sessions :
         \/ \E from, to \in Nodes : MigrateSession(r, s, from, to)
         \/ \E n \in Nodes : DispatchTask(r, s, n)
         \/ AutoSchedule(r, s)
         \/ DispatchAll(r, s)
    \/ \E targets \in SUBSET Nodes : DistributeSession(r, targets)
    \/ \E t \in Tasks : TaskReply(r, t)
    \/ Return(r)
    \/ GetNodeStatus(r)
    \/ \E n \in Nodes : HealthReply(r, n)
    \/ StatusSaved(r)

Next == \E r \in Requests : Load(r) \/ Resume(r) \/ StatusHalfSaved(r) \/ Die(r)

Spec == Init /\ [][Next]_vars

\* Nodes answer or time out, and the event loop goes on with what is ready.
FairSpec == Spec /\ \A r \in Requests : WF_vars(Resume(r))

-----------------------------------------------------------------------------
(* Properties *)

\* Types of the files and of the schedulers' maps (NodeInfo and TaskDispatch).
TypeOK ==
    /\ nodesFile \in NodeMap
    /\ tasksFile \in TaskMap
    /\ drawn \in SUBSET Tasks
    /\ sched \in [Requests -> Scheduler \cup {Closed}]
    /\ told \in SUBSET Tasks

Open == {r \in Requests : ~Idle(r)}

\* The copies of a task in the file and in the maps of open schedulers.
Copies(t) == ({tasksFile[t]} \cup {sched[r].tasks[t] : r \in Open}) \ {Absent}

\* However the schedulers overwrite each other, a copy of a task is at worst
\* behind, never wrong: all copies have one session and one target, no two of
\* them ended differently, and none ended otherwise than a request reported.
CopiesAgree ==
    \A t \in Tasks :
        /\ \A a, b \in Copies(t) :
             /\ a.session = b.session /\ a.target = b.target
             /\ a.status = "running" \/ b.status = "running"
                    \/ a.status = b.status
        /\ t \in told => \A a \in Copies(t) : a.status \in {"running", "completed"}

\* While a node works on a task no copy of it says that it is over, and only
\* the request that dispatched it waits for it.
WorkingIsRunning ==
    \A r \in Open : \A t \in sched[r].working :
        /\ sched[r].tasks[t] # Absent
        /\ \A a \in Copies(t) : a.status = "running"
        /\ \A q \in Open \ {r} : t \notin sched[q].mine

\* What a request reported as completed is what tasks.json says from then on, so
\* that merge_cluster_results, which reads it there, finds it ("Merge completed
\* cluster results", README.md:255).  Overlapping requests do not keep this.
ToldIsRecorded ==
    \A t \in told : tasksFile[t] # Absent /\ tasksFile[t].status = "completed"

\* A request that is not killed comes to an end: no answer of a node is waited
\* for twice, and no health check is forgotten.
RequestsEnd ==
    \A r \in Requests : ~Idle(r) ~> Idle(r)

-----------------------------------------------------------------------------
\* One request at a time: the two files are a ledger of atomic operations.
Ledger == INSTANCE ClusterLedger WITH
    registry <- nodesFile, ledger <- tasksFile

ImplementsLedger == Ledger!Spec

=============================================================================
