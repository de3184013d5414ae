# A verification project for fusion-code-modelization

TLA+ specifications of the parts of `fusion_code_modelization` that keep state
and can go wrong in ways a test hardly reaches: the workflow executor, the
session engine, the cluster scheduler, the snapshot manager, the agent loop with
its hooks, the channels between agents, the pipeline with its audit and trace logs,
the searches through the trace, and the components that keep what they know in one
small file: plugins, offline cache and packages, load balancer, and the server itself.
TLC checks them on small instances; for each of them TLAPS proves types, the invariants
that the runs check, and three refinements, for every value of the constants. Every definition is translated from the Python source;
`PROJECT.json` names the lines of each (`map`), the runs, the mutants that show
that each property can fail, the hazards and the theorems.

Paths below are relative to `src/fusion_code_modelization/`.

## 1. The system

A Python package, used in three ways: as a command line (`cli/`), as a FastAPI
server (`server/app.py`) and as a library. Everything asynchronous runs on one
event loop: code between two `await`s is not interrupted by another request.
The server keeps *one* `SessionEngine` and *one* `WorkflowExecutor` for all
requests (`server/app.py:156,159`); each cluster operation makes its own
`ClusterScheduler` over the same two files.

| Component | State | Operations | Talks to | What is hard |
|---|---|---|---|---|
| workflow | plan, task statuses, results shared by all plans | decompose, execute, execute_subtask, merge_results | model client | interleaved plans, waves, semaphore, dependency cycles, repeated names |
| session | `session.json` per session, client cache | create, clone, start, pause, resume, approve, complete, fail, request_approval, chat, distribute, merge, delete | store, model client, cluster | a chat holds a copy across an `await`; crash inside a save |
| cluster | `nodes.json`, `tasks.json`, the maps of each scheduler | register, remove, dispatch, auto_schedule, get_node_status, migrate, distribute | nodes over HTTP | whole-file writes of stale maps; crash while a node works |
| snapshot | `snap_*.json`, `rollback_*.json`, the project's files | create, restore (with rollback), rewind, delete, auto_cleanup, compress | file system | failure or crash in the middle of a restore |
| core agent loop, hooks | attempt, last output and error, traces; the output file | run, emit, write_text | model client, hooks, tools | what is returned and saved after mixed failures |
| agent_comm | channels, messages and collaborations, in memory and in three JSONL files | create and close channel, send, broadcast, create, submit, report and resolve conflict, complete, fail | files | writes cut short; part of the state survives a restart, part does not |
| audit, trace | rotated JSONL files; the memory of a tracker | append, read, clean-up with rewriting; create_node, link_nodes | file system | crash during rotation and rewriting |
| pipeline | git's index and commits, the repository's files, `_audit_logs` | create_pr, trace_artifact, link_artifacts | git, hooks, SafeWriter, audit, trace | a command or a write fails half-way; a handler denies |
| loadbalancer | metrics, round-robin index, affinity, strategy object, `state.json` | select_node, update_metrics, rebalance, overview, prediction | none (the cluster chooses nodes itself) | the state of a process replaced by that of the last one |
| plugin | `registry.json`, the maps of each process, loaded plugins | register, unregister, install, update, disable, load, unload, execute | files | file and memory disagree, between processes too |
| offline | `index.json`, cache directories, packages, mode | cache, get, clean-up; prepare, validate, restore; detect | files, network | expiry and eviction across processes; packages half made or damaged |
| server | rate limiter, workflow results and their file | the HTTP routes, start and stop | all of the above | a sliding window; results kept in memory until the stop |
| model client, sandbox, memory, benchmark, generators, analyzers, command line | little or none | see `PROJECT.json` | | sequential, or decisions without state |

What makes each of them correct:

* **workflow**: a task starts only after those it depends on; the loop neither
  spins nor gives up on a task that could run; a prompt holds the outputs of the
  task's own dependencies; the verdict is that of the plan's own tasks; every
  request ends.
* **session**: only the transitions of the state machine; transcripts that keep
  their turns; a client cache that is bounded and has no deleted session; a crash
  loses at most the session being written.
* **cluster**: no task is forgotten or contradicted by a copy of it; what was
  reported completed stays so; every request ends.
* **snapshot**: a restore that succeeds is exact, one that fails puts back every
  file that it could read, and what was read before can always be recovered.
* **agent loop**: an answer that says *passed* is what the tool verified last and
  what the hooks let through; a retry carries the newest error; a trace per attempt,
  in memory and on file; only verified code is saved; every command ends.
* **agent_comm**: what was written is read again, except what a cut-short write
  takes along; on a closed channel nothing is sent any more, whatever becomes of its
  collaboration; the newest delivery of a member is of the result it submitted last.
* **audit, trace**: rotation loses only the oldest entries, wherever it is
  interrupted; clean-up leaves each entry once, and none that is too old.
* **pipeline**: an answer agrees with what git and the files have come to.
* **trace searches**: a trace is exactly what can be reached within its depth.
* **loadbalancer**: a known node, a full one only when all are; turns that are fair
  through restarts; sessions that stay where they are.
* **plugin**: what was recorded is on file, but for what loading itself changes.
* **offline**: a hit is fresh, a clean-up exact, a package that its checksum says is valid
  the one prepared.
* **server**: no window over its limit and no refusal under it; results that a
  client was told are found again.

## 2. Plan

Order of work; the first eleven are done.

1. `WorkflowExecutor` with the abstract `TaskGraph`; `WorkflowExecutorProofs`.
2. `SessionEngine` with the abstract `SessionMachine` and `SessionRefinement`;
   `SessionEngineProofs`, which has the refinement too.
3. `ClusterScheduler` with the abstract `ClusterLedger`; `ClusterSchedulerProofs`.
4. `SnapshotManager`; `SnapshotManagerProofs`.
5. `Hooks`, `AgentLoop` and `CodeCommand`, which composes them with SafeWriter;
   `CodeCommandProofs`.
6. `JsonLines` and `AgentComm`; `AgentCommProofs`.
7. `LogFiles`, `AuditStore`, `TraceStore`, and `PullRequest`, which composes both
   with the hooks and git; `PullRequestProofs`.
8. `StateFile`, and over it `OfflineCache` and `OfflinePackage`, `LoadBalancer`,
   `PluginManager`.
9. `Server`: limiter, results and life of the process; `StateFilesProofs` on 8 to 10.
10. `TraceSearch` against reachability.
11. `MCStateFiles`, one run for the parts of 8 to 10.
12. Composition of `SessionEngine` and `ClusterScheduler` for distribute and
    merge, where the session's file and the cluster's files change in one request.
13. The transitive imports of `analyzer/dependency.py` as an operator against
    reachability, as in `TraceSearch`.

Abstract specifications worth stating next: an append-only log under agent_comm,
audit and trace; an atomic restore for the snapshot manager (its rollback is what
makes it one). Theorems worth proving next: that the logs implement the first
and the snapshot manager the second. The two would replace invariants that are now stated
one by one. Where a new run is needed, the properties that a theorem covers are
the first to leave the older ones.

## 3. The modules

### 3.1 `WorkflowExecutor` (workflow/executor.py, workflow/decomposer.py)

One step is what runs between two `await`s. `pc[p]` says where `run_workflow` of
plan `p` is suspended: in `decompose`, in the `gather` of `execute`, in
`merge_results`. `job[p][i]` is the coroutine of task `i`: not created, queued for
the semaphore, inside the model's call, returned. `results` is `self._results`,
one table for all plans. `Loop` is the `while` loop from one `gather` to the next,
with its ready list and its deadlock branch (lines 97-142); `Collect` is what
follows the barrier; `Verdict` the status at the end. The list of tasks is chosen
from `Shapes`, which stands for what the model's JSON may parse to: missing
dependencies, cycles, self-dependencies and, in the shared runs, repeated names.

`TaskGraph` is the promise: tasks that wait, are started when what they depend on
has settled, settle, and are blocked when nothing can run any more; then there
is a verdict. With one plan of uniquely named tasks the executor implements it
(`ImplementsTaskGraph`): waves and permits are one of the graph's schedules.

### 3.2 `SessionEngine` (session/engine.py, state.py, store.py)

`file[s]` is a session's file (absent, torn by a crash, or a session), `clients`
the LRU cache of model clients, `call[c]` the chat a caller is waiting in *with
the copy of the session it loaded*. `Chat` is everything up to the `await` (lines
174-203), `ChatAnswered` and `ChatFailed` everything after it, including the save of the
copy. `CrashInSave` is the crash between the truncation and the write of
`Path.write_text` (store.py:38), after which the file does not parse and `load`
returns None. Operations that refuse have no step; what they refuse is in the guards.

`SessionMachine` is the promise: sessions as records that operations change
atomically along the transitions. With one caller the engine implements it,
crashes included. With two, it does so until two requests have overlapped: a history
variable, `overlapped`, says when (`ImplementsMachine`, in `SessionRefinement`).

### 3.3 `ClusterScheduler` (cluster/scheduler.py, models.py, node_client.py)

`nodesFile` and `tasksFile` are the two files; `sched[r]` is the scheduler of
request `r` from its construction to the end of the request, with its own maps
and `_last_nodes_hash`, `_last_tasks_hash`. `Load` is the constructor; every
other action acts on the request's own maps and `SaveState` writes them back
whole. Anything may happen between `Load` and the operation: commands of the CLI
are processes of their own, and in the server `distribute_session` gives way at
its `gather` before the tasks are dispatched (`DistributeSession` and then
`DispatchAll`). `TaskReply` is the answer, failure or timeout of a node.
`told` is a history variable: the tasks whose completion a request reported.

`ClusterLedger` is the promise: a registry of nodes and a ledger of tasks in
which nothing is forgotten. With one request at a time the two files implement
it, crashes included (`ImplementsLedger`).

### 3.4 `SnapshotManager` (snapshot/manager.py, delta.py)

`tree` is the project directory; a file holds a text, is absent, or is `Opaque`:
one the scan skips (not UTF-8, or too large). `Read` is `read_text`, which makes CRLF and
CR into LF: `Newlines` gives what it makes of each text, and that is what is kept in a
snapshot or a rollback and written back. `snaps` and `rollbacks` are the
snapshot files, oldest first. A restore is a step per file (`DeleteFile`,
`WriteFile`), each of which may fail and spoil the file or be the last before a
crash; `RollBack`, `GiveUp`, `RolledBack` and `RollbackFails` are the handler of
lines 229-264. `answer` is what the last restore returned, kept until the next step.

### 3.5 `Hooks`, `AgentLoop`, `CodeCommand` (core/hooks.py, core/agent_loop.py, core/safe_writer.py, cli/)

`Hooks` is stateless: `Emit` is the loop over a chain of handlers, each seeing
the text as the earlier ones left it, the first denial winning; `CheckExec` is the
pipeline's own chain, which skips coroutines and hands every handler the same
command. A text is the set of things in it that a handler looks for (`secret`,
`flagged`, `destructive`); the verdict of the guard service is chosen by the step.

`AgentLoop` is one `run`: `pc` says which `await` it is in, `prompt` is the error that
the current prompt carries, `last_output` and `last_error` are the locals, `traces` what
the answer carries and `file` what reached the trace file (writing may fail),
`ran` what the tool was last given and what it said. Each action is what happens
from one `await` to the next, to the end of the loop body: a question that fails
(`ChatFailed`), a handler that denies, extraction, the tool's verdict, its exceptions.

`CodeCommand` adds a command (`transpile`, `refactor`, `test-gen`) around it: with or
without `--loop`, `--no-hooks` and `--output`, from the answer through the scrubbing
hooks to the output file, which a failed write may leave torn.

### 3.6 `JsonLines`, `AgentComm` (agent_comm/channel.py, coordinator.py, models.py)

`JsonLines` is a file opened for appending: `AppendLine`, and `CutShort` for what a
crash or a full disk may leave, including a line without its newline, behind which
the next entry is lost with it; and what a reader finds in it. `AgentComm` keeps the three
`files`, and in `memory[p]` the channels, messages and collaborations of a process; `Open`
reads the files, `Exit` forgets. An operation is a step that changes what it changes in
memory at once and notes in `todo[p]` the entries it has still to make; each of these is a
step of its own, `Write`, which puts it into memory and on file, or raises and leaves the
rest unmade. Between these steps other processes write to the same files, and the process may
be killed. `logged` and `sent` are history variables, and so is the field `direct` of a
message, which says that the program sent it itself: `SendMessage` and `BroadcastMessage` take
any type and payload (`Contents`), a delivery of a result that nobody submitted included.
`Names` are the names of channels, those of collaborations and those that a program gives
its own (`Channels`). The mapping of code to actions is one method each; `Record` notes
what the method has to make, and `Remember` is what an entry does to the memory.

### 3.7 `LogFiles`, `AuditStore`, `TraceStore`, `PullRequest` (audit/, trace/, pipeline/)

`LogFiles` is a directory of rotated files and the two rotations of the package. A rotation
is the directories that it goes `through`, one more for each file renamed or removed, and the
one at its `end`; it may stop in any of them. `MovedUp` is the directory once the files from
some number on have been renamed. `AuditStore` has `LogOperation` and `Cleanup`; `logged`, `cutoff`,
`stops` and `cleanups` are history variables. `TraceStore` has a node file and an edge
file, and the memory of the tracker of the living process.

`PullRequest` is `create_pr`: a step is a git command between its hooks, or the write
or removal of a file. A command may do nothing (git's return code is not looked
at), raise before or after it took effect, or be denied; the `audit_log` handler
appends to the audit log; `Die` is the end of the process anywhere. `base` and
`late` are history variables: the commits when the call began, and whether the
commit command itself raised.

### 3.8 `TraceSearch` (trace/tracker.py, trace/store.py)

The graph of a tracker: nodes in the order of the map, edges in the order of theirs, also
edges to nodes that a reload has lost. `Search` is the breadth-first loop as a recursive function of
how often it has run (the queue is the part of the visited nodes that it has not come
to); `Expanded` looks at all neighbours of a node and `LookAt` at one of
them. `From` and `To` say which end of an edge a search comes from, so that forward and backward
are one definition. `SearchExact` compares it with `Within`, the nodes at each distance.

### 3.9 `StateFile` and the components over it

`StateFile` is a JSON file that is read whole when a component is made and written
whole: absent, torn by a crash in `write_text`, or whole. `Selection` has parts of a
sequence by their positions (`Picked`), for the comprehensions of the cache and of the balancer
and for the lines of `JsonLines` that parse.

* `PluginManager` (plugin/): `registry` is the file and `process[p]` the registry and
  manager of a process, a program that goes on or a command that does one operation.
  `Save` writes the whole map, torn or not; `Load`, `Unload` and `Execute` do not save.
  The fields `handled` and `current` are history.
* `OfflineCache` (offline/cache.py): `index` and the `entries` of the living process,
  the `folders` on disk, a clock. `cached` is history: when each key was last cached.
  `Evicted` says which entries the loop of `cleanup_cache` takes, and `SaveIndex` may stop.
  `OfflinePackage` (offline/manager.py) adds a package with its manifest and
  directories, prepared in steps, damaged between commands, validated and restored. A
  manifest's checksum agrees, differs or has been lost, and is compared unless it is lost.
  `WithKeys` is the cache after the loop of a restore.
* `LoadBalancer` (loadbalancer/): `config`, `metrics`, `rr_index` as they are loaded over
  what a process was made with, and `object`, the class of its strategy, which is not.
  A measure is one percentage, tasks and weight. `turns` is history.
* `Server` (server/app.py): the middleware in its order (`Misdirected`, `TooMany`, `Pass`),
  what is behind it (`Served`, `Unauthorized`, `GetWorkflow`, `RunWorkflow`), runs that
  end or raise, and `Start`, `StartFails`, `Stop`, `Stopped` and `Kill`. A save that is cut
  short leaves JSON that does not parse (`Torn`) or, cut inside a character, bytes that are
  no text (`Garbled`). `hits` is a set of numbered
  times. `spent` (what passed the limiter) and `told` (results that should be found) are history.

`MCStateFiles` puts the six together. They share no state, so that a behaviour is one of
a single component, `part`, chosen at the beginning: the states are the sum of those of the
parts, not the product. It extends the modules, whose properties the proofs use too.

### 3.10 The MC modules

The `MC...` modules give what a `.cfg` cannot: the plans of the workflow runs, the
registries of hooks, the lists of changes, the symmetry sets, and the constraints of
`comm`, `pr` and `files`.

## 4. The runs

Twelve runs: ten that pass and two in which TLC finds what a document or a test
of the repository says violated by the code (section 7). Every property of a
passing run has a mutant, a plausible bug written next to the definition it
changes, under which TLC reports the violation. Each module states a `TypeOK`; it is
proved where section 5 says so, and otherwise the values its variables
may have are what the other properties take for granted. It is not a property of
the runs. `OnlyRunnableLaunched` is not one either: it follows from `DeadlockExact` and
`Termination`, and is proved.

| Run | Bounds | States | Shows |
|---|---|---|---|
| `wf_single` | 1 plan, every list of up to 3 unique tasks, 2 permits | 5,058 | `PromptFromOwnDependencies`, `ImplementsTaskGraph` |
| `wf_shared` | 2 plans (fork, join, cycle beside a free task, repeated names), 1 permit | 101,991 | `DependenciesSettled`, `DeadlockExact`, `Termination`, with shared results |
| `ses_conc` | 2 callers, 2 sessions, 3 chats, cache of 1 | 119,253 (symmetry) | `TurnIntegrity`, `CacheSound`, `NeverIdleAgain`, `ImplementsMachine` |
| `cl_one` | 1 request at a time, 2 nodes, 2 sessions, 2 tasks | 33,019 | `ToldIsRecorded`, `ImplementsLedger`, `RequestsEnd` |
| `cl_two` | 2 requests, 2 nodes, 1 session, 2 tasks | 1,679,490 (symmetry) | `CopiesAgree`, `WorkingIsRunning` |
| `snap` | 2 files, a text with either line end, 2 snapshots, 1 rollback kept, clean-up to 1 | 1,483,778 (symmetry) | `RestoreExact`, `FailureUndone`, `BeforeRecoverable`, `DeltasFaithful`, `CleanupKeepsNewest` |
| `agent` | 3 attempts, 3 registries (none, default, with a caller's handler), every mode and kind of target | 58,982 | `FeedbackIsLatest`, `VerifiedIsPassed`, `HooksHold`, `EveryAttemptTraced`, `SavedWasVerified`, `CommandEnds` |
| `comm` | 2 processes, 1 collaboration or 1 channel of a program's own, 2 agents, 2 results, 3 messages, 1 failing write | 362,545 (symmetry) | `LossesCounted`, `ClosedIsSilent`, `ResultsInChannel` |
| `pr` | 2 calls of up to 2 changes; 3 rotated audit files and 9 entries; 3 rotated trace files and 10 edges; 2 lines a file | 214,629 | `Retention`, `CleanupExact`, `AnswerTells` |
| `files` | plugins: 2, a program and a command or two commands; cache: 3 keys, clock to 2, limit of 1 MB; package: 2 keys; balancer: 3 nodes, 2 loads, 4 strategies, 3 turns; searches: 4 nodes, 3 edges, depth to 3; server: 2 clients, limit 2 in a window of 2, clock to 3, 1 run | 484,292 | `OnlyLoadingUnsaved`, `HitIsFresh`, `CleanupExact`, `ValidIsPrepared`, `TurnsFair`, `ChoiceSound`, `SearchExact`, `WindowExact`, `ResultsKept` |
| `wf_bleed` | as `wf_shared` | violation | `AllCompletedIsCompleted` |
| `cl_lost` | as `cl_two` | violation | `ToldIsRecorded` |

Why the bounds are enough. *Workflow*: three tasks give every shape of order there
is between a task, what it depends on and what that depends on: chain, fork,
join, cycle with and without a tail; two permits for three tasks make one queue;
two plans are what it takes to share results. *Session*: a violation of the
transcripts needs two chats that overlap and one that follows; a cache of one
makes every second session an eviction. *Cluster*: one request that overwrites
and one that is overwritten, each with a task of its own, or one with two.
*Snapshot*: a file to delete and one to write in one restore, with a snapshot
before it and one that clean-up takes; the user writes CRLF files, so that whatever is put
back has other line ends than what was there. *Agent loop*: an error of one attempt, another
in the next, and a third that must carry the newer one. *Agent_comm*: two processes
whose writes alternate line by line, of which one is cut short and the other writes behind it;
three messages are a task's assignment and two results of one agent, or a result and a
delivery that a program sent past it. More of each is what `AgentCommProofs` is for. *Pull request*: a second call over what a
failed one has left in the index; seven entries to fill three audit files and two more
to rotate again, and as much for the trace, which drops two files at once. The two
logs and the calls meet in the audit handler and in the tracker only, so
`OneAtATime`, the action constraint of `pr`, fills each log on its own and starts
calls with empty logs. *Small files*: a process that writes and one that reads
what it left; three keys that expire or are evicted one, two or three at a time; three
nodes, of which the turn is at one, ahead of one and behind one, and any may be
full; three edges make a path as deep as any search, a cycle of three, a fork, a
repeated edge and a loop, and two of the four nodes share an artifact; a limit of two in a window of two ticks, which
slides past the first of two hits while the second still counts.

`MaxChats`, `MaxSnapshots`, `MaxRollbacks`, `MaxIterations`, `MaxMessages`,
`MaxFailures`, `MaxCalls`, `MaxEntries`, `MaxStops`, `MaxNodes`, `MaxEdges`,
`MaxLosses`, `MaxTime`, `MaxTurns`, `MaxLinks`, `MaxRuns`, and the finite `Sessions`, `Tasks` and `Collaborations` (ids that uuid4
may draw) are bounds of the models, not of the code, and appear in guards. `MaxFiles`
and `MaxRotations` are the code's constants (10), made small; `FileLines` and
`TraceLines` stand for its 10 MB. `CHECK_DEADLOCK FALSE` stands in the workflow
runs, which stop when every plan is done, and in `pr`, which stops at its bounds.
`OneProgram`, the constraint of `files`, keeps a second long-lived program out of the
part on plugins: two of them overwrite each other's file as a program and a command do.
`comm` is kept small by three: a behaviour is of one name, the collaboration or the
program's channel (`OneName`), since the two would share nothing but the lines of a
file; at most one message of a queue is the program's own (`OneDirect`), and of the types
it might have there is the one that a property looks at; writes fail
where two agents work (`TwoAgentsFail`).
`FewPacked`, the other constraint of `files`, keeps the part on packages to two keys, cached at
one time and without a size; what time and sizes do to the cache is the part on the cache.

### Fairness

`wf_single`, `wf_shared`: `WF_vars(Progress(p))`. The event loop resumes what is
ready, `asyncio.Semaphore` serves its queue, and the model client answers or
fails within its timeout; *whether* a request is made at all is not assumed.
Weak fairness on the disjunction is enough since the steps of a plan cannot
disable each other for ever. `cl_one`: `WF_vars(Resume(r))` for the same reasons:
`submit_task` and `health_check` have timeouts (node_client.py:73,53). `Load`,
crashes and `Die` have none. `agent`: `WF_vars(Command)`, since the model client
and the verifying tools have timeouts; the loop itself is a `for` over `max_iter`. `max_parallel` is taken from the request unchecked
(server/app.py:108), and `Semaphore(0)` would let no task run: `Termination` is
checked for `MaxParallel >= 1`. The safety theorems need no such bound.

## 5. The proofs

Checked by `tlapm`, from the assumptions on the constants that the modules
state (`ShapesAssumption`, `ParallelAssumption`, `MaxClientsAssumption`,
`MaxChatsAssumption`, `AbsentAssumption` (a torn or missing file is no session), `DistinctAssumption`,
`ServerAssumption`, `EditsAssumption`, `NewlinesAssumption` (reading a text gives a text),
`KeepAssumption`, `RegistriesAssumption`, `IterationsAssumption`, `AgentListsAssumption`,
`NamesAssumption` (a program does not give its channel the name of a collaboration),
`ContentsAssumption`, `ResultsAssumption`, `BoundsAssumption`,
`CacheAssumption` (sizes, ages and limits are natural numbers, as the model has them),
`LoadsAssumption`, `TurnsAssumption`, `SearchAssumption`, `ChangesAssumption`,
`CallsAssumption`, `PathsAssumption` (a file's name says where it is), `TraceAssumption`,
`AuditAssumption`, and `NoResultAssumption`, `NoMemoryAssumption` and
`NodesAssumption`, that `None` is told from what it stands for the lack of), with any number of plans, tasks, permits, sessions, callers,
chats, requests, nodes, clients, plugins, processes, paths, keys, edges, handlers, attempts and
log entries. `AuditAssumption` bounds the rotated audit files by ten, the code's own constant: it reads them in
the order of their names (audit/store.py:33), which `ByName` gives up to ten.
The proof modules stand on their own, so that a few lemmas on loops, on parts of
a sequence and on sets of numbers (`LoopExists`, `PickedFacts`, `AllOfThem`) are in more than one.

**`WorkflowExecutorProofs`**: `TypeCorrect`, `DependenciesFirst`
(`DependenciesSettled`), `RunnableOnly` (`OnlyRunnableLaunched`),
`DeadlockBranchExact` (`DeadlockExact`). None of them is inductive: they speak of
tasks that were launched earlier. The invariant `PlanInv` says for each place
a plan can be suspended at what its own variables are: before the loop an empty
plan; at the barrier (`Running`) every task launched so far is runnable and had its
dependencies in `completed_ids`, the earlier ones ended and the rest are untouched;
after the loop (`Over`) every task has ended and, with unique names, the launched
ones are exactly the runnable ones (`Between` carries the argument from one wave to
the next).
That a plan's variables do not depend on `results` is what makes two plans
harmless to each other's order. The runnable tasks are the least closed set, so
*launched = runnable* follows from "closed" and "inside" without induction on
the graph.

What the shared `results` hold is another matter (`wf_bleed`), and two theorems are about
one plan: their hypothesis `OnePlan` says that `Plans` has one element, and the task lists,
the permits and the answers stay any. `PromptIsOwnDependencies`
(`PromptFromOwnDependencies`) rests on `Filled`: the table holds what the ended tasks
returned, and nothing else. `RunsTheGraph` (`GraphSafety`: the initial states and the steps
of `TaskGraph` under the mapping of `ImplementsTaskGraph`, without its fairness) has
one step of the graph, or none, for each step of the executor; a whole wave is one such
step (`LoopSolo`), which starts some of the startable tasks. It also assumes
`OwnNames`, that no task list has a name twice: with one it is false, as the refinement is.

**`SessionEngineProofs`**: `TypeCorrect`, `TurnsKept` (`TurnIntegrity`),
`CacheKept` (`CacheSound`), `NeverIdle` (`NeverIdleAgain`). Transcripts in files
are overwritten by the copies that chats hold, so the invariant speaks of these
too: `LogsInv` and `CopiesInv` say that every log, saved or held, is well turned and has
only chats up to the last number drawn, and that a held copy ends with the question of
its own chat; the lemmas on appending messages do the rest. `CacheInv`
goes over sequences without repetition (`Without`, `Append`, `Tail`). `BirthInv`
says that only created sessions have a file and that every held copy is running:
the chat made it so before it waits.

There too is `EngineImplementsMachine` (`ImplementsMachine`), with any
number of sessions and callers. A chat is two steps of the engine and one of the
machine, the second: so one has to know at its end what held at its beginning. `FitsInv`
says that while nothing has gone past a waiting chat its session is still as it was
loaded: readable, idle or running, without a message of this chat, and the copy is
that session, running, with the question. `CallsChange` shows why: a step which
changes the call of a waiting caller ends it, so that every other step counts as one that goes
past. Below it is a lemma for every kind of step: `BornMaps`, `MoveMaps`,
`TurnMaps`, `DieMaps` for the four actions of the machine, from the effect of one save
(`SaveMaps`, `LossMaps`), and `Stutter`. A crash takes a session that can be
loaded, or one being born, since a call whose session is already gone does not fit.

**`ClusterSchedulerProofs`**: `TypeCorrect`, `NoWrongCopy` (`CopiesAgree`),
`RunningWhileWorking` (`WorkingIsRunning`). The invariant `TaskInv` adds that an
id not drawn yet is nowhere, that a request waits only for tasks of its own and
has a copy of each, and that a task belongs to one open request, which has not
reported it. Three lemmas cover all steps: one that leaves only copies that were
there before (`OldCopies`: whatever is brought back was not wrong), one that
draws ids (`NewTasks`), one that ends a task all of whose copies are still
running (`AnsweredTask`). Types and the other parts hold together: a reply needs
the record it changes.

With one request at a time (`Alone`: `Requests` has at most one element, which may serve,
be killed and serve again for ever) more is true: `ToldRecordedAlone` (`ToldIsRecorded`) and
`LedgerAlone` (`ImplementsLedger`: each write of the files is an operation of
`ClusterLedger`). The invariant is `UpToDate`: the scheduler's maps are what the files
hold, except for the health it has just asked for and not yet saved, so that a
save adds its own change and undoes nothing. `cl_lost` shows both false for two.

**`StateFilesProofs`** has the components that keep a file of their own. The plugins:
`PluginTypes` and `RecordedIsOnFile` (`OnlyLoadingUnsaved`), for any number of plugins and of processes. The invariant
(`PluginInv`) is a statement on each process by itself: `Sound` gives its types, says that what is
loaded was handled, and that a process which was the last to read or write the file
agrees with its contents (`Agrees`), torn or not. `OneChanges` covers every step that
leaves the file alone, `SaveSound` every save: it makes the writer's memory and the
file the same, and every other process out of date. `HandledChanges` is the
difference that loading and unloading may make.

The server: `ServerTypes`, `LimitKept` (`WindowExact`), `ToldIsKept`
(`ResultsKept`), for every limit, window and set of clients. `WindowExact` counts with
`Cardinality` what has passed in the window; the limiter counts its own list, from
which it drops old hits only when the client comes again. `HitsAreSpent` ties the two: what the
limiter holds has passed, and what has passed within the window it holds, so that both
count the same set (`RecentIsInWindow`). `Finite`
lets the lemmas add one to a cardinality (`PassCounted`) or take from it as time goes on
(`TickForgets`). `ToldIsRestored` is what is true between two servers: no run is left,
and the file holds what was told. `ServerAssumption` says that the bounds are
natural numbers.

The offline cache: `CacheTypes`, `HitsFresh` (`HitIsFresh`), `CleanupTakesOldest`
(`CleanupExact`), for any keys, sizes, ages and limits. Freshness rests on `Dated`: neither the
entries in memory nor those in the file make a resource younger than it is, so that it makes
no difference whose copy of the index is read. The clean-up is about sums. `Total` is a
recursive function of a set that takes some element first; that there is such a function
(`SumExists`), that the order makes no difference and a part has no greater sum
(`SumFacts`) are inductions on the number of elements, with `AllOfThem` again. `EvictedFacts`
then shows that what goes is closed towards the older entries: what is left is the
youngest part of the list, behind its oldest entry, which stayed because all of it fits;
and the youngest that went, with what is behind it, did not.

The load balancer: `BalancerTypes`, `TurnsAreFair` (`TurnsFair`), `ChoicesSound`
(`ChoiceSound`), for any nodes, loads and sessions. That no node is ahead of another by two is
not inductive; `Fair` says how the turns lie on the list: from the place whose turn it is,
going round, those with as many as the least come before those with one more (`Before`), so
that the next choice is of one of the least, or of one of all alike (`TurnFair`). It holds of
the nodes in memory and of those in the file at once. A choice has to exist before it can be
right: `FirstOfBest` finds the first of the best for any `Ranking` of the places of a list.
The loads rank nodes as numbers do; the rooms are fractions, compared by multiplying
crosswise, and rank as fractions do only because a node that is not overloaded takes more than
no task (`CrossMultiplied`).

The packages: `PackageTypes`, `ValidatedIsPrepared` (`ValidIsPrepared`), for any keys. The
property speaks of answers; the invariant (`PackageInv`) says of the package itself
that a manifest whose checksum agrees names what was prepared last (`AgreedIsPrepared`), whatever
directories have come and gone, and keeps for an answer what was true when it was given. Nothing
is said of a manifest that has lost its checksum: `validate_package` does not look for one. What a
restore leaves is a loop over the keys in some order: the order has all of them
(`OrderFacts`, since as many different elements as a set has are all of it), and each turn
leaves its key in the index and those of earlier turns too (`WithKeysFacts`). The
invariant of the cache is one conjunct, so that a package's steps are shown to keep the cache
fresh as well (`CacheUndisturbed`, `RestoredFacts`).

The searches: `SearchTypes`, `SearchesExact` (`SearchExact`), for any graph, repeated edges, loops
and edges to lost nodes among them, both directions and every depth. Here nothing is to be kept by steps but the
types; the proof is about the loop. `Searched` is its invariant, turn by turn: the depth of
a visited node is its distance (`Measures`), the queue is in the order of depth and spans two depths
at most (`Queued`), what an expanded node is linked to is visited (`LookedAround`), and the
edges are those of the expanded nodes (`Traced`). Once all nodes nearer than some distance were
expanded, all within that distance are visited (`Swept`). The model's loop runs once for each
node of the graph, which is enough because no node is visited twice.

**`SnapshotManagerProofs`**: `TypeCorrect`, `Exact` (`RestoreExact`), `Undone`
(`FailureUndone`), `Recoverable` (`BeforeRecoverable`), for any set of paths and texts and
whatever reading makes of them (`Newlines`).
The properties speak of the end of a restore; the invariant (`Inv`) of every point on the
way. `Placed` says of each path by itself that a path which is not to be touched any more
is as it is wanted, and that nothing which the scan skips has come up; at the end no path
is left to touch, and the tree is what was wanted. `Kept` says that the rollback is
what the scan read before, and the newest: no step between the save and the answer
takes or adds a rollback. A rollback in progress wants what was saved
(`RestoringInv`), so its end is what the scan read at the beginning, which is as much as
`FailureUndone` says: text by text what was read, not byte by byte what was there.

Two more speak of steps. `DeltasTell` (`DeltasFaithful`): what a new snapshot calls
deleted it does not have (`Tombstones`), so that the map which the next one is compared
with, deltas applied, has for each path the latest file or, where there is none, at
most an empty text (`PreviousStands`). `CleanupKeeps`
(`CleanupKeepsNewest`): the property counts how many listed snapshots are younger, and the
removals move those that stay to other places. `DropPicks` says that they keep their order;
what goes is closed towards the older ones (`FewerAfter`), so that a snapshot which stays has
as many younger ones as before (`SameNumberAfter`).

**`CodeCommandProofs`**: `TypeCorrect`, `NewestFeedback` (`FeedbackIsLatest`),
`VerifiedHasPassed` (`VerifiedIsPassed`), `AttemptsTraced` (`EveryAttemptTraced`),
`HandlersHold` (`HooksHold`), `OnlyVerifiedSaved` (`SavedWasVerified`), of the agent loop as
a command runs it. `Counted` ties the place in the loop to the number of the attempt;
`VerifiedInv` says that before the answer the tool has passed nothing (a pass ends
the loop) and that what it is looking at is of this attempt; `TracedInv` counts one trace
for each attempt that is over (`Over`). The file holds the traces that could be
written: `TracedIsOrdered` and `OrderedIsTraced` turn the property into one that an
appended line keeps (`TracedOnce`, `TracedStep`).

What the handlers of an event do together is a loop, a recursive function of the
number of handlers that have run. That there is such a function is itself to be
proved: `LoopExists` builds it, with induction as a statement on sets of numbers
(`AllOfThem`, from the well-foundedness of the naturals). `EmitFacts` then says what any
registry of handlers guarantees: with `secret_scrub` in it, in whatever place, nothing it
passes on has a secret, since no handler puts one in, and with
`dangerous_cmd_guard` whatever is not denied is harmless. `HandledInv` carries both from
the answer of the model to the run of the code and to the file, and `SavedInv` that only a
loop that has completed saves, and completes only with a verified attempt.

**`AgentCommProofs`**: `TypeCorrect`, `LossesBounded` (`LossesCounted`),
`ClosedSilent` (`ClosedIsSilent`), `ResultsDelivered` (`ResultsInChannel`), for any
number of processes, collaborations, channels, agents, messages of any type and failed writes.
`LossesCounted` alone is not inductive: an append to a line without its newline costs an entry
later than the failure that left it so. `LossInv` counts both: the entries that are on no line
with its newline (`Kept`), and the files that end in such a line (`Loose`), are
together at most as many as the failures, so that each failure has one loss to come.
`MemoryInv` speaks of a process in the middle of an operation, with the entries it still
has to write: only the first may open a channel, and a result that is held is
either the newest delivery (`Newest`) or the one about to be written (`Agrees`).
`FilesInv` says that the files speak of created collaborations only, in
the file of their kind.

**`PullRequestProofs`**: `TypeCorrect`, `LogsRetain` (`Retention`), `CleanupIsExact`
(`CleanupExact`), `CallsAnswered` (`AnswerTells`), for any changes, registries of hooks,
numbers and sizes of files, calls, and stops.

`Retention` says how many recent entries the files hold; which ones a rotation removes
depends on where each is. `Placed` says of an entry that it is in the current file or, in
an older one, that as many entries came after it as fill the files before that one, less one for each
append that stopped; an entry that recent is in no file that may go (`Recent`). The entries
of which this is not true are `Adrift`, and `AuditInv` and, for nodes and edges, `TraceInv` count them,
with one more for a last line without its newline, against the appends that stopped. What a
rotation does is in `Sound`: in whatever directory it stops, each file stays, moves up by one,
or was one that might go (`RotateSound`, `RotateTraceSound`).

`CleanupExact` counts how often an entry is read. `ReadAllLists` shows that a reader of the directory
has each line of each file once, so that the count is one of places; `ExactInv` bounds the
places of an entry by two to the number of clean-ups that stopped, and lets no entry below the
cutoff be anywhere when none did (`Rearranges` for rotations, `Adds` for the new file of a
clean-up). `CallInv` goes through a call from one suspension to the next: which changes are in the
tree (`Done`), that nothing was committed before the commit, what the handlers have kept out
(`Guarded`, from `EmitDenies`, a loop as in `CodeCommandProofs`). `StoreInv` has what the types need besides: the
tracker holds nothing that was not made.

**Only model-checked**: liveness (`Termination`, `RequestsEnd`, `CommandEnds`, and the
fairness of `TaskGraph`), since fairness and ENABLED are out of the provers' reach. The
theorems with a hypothesis (`OnePlan`, `OwnNames`, `Alone`) say nothing beyond it: there the
properties are false (`cl_lost`, and what `wf_shared` leaves out for it), or are checked by a run.

## 6. What is not modelled

Left out inside the modelled parts, besides what the headers of the modules say:

* cancellation of a request by a client that goes away (workflow, session);
* a collaboration or a channel of no agents (`AgentListsAssumption`); processes that create a
  channel of one name with different participants, and a channel of a program's own that has the
  name of a collaboration (which has random digits in it);
* in the small state files (plugins, offline cache, packages, load balancer), a write that
  raises in a process which then lives on, with a memory that was not saved: a save that stops is
  the end of the process in the model (the server's own save at its stop, the channels'
  appends and the files of `create_pr` do have that case);
* two processes on one session directory at once; two processes that write the
  same `.tmp` file of the cluster at once;
* `depends_on` that is not a list, and other answers of the model that raise in
  `_parse_subtasks`;
* symbolic links, and the branch of `restore_snapshot` that applies deltas to a
  snapshot without files, which no code of the package writes;
* the loads of nodes, including the choice of the load balancer: any fitting node
  may be chosen;
* the streaming variants of the commands, what they print, and what the
  `audit_log` handler writes during an agent loop;
* two processes in the middle of an operation on one audit log or one trace at once;
  bytes of a torn multi-byte character, on which `read_all` raises;
* the searches through the audit log and by text through the trace, and the filters
  and counts of a trace report, which only read;
* two processes at once on the balancer's state or on the index of the offline cache:
  each would write its own map over the other's, as in `cl_lost`;
* `detect_mode` and the capabilities of the offline manager, which ask the network and
  decide nothing for the other operations;
* `rebalance`, `get_cluster_overview` and `predict_capacity`, which only compute;
* the metrics and CORS headers of the server, `/health`, and `/ws/chat`, which neither
  guard nor limiter sees (both are HTTP middleware); a clock that goes back;
* listing and searching plugins, the status `error`, which nothing sets.

The components with status `not_modelled` in `PROJECT.json` keep no state that
evolves between calls, or only a choice: the dual-stack client asks the other model
once when the first has failed, which is one line.

## 7. Where the code and the repository's words disagree

Two have a run:

* `wf_bleed`: `result.subtask_results` is the whole shared table, so another
  plan's failure makes a completed plan *partial* (executor.py:144).
* `cl_lost`: a scheduler writes back the tasks it loaded; another request's
  completed task is running again or gone, and merge leaves its result out
  (scheduler.py:59).

Met while modelling, and visible in the models' traces:

* A chat that was waiting saves its copy over a session that was completed
  meanwhile (session/engine.py:214); tests/test_session.py:40 calls COMPLETED terminal.
* The rollback of a failed restore takes an empty list of files for a missing one
  and gives up (snapshot/manager.py:245; tests/test_snapshot.py:250).
* A task is started when its dependency *failed* (executor.py:137), while
  `WorkflowPlan.ready_tasks` and tests/test_workflow.py:45-60 want it completed.
* Of two tasks with one name (an unnamed task is `T?`, decomposer.py:132) the
  later overwrites the failure of the earlier and the plan is *completed*.
* A waiting chat brings a deleted session back, and of two overlapping chats the
  later save drops the other's turn (engine.py:214).
* A failed restore loses, and a successful one keeps, a file that the scan skips
  (manager.py:261,186; CHANGELOG.md:33 says newer files are deleted).
* `get_node_status` writes both files as they were loaded (scheduler.py:93), so that a node
  registered meanwhile vanishes.
* `merge_cluster_results` answers *completed* when the transition was refused or
  dispatches are still running (engine.py:298).
* Conflicts, results, closed channels and ends of collaborations are in memory only:
  in a new process every collaboration is active, without conflicts, on an open
  channel, so that `agent-comm resolve` after `agent-comm conflict`
  (README.md:159) always refuses (coordinator.py:92-107).
* A conflict may be reported on a completed collaboration; resolving it makes the
  collaboration active again, on its closed channel (coordinator.py:92,113).
* A `KeyError` inside a tool is taken for an unknown tool and ends the loop
  (agent_loop.py:177).
* `--no-hooks` switches off the hooks on the answer, not those of the write
  (cli/__init__.py:304).
* A failed restore, through its rollback, and a restore that succeeds write the LF of
  `read_text` for the CRLF or CR of the files (snapshot/manager.py:47,56,261): every text file
  of the project is rewritten, also one that nobody had touched.
* A program may send a *result_delivery* that was not submitted, and the newest delivery
  on the channel is then not the result that the collaboration holds; a result whose
  message is refused is held all the same, and *submitted* answered (channel.py:49,
  agent_comm/coordinator.py:75,83).
* A manifest without its checksum is valid whatever keys it names
  (offline/manager.py:151).
* A results file that was cut inside a character raises `UnicodeDecodeError`, which is not among
  the errors caught, and the server does not start until it is removed (server/app.py:129;
  `StartFails`). The registry of plugins has the same gap (plugin/registry.py:27); `PluginManager`
  leaves it out, since no process would start any more.
* `create_pr` answers *created* when git refused the checkout or the commit, or had
  nothing to commit (integrator.py:88,102); what a failed call has staged is committed
  by the next one.
* README.md:209 says that audit writes go through SafeWriter; audit/store.py opens
  its files itself.
* A trace keeps one file less than `MAX_TRACE_ROTATIONS` says right after the last one
  was dropped (trace/store.py:110), and nothing reads the rotated files of a trace.
* An audit clean-up that stops between the new file and the removal of the rotated
  ones leaves the kept entries twice, for good (audit/store.py:141).
* `plugin load` and then `plugin execute` (README.md:153-154): each command has a
  manager of its own, in which nothing is loaded, so that `execute` always refuses
  (cli/__init__.py:829, plugin/manager.py:42).
* `unload` makes a plugin *installed* that was disabled while it was loaded
  (plugin/manager.py:37), and a disabled plugin that is still loaded executes.
* A save of any plugin writes the whole map of its process: statuses that loading changed in
  memory only are then recorded, and what another process wrote meanwhile is overwritten
  (plugin/registry.py:30).
* A process takes the configuration of `state.json` over its own, so `--strategy` is
  ignored once a node has been selected (loadbalancer/balancer.py:152); a process made for round
  robin then picks overloaded nodes, with the measures of the time its cycle was made
  (strategy.py:22-27), and reports the other strategy.
* The affinity of sessions is in memory only, and `affinity_ttl_seconds` and
  `overload_threshold` are not used (loadbalancer/models.py:106,109).
* `cleanup_cache` answers how many megabytes it freed, and removes no file
  (offline/cache.py:135); `restore_from_package` restores what `validate_package` refuses
  (offline/manager.py:129).
* The depth of a chain is the depth that was asked for (trace/tracker.py:73), and the
  coverage of a filtered report may be negative, since orphans are counted without
  the filter (trace/tracker.py:134).
* docs/operations.md:270 says that the server writes its results atomically; `write_text`
  truncates the file first, and a crash in it loses the results of earlier servers as well
  (server/app.py:135; `Torn` in `Stopped`).

## 8. Running

In this directory:

    tlc -config wf_single.cfg MCWorkflowExecutor.tla
    tlc -config ses_conc.cfg MCSessionEngine.tla
    tlc -config cl_two.cfg MCClusterScheduler.tla
    tlc -config snap.cfg MCSnapshotManager.tla
    tlc -config agent.cfg MCCodeCommand.tla
    tlc -config comm.cfg MCAgentComm.tla
    tlc -config pr.cfg MCPullRequest.tla
    tlc -config files.cfg MCStateFiles.tla
    tlapm WorkflowExecutorProofs.tla
    tlapm SessionEngineProofs.tla
    tlapm ClusterSchedulerProofs.tla
    tlapm StateFilesProofs.tla
    tlapm SnapshotManagerProofs.tla
    tlapm CodeCommandProofs.tla
    tlapm AgentCommProofs.tla
    tlapm PullRequestProofs.tla

The other runs, `wf_shared` and `wf_bleed`, `cl_one` and `cl_lost`, use
the modules of their families.
