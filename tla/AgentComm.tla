------------------------------ MODULE AgentComm ------------------------------
(***************************************************************************)
(* fusion_code_modelization/agent_comm: CollaborationCoordinator and       *)
(* AgentChannelManager, as used by several processes (each command of the  *)
(* command line is one) over one state directory.  An operation is a step  *)
(* and one more for each line that it appends to the three files; any of   *)
(* these writes may fail, which ends the operation there.                  *)
(*                                                                         *)
(* Abstractions: the channel of a collaboration goes by the collaboration's*)
(* id, both being drawn together; what is fixed when a channel or a        *)
(* collaboration is created (its agents, and the roles that follow from    *)
(* them) is kept once and not in each copy, so that processes which create *)
(* a channel of one name agree on its participants; payloads are numbers,  *)
(* of which only the results are told apart; timestamps and the operations *)
(* that only read are left out.                                            *)
(***************************************************************************)
EXTENDS JsonLines

CONSTANTS Processes,
          Collaborations, \* the ids that uuid4 may draw
          Channels,       \* the names that programs give channels of their own
          Agents,
          AgentLists,     \* the agent_ids and participants given
          Results,        \* what agents submit
          Contents,       \* what programs send themselves: types and payloads
          None,           \* no process there, no result
          MaxMessages,    \* bound on the messages sent (the code has none)
          MaxFailures     \* bound on the writes that fail

ASSUME AgentListsAssumption == AgentLists \subseteq Seq(Agents) \ {<<>>}
ASSUME NamesAssumption == Collaborations \cap Channels = {}
ASSUME ResultsAssumption == None \notin Results
ASSUME BoundsAssumption == MaxMessages \in Nat /\ MaxFailures \in Nat

VARIABLES files,    \* channels.jsonl, messages.jsonl, tasks.jsonl
          memory,   \* the coordinator of each process, or None
          todo,     \* the entries its operation has still to make and write
          agents,   \* the agents of each channel and collaboration created
          sent,     \* how many messages have been made
          failures, \* how many writes have failed
          logged    \* every entry whose writing did not fail

vars == <<files, memory, todo, agents, sent, failures, logged>>

FileNames == {"channels", "messages", "tasks"}
Statuses == {"none", "active", "conflict", "completed", "failed"}
Types == {"task_assignment", "result_delivery", "conflict_report", "sync_response",
          "status_update"}
Addresses == Agents \cup {"coordinator", "*"}

Names == Collaborations \cup Channels
Content == [type : Types, payload : Results \cup {None}]

ASSUME ContentsAssumption == Contents \subseteq Content

\* direct is history: the program has sent the message itself.
Message == [file : {"messages"}, channel : Names, id : 1 .. MaxMessages,
            from : Addresses, to : Addresses, type : Types, payload : Results \cup {None},
            direct : BOOLEAN]
Entry == [file : {"channels"}, channel : Names]
         \cup [file : {"tasks"}, channel : Collaborations] \cup Message

\* What a coordinator and its channel manager keep in memory.
Memory == [channel : [Names -> {"none", "open", "closed"}],
           queue   : [Names -> Seq(Message)],
           status  : [Collaborations -> Statuses],
           results : [Collaborations -> [Agents -> Results \cup {None}]]]

ASSUME NoMemoryAssumption == None \notin Memory

Init == /\ files = [f \in FileNames |-> <<>>]
        /\ memory = [p \in Processes |-> None]
        /\ todo = [p \in Processes |-> <<>>]
        /\ agents = [c \in Names |-> <<>>]
        /\ sent = 0
        /\ failures = 0
        /\ logged = {}

-----------------------------------------------------------------------------
(* Memory and files *)

\* An entry of its own in the memory of a process: a new channel has an empty
\* queue, also where the messages of one that was lost have been read.
Remember(m, e) ==
    CASE e.file = "channels" -> [m EXCEPT !.channel[e.channel] = "open",
                                          !.queue[e.channel] = <<>>]
      [] e.file = "tasks"    -> [m EXCEPT !.status[e.channel] = "active"]
      [] e.file = "messages" -> [m EXCEPT !.queue[e.channel] = Append(@, e)]

\* The entries of channel c among the messages, in the order of the file.
QueueOf(c) ==
    EntriesAt(files.messages, {k \in Parsed(files.messages) :
                                  Head(files.messages[k].entries).channel = c})

Recalled ==
    LET Has(f, c) == \E e \in Found(files[f]) : e.channel = c
    IN  [channel |-> [c \in Names |-> IF Has("channels", c) THEN "open" ELSE "none"],
         queue   |-> [c \in Names |-> QueueOf(c)],
         status  |-> [c \in Collaborations |-> IF Has("tasks", c) THEN "active" ELSE "none"],
         results |-> [c \in Collaborations |-> [a \in Agents |-> None]]]

\* Process p, whose memory is m by now, goes on to make and to write these
\* entries one after another.
Record(p, m, entries, messages) ==
    /\ memory' = [memory EXCEPT ![p] = m]
    /\ todo' = [todo EXCEPT ![p] = entries \o messages]
    /\ sent' = sent + Len(messages)
    /\ UNCHANGED <<files, failures, logged>>

\* The next entry is remembered, then written.  A write that fails raises: the
\* entries behind it are not even made.
Write(p) ==
    /\ todo[p] # <<>>
    /\ LET e == Head(todo[p]) IN
       /\ memory' = [memory EXCEPT ![p] = Remember(@, e)]
       /\ \/ /\ files' = [files EXCEPT ![e.file] = AppendLine(@, e)]
             /\ logged' = logged \cup {e}
             /\ todo' = [todo EXCEPT ![p] = Tail(@)]
             /\ UNCHANGED failures
          \/ /\ failures < MaxFailures
             /\ \E cut \in CutShort(files[e.file], e) : files' = [files EXCEPT ![e.file] = cut]
             /\ todo' = [todo EXCEPT ![p] = <<>>]
             /\ failures' = failures + 1
             /\ UNCHANGED logged
    /\ UNCHANGED <<agents, sent>>

ChannelEntry(c) == [file |-> "channels", channel |-> c]
TaskEntry(c) == [file |-> "tasks", channel |-> c]
MessageEntry(c, k, from, to, content, direct) ==
    [file |-> "messages", channel |-> c, id |-> sent + k, from |-> from, to |-> to,
     type |-> content.type, payload |-> content.payload, direct |-> direct]

\* What the coordinator says: its payloads are not told apart.
Said(type) == [type |-> type, payload |-> None]

\* The messages of a broadcast: to each participant that is not the sender,
\* twice when it is a participant twice.
ToParticipants(c, list, from, content, direct) ==
    LET to == InOrder({k \in DOMAIN list : list[k] # from})
    IN  [k \in DOMAIN to |-> MessageEntry(c, k, from, list[to[k]], content, direct)]

\* broadcast: nothing on a channel that is unknown or closed.
Broadcast(m, c, from, content, direct) ==
    IF m.channel[c] = "open" THEN ToParticipants(c, agents[c], from, content, direct)
                             ELSE <<>>

Alive(p) == memory[p] # None

\* The process is between two operations.
Ready(p) == Alive(p) /\ todo[p] = <<>>
Knows(p, c) == Ready(p) /\ memory[p].status[c] # "none"
RoomFor(k) == sent + k <= MaxMessages

-----------------------------------------------------------------------------
(* Processes *)

\* The constructors read what is on file.
Open(p) == /\ ~Alive(p)
           /\ memory' = [memory EXCEPT ![p] = Recalled]
           /\ UNCHANGED <<files, todo, agents, sent, failures, logged>>

\* The process ends, after an operation, or is killed in the middle of one.
Exit(p) == /\ Alive(p)
           /\ memory' = [memory EXCEPT ![p] = None]
           /\ todo' = [todo EXCEPT ![p] = <<>>]
           /\ UNCHANGED <<files, agents, sent, failures, logged>>

-----------------------------------------------------------------------------
(* AgentChannelManager *)

\* A channel of its own.  A name that this process knows only gives the channel
\* that it has; another process may have created it meanwhile.
CreateChannel(p, c, list) ==
    /\ Ready(p)
    /\ memory[p].channel[c] = "none"
    /\ agents[c] \in {<<>>, list}
    /\ agents' = [agents EXCEPT ![c] = list]
    /\ Record(p, memory[p], <<ChannelEntry(c)>>, <<>>)

\* close_channel changes memory only.
Closed(m, c) == IF m.channel[c] = "none" THEN m ELSE [m EXCEPT !.channel[c] = "closed"]

CloseChannel(p, c) ==
    /\ Ready(p)
    /\ memory' = [memory EXCEPT ![p] = Closed(@, c)]
    /\ UNCHANGED <<files, todo, agents, sent, failures, logged>>

\* What send_message makes of a message: nothing when the channel is unknown
\* or closed, or the sender does not take part.
Send(m, c, from, to, content, direct) ==
    IF m.channel[c] = "open" /\ from \in ToSet(agents[c])
    THEN <<MessageEntry(c, 1, from, to, content, direct)>>
    ELSE <<>>

\* A message that a program makes itself, of any type and with any payload; whom
\* it is for makes no difference.
SendMessage(p, c, a, content) ==
    /\ Ready(p) /\ RoomFor(1)
    /\ Record(p, memory[p], <<>>, Send(memory[p], c, a, "*", content, TRUE))
    /\ UNCHANGED agents

\* broadcast asks nothing of its sender.
BroadcastMessage(p, c, a, content) ==
    /\ Ready(p) /\ RoomFor(Len(agents[c]))
    /\ Record(p, memory[p], <<>>, Broadcast(memory[p], c, a, content, TRUE))
    /\ UNCHANGED agents

-----------------------------------------------------------------------------
(* CollaborationCoordinator *)

CreateCollaboration(p, c, list) ==
    /\ Ready(p) /\ RoomFor(Len(list))
    /\ agents[c] = <<>>
    /\ agents' = [agents EXCEPT ![c] = list]
    /\ Record(p, memory[p], <<ChannelEntry(c), TaskEntry(c)>>,
              ToParticipants(c, list, "coordinator", Said("task_assignment"), FALSE))

\* Mutant: only the first result of an agent counts.
StoredFirst(m, c, a, result) ==
    IF m.results[c][a] = None THEN [m EXCEPT !.results[c][a] = result] ELSE m

\* task.results[agent_id] = result
Stored(m, c, a, result) == [m EXCEPT !.results[c][a] = result]

\* Whether the message could be sent makes no difference to the answer.
SubmitResult(p, c, a, result) ==
    /\ Knows(p, c) /\ RoomFor(1)
    /\ Record(p, Stored(memory[p], c, a, result), <<>>,
              Send(memory[p], c, a, "coordinator",
                   [type |-> "result_delivery", payload |-> result], FALSE))
    /\ UNCHANGED agents

\* In any status: a collaboration that is over gets into conflict too.
ReportConflict(p, c) ==
    /\ Knows(p, c) /\ RoomFor(Len(agents[c]))
    /\ Record(p, [memory[p] EXCEPT !.status[c] = "conflict"], <<>>,
              Broadcast(memory[p], c, "coordinator", Said("conflict_report"), FALSE))
    /\ UNCHANGED agents

ResolveConflict(p, c) ==
    /\ Knows(p, c) /\ RoomFor(Len(agents[c]))
    /\ memory[p].status[c] = "conflict"
    /\ Record(p, [memory[p] EXCEPT !.status[c] = "active"], <<>>,
              Broadcast(memory[p], c, "coordinator", Said("sync_response"), FALSE))
    /\ UNCHANGED agents

\* Mutant: a failed collaboration keeps its channel.
EndKeepsChannel(p, c, status) ==
    /\ Knows(p, c)
    /\ memory' = [memory EXCEPT ![p] =
                      LET m == [@ EXCEPT !.status[c] = status]
                      IN  IF status = "failed" THEN m ELSE Closed(m, c)]
    /\ UNCHANGED <<files, todo, agents, sent, failures, logged>>

\* complete_collaboration and fail_collaboration.
End(p, c, status) ==
    /\ Knows(p, c)
    /\ memory' = [memory EXCEPT ![p] = Closed([@ EXCEPT !.status[c] = status], c)]
    /\ UNCHANGED <<files, todo, agents, sent, failures, logged>>

-----------------------------------------------------------------------------
ChannelOperation(p, c) ==
    \/ CloseChannel(p, c)
    \/ \E a \in Agents, content \in Contents :
          SendMessage(p, c, a, content) \/ BroadcastMessage(p, c, a, content)

CoordinatorOperation(p, c) ==
    \/ \E list \in AgentLists : CreateCollaboration(p, c, list)
    \/ \E a \in Agents, result \in Results : SubmitResult(p, c, a, result)
    \/ ReportConflict(p, c)
    \/ ResolveConflict(p, c)
    \/ \E status \in {"completed", "failed"} : End(p, c, status)

Next == \E p \in Processes :
          \/ Open(p)
          \/ Exit(p)
          \/ Write(p)
          \/ \E c \in Channels, list \in AgentLists : CreateChannel(p, c, list)
          \/ \E c \in Names : ChannelOperation(p, c)
          \/ \E c \in Collaborations : CoordinatorOperation(p, c)

Spec == Init /\ [][Next]_vars
-----------------------------------------------------------------------------
(* Properties *)

TypeOK ==
    /\ files \in [FileNames -> Seq([entries : Seq(Entry), ended : BOOLEAN])]
    /\ memory \in [Processes -> Memory \cup {None}]
    /\ todo \in [Processes -> Seq(Entry)]
    /\ agents \in [Names -> AgentLists \cup {<<>>}]
    /\ sent \in 0 .. MaxMessages
    /\ failures \in 0 .. MaxFailures
    /\ logged \subseteq Entry

\* A write that is cut short costs at most one other entry, the one that is
\* written behind it on the same line: whatever else was written is read again
\* by every process that starts later (channel.py:98,102, coordinator.py:143).
LossesCounted ==
    Cardinality(logged \ UNION {Found(files[f]) : f \in FileNames}) <= failures

\* To a process with memory m the channel c is closed, or its collaboration over.
Shut(m, c) == \/ m.channel[c] = "closed"
              \/ c \in Collaborations /\ m.status[c] \in {"completed", "failed"}

\* Once a process has closed a channel, completed or failed its collaboration, the
\* channel is not opened again and no message is queued on it until the process
\* ends, also when a conflict is reported and resolved afterwards, which gives the
\* collaboration other statuses (coordinator.py:88,102, channel.py:51,79).
ClosedIsSilent ==
    [][\A p \in Processes, c \in Names :
          Alive(p) /\ Shut(memory[p], c) /\ memory'[p] # None
          => /\ memory'[p].channel[c] # "open"
             /\ memory'[p].queue[c] = memory[p].queue[c]]_vars

\* e delivers a result that agent a has submitted, and the newest delivery of a in
\* the queue is of this result.
Delivers(e, a) ==
    e.file = "messages" /\ e.from = a /\ e.type = "result_delivery" /\ ~e.direct
Newest(queue, a, result) ==
    \E k \in DOMAIN queue :
        /\ Delivers(queue[k], a) /\ queue[k].payload = result
        /\ \A j \in DOMAIN queue : j > k => ~Delivers(queue[j], a)

\* The results that a process holds and the messages on the channel agree: between
\* operations the newest delivery that submit_result made for a member carries the
\* result the task has of it, as long as the channel is open (coordinator.py:77 and
\* :85).  Deliveries that a program sends past submit_result are not looked at.
ResultsInChannel ==
    \A p \in Processes, c \in Collaborations : Ready(p) =>
        \A a \in ToSet(agents[c]) :
            LET result == memory[p].results[c][a]
            IN  result # None /\ memory[p].channel[c] = "open"
                => Newest(memory[p].queue[c], a, result)
=============================================================================
