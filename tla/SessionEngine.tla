--------------------------- MODULE SessionEngine ---------------------------
(***************************************************************************)
(* fusion_code_modelization/session: SessionEngine over SessionStore.      *)
(*                                                                         *)
(* All handlers run on one event loop, so an operation without an await is *)
(* one step; chat is two, with the model's answer between them and the     *)
(* session it loaded held as a copy.  A caller is a request of the server; *)
(* with one caller the operations are sequential, as the commands of the   *)
(* CLI are.  Several processes on one session directory at the same moment *)
(* are left out.                                                           *)
(*                                                                         *)
(* Abstractions: a message is its role and the number of the chat it       *)
(* belongs to; cluster_nodes is whether the list is empty; the texts of a  *)
(* session (name, model, error, times) are left out.  What distribute_     *)
(* session and merge_cluster_results do to the cluster's own files is in   *)
(* ClusterScheduler.                                                       *)
(***************************************************************************)
EXTENDS Integers, FiniteSets, Sequences

CONSTANTS Sessions,    \* the ids uuid4 may draw: none is drawn twice
          Callers,     \* requests that may be in progress at the same time
          MaxChats,    \* bound on the number of chats (not in the code)
          MaxClients,  \* _MAX_CACHED_CLIENTS
          Absent,      \* a session with no file
          Torn,        \* a session.json cut short by a crash
          NoCall       \* a caller that is not inside chat()

ASSUME MaxClientsAssumption == MaxClients \in Nat \ {0}
ASSUME MaxChatsAssumption == MaxChats \in Nat
States == {"idle", "running", "waiting_approval", "paused", "cluster_running",
           "completed", "failed"}

ValidTransitions ==
    [idle             |-> {"running", "cluster_running"},
     running          |-> {"waiting_approval", "paused", "cluster_running",
                           "completed", "failed"},
     cluster_running  |-> {"running", "paused", "completed", "failed"},
     waiting_approval |-> {"running", "paused", "failed"},
     paused           |-> {"running", "cluster_running", "failed", "completed"},
     completed        |-> {},
     failed           |-> {"idle"}]

Message == [role : {"user", "assistant"}, chat : Nat]
Session == [state : States, distributed : BOOLEAN, messages : Seq(Message)]

ASSUME AbsentAssumption == Absent # Torn /\ Absent \notin Session /\ Torn \notin Session

User(n) == [role |-> "user", chat |-> n]
Assistant(n) == [role |-> "assistant", chat |-> n]

VARIABLES file,      \* the session.json of each session
          created,   \* the ids that have been drawn
          clients,   \* _clients, least recently used first
          call,      \* the chat each caller is waiting in
          nextChat   \* chats begun so far

vars == <<file, created, clients, call, nextChat>>

Init ==
    /\ file = [s \in Sessions |-> Absent]
    /\ created = {}
    /\ clients = <<>>
    /\ call = [c \in Callers |-> NoCall]
    /\ nextChat = 0

-----------------------------------------------------------------------------
(* SessionStore and the client cache *)

\* load() returns None for a missing file and for one it cannot parse.
Loadable(s) == file[s] \notin {Absent, Torn}

CanTransition(from, target) == target \in ValidTransitions[from]

Save(s, session) == file' = [file EXCEPT ![s] = session]

\* del _clients[s]: an OrderedDict has a key once at most.
Without(q, s) ==
    IF \E k \in DOMAIN q : q[k] = s
    THEN LET k == CHOOSE k \in DOMAIN q : q[k] = s
         IN [i \in 1 .. Len(q) - 1 |-> IF i < k THEN q[i] ELSE q[i + 1]]
    ELSE q

\* The dict entry moves to the end, and the oldest goes when there are too many.
CacheClient(q, s) ==
    LET moved == Append(Without(q, s), s)
    IN IF Len(moved) > MaxClients THEN Tail(moved) ELSE moved

\* chat() reuses the cached client (move_to_end) or makes and caches one.
TouchClient(q, s) ==
    IF \E i \in DOMAIN q : q[i] = s THEN Append(Without(q, s), s)
    ELSE CacheClient(q, s)

-----------------------------------------------------------------------------
(* The operations of a caller that is not waiting in a chat *)

Free(c) == call[c] = NoCall

Fresh(messages) == [state |-> "idle", distributed |-> FALSE,
                    messages |-> messages]

CreateSession(c, s) ==
    /\ Free(c)
    /\ s \notin created
    /\ created' = created \cup {s}
    /\ Save(s, Fresh(<<>>))
    /\ clients' = CacheClient(clients, s)
    /\ UNCHANGED <<call, nextChat>>

\* The clone is created idle and local, then saved again with the messages.
Clone(c, s, t) ==
    /\ Free(c)
    /\ Loadable(s)
    /\ t \notin created
    /\ created' = created \cup {t}
    /\ Save(t, Fresh(file[s].messages))
    /\ clients' = CacheClient(clients, t)
    /\ UNCHANGED <<call, nextChat>>

\* load, transition, save: a refused transition saves nothing.
Transition(c, s, target) ==
    /\ Free(c)
    /\ Loadable(s)
    /\ CanTransition(file[s].state, target)
    /\ Save(s, [file[s] EXCEPT !.state = target])
    /\ UNCHANGED <<created, clients, call, nextChat>>

Start(c, s) == Transition(c, s, "running")       \* also resume and approve
Pause(c, s) == Transition(c, s, "paused")
Complete(c, s) == Transition(c, s, "completed")
Fail(c, s) == Transition(c, s, "failed")
RequestApproval(c, s) == Transition(c, s, "waiting_approval")

\* A non-empty list of nodes is given.
DistributeSession(c, s) ==
    /\ Free(c)
    /\ Loadable(s)
    /\ CanTransition(file[s].state, "cluster_running")
    /\ Save(s, [file[s] EXCEPT !.state = "cluster_running",
                               !.distributed = TRUE])
    /\ UNCHANGED <<created, clients, call, nextChat>>

\* Mutant: the session is completed whatever its state.
MergeForced(c, s) ==
    /\ Free(c)
    /\ Loadable(s)
    /\ file[s].distributed
    /\ Save(s, [file[s] EXCEPT !.state = "completed"])
    /\ UNCHANGED <<created, clients, call, nextChat>>

\* The result of transition(COMPLETED) is not looked at.
MergeClusterResults(c, s) ==
    /\ Free(c)
    /\ Loadable(s)
    /\ file[s].distributed
    /\ Save(s, [file[s] EXCEPT !.state =
                   IF CanTransition(@, "completed") THEN "completed" ELSE @])
    /\ UNCHANGED <<created, clients, call, nextChat>>

\* Mutant: the client stays in the cache.
DeleteKeepsClient(c, s) ==
    /\ Free(c)
    /\ file[s] # Absent
    /\ Save(s, Absent)
    /\ UNCHANGED <<created, clients, call, nextChat>>

\* Chats that are waiting on the session are not told.
Delete(c, s) ==
    /\ Free(c)
    /\ file[s] # Absent
    /\ Save(s, Absent)
    /\ clients' = Without(clients, s)
    /\ UNCHANGED <<created, call, nextChat>>

-----------------------------------------------------------------------------
(* chat *)

\* Mutant: the copy of an idle session stays idle.
ChatStaysIdle(c, s) ==
    /\ Free(c)
    /\ Loadable(s)
    /\ file[s].state \in {"running", "idle"}
    /\ nextChat < MaxChats
    /\ nextChat' = nextChat + 1
    /\ call' = [call EXCEPT ![c] =
           [session |-> s, chat |-> nextChat + 1,
            copy |-> [file[s] EXCEPT
                        !.messages = Append(@, User(nextChat + 1))]]]
    /\ clients' = TouchClient(clients, s)
    /\ UNCHANGED <<file, created>>

\* Up to the await: the session is loaded, an idle one becomes running in
\* memory only, and the question is appended to the copy.
Chat(c, s) ==
    /\ Free(c)
    /\ Loadable(s)
    /\ file[s].state \in {"running", "idle"}
    /\ nextChat < MaxChats
    /\ nextChat' = nextChat + 1
    /\ call' = [call EXCEPT ![c] =
           [session |-> s,
            chat    |-> nextChat + 1,
            copy    |-> [file[s] EXCEPT
                           !.state = "running",
                           !.messages = Append(@, User(nextChat + 1))]]]
    /\ clients' = TouchClient(clients, s)
    /\ UNCHANGED <<file, created>>

\* Mutant: the session is loaded again after the await, without the question.
ChatAnsweredReload(c) ==
    /\ ~Free(c)
    /\ Loadable(call[c].session)
    /\ Save(call[c].session,
            [file[call[c].session] EXCEPT
                !.messages = Append(@, Assistant(call[c].chat))])
    /\ call' = [call EXCEPT ![c] = NoCall]
    /\ UNCHANGED <<created, clients, nextChat>>

\* The model answers: the copy, with the answer, replaces the file.
ChatAnswered(c) ==
    /\ ~Free(c)
    /\ Save(call[c].session,
            [call[c].copy EXCEPT
                !.messages = Append(@, Assistant(call[c].chat))])
    /\ call' = [call EXCEPT ![c] = NoCall]
    /\ UNCHANGED <<created, clients, nextChat>>

\* The model fails: the copy is saved with the question alone.
ChatFailed(c) ==
    /\ ~Free(c)
    /\ Save(call[c].session, call[c].copy)
    /\ call' = [call EXCEPT ![c] = NoCall]
    /\ UNCHANGED <<created, clients, nextChat>>

-----------------------------------------------------------------------------
(* The process stops and is started again: what is in memory is gone.      *)

Restart ==
    /\ clients' = <<>>
    /\ call' = [c \in Callers |-> NoCall]
    /\ UNCHANGED nextChat

Crash == Restart /\ UNCHANGED <<file, created>>

\* Some operation may be writing the session's file.
SaveInProgress(s) ==
    \/ \E c \in Callers : ~Free(c) /\ call[c].session = s
    \/ /\ \E c \in Callers : Free(c)
       /\ Loadable(s)
       /\ \/ file[s].distributed
          \/ \E t \in States \ {"idle"} : CanTransition(file[s].state, t)

\* write_text truncates and then writes: a crash between the two leaves a file
\* that does not parse.
CrashInSave(s) ==
    /\ SaveInProgress(s)
    /\ Restart
    /\ Save(s, Torn)
    /\ UNCHANGED created

\* The same, in the first save of a session.
CrashInCreate(s) ==
    /\ \E c \in Callers : Free(c)
    /\ s \notin created
    /\ created' = created \cup {s}
    /\ Restart
    /\ Save(s, Torn)

Op(c, s) ==
    \/ CreateSession(c, s)
    \/ \E t \in Sessions : Clone(c, s, t)
    \/ Start(c, s) \/ Pause(c, s) \/ Complete(c, s) \/ Fail(c, s)
    \/ RequestApproval(c, s)
    \/ DistributeSession(c, s)
    \/ MergeClusterResults(c, s)
    \/ Delete(c, s)
    \/ Chat(c, s)

Next ==
    \/ \E c \in Callers : \/ \E s \in Sessions : Op(c, s)
                          \/ ChatAnswered(c)
                          \/ ChatFailed(c)
    \/ Crash
    \/ \E s \in Sessions : CrashInSave(s) \/ CrashInCreate(s)

Spec == Init /\ [][Next]_vars

-----------------------------------------------------------------------------
(* Properties *)

\* Types of the engine's state (Session and SessionMessage in state.py).
TypeOK ==
    /\ file \in [Sessions -> Session \cup {Absent, Torn}]
    /\ created \in SUBSET Sessions
    /\ clients \in Seq(Sessions)
    /\ call \in [Callers -> [session : Sessions, chat : Nat, copy : Session]
                            \cup {NoCall}]
    /\ nextChat \in Nat

WellTurned(log) ==
    /\ \A k \in DOMAIN log : log[k].role = "assistant" =>
           k > 1 /\ log[k - 1] = User(log[k].chat)
    /\ \A j, k \in DOMAIN log : log[j] = log[k] => j = k

\* In every saved transcript an answer stands right behind the question it
\* answers and no message stands twice, however the chats, clones, deletions
\* and crashes interleave (chat appends to a copy and saves it whole).
TurnIntegrity ==
    \A s \in Sessions : Loadable(s) => WellTurned(file[s].messages)

\* The client cache stays within its bound, has one entry per session, and
\* none for a session whose file is gone.
CacheSound ==
    /\ Len(clients) <= MaxClients
    /\ \A i, j \in DOMAIN clients : clients[i] = clients[j] => i = j
    /\ \A i \in DOMAIN clients : file[clients[i]] # Absent

\* A session that has left "idle" never goes back to it, not even through the
\* stale copy of a chat that began while it was idle.
NeverIdleAgain ==
    [][\A s \in Sessions :
         (Loadable(s) /\ Loadable(s)' /\ file[s].state # "idle")
         => file'[s].state # "idle"]_vars

-----------------------------------------------------------------------------
(* What a session promises its one user. *)

Machine == INSTANCE SessionMachine WITH
    Chats   <- 1 .. MaxChats,
    NoSession <- Absent,
    phase   <- [s \in Sessions |-> IF Loadable(s) THEN "alive"
                                   ELSE IF s \in created THEN "gone"
                                   ELSE "unborn"],
    session <- [s \in Sessions |-> IF Loadable(s) THEN file[s] ELSE Absent]

=============================================================================
