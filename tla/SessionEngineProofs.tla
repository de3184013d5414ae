------------------------ MODULE SessionEngineProofs ------------------------
(***************************************************************************)
(* Theorems about SessionEngine: whatever the number of sessions, callers, *)
(* chats and cached clients, the transcripts keep their turns and the      *)
(* cache of clients stays sound; and the engine is the atomic machine of   *)
(* SessionMachine, crashes and torn files included, for as long as no      *)
(* request goes past a chat that is waiting, and again afterwards.         *)
(***************************************************************************)
EXTENDS SessionRefinement, SequenceTheorems, TLAPS

-----------------------------------------------------------------------------
(* The client cache as a sequence *)

\* No entry stands twice.
NoDup(q) == \A i, j \in DOMAIN q : q[i] = q[j] => i = j
Entries(q) == {q[i] : i \in DOMAIN q}

\* Removing an entry leaves the others, each once.
LEMMA WithoutFacts ==
    ASSUME NEW q \in Seq(Sessions), NEW s, NoDup(q)
    PROVE  /\ Without(q, s) \in Seq(Sessions)
           /\ NoDup(Without(q, s))
           /\ Entries(Without(q, s)) = Entries(q) \ {s}
           /\ Len(Without(q, s)) <= Len(q)
           /\ s \in Entries(q) => Len(Without(q, s)) = Len(q) - 1
<1>1. CASE \E k \in DOMAIN q : q[k] = s
  <2> DEFINE k == CHOOSE k \in DOMAIN q : q[k] = s
             r == [i \in 1 .. Len(q) - 1 |-> IF i < k THEN q[i] ELSE q[i + 1]]
  <2>1. k \in 1 .. Len(q) /\ q[k] = s
    BY <1>1
  <2>2. Without(q, s) = r
    BY <1>1 DEF Without
  <2> HIDE DEF k
  <2>3. Len(q) - 1 \in Nat
    BY <2>1
  <2>4. \A i \in 1 .. Len(q) - 1 : r[i] \in Sessions
    BY <2>1
  <2>5. r \in Seq(Sessions) /\ Len(r) = Len(q) - 1 /\ DOMAIN r = 1 .. Len(q) - 1
    <3>1. r \in [1 .. Len(q) - 1 -> Sessions]
      BY <2>4
    <3> QED BY <3>1, <2>3, SeqDef
  <2>6. NoDup(r)
    BY <2>1, <2>5 DEF NoDup
  <2>7. Entries(r) \subseteq Entries(q) \ {s}
    <3> SUFFICES ASSUME NEW i \in 1 .. Len(q) - 1
                 PROVE  r[i] \in Entries(q) /\ r[i] # s
      BY <2>5 DEF Entries
    <3> QED BY <2>1 DEF Entries, NoDup
  <2>8. Entries(q) \ {s} \subseteq Entries(r)
    <3> SUFFICES ASSUME NEW i \in 1 .. Len(q), q[i] # s
                 PROVE  \E j \in 1 .. Len(q) - 1 : r[j] = q[i]
      BY <2>5 DEF Entries
    <3>1. CASE i < k
      BY <3>1, <2>1
    <3>2. CASE i > k
      <4>1. i - 1 \in 1 .. Len(q) - 1 /\ r[i - 1] = q[i]
        BY <3>2, <2>1
      <4> QED BY <4>1
    <3> QED BY <3>1, <3>2, <2>1
  <2> HIDE DEF r
  <2>9. s \in Entries(q) => Len(r) = Len(q) - 1
    BY <2>5
  <2> QED BY <2>2, <2>3, <2>5, <2>6, <2>7, <2>8, <2>9
<1>2. CASE ~ \E k \in DOMAIN q : q[k] = s
  BY <1>2 DEF Without, Entries
<1> QED BY <1>1, <1>2

\* An entry that is not there yet can be put at the end.
LEMMA AppendFacts ==
    ASSUME NEW q \in Seq(Sessions), NEW s \in Sessions, NoDup(q),
           s \notin Entries(q)
    PROVE  /\ Append(q, s) \in Seq(Sessions)
           /\ NoDup(Append(q, s))
           /\ Entries(Append(q, s)) = Entries(q) \cup {s}
           /\ Len(Append(q, s)) = Len(q) + 1
<1>1. /\ Append(q, s) \in Seq(Sessions)
      /\ Len(Append(q, s)) = Len(q) + 1
      /\ DOMAIN Append(q, s) = 1 .. Len(q) + 1
      /\ \A i \in 1 .. Len(q) : Append(q, s)[i] = q[i]
      /\ Append(q, s)[Len(q) + 1] = s
  BY AppendProperties
<1>2. NoDup(Append(q, s))
  BY <1>1 DEF NoDup, Entries
<1>3. Entries(Append(q, s)) = Entries(q) \cup {s}
  BY <1>1 DEF Entries
<1> QED BY <1>1, <1>2, <1>3

\* Dropping the oldest entry of a cache leaves the others, each once.
LEMMA TailFacts ==
    ASSUME NEW q \in Seq(Sessions), q # <<>>, NoDup(q)
    PROVE  /\ Tail(q) \in Seq(Sessions)
           /\ NoDup(Tail(q))
           /\ Entries(Tail(q)) \subseteq Entries(q)
           /\ Len(Tail(q)) = Len(q) - 1
<1>1. /\ Tail(q) \in Seq(Sessions)
      /\ Len(Tail(q)) = Len(q) - 1
      /\ \A i \in 1 .. Len(Tail(q)) : Tail(q)[i] = q[i + 1]
  BY HeadTailProperties
<1>2. Len(q) \in Nat /\ DOMAIN Tail(q) = 1 .. Len(q) - 1 /\ DOMAIN q = 1 .. Len(q)
  BY <1>1, LenProperties
<1> QED BY <1>1, <1>2 DEF NoDup, Entries

\* What the engine relies on in its cache, with the entries it may gain.
Cache(q) == q \in Seq(Sessions) /\ NoDup(q) /\ Len(q) <= MaxClients

LEMMA CacheClientFacts ==
    ASSUME NEW q, Cache(q), NEW s \in Sessions
    PROVE  Cache(CacheClient(q, s)) /\ Entries(CacheClient(q, s)) \subseteq Entries(q) \cup {s}
<1> DEFINE w == Without(q, s)
           m == Append(w, s)
<1>1. /\ w \in Seq(Sessions) /\ NoDup(w) /\ Entries(w) = Entries(q) \ {s}
      /\ Len(w) <= MaxClients
  BY WithoutFacts, MaxClientsAssumption, LenProperties DEF Cache
<1>2. /\ m \in Seq(Sessions) /\ NoDup(m) /\ Entries(m) = Entries(q) \cup {s}
      /\ Len(m) = Len(w) + 1
  BY <1>1, AppendFacts
<1>3. CacheClient(q, s) = IF Len(m) > MaxClients THEN Tail(m) ELSE m
  BY DEF CacheClient
<1> HIDE DEF w, m
<1>4. Len(w) \in Nat /\ m # <<>>
  BY <1>1, <1>2, LenProperties, EmptySeq
<1>5. /\ Tail(m) \in Seq(Sessions) /\ NoDup(Tail(m))
      /\ Entries(Tail(m)) \subseteq Entries(m) /\ Len(Tail(m)) = Len(w)
  BY <1>2, <1>4, TailFacts
<1> QED BY <1>1, <1>2, <1>3, <1>4, <1>5, MaxClientsAssumption DEF Cache

LEMMA TouchClientFacts ==
    ASSUME NEW q, Cache(q), NEW s \in Sessions
    PROVE  Cache(TouchClient(q, s)) /\ Entries(TouchClient(q, s)) \subseteq Entries(q) \cup {s}
<1>1. CASE \E i \in DOMAIN q : q[i] = s
  <2>1. s \in Entries(q)
    BY <1>1 DEF Entries
  <2>2. /\ Without(q, s) \in Seq(Sessions) /\ NoDup(Without(q, s))
        /\ Entries(Without(q, s)) = Entries(q) \ {s}
        /\ Len(Without(q, s)) = Len(q) - 1
    BY <2>1, WithoutFacts DEF Cache
  <2>3. /\ Append(Without(q, s), s) \in Seq(Sessions)
        /\ NoDup(Append(Without(q, s), s))
        /\ Entries(Append(Without(q, s), s)) = Entries(q) \cup {s}
        /\ Len(Append(Without(q, s), s)) = Len(q)
    BY <2>1, <2>2, AppendFacts, LenProperties DEF Cache
  <2> QED BY <1>1, <2>3 DEF TouchClient, Cache
<1>2. CASE ~ \E i \in DOMAIN q : q[i] = s
  BY <1>2, CacheClientFacts DEF TouchClient
<1> QED BY <1>1, <1>2

-----------------------------------------------------------------------------
(* Transcripts *)

\* A transcript with whole turns only, of chats that have begun.
Log(log, n) == /\ log \in Seq(Message)
               /\ WellTurned(log)
               /\ \A k \in DOMAIN log : log[k].chat <= n

LEMMA MessageFacts ==
    ASSUME NEW n \in Nat
    PROVE  /\ User(n) \in Message /\ Assistant(n) \in Message
           /\ User(n).chat = n /\ User(n).role = "user"
           /\ Assistant(n).chat = n /\ Assistant(n).role = "assistant"
BY DEF User, Assistant, Message

LEMMA ChatNumbers ==
    ASSUME NEW log \in Seq(Message), NEW k \in DOMAIN log
    PROVE  log[k] \in Message /\ log[k].chat \in Nat
<1>1. log[k] \in Message
  BY LenProperties, ElementOfSeq
<1> QED BY <1>1 DEF Message

\* The question of a new chat can follow any transcript.
LEMMA AppendQuestion ==
    ASSUME NEW n \in Nat, NEW log, Log(log, n)
    PROVE  LET new == Append(log, User(n + 1)) IN
           /\ Log(new, n + 1)
           /\ Len(new) = Len(log) + 1
           /\ new[Len(new)] = User(n + 1)
<1> DEFINE new == Append(log, User(n + 1))
<1>1. User(n + 1) \in Message /\ User(n + 1).chat = n + 1 /\ User(n + 1).role = "user"
  BY MessageFacts
<1>2. /\ new \in Seq(Message)
      /\ Len(new) = Len(log) + 1
      /\ \A k \in 1 .. Len(log) : new[k] = log[k]
      /\ new[Len(log) + 1] = User(n + 1)
      /\ DOMAIN new = 1 .. Len(log) + 1
  BY <1>1, AppendProperties DEF Log
<1>3. Len(log) \in Nat /\ DOMAIN log = 1 .. Len(log)
  BY LenProperties DEF Log
<1> HIDE DEF new
<1>4. \A k \in DOMAIN log : log[k].chat <= n /\ log[k] \in Message /\ log[k].chat \in Nat
  BY ChatNumbers DEF Log
<1>5. \A k \in DOMAIN new : new[k].chat <= n + 1
  BY <1>1, <1>2, <1>3, <1>4
<1>6. ASSUME NEW k \in DOMAIN new, new[k].role = "assistant"
      PROVE  k > 1 /\ new[k - 1] = User(new[k].chat)
  <2>1. k \in DOMAIN log
    BY <1>1, <1>2, <1>3, <1>6
  <2>2. k > 1 /\ log[k - 1] = User(log[k].chat)
    BY <2>1, <1>2, <1>3, <1>6 DEF Log, WellTurned
  <2> QED BY <2>1, <2>2, <1>2, <1>3
<1>7. ASSUME NEW j \in DOMAIN new, NEW k \in DOMAIN new, new[j] = new[k]
      PROVE  j = k
  <2>1. CASE j \in DOMAIN log /\ k \in DOMAIN log
    BY <2>1, <1>2, <1>3, <1>7 DEF Log, WellTurned
  <2>2. CASE j \notin DOMAIN log /\ k \in DOMAIN log
    BY <2>2, <1>1, <1>2, <1>3, <1>4, <1>7
  <2>3. CASE j \in DOMAIN log /\ k \notin DOMAIN log
    BY <2>3, <1>1, <1>2, <1>3, <1>4, <1>7
  <2>4. CASE j \notin DOMAIN log /\ k \notin DOMAIN log
    BY <2>4, <1>2, <1>3
  <2> QED BY <2>1, <2>2, <2>3, <2>4
<1> QED BY <1>2, <1>3, <1>5, <1>6, <1>7 DEF Log, WellTurned, new

\* The answer can follow the transcript that ends with its question.
LEMMA AppendAnswer ==
    ASSUME NEW n \in Nat, NEW m \in Nat, m <= n, NEW log, Log(log, n),
           Len(log) > 0, log[Len(log)] = User(m)
    PROVE  Log(Append(log, Assistant(m)), n)
<1> DEFINE new == Append(log, Assistant(m))
<1>1. /\ Assistant(m) \in Message /\ Assistant(m).chat = m
      /\ Assistant(m).role = "assistant"
  BY MessageFacts
<1>2. /\ new \in Seq(Message)
      /\ Len(new) = Len(log) + 1
      /\ \A k \in 1 .. Len(log) : new[k] = log[k]
      /\ new[Len(log) + 1] = Assistant(m)
      /\ DOMAIN new = 1 .. Len(log) + 1
  BY <1>1, AppendProperties DEF Log
<1>3. Len(log) \in Nat /\ DOMAIN log = 1 .. Len(log)
  BY LenProperties DEF Log
<1> HIDE DEF new
<1>4. \A k \in DOMAIN new : new[k].chat <= n
  BY <1>1, <1>2, <1>3 DEF Log
<1>5. ASSUME NEW k \in DOMAIN new, new[k].role = "assistant"
      PROVE  k > 1 /\ new[k - 1] = User(new[k].chat)
  <2>1. CASE k \in DOMAIN log
    <3>1. k > 1 /\ log[k - 1] = User(log[k].chat)
      BY <2>1, <1>2, <1>3, <1>5 DEF Log, WellTurned
    <3> QED BY <2>1, <3>1, <1>2, <1>3
  <2>2. CASE k = Len(log) + 1
    BY <2>2, <1>1, <1>2, <1>3
  <2> QED BY <2>1, <2>2, <1>2, <1>3
\* The same answer cannot be there already: its question would have to stand
\* before it and at the end.
<1>6. ASSUME NEW k \in DOMAIN log, log[k] = Assistant(m) PROVE FALSE
  <2>1. k > 1 /\ log[k - 1] = User(m)
    BY <1>1, <1>6 DEF Log, WellTurned
  <2>2. k - 1 \in DOMAIN log /\ Len(log) \in DOMAIN log
    BY <2>1, <1>3
  <2>3. k - 1 = Len(log)
    BY <2>1, <2>2 DEF Log, WellTurned
  <2> QED BY <2>3, <1>3
<1>7. ASSUME NEW j \in DOMAIN new, NEW k \in DOMAIN new, new[j] = new[k]
      PROVE  j = k
  <2>1. CASE j \in DOMAIN log /\ k \in DOMAIN log
    BY <2>1, <1>2, <1>3, <1>7 DEF Log, WellTurned
  <2>2. CASE j \notin DOMAIN log /\ k \in DOMAIN log
    BY <2>2, <1>2, <1>3, <1>6, <1>7
  <2>3. CASE j \in DOMAIN log /\ k \notin DOMAIN log
    BY <2>3, <1>2, <1>3, <1>6, <1>7
  <2>4. CASE j \notin DOMAIN log /\ k \notin DOMAIN log
    BY <2>4, <1>2, <1>3
  <2> QED BY <2>1, <2>2, <2>3, <2>4
<1> QED BY <1>2, <1>4, <1>5, <1>7 DEF Log, WellTurned, new

\* A transcript stays one when more chats begin.
LEMMA LogGrows ==
    ASSUME NEW n \in Nat, NEW log, Log(log, n)
    PROVE  Log(log, n + 1)
<1>1. \A k \in DOMAIN log : log[k].chat \in Nat /\ log[k].chat <= n
  BY ChatNumbers DEF Log
<1> QED BY <1>1 DEF Log

-----------------------------------------------------------------------------
(* The inductive invariant: what TurnIntegrity and CacheSound say, and the  *)
(* same of the copies that the waiting chats hold, which end with their    *)
(* own question.  Without the copies it is not inductive: an answer is     *)
(* appended to a copy, and it is the copy that becomes the file.           *)

LogsInv == \A s \in Sessions : Loadable(s) => Log(file[s].messages, nextChat)

CopiesInv ==
    \A c \in Callers : ~Free(c) =>
        LET log == call[c].copy.messages IN
        /\ Log(log, nextChat)
        /\ Len(log) > 0
        /\ log[Len(log)] = User(call[c].chat)
        /\ call[c].chat <= nextChat

CacheInv == Cache(clients) /\ \A s \in Entries(clients) : file[s] # Absent

Inv == TypeOK /\ LogsInv /\ CopiesInv /\ CacheInv

LEMMA InitInv == Init => Inv
<1> SUFFICES ASSUME Init PROVE Inv
  OBVIOUS
<1>1. TypeOK
  BY DEF Init, TypeOK
<1>2. LogsInv /\ CopiesInv
  BY DEF Init, LogsInv, CopiesInv, Loadable, Free
<1>3. CacheInv
  BY MaxClientsAssumption, EmptySeq DEF Init, CacheInv, Cache, NoDup, Entries
<1> QED BY <1>1, <1>2, <1>3 DEF Inv

\* A step that saves one session and leaves the chats alone.
LEMMA SaveStep ==
    ASSUME Inv, NEW s \in Sessions, NEW new \in Session \cup {Absent, Torn},
           Save(s, new),
           new \notin {Absent, Torn} => Log(new.messages, nextChat),
           UNCHANGED <<call, nextChat>>,
           created' \in SUBSET Sessions,
           Cache(clients'),
           \A t \in Entries(clients') : file'[t] # Absent
    PROVE  Inv'
<1>1. file' \in [Sessions -> Session \cup {Absent, Torn}]
  BY DEF Inv, TypeOK, Save
<1>2. TypeOK'
  BY <1>1 DEF Inv, TypeOK, Cache
<1>3. \A t \in Sessions : file'[t] = IF t = s THEN new ELSE file[t]
  BY DEF Inv, TypeOK, Save
<1>4. LogsInv'
  BY <1>3 DEF Inv, LogsInv, Loadable
<1>5. CopiesInv'
  BY DEF Inv, CopiesInv, Free
<1>6. CacheInv'
  BY DEF CacheInv
<1> QED BY <1>2, <1>4, <1>5, <1>6 DEF Inv

LEMMA TransitionStep ==
    ASSUME Inv, NEW c \in Callers, NEW s \in Sessions, NEW target \in States,
           Transition(c, s, target)
    PROVE  Inv'
<1> DEFINE new == [file[s] EXCEPT !.state = target]
<1>1. file[s] \in Session /\ Log(file[s].messages, nextChat)
  BY DEF Inv, TypeOK, LogsInv, Transition, Loadable
<1>2. new \in Session /\ new.messages = file[s].messages
  BY <1>1 DEF Session
<1>3. Save(s, new) /\ UNCHANGED <<created, clients, call, nextChat>>
  BY DEF Transition
<1> HIDE DEF new
<1>4. \A t \in Entries(clients) : file'[t] # Absent
  BY <1>2, <1>3, AbsentAssumption DEF Inv, CacheInv, Save, TypeOK
<1> QED BY <1>1, <1>2, <1>3, <1>4, SaveStep DEF Inv, TypeOK, CacheInv, Entries

\* The records that the operations save are sessions.
LEMMA SessionFacts ==
    /\ \A log \in Seq(Message) : /\ Fresh(log) \in Session
                                 /\ Fresh(log).messages = log
    /\ \A x \in Session :
         /\ x.messages \in Seq(Message)
         /\ \A st \in States, d \in BOOLEAN :
              LET y == [x EXCEPT !.state = st, !.distributed = d]
                  z == [x EXCEPT !.state = st]
              IN /\ y \in Session /\ y.messages = x.messages
                 /\ z \in Session /\ z.messages = x.messages
         /\ \A log \in Seq(Message) :
              LET y == [x EXCEPT !.messages = log] IN
              y \in Session /\ y.messages = log
<1>1. \A log \in Seq(Message) : Fresh(log) \in Session /\ Fresh(log).messages = log
  BY DEF Fresh, Session, States
<1>2. ASSUME NEW x \in Session PROVE x.messages \in Seq(Message)
  BY DEF Session
<1>3. ASSUME NEW x \in Session, NEW st \in States, NEW d \in BOOLEAN
      PROVE  LET y == [x EXCEPT !.state = st, !.distributed = d]
                 z == [x EXCEPT !.state = st]
             IN /\ y \in Session /\ y.messages = x.messages
                /\ z \in Session /\ z.messages = x.messages
  BY DEF Session
<1>4. ASSUME NEW x \in Session, NEW log \in Seq(Message)
      PROVE  LET y == [x EXCEPT !.messages = log] IN
             y \in Session /\ y.messages = log
  BY DEF Session
<1> QED BY <1>1, <1>2, <1>3, <1>4

LEMMA EmptyLog == ASSUME NEW n \in Nat PROVE Log(<<>>, n)
BY EmptySeq DEF Log, WellTurned

LEMMA CreateStep ==
    ASSUME Inv, NEW c \in Callers, NEW s \in Sessions, NEW log,
           Log(log, nextChat), Free(c), created' = created \cup {s},
           Save(s, Fresh(log)), clients' = CacheClient(clients, s),
           UNCHANGED <<call, nextChat>>
    PROVE  Inv'
<1>1. Fresh(log) \in Session /\ Fresh(log).messages = log
  BY SessionFacts DEF Log
<1>2. Cache(clients') /\ Entries(clients') \subseteq Entries(clients) \cup {s}
  BY CacheClientFacts DEF Inv, CacheInv
<1>3. \A t \in Entries(clients') : t \in Sessions
  BY <1>2 DEF Inv, CacheInv, Cache, Entries
<1>4. \A t \in Entries(clients') : file'[t] # Absent
  BY <1>1, <1>2, <1>3, AbsentAssumption DEF Inv, CacheInv, Save, TypeOK
<1>5. created' \in SUBSET Sessions
  BY DEF Inv, TypeOK
<1> QED BY <1>1, <1>2, <1>4, <1>5, SaveStep

LEMMA DistributeStep ==
    ASSUME Inv, NEW c \in Callers, NEW s \in Sessions, DistributeSession(c, s)
    PROVE  Inv'
<1> DEFINE new == [file[s] EXCEPT !.state = "cluster_running",
                                  !.distributed = TRUE]
<1>1. file[s] \in Session /\ Log(file[s].messages, nextChat)
  BY DEF Inv, TypeOK, LogsInv, DistributeSession, Loadable
<1>2. new \in Session /\ new.messages = file[s].messages
  BY <1>1, SessionFacts DEF States
<1>3. Save(s, new) /\ UNCHANGED <<created, clients, call, nextChat>>
  BY DEF DistributeSession
<1> HIDE DEF new
<1>4. \A t \in Entries(clients) : file'[t] # Absent
  BY <1>2, <1>3, AbsentAssumption DEF Inv, CacheInv, Save, TypeOK
<1> QED BY <1>1, <1>2, <1>3, <1>4, SaveStep DEF Inv, TypeOK, CacheInv, Entries

LEMMA MergeStep ==
    ASSUME Inv, NEW c \in Callers, NEW s \in Sessions, MergeClusterResults(c, s)
    PROVE  Inv'
<1> DEFINE st == IF CanTransition(file[s].state, "completed") THEN "completed"
                 ELSE file[s].state
           new == [file[s] EXCEPT !.state = st]
<1>1. file[s] \in Session /\ Log(file[s].messages, nextChat)
  BY DEF Inv, TypeOK, LogsInv, MergeClusterResults, Loadable
<1>2. st \in States
  BY <1>1 DEF Session, States
<1>3. Save(s, new) /\ UNCHANGED <<created, clients, call, nextChat>>
  BY DEF MergeClusterResults
<1> HIDE DEF st
<1>4. new \in Session /\ new.messages = file[s].messages
  BY <1>1, <1>2, SessionFacts
<1> HIDE DEF new
<1>5. \A t \in Entries(clients) : file'[t] # Absent
  BY <1>3, <1>4, AbsentAssumption DEF Inv, CacheInv, Save, TypeOK
<1> QED BY <1>1, <1>3, <1>4, <1>5, SaveStep DEF Inv, TypeOK, CacheInv, Entries

LEMMA DeleteStep ==
    ASSUME Inv, NEW c \in Callers, NEW s \in Sessions, Delete(c, s)
    PROVE  Inv'
<1>1. Save(s, Absent) /\ clients' = Without(clients, s) /\ UNCHANGED <<created, call, nextChat>>
  BY DEF Delete
<1>2. Cache(clients') /\ Entries(clients') = Entries(clients) \ {s}
  BY <1>1, WithoutFacts, MaxClientsAssumption, LenProperties DEF Inv, CacheInv, Cache
<1>3. \A t \in Sessions : file'[t] = IF t = s THEN Absent ELSE file[t]
  BY <1>1 DEF Inv, TypeOK, Save
<1>4. \A t \in Entries(clients') : t \in Sessions /\ t # s /\ file[t] # Absent
  BY <1>2 DEF Inv, CacheInv, Cache, Entries
<1>5. \A t \in Entries(clients') : file'[t] # Absent
  BY <1>3, <1>4
<1> QED BY <1>1, <1>2, <1>5, SaveStep DEF Inv, TypeOK

LEMMA ChatStep ==
    ASSUME Inv, NEW c \in Callers, NEW s \in Sessions, Chat(c, s)
    PROVE  Inv'
<1> DEFINE n == nextChat
           new == Append(file[s].messages, User(n + 1))
           copy == [file[s] EXCEPT !.state = "running", !.messages = new]
           record == [session |-> s, chat |-> n + 1, copy |-> copy]
<1>1. n \in Nat /\ file[s] \in Session /\ Log(file[s].messages, n)
  BY DEF Inv, TypeOK, LogsInv, Chat, Loadable
<1>2. Log(new, n + 1) /\ Len(new) > 0 /\ new[Len(new)] = User(n + 1)
  <2>1. /\ Log(new, n + 1) /\ new[Len(new)] = User(n + 1)
        /\ Len(new) = Len(file[s].messages) + 1
    BY <1>1, AppendQuestion
  <2>2. Len(file[s].messages) \in Nat
    BY <1>1, LenProperties DEF Log
  <2> QED BY <2>1, <2>2
<1>3. copy \in Session /\ copy.messages = new
  BY <1>1, <1>2 DEF Session, States, Log
<1>4. /\ call' = [call EXCEPT ![c] = record]
      /\ nextChat' = n + 1
      /\ clients' = TouchClient(clients, s)
      /\ UNCHANGED <<file, created>>
  BY DEF Chat
<1> HIDE DEF copy, new, n
<1>5. record \in [session : Sessions, chat : Nat, copy : Session]
  BY <1>1, <1>3
<1>6. Cache(clients') /\ Entries(clients') \subseteq Entries(clients) \cup {s}
  BY <1>4, TouchClientFacts DEF Inv, CacheInv
<1>7. TypeOK'
  BY <1>1, <1>4, <1>5, <1>6 DEF Inv, TypeOK, Cache
<1>8. LogsInv'
  BY <1>1, <1>4, LogGrows DEF Inv, LogsInv, Loadable, n
<1>9. ASSUME NEW d \in Callers, ~Free(d)'
      PROVE  LET log == call'[d].copy.messages IN
             /\ Log(log, nextChat')
             /\ Len(log) > 0
             /\ log[Len(log)] = User(call'[d].chat)
             /\ call'[d].chat <= nextChat'
  <2>1. CASE d = c
    <3>1. call'[d] = record
      BY <2>1, <1>4 DEF Inv, TypeOK
    <3> QED BY <3>1, <1>1, <1>2, <1>3, <1>4
  <2>2. CASE d # c
    <3>1. call'[d] = call[d] /\ ~Free(d)
      BY <2>2, <1>4, <1>9 DEF Inv, TypeOK, Free
    <3>2. /\ Log(call[d].copy.messages, n) /\ call[d].chat <= n
          /\ Len(call[d].copy.messages) > 0
          /\ call[d].copy.messages[Len(call[d].copy.messages)] = User(call[d].chat)
      BY <3>1 DEF Inv, CopiesInv, n
    <3>3. call[d].chat \in Nat
      BY <3>1 DEF Inv, TypeOK, Free
    <3> QED BY <3>1, <3>2, <3>3, <1>1, <1>4, LogGrows
  <2> QED BY <2>1, <2>2
<1>10. CopiesInv'
  BY <1>9 DEF CopiesInv
<1>11. CacheInv'
  BY <1>4, <1>6 DEF Inv, CacheInv, Chat, Loadable
<1> QED BY <1>7, <1>8, <1>10, <1>11 DEF Inv

\* The end of a chat: a session is saved and the caller is free again.
LEMMA ChatEndStep ==
    ASSUME Inv, NEW c \in Callers, NEW s \in Sessions, NEW new \in Session,
           Log(new.messages, nextChat), Save(s, new),
           call' = [call EXCEPT ![c] = NoCall],
           UNCHANGED <<created, clients, nextChat>>
    PROVE  Inv'
<1>1. file' \in [Sessions -> Session \cup {Absent, Torn}]
  BY DEF Inv, TypeOK, Save
<1>2. TypeOK'
  BY <1>1 DEF Inv, TypeOK
<1>3. \A t \in Sessions : file'[t] = IF t = s THEN new ELSE file[t]
  BY DEF Inv, TypeOK, Save
<1>4. LogsInv'
  BY <1>3 DEF Inv, LogsInv, Loadable
<1>5. \A d \in Callers : call'[d] = IF d = c THEN NoCall ELSE call[d]
  BY DEF Inv, TypeOK
<1>6. CopiesInv'
  BY <1>5 DEF Inv, CopiesInv, Free
<1>7. CacheInv'
  BY <1>3, AbsentAssumption DEF Inv, TypeOK, CacheInv, Cache, Entries
<1> QED BY <1>2, <1>4, <1>6, <1>7 DEF Inv

LEMMA ChatAnsweredStep ==
    ASSUME Inv, NEW c \in Callers, ChatAnswered(c)
    PROVE  Inv'
<1> DEFINE log == call[c].copy.messages
           ans == Append(log, Assistant(call[c].chat))
           new == [call[c].copy EXCEPT !.messages = ans]
<1>1. /\ call[c].session \in Sessions /\ call[c].chat \in Nat
      /\ call[c].copy \in Session /\ nextChat \in Nat
  BY DEF Inv, TypeOK, ChatAnswered, Free
<1>2. /\ Log(log, nextChat) /\ Len(log) > 0
      /\ log[Len(log)] = User(call[c].chat)
      /\ call[c].chat <= nextChat
  BY DEF Inv, CopiesInv, ChatAnswered
<1>3. Log(ans, nextChat)
  BY <1>1, <1>2, AppendAnswer
<1>4. new \in Session /\ new.messages = ans
  BY <1>1, <1>3, SessionFacts DEF Log
<1>5. /\ Save(call[c].session, new)
      /\ call' = [call EXCEPT ![c] = NoCall]
      /\ UNCHANGED <<created, clients, nextChat>>
  BY DEF ChatAnswered
<1> HIDE DEF new, ans, log
<1> QED BY <1>1, <1>3, <1>4, <1>5, ChatEndStep

LEMMA ChatFailedStep ==
    ASSUME Inv, NEW c \in Callers, ChatFailed(c)
    PROVE  Inv'
<1>1. call[c].session \in Sessions /\ call[c].copy \in Session
  BY DEF Inv, TypeOK, ChatFailed, Free
<1>2. Log(call[c].copy.messages, nextChat)
  BY DEF Inv, CopiesInv, ChatFailed
<1> QED BY <1>1, <1>2, ChatEndStep DEF ChatFailed

\* A restart forgets the copies and the clients.
LEMMA RestartFacts ==
    ASSUME Inv, Restart
    PROVE  /\ call' \in [Callers -> [session : Sessions, chat : Nat, copy : Session]
                                    \cup {NoCall}]
           /\ nextChat' = nextChat /\ nextChat' \in Nat
           /\ clients' \in Seq(Sessions)
           /\ CopiesInv' /\ CacheInv'
<1>1. CopiesInv'
  BY DEF Restart, CopiesInv, Free
<1>2. CacheInv' /\ clients' \in Seq(Sessions)
  BY MaxClientsAssumption, EmptySeq DEF Restart, CacheInv, Cache, NoDup, Entries
<1> QED BY <1>1, <1>2 DEF Inv, TypeOK, Restart

LEMMA CrashStep == ASSUME Inv, Crash PROVE Inv'
BY RestartFacts DEF Crash, Inv, TypeOK, LogsInv, Loadable

\* A file that a crash has cut short is not loaded, and so has no transcript.
LEMMA TornStep ==
    ASSUME Inv, NEW s \in Sessions, Restart, Save(s, Torn),
           created' \in SUBSET Sessions
    PROVE  Inv'
<1>1. /\ file' \in [Sessions -> Session \cup {Absent, Torn}]
      /\ \A t \in Sessions : file'[t] = IF t = s THEN Torn ELSE file[t]
  BY DEF Inv, TypeOK, Save
<1>2. LogsInv'
  BY <1>1, RestartFacts DEF Inv, LogsInv, Loadable
<1> QED BY <1>1, <1>2, RestartFacts DEF Inv, TypeOK

LEMMA CrashInSaveStep ==
    ASSUME Inv, NEW s \in Sessions, CrashInSave(s) \/ CrashInCreate(s)
    PROVE  Inv'
<1>1. created' \in SUBSET Sessions
  BY DEF Inv, TypeOK, CrashInSave, CrashInCreate
<1> QED BY <1>1, TornStep DEF CrashInSave, CrashInCreate

-----------------------------------------------------------------------------

LEMMA NextInv == Inv /\ [Next]_vars => Inv'
<1> SUFFICES ASSUME Inv, [Next]_vars PROVE Inv'
  OBVIOUS
<1>1. ASSUME NEW c \in Callers, NEW s \in Sessions, CreateSession(c, s)
      PROVE  Inv'
  BY <1>1, EmptyLog, CreateStep DEF CreateSession, Inv, TypeOK
<1>2. ASSUME NEW c \in Callers, NEW s \in Sessions, NEW t \in Sessions,
             Clone(c, s, t)
      PROVE  Inv'
  <2>1. Log(file[s].messages, nextChat)
    BY <1>2 DEF Clone, Inv, LogsInv
  <2> QED BY <1>2, <2>1, CreateStep DEF Clone
<1>3. ASSUME NEW c \in Callers, NEW s \in Sessions,
             \/ Start(c, s) \/ Pause(c, s) \/ Complete(c, s) \/ Fail(c, s)
             \/ RequestApproval(c, s)
      PROVE  Inv'
  BY <1>3, TransitionStep
     DEF Start, Pause, Complete, Fail, RequestApproval, States
<1>4. ASSUME NEW c \in Callers, NEW s \in Sessions, DistributeSession(c, s)
      PROVE  Inv'
  BY <1>4, DistributeStep
<1>5. ASSUME NEW c \in Callers, NEW s \in Sessions, MergeClusterResults(c, s)
      PROVE  Inv'
  BY <1>5, MergeStep
<1>6. ASSUME NEW c \in Callers, NEW s \in Sessions, Delete(c, s)
      PROVE  Inv'
  BY <1>6, DeleteStep
<1>7. ASSUME NEW c \in Callers, NEW s \in Sessions, Chat(c, s)
      PROVE  Inv'
  BY <1>7, ChatStep
<1>8. ASSUME NEW c \in Callers, ChatAnswered(c) PROVE Inv'
  BY <1>8, ChatAnsweredStep
<1>9. ASSUME NEW c \in Callers, ChatFailed(c) PROVE Inv'
  BY <1>9, ChatFailedStep
<1>10. CASE Crash
  BY <1>10, CrashStep
<1>11. ASSUME NEW s \in Sessions, CrashInSave(s) \/ CrashInCreate(s)
       PROVE  Inv'
  BY <1>11, CrashInSaveStep
<1>12. CASE UNCHANGED vars
  <2>1. TypeOK' /\ LogsInv' /\ CopiesInv' /\ CacheInv'
    BY <1>12 DEF vars, Inv, TypeOK, LogsInv, CopiesInv, CacheInv, Loadable, Free
  <2> QED BY <2>1 DEF Inv
<1> QED
  BY <1>1, <1>2, <1>3, <1>4, <1>5, <1>6, <1>7, <1>8, <1>9, <1>10, <1>11, <1>12
     DEF Next, Op

LEMMA Invariance == Spec => []Inv
BY InitInv, NextInv, PTL DEF Spec

\* The types of the engine's state hold for any number of sessions, callers,
\* chats and cached clients.
THEOREM TypeCorrect == Spec => []TypeOK
<1>1. Inv => TypeOK
  BY DEF Inv
<1> QED BY <1>1, Invariance, PTL

\* Whatever the interleaving of requests and crashes, every saved transcript
\* has each answer right behind its question and no message twice.
THEOREM TurnsKept == Spec => []TurnIntegrity
<1>1. Inv => TurnIntegrity
  BY DEF Inv, LogsInv, Log, TurnIntegrity
<1> QED BY <1>1, Invariance, PTL

\* Whatever the interleaving, the cache of clients is within its bound, has a
\* session once at most, and only sessions that have a file.
THEOREM CacheKept == Spec => []CacheSound
<1>1. Inv => CacheSound
  BY DEF Inv, CacheInv, Cache, NoDup, Entries, CacheSound
<1> QED BY <1>1, Invariance, PTL

-----------------------------------------------------------------------------
(* NeverIdleAgain needs to know where files come from: only the sessions    *)
(* that were created have one, and a chat saves a running copy.             *)

BirthInv ==
    /\ \A s \in Sessions : file[s] # Absent => s \in created
    /\ \A c \in Callers : ~Free(c) => /\ call[c].session \in created
                                     /\ call[c].copy.state = "running"

\* No file becomes that of an idle session, but for those of new sessions.
NoneIdled ==
    \A s \in Sessions :
        file'[s] = file[s] \/ file'[s] \in {Absent, Torn} \/ s \notin created
        \/ file'[s].state # "idle"

\* Saving v as the file of s, while the calls stay or come to an end.
LEMMA SaveBirth ==
    ASSUME TypeOK, BirthInv, NEW s \in Sessions, NEW v, Save(s, v),
           created \subseteq created', v = Absent \/ s \in created',
           v \in {Absent, Torn} \/ s \notin created \/ v.state # "idle",
           \A c \in Callers : call'[c] \in {call[c], NoCall}
    PROVE  BirthInv' /\ NoneIdled
<1>1. \A t \in Sessions : file'[t] = IF t = s THEN v ELSE file[t]
  BY DEF TypeOK, Save
<1> QED BY <1>1 DEF BirthInv, NoneIdled, Free

LEMMA TransitionBirth ==
    ASSUME TypeOK, BirthInv, NEW c \in Callers, NEW s \in Sessions,
           NEW target \in States \ {"idle"}, Transition(c, s, target)
    PROVE  BirthInv' /\ NoneIdled
<1> DEFINE new == [file[s] EXCEPT !.state = target]
<1>1. file[s] \in Session /\ s \in created
  BY DEF TypeOK, BirthInv, Transition, Loadable
<1>2. new.state # "idle"
  BY <1>1 DEF Session
<1>3. Save(s, new) /\ UNCHANGED <<created, call>>
  BY DEF Transition
<1> HIDE DEF new
<1> QED BY <1>1, <1>2, <1>3, SaveBirth

LEMMA DistributeBirth ==
    ASSUME TypeOK, BirthInv, NEW c \in Callers, NEW s \in Sessions,
           DistributeSession(c, s)
    PROVE  BirthInv' /\ NoneIdled
<1> DEFINE new == [file[s] EXCEPT !.state = "cluster_running",
                                  !.distributed = TRUE]
<1>1. file[s] \in Session /\ s \in created
  BY DEF TypeOK, BirthInv, DistributeSession, Loadable
<1>2. new.state # "idle"
  BY <1>1 DEF Session
<1>3. Save(s, new) /\ UNCHANGED <<created, call>>
  BY DEF DistributeSession
<1> HIDE DEF new
<1> QED BY <1>1, <1>2, <1>3, SaveBirth

\* A merge completes the session or saves it as it is.
LEMMA MergeBirth ==
    ASSUME TypeOK, BirthInv, NEW c \in Callers, NEW s \in Sessions,
           MergeClusterResults(c, s)
    PROVE  BirthInv' /\ NoneIdled
<1>1. file[s] \in Session /\ s \in created /\ UNCHANGED <<created, call>>
  BY DEF TypeOK, BirthInv, MergeClusterResults, Loadable
<1>2. CASE CanTransition(file[s].state, "completed")
  <2> DEFINE new == [file[s] EXCEPT !.state = "completed"]
  <2>1. Save(s, new)
    BY <1>2 DEF MergeClusterResults
  <2>2. new.state # "idle"
    BY <1>1 DEF Session
  <2> HIDE DEF new
  <2> QED BY <1>1, <2>1, <2>2, SaveBirth
<1>3. CASE ~CanTransition(file[s].state, "completed")
  <2>1. Save(s, [file[s] EXCEPT !.state = file[s].state])
    BY <1>3 DEF MergeClusterResults
  <2>2. [file[s] EXCEPT !.state = file[s].state] = file[s]
    BY <1>1 DEF Session
  <2>3. \A t \in Sessions : file'[t] = file[t]
    BY <2>1, <2>2 DEF Save, TypeOK
  <2> QED BY <1>1, <2>3 DEF BirthInv, NoneIdled, Free
<1> QED BY <1>2, <1>3

LEMMA ChatBirth ==
    ASSUME TypeOK, BirthInv, NEW c \in Callers, NEW s \in Sessions, Chat(c, s)
    PROVE  BirthInv' /\ NoneIdled
<1>1. file[s] \in Session /\ s \in created
  BY DEF TypeOK, BirthInv, Chat, Loadable
<1>2. PICK log : call' = [call EXCEPT ![c] =
           [session |-> s, chat |-> nextChat + 1,
            copy |-> [file[s] EXCEPT !.state = "running", !.messages = log]]]
  BY DEF Chat
<1>3. /\ \A d \in Callers \ {c} : call'[d] = call[d]
      /\ call'[c].session = s
      /\ call'[c].copy = [file[s] EXCEPT !.state = "running", !.messages = log]
  BY <1>2 DEF TypeOK
<1>4. call'[c].copy.state = "running"
  BY <1>1, <1>3 DEF Session
<1>5. UNCHANGED <<file, created>>
  BY DEF Chat
<1> QED BY <1>1, <1>3, <1>4, <1>5 DEF BirthInv, NoneIdled, Free

LEMMA ChatEndBirth ==
    ASSUME TypeOK, BirthInv, NEW c \in Callers, ChatAnswered(c) \/ ChatFailed(c)
    PROVE  BirthInv' /\ NoneIdled
<1>1. /\ call[c].session \in Sessions /\ call[c].session \in created
      /\ call[c].copy \in Session /\ call[c].copy.state = "running"
  BY DEF TypeOK, BirthInv, ChatAnswered, ChatFailed, Free
<1>2. PICK log : Save(call[c].session, [call[c].copy EXCEPT !.messages = log])
  <2>1. call[c].copy = [call[c].copy EXCEPT !.messages = call[c].copy.messages]
    BY <1>1 DEF Session
  <2> QED BY <2>1 DEF ChatAnswered, ChatFailed
<1> DEFINE new == [call[c].copy EXCEPT !.messages = log]
<1>3. new.state = "running"
  BY <1>1 DEF Session
<1>4. /\ \A d \in Callers : call'[d] \in {call[d], NoCall}
      /\ UNCHANGED created
  BY DEF TypeOK, ChatAnswered, ChatFailed
<1>5. Save(call[c].session, new)
  BY <1>2
<1> HIDE DEF new
<1> QED BY <1>1, <1>3, <1>4, <1>5, SaveBirth

LEMMA NextBirth ==
    ASSUME TypeOK, BirthInv, [Next]_vars
    PROVE  BirthInv' /\ NoneIdled
<1>1. ASSUME NEW c \in Callers, NEW s \in Sessions, CreateSession(c, s)
      PROVE  BirthInv' /\ NoneIdled
  BY <1>1, SaveBirth DEF CreateSession
<1>2. ASSUME NEW c \in Callers, NEW s \in Sessions, NEW t \in Sessions,
             Clone(c, s, t)
      PROVE  BirthInv' /\ NoneIdled
  BY <1>2, SaveBirth DEF Clone
<1>3. ASSUME NEW c \in Callers, NEW s \in Sessions,
             \/ Start(c, s) \/ Pause(c, s) \/ Complete(c, s) \/ Fail(c, s)
             \/ RequestApproval(c, s)
      PROVE  BirthInv' /\ NoneIdled
  BY <1>3, TransitionBirth
     DEF Start, Pause, Complete, Fail, RequestApproval, States
<1>4. ASSUME NEW c \in Callers, NEW s \in Sessions, Delete(c, s)
      PROVE  BirthInv' /\ NoneIdled
  BY <1>4, SaveBirth DEF Delete
<1>5. CASE Crash
  BY <1>5 DEF Crash, Restart, BirthInv, NoneIdled, Free
<1>6. ASSUME NEW s \in Sessions, CrashInSave(s) \/ CrashInCreate(s)
      PROVE  BirthInv' /\ NoneIdled
  <2>1. \A c \in Callers : call'[c] \in {call[c], NoCall}
    BY <1>6 DEF CrashInSave, CrashInCreate, Restart
  <2>2. CASE CrashInSave(s)
    <3>1. file[s] # Absent \/ \E c \in Callers : ~Free(c) /\ call[c].session = s
      BY <2>2 DEF CrashInSave, SaveInProgress, Loadable
    <3>2. s \in created
      BY <3>1 DEF BirthInv
    <3> QED BY <2>1, <2>2, <3>2, SaveBirth DEF CrashInSave
  <2>3. CASE CrashInCreate(s)
    BY <2>1, <2>3, SaveBirth DEF CrashInCreate
  <2> QED BY <1>6, <2>2, <2>3
<1>7. CASE UNCHANGED vars
  BY <1>7 DEF vars, BirthInv, NoneIdled, Free
<1> QED
  BY <1>1, <1>2, <1>3, <1>4, <1>5, <1>6, <1>7,
     DistributeBirth, MergeBirth, ChatBirth, ChatEndBirth DEF Next, Op

\* A session that has left "idle" never returns to it, for any interleaving of
\* any number of requests, stale copies included.
THEOREM NeverIdle == Spec => NeverIdleAgain
<1>1. Init => BirthInv
  BY DEF Init, BirthInv, Free
<1>2. TypeOK /\ BirthInv /\ [Next]_vars
      => BirthInv' /\ [\A s \in Sessions :
             (Loadable(s) /\ Loadable(s)' /\ file[s].state # "idle")
             => file'[s].state # "idle"]_vars
  BY NextBirth DEF BirthInv, NoneIdled, Loadable
<1> QED BY <1>1, <1>2, TypeCorrect, PTL DEF Spec, NeverIdleAgain

-----------------------------------------------------------------------------
(* The refinement: the mapping *)

Phase == [s \in Sessions |-> IF Loadable(s) THEN "alive"
                             ELSE IF s \in created THEN "gone" ELSE "unborn"]
Held == [s \in Sessions |-> IF Loadable(s) THEN file[s] ELSE Absent]

\* Saving one session changes the machine's at this session only.
LEMMA SaveMaps ==
    ASSUME TypeOK, NEW s \in Sessions, NEW v \in Session, Save(s, v),
           created' \in {created, created \cup {s}}
    PROVE  /\ Phase' = [Phase EXCEPT ![s] = "alive"]
           /\ Held' = [Held EXCEPT ![s] = v]
<1> USE AbsentAssumption
<1>1. \A t \in Sessions : file'[t] = IF t = s THEN v ELSE file[t]
  BY DEF TypeOK, Save
<1>2. v \notin {Absent, Torn}
  OBVIOUS
<1>3. \A t \in Sessions : Phase'[t] = IF t = s THEN "alive" ELSE Phase[t]
  BY <1>1, <1>2 DEF Phase, Loadable
<1>4. \A t \in Sessions : Held'[t] = IF t = s THEN v ELSE Held[t]
  BY <1>1, <1>2 DEF Held, Loadable
<1> QED
  BY <1>3, <1>4 DEF Phase, Held

\* A file that is removed or torn is that of a session that is gone.
LEMMA LossMaps ==
    ASSUME TypeOK, NEW s \in Sessions, NEW v \in {Absent, Torn}, Save(s, v),
           created' \in {created, created \cup {s}}, s \in created'
    PROVE  /\ Phase' = [Phase EXCEPT ![s] = "gone"]
           /\ Held' = [Held EXCEPT ![s] = Absent]
<1>1. \A t \in Sessions : file'[t] = IF t = s THEN v ELSE file[t]
  BY DEF TypeOK, Save
<1>2. \A t \in Sessions : Phase'[t] = IF t = s THEN "gone" ELSE Phase[t]
  BY <1>1 DEF Phase, Loadable
<1>3. \A t \in Sessions : Held'[t] = IF t = s THEN Absent ELSE Held[t]
  BY <1>1 DEF Held, Loadable
<1> QED
  BY <1>2, <1>3 DEF Phase, Held

\* A step of the machine, or none, in terms of the mapping.
Mapped == Machine!Next \/ UNCHANGED <<Phase, Held>>

LEMMA Stutter == ASSUME UNCHANGED <<file, created>> PROVE Mapped
BY DEF Mapped, Phase, Held, Loadable

-----------------------------------------------------------------------------
(* Every step of the engine is one of the machine, while chats do not overlap *)

\* What a waiting chat relies on: its session is as it was when the chat began.
Fits(c) ==
    LET s == call[c].session IN
    /\ Loadable(s)
    /\ file[s].state \in {"idle", "running"}
    /\ call[c].chat \in 1 .. MaxChats
    /\ \A k \in DOMAIN file[s].messages : file[s].messages[k].chat # call[c].chat
    /\ call[c].copy = [file[s] EXCEPT !.state = "running",
                                      !.messages = Append(@, User(call[c].chat))]

FitsInv == ~overlapped => \A c \in Callers : ~Free(c) => Fits(c)

LEMMA BornMaps ==
    ASSUME TypeOK, BirthInv, NEW s \in Sessions, s \notin created,
           NEW log \in {<<>>} \cup {file[t].messages : t \in {u \in Sessions : Loadable(u)}},
           Fresh(log) \in Session, Save(s, Fresh(log)), created' = created \cup {s}
    PROVE  Mapped
<1>1. Phase' = [Phase EXCEPT ![s] = "alive"] /\ Held' = [Held EXCEPT ![s] = Fresh(log)]
  BY SaveMaps
<1>2. Phase[s] = "unborn"
  BY DEF Phase, Loadable, BirthInv
<1>3. log \in {<<>>} \cup {Held[t].messages : t \in {u \in Sessions : Phase[u] = "alive"}}
  BY DEF Phase, Held
<1>4. Machine!Born(s)
  BY <1>1, <1>2, <1>3 DEF Machine!Born, Machine!Alive, Phase, Held, Fresh
<1> QED
  BY <1>4 DEF Mapped, Machine!Next

LEMMA DieMaps ==
    ASSUME TypeOK, NEW s \in Sessions, NEW v \in {Absent, Torn}, Save(s, v),
           created' \in {created, created \cup {s}}, s \in created',
           Loadable(s) \/ s \notin created
    PROVE  Mapped
<1>1. Phase' = [Phase EXCEPT ![s] = "gone"] /\ Held' = [Held EXCEPT ![s] = Absent]
  BY LossMaps
<1>2. Phase[s] \in {"unborn", "alive"}
  BY DEF Phase
<1>3. Machine!Die(s)
  BY <1>1, <1>2 DEF Machine!Die, Phase, Held
<1> QED
  BY <1>3 DEF Mapped, Machine!Next

\* A record with a new state, as the engine and as the machine write it.
LEMMA Moved ==
    ASSUME NEW r \in Session, NEW target \in States
    PROVE  /\ [r EXCEPT !.state = target] \in Session
           /\ [r EXCEPT !.state = target]
              = [r EXCEPT !.state = target, !.distributed = @ \/ FALSE]
           /\ [r EXCEPT !.state = target, !.distributed = TRUE] \in Session
           /\ [r EXCEPT !.state = target, !.distributed = TRUE]
              = [r EXCEPT !.state = target, !.distributed = @ \/ TRUE]
<1>1. r.distributed \in BOOLEAN
  BY DEF Session
<1>2. (r.distributed \/ FALSE) = r.distributed /\ (r.distributed \/ TRUE) = TRUE
  BY <1>1
<1>3. [r EXCEPT !.distributed = r.distributed] = r
  BY DEF Session
<1>4. [r EXCEPT !.state = target]
      = [r EXCEPT !.state = target, !.distributed = r.distributed]
  BY DEF Session
<1>5. [r EXCEPT !.state = target] \in Session
      /\ [r EXCEPT !.state = target, !.distributed = TRUE] \in Session
  BY DEF Session
<1> QED
  BY <1>2, <1>4, <1>5

LEMMA MoveMaps ==
    ASSUME TypeOK, NEW s \in Sessions, Loadable(s),
           NEW target \in States \ {"idle"}, CanTransition(file[s].state, target),
           NEW spread \in {FALSE, target = "cluster_running"},
           NEW v \in Session,
           v = [file[s] EXCEPT !.state = target, !.distributed = @ \/ spread],
           Save(s, v), UNCHANGED created
    PROVE  Mapped
<1>1. Phase' = [Phase EXCEPT ![s] = "alive"] /\ Held' = [Held EXCEPT ![s] = v]
  BY SaveMaps
<1>2. Phase[s] = "alive" /\ Held[s] = file[s]
  BY DEF Phase, Held
<1>3. Phase' = Phase
  BY <1>1, <1>2 DEF Phase
<1>4. Held' = [Held EXCEPT ![s].state = target, ![s].distributed = @ \/ spread]
  BY <1>1, <1>2 DEF Held
<1>5. target \in ValidTransitions[Held[s].state] \ {"idle"}
  BY <1>2 DEF CanTransition
<1>6. Machine!Move(s)
  <2>1. s \in Machine!Alive
    BY <1>2 DEF Machine!Alive, Phase
  <2> QED
    BY <2>1, <1>3, <1>4, <1>5 DEF Machine!Move, Phase, Held
<1> QED
  BY <1>6 DEF Mapped, Machine!Next

LEMMA TransitionMaps ==
    ASSUME TypeOK, NEW c \in Callers, NEW s \in Sessions,
           NEW target \in States \ {"idle"}, Transition(c, s, target)
    PROVE  Mapped
<1> DEFINE v == [file[s] EXCEPT !.state = target]
<1>1. file[s] \in Session /\ Loadable(s) /\ CanTransition(file[s].state, target)
  BY DEF TypeOK, Transition, Loadable
<1>2. v \in Session /\ v = [file[s] EXCEPT !.state = target, !.distributed = @ \/ FALSE]
  BY <1>1, Moved
<1>3. Save(s, v) /\ UNCHANGED created
  BY DEF Transition
<1> HIDE DEF v
<1> QED
  BY <1>1, <1>2, <1>3, MoveMaps

LEMMA DistributeMaps ==
    ASSUME TypeOK, NEW c \in Callers, NEW s \in Sessions, DistributeSession(c, s)
    PROVE  Mapped
<1> DEFINE target == "cluster_running"
           v == [file[s] EXCEPT !.state = target, !.distributed = TRUE]
           spread == target = "cluster_running"
<1>1. file[s] \in Session /\ Loadable(s) /\ CanTransition(file[s].state, target)
  BY DEF TypeOK, DistributeSession, Loadable
<1>2. target \in States \ {"idle"} /\ spread = TRUE
  BY DEF States
<1>3. v \in Session /\ v = [file[s] EXCEPT !.state = target, !.distributed = @ \/ spread]
  BY <1>1, <1>2, Moved
<1>4. Save(s, v) /\ UNCHANGED created
  BY DEF DistributeSession
<1> HIDE DEF v
<1> QED
  BY <1>1, <1>2, <1>3, <1>4, MoveMaps

LEMMA MergeMaps ==
    ASSUME TypeOK, NEW c \in Callers, NEW s \in Sessions, MergeClusterResults(c, s)
    PROVE  Mapped
<1>1. file[s] \in Session /\ Loadable(s) /\ UNCHANGED created
  BY DEF TypeOK, MergeClusterResults, Loadable
<1>2. CASE CanTransition(file[s].state, "completed")
  <2> DEFINE v == [file[s] EXCEPT !.state = "completed"]
  <2>1. "completed" \in States \ {"idle"}
    BY DEF States
  <2>2. v \in Session /\ v = [file[s] EXCEPT !.state = "completed", !.distributed = @ \/ FALSE]
    BY <1>1, <2>1, Moved
  <2>3. Save(s, v)
    BY <1>2 DEF MergeClusterResults
  <2> HIDE DEF v
  <2> QED
    BY <1>1, <1>2, <2>1, <2>2, <2>3, MoveMaps
<1>3. CASE ~CanTransition(file[s].state, "completed")
  <2>1. Save(s, [file[s] EXCEPT !.state = file[s].state])
    BY <1>3 DEF MergeClusterResults
  <2>2. [file[s] EXCEPT !.state = file[s].state] = file[s]
    BY <1>1 DEF Session
  <2>3. file' = file
    BY <2>1, <2>2 DEF Save, TypeOK
  <2> QED
    BY <1>1, <2>3, Stutter
<1> QED
  BY <1>2, <1>3

\* A file that could not be read before it is deleted was that of a session gone.
LEMMA DeleteMaps ==
    ASSUME TypeOK, BirthInv, NEW c \in Callers, NEW s \in Sessions, Delete(c, s)
    PROVE  Mapped
<1>1. s \in created /\ Save(s, Absent) /\ UNCHANGED created
  BY DEF BirthInv, Delete
<1>2. CASE Loadable(s)
  BY <1>1, <1>2, DieMaps
<1>3. CASE ~Loadable(s)
  <2>1. Phase' = [Phase EXCEPT ![s] = "gone"] /\ Held' = [Held EXCEPT ![s] = Absent]
    BY <1>1, LossMaps
  <2>2. Phase[s] = "gone" /\ Held[s] = Absent
    BY <1>1, <1>3 DEF Phase, Held
  <2> QED
    BY <2>1, <2>2 DEF Mapped, Phase, Held
<1> QED
  BY <1>2, <1>3

\* The question alone, and the question with its answer, as a turn.
LEMMA Turns ==
    ASSUME NEW log \in Seq(Message), NEW n \in Nat
    PROVE  /\ Append(log, User(n)) = log \o <<User(n)>>
           /\ Append(Append(log, User(n)), Assistant(n)) = log \o <<User(n), Assistant(n)>>
           /\ Append(log, User(n)) \in Seq(Message)
           /\ Append(Append(log, User(n)), Assistant(n)) \in Seq(Message)
<1>1. User(n) \in Message /\ Assistant(n) \in Message
  BY MessageFacts
<1> QED
  BY <1>1, AppendProperties, ConcatProperties

\* The end of a chat that nothing has gone past is a turn.
LEMMA TurnMaps ==
    ASSUME Inv, NEW c \in Callers, ~Free(c), Fits(c), ChatAnswered(c) \/ ChatFailed(c)
    PROVE  Mapped
<1>0. PICK s \in Sessions : s = call[c].session
  BY DEF Inv, TypeOK, Free
<1> DEFINE n == call[c].chat
           old == file[s]
<1>1. /\ s \in Sessions /\ Loadable(s) /\ old \in Session /\ old.messages \in Seq(Message)
      /\ n \in 1 .. MaxChats /\ n \in Nat /\ old.state \in {"idle", "running"}
      /\ \A k \in DOMAIN old.messages : old.messages[k].chat # n
      /\ call[c].copy = [old EXCEPT !.state = "running", !.messages = Append(@, User(n))]
      /\ UNCHANGED created
  BY <1>0, MaxChatsAssumption
     DEF Inv, TypeOK, Session, Fits, Loadable, Free, ChatAnswered, ChatFailed
<1>2. PICK turn \in {<<User(n)>>, <<User(n), Assistant(n)>>} :
        Save(s, [old EXCEPT !.state = "running", !.messages = @ \o turn])
  <2> HIDE DEF old
  <2>1. /\ Append(old.messages, User(n)) = old.messages \o <<User(n)>>
        /\ Append(Append(old.messages, User(n)), Assistant(n))
           = old.messages \o <<User(n), Assistant(n)>>
    BY <1>1, Turns
  <2>2. CASE ChatAnswered(c)
    <3>1. [call[c].copy EXCEPT !.messages = Append(@, Assistant(n))]
          = [old EXCEPT !.state = "running",
                        !.messages = @ \o <<User(n), Assistant(n)>>]
      BY <1>1, <2>1 DEF Session
    <3>2. Save(s, [call[c].copy EXCEPT !.messages = Append(@, Assistant(n))])
      BY <1>0, <2>2 DEF ChatAnswered
    <3> QED
      BY <3>1, <3>2
  <2>3. CASE ChatFailed(c)
    <3>1. Save(s, [old EXCEPT !.state = "running", !.messages = @ \o <<User(n)>>])
      BY <1>0, <1>1, <2>1, <2>3 DEF ChatFailed
    <3> QED
      BY <3>1
  <2> QED
    BY <2>2, <2>3
<1> DEFINE v == [old EXCEPT !.state = "running", !.messages = @ \o turn]
<1>3. v \in Session
  <2>1. ASSUME NEW log \in Seq(Message)
        PROVE  log \o turn \in Seq(Message)
    <3>1. n \in Nat
      BY <1>1
    <3>2. CASE turn = <<User(n)>>
      BY <3>1, <3>2, Turns
    <3>3. CASE turn = <<User(n), Assistant(n)>>
      BY <3>1, <3>3, Turns
    <3> QED
      BY <3>2, <3>3
  <2> QED
    BY <1>1, <2>1 DEF Session, States
<1>4. /\ Phase' = [Phase EXCEPT ![s] = "alive"]
      /\ Held' = [Held EXCEPT ![s] = [old EXCEPT !.state = "running", !.messages = @ \o turn]]
  <2>1. Save(s, v)
    BY <1>2
  <2>2. Phase' = [Phase EXCEPT ![s] = "alive"] /\ Held' = [Held EXCEPT ![s] = v]
    <3> HIDE DEF v
    <3> QED
      BY <1>1, <1>3, <2>1, SaveMaps DEF Inv
  <2> QED
    BY <2>2
<1>5. Phase[s] = "alive" /\ Held[s] = old
  BY <1>1 DEF Phase, Held
<1> HIDE DEF n, old, v
<1>6. Phase' = Phase
  BY <1>1, <1>4, <1>5 DEF Phase
<1>7. Held' = [Held EXCEPT ![s].state = "running", ![s].messages = @ \o turn]
  BY <1>4, <1>5 DEF Held
<1>8. /\ Held[s].state \in {"idle", "running"}
      /\ \A k \in DOMAIN Held[s].messages : Held[s].messages[k].chat # n
  BY <1>1, <1>5
<1>9. turn \in {<<Machine!User(n)>>, <<Machine!User(n), Machine!Assistant(n)>>}
  BY <1>2 DEF User, Assistant, Machine!User, Machine!Assistant
<1>10. Machine!Turn(s)
  <2>1. s \in Machine!Alive
    BY <1>1, <1>5 DEF Machine!Alive, Phase
  <2>2. n \in 1 .. MaxChats
    BY <1>1
  <2> QED
    BY <2>1, <2>2, <1>6, <1>7, <1>8, <1>9, ZenonT(30) DEF Machine!Turn, Phase, Held
<1> QED
  BY <1>10 DEF Mapped, Machine!Next

\* A crash leaves a file as it was, or takes the session that was being written.
LEMMA CrashMaps ==
    ASSUME TypeOK, BirthInv, NEW s \in Sessions, CrashInSave(s) \/ CrashInCreate(s),
           \A c \in Callers : ~Free(c) => Fits(c)
    PROVE  Mapped
<1>1. CASE CrashInSave(s)
  <2>1. Loadable(s)
    BY <1>1 DEF CrashInSave, SaveInProgress, Fits
  <2>2. s \in created
    BY <2>1 DEF BirthInv, Loadable
  <2> QED
    BY <1>1, <2>1, <2>2, DieMaps DEF CrashInSave
<1>2. CASE CrashInCreate(s)
  BY <1>2, DieMaps DEF CrashInCreate
<1> QED
  BY <1>1, <1>2

LEMMA NextMaps ==
    ASSUME Inv, BirthInv, Next, \A c \in Callers : ~Free(c) => Fits(c)
    PROVE  Mapped
<1> USE DEF Inv
<1>1. ASSUME NEW c \in Callers, NEW s \in Sessions, CreateSession(c, s)
      PROVE  Mapped
  <2>1. Fresh(<<>>) \in Session
    BY SessionFacts, EmptySeq
  <2> QED
    BY <1>1, <2>1, BornMaps DEF CreateSession
<1>2. ASSUME NEW c \in Callers, NEW s \in Sessions, NEW t \in Sessions, Clone(c, s, t)
      PROVE  Mapped
  <2>1. Fresh(file[s].messages) \in Session
    BY <1>2, SessionFacts DEF Clone, LogsInv, Log
  <2> QED
    BY <1>2, <2>1, BornMaps DEF Clone
<1>3. ASSUME NEW c \in Callers, NEW s \in Sessions,
             \/ Start(c, s) \/ Pause(c, s) \/ Complete(c, s) \/ Fail(c, s)
             \/ RequestApproval(c, s)
      PROVE  Mapped
  BY <1>3, TransitionMaps DEF Start, Pause, Complete, Fail, RequestApproval, States
<1>4. ASSUME NEW c \in Callers, NEW s \in Sessions, DistributeSession(c, s)
      PROVE  Mapped
  BY <1>4, DistributeMaps
<1>5. ASSUME NEW c \in Callers, NEW s \in Sessions, MergeClusterResults(c, s)
      PROVE  Mapped
  BY <1>5, MergeMaps
<1>6. ASSUME NEW c \in Callers, NEW s \in Sessions, Delete(c, s)
      PROVE  Mapped
  BY <1>6, DeleteMaps
<1>7. ASSUME NEW c \in Callers, NEW s \in Sessions, Chat(c, s)
      PROVE  Mapped
  BY <1>7, Stutter DEF Chat
<1>8. ASSUME NEW c \in Callers, ChatAnswered(c) \/ ChatFailed(c)
      PROVE  Mapped
  BY <1>8, TurnMaps DEF ChatAnswered, ChatFailed
<1>9. CASE Crash
  BY <1>9, Stutter DEF Crash
<1>10. ASSUME NEW s \in Sessions, CrashInSave(s) \/ CrashInCreate(s)
       PROVE  Mapped
  BY <1>10, CrashMaps
<1> QED
  BY <1>1, <1>2, <1>3, <1>4, <1>5, <1>6, <1>7, <1>8, <1>9, <1>10 DEF Next, Op

-----------------------------------------------------------------------------
(* What a waiting chat relies on holds until something goes past it *)

\* A call changes when its chat begins or ends.
LEMMA CallsChange ==
    ASSUME TypeOK, Next, NEW c \in Callers, ~Free(c)'
    PROVE  call'[c] = call[c] \/ \E s \in Sessions : Chat(c, s)
<1>1. ASSUME NEW d \in Callers, NEW s \in Sessions, Chat(d, s)
      PROVE  call'[c] = call[c] \/ \E t \in Sessions : Chat(c, t)
  <2>1. CASE c = d
    BY <1>1, <2>1
  <2>2. CASE c # d
    BY <1>1, <2>2 DEF Chat, TypeOK
  <2> QED
    BY <2>1, <2>2
<1>2. ASSUME NEW d \in Callers, ChatAnswered(d) \/ ChatFailed(d)
      PROVE  call'[c] = call[c]
  BY <1>2 DEF ChatAnswered, ChatFailed, TypeOK, Free
<1>3. ASSUME NEW s \in Sessions, Crash \/ CrashInSave(s) \/ CrashInCreate(s)
      PROVE  call'[c] = call[c]
  BY <1>3 DEF Crash, CrashInSave, CrashInCreate, Restart, Free
<1>4. CASE Crash
  BY <1>4 DEF Crash, Restart, Free
<1>5. ASSUME NEW d \in Callers, NEW s \in Sessions, Op(d, s), ~Chat(d, s)
      PROVE  call'[c] = call[c]
  BY <1>5 DEF Op, CreateSession, Clone, Start, Pause, Complete, Fail, RequestApproval,
              Transition, DistributeSession, MergeClusterResults, Delete
<1> QED
  BY <1>1, <1>2, <1>3, <1>4, <1>5 DEF Next

LEMMA ChatFits ==
    ASSUME Inv, NEW c \in Callers, NEW s \in Sessions, Chat(c, s)
    PROVE  Fits(c)'
<1> DEFINE n == nextChat + 1
<1>1. /\ call'[c].session = s /\ call'[c].chat = n
      /\ call'[c].copy = [file[s] EXCEPT !.state = "running",
                                         !.messages = Append(@, User(n))]
  BY DEF Inv, TypeOK, Chat
<1>2. /\ Loadable(s) /\ Loadable(s)' /\ file' = file
      /\ file[s].state \in {"idle", "running"}
  BY DEF Chat, Loadable
<1>3. n \in 1 .. MaxChats
  BY MaxChatsAssumption DEF Inv, TypeOK, Chat
<1>4. \A k \in DOMAIN file[s].messages : file[s].messages[k].chat # n
  <2>1. Log(file[s].messages, nextChat) /\ nextChat \in Nat
    BY <1>2 DEF Inv, TypeOK, LogsInv
  <2> QED
    BY <2>1, ChatNumbers DEF Log
<1> HIDE DEF n
<1> QED
  BY <1>1, <1>2, <1>3, <1>4 DEF Fits

LEMMA NextFits ==
    ASSUME Inv, FitsInv, [WatchedNext]_<<vars, overlapped>>
    PROVE  FitsInv'
<1>1. CASE WatchedNext
  <2> SUFFICES ASSUME ~overlapped', NEW c \in Callers, ~Free(c)'
               PROVE  Fits(c)'
    BY DEF FitsInv
  <2>1. c \in Waiting'
    BY DEF Waiting
  <2>2. ~overlapped /\ \A d \in Waiting : call'[d] # call[d]
    BY <1>1, <2>1 DEF WatchedNext
  <2>3. call'[c] # call[c]
    <3>1. CASE Free(c)
      BY <3>1 DEF Free
    <3>2. CASE ~Free(c)
      BY <2>2, <3>2 DEF Waiting
    <3> QED
      BY <3>1, <3>2
  <2>4. PICK s \in Sessions : Chat(c, s)
    BY <1>1, <2>3, CallsChange DEF WatchedNext, Inv
  <2> QED
    BY <2>4, ChatFits
<1>2. CASE UNCHANGED <<vars, overlapped>>
  BY <1>2 DEF vars, FitsInv, Fits, Free, Loadable
<1> QED
  BY <1>1, <1>2

-----------------------------------------------------------------------------

WatchedInv == Inv /\ BirthInv /\ FitsInv

\* Whatever the interleaving of requests and crashes: while no request has gone
\* past a waiting chat, every step of the engine is one of the atomic machine.
THEOREM EngineImplementsMachine == WatchedSpec => ImplementsMachine
<1>1. WatchedInit => WatchedInv /\ Machine!Init
  <2> SUFFICES ASSUME WatchedInit PROVE WatchedInv /\ Machine!Init
    OBVIOUS
  <2>1. Inv
    BY InitInv DEF WatchedInit
  <2>2. BirthInv /\ FitsInv
    BY DEF WatchedInit, Init, BirthInv, FitsInv, Free
  <2>3. Machine!Init
    BY DEF WatchedInit, Init, Machine!Init, Loadable
  <2> QED
    BY <2>1, <2>2, <2>3 DEF WatchedInv
<1>2. WatchedInv /\ [WatchedNext]_<<vars, overlapped>> => WatchedInv'
  <2> SUFFICES ASSUME WatchedInv, [WatchedNext]_<<vars, overlapped>>
               PROVE  WatchedInv'
    OBVIOUS
  <2>1. [Next]_vars
    BY DEF WatchedNext, vars
  <2> QED
    BY <2>1, NextInv, NextBirth, NextFits DEF WatchedInv, Inv
<1>3. WatchedInv /\ [WatchedNext]_<<vars, overlapped>>
      => [overlapped \/ overlapped' \/ Machine!Next]_(Machine!vars)
  <2> SUFFICES ASSUME WatchedInv, [WatchedNext]_<<vars, overlapped>>,
                      ~overlapped, ~overlapped'
               PROVE  Machine!Next \/ UNCHANGED Machine!vars
    OBVIOUS
  <2>1. Mapped
    <3>1. CASE WatchedNext
      BY <3>1, NextMaps DEF WatchedInv, WatchedNext, FitsInv
    <3>2. CASE UNCHANGED <<vars, overlapped>>
      BY <3>2, Stutter DEF vars
    <3> QED
      BY <3>1, <3>2
  <2> QED
    BY <2>1 DEF Mapped, Machine!vars, Phase, Held
<1> QED
  BY <1>1, <1>2, <1>3, PTL DEF WatchedSpec, ImplementsMachine
=============================================================================
