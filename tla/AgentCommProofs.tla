---------------------------- MODULE AgentCommProofs ----------------------------
(* Proofs about AgentComm, for any number of processes, collaborations, agents *)
(* and messages: a write that is cut short costs at most one other entry, no   *)
(* message is queued once a channel is closed or its collaboration over, and   *)
(* between operations the newest result submitted is the one that is held.     *)
EXTENDS AgentComm, SequenceTheorems, FiniteSetTheorems, TLAPS

-----------------------------------------------------------------------------
(* Sets of numbers in order *)

\* Every number of a set has its place, and every place its number.
LEMMA InOrderType ==
    ASSUME NEW n \in Nat, NEW S \in SUBSET (1 .. n)
    PROVE  /\ InOrder(S) \in Seq(S)
           /\ Len(InOrder(S)) <= n
<1> DEFINE c == Cardinality(S)
           upto(k) == {j \in S : j <= k}
           rank == [k \in S |-> Cardinality(upto(k))]
<1>1. IsFiniteSet(S) /\ c <= n
  <2>1. IsFiniteSet(1 .. n) /\ Cardinality(1 .. n) = n
    BY FS_Interval
  <2> QED BY <2>1, FS_Subset
<1>2. c \in Nat
  BY <1>1, FS_CardinalityType
<1>3. ASSUME NEW k \in S
      PROVE  IsFiniteSet(upto(k)) /\ rank[k] \in 1 .. c
  <2>1. IsFiniteSet(upto(k)) /\ Cardinality(upto(k)) <= c
    BY <1>1, FS_Subset
  <2>2. Cardinality(upto(k)) \in Nat
    BY <2>1, FS_CardinalityType
  <2>3. k \in upto(k)
    OBVIOUS
  <2>4. Cardinality(upto(k)) # 0
    BY <2>1, <2>3, FS_EmptySet
  <2>5. rank[k] = Cardinality(upto(k))
    OBVIOUS
  <2> HIDE DEF upto, rank, c
  <2> QED BY <1>2, <2>1, <2>2, <2>4, <2>5
<1>4. ASSUME NEW j \in S, NEW k \in S, j < k PROVE rank[j] # rank[k]
  <2>1. (\A i \in S : i <= j => i <= k) /\ k <= k /\ ~(k <= j)
    BY <1>4
  <2>2. upto(j) \subseteq upto(k) /\ k \in upto(k) /\ k \notin upto(j)
    BY <1>4, <2>1
  <2>3. Cardinality(upto(j)) # Cardinality(upto(k))
    BY <1>3, <2>2, FS_Subset
  <2> QED BY <2>3
<1>5. \A j, k \in S : rank[j] = rank[k] => j = k
  <2>1. \A j, k \in S : j < k \/ k < j \/ j = k
    OBVIOUS
  <2> HIDE DEF rank
  <2> QED BY <1>4, <2>1
<1>6. rank \in [S -> 1 .. c]
  BY <1>3
<1>7. rank \in Injection(S, 1 .. c)
  BY <1>5, <1>6 DEF Injection, IsInjective
<1>8. IsFiniteSet(1 .. c) /\ Cardinality(1 .. c) = Cardinality(S)
  BY <1>2, FS_Interval
<1>9. rank \in Surjection(S, 1 .. c)
  BY <1>7, <1>8, FS_Injection
<1>10. ASSUME NEW i \in 1 .. c PROVE InOrder(S)[i] \in S
  <2>1. \E k \in S : Cardinality({j \in S : j <= k}) = i
    BY <1>9 DEF Surjection
  <2> QED BY <2>1 DEF InOrder
<1>11. DOMAIN InOrder(S) = 1 .. c
  BY DEF InOrder
<1>12. InOrder(S) = [i \in 1 .. c |-> InOrder(S)[i]]
  BY DEF InOrder
<1> HIDE DEF c
<1>13. InOrder(S) \in [1 .. c -> S]
  BY <1>10, <1>12
<1> QED BY <1>1, <1>2, <1>13, SeqDef, LenProperties

-----------------------------------------------------------------------------
(* Lines and what is found on them *)

Lines == [entries : Seq(Entry), ended : BOOLEAN]

LEMMA SequenceFacts ==
    ASSUME NEW S, NEW q \in Seq(S)
    PROVE  /\ \A e \in S : /\ Append(q, e) \in Seq(S) /\ Len(Append(q, e)) = Len(q) + 1
                           /\ Append(q, e)[Len(q) + 1] = e
                           /\ \A k \in 1 .. Len(q) : Append(q, e)[k] = q[k]
           /\ q # <<>> => /\ Front(q) \in Seq(S) /\ Len(Front(q)) = Len(q) - 1
                          /\ \A k \in 1 .. Len(q) - 1 : Front(q)[k] = q[k]
                          /\ Last(q) = q[Len(q)] /\ Len(q) >= 1
<1>1. \A e \in S : /\ Append(q, e) \in Seq(S) /\ Len(Append(q, e)) = Len(q) + 1
                   /\ Append(q, e)[Len(q) + 1] = e
                   /\ \A k \in 1 .. Len(q) : Append(q, e)[k] = q[k]
  BY AppendProperties
<1>2. ASSUME q # <<>>
      PROVE  /\ Front(q) \in Seq(S) /\ Len(Front(q)) = Len(q) - 1
             /\ \A k \in 1 .. Len(q) - 1 : Front(q)[k] = q[k]
             /\ Last(q) = q[Len(q)] /\ Len(q) >= 1
  <2>1. Len(q) \in Nat /\ Len(q) >= 1
    BY <1>2, EmptySeq
  <2>2. \A k \in 1 .. Len(q) - 1 : q[k] \in S
    BY <2>1, ElementOfSeq
  <2>3. Front(q) = [k \in 1 .. Len(q) - 1 |-> q[k]]
    BY <2>1, <2>2 DEF Front
  <2>4. Front(q) \in Seq(S)
    BY <2>1, <2>2, <2>3, SeqDef
  <2> QED BY <2>1, <2>3, <2>4, LenProperties DEF Last
<1> QED BY <1>1, <1>2

\* What is written on the lines that have their newline.
Safe(file) == {Head(file[k].entries) : k \in {j \in Parsed(file) : file[j].ended}}

LEMMA SafeFound ==
    ASSUME NEW file PROVE Safe(file) \subseteq Found(file)
BY DEF Safe, Found

\* One more line than those before.
LEMMA OneLine ==
    ASSUME NEW file \in Seq(Lines), NEW l \in Lines
    PROVE  /\ Append(file, l) \in Seq(Lines)
           /\ Unended(Append(file, l)) <=> ~l.ended
           /\ Safe(Append(file, l)) =
                Safe(file) \cup (IF l.ended /\ l.entries # <<>> THEN {Head(l.entries)} ELSE {})
           /\ Found(Append(file, l)) =
                Found(file) \cup (IF l.entries # <<>> THEN {Head(l.entries)} ELSE {})
<1> DEFINE g == Append(file, l)
           n == Len(file)
<1>1. /\ g \in Seq(Lines) /\ DOMAIN g = 1 .. n + 1 /\ g[n + 1] = l
      /\ DOMAIN file = 1 .. n /\ \A k \in 1 .. n : g[k] = file[k]
      /\ n \in Nat /\ g # <<>> /\ Last(g) = l
  <2>1. n \in Nat /\ DOMAIN file = 1 .. n
    OBVIOUS
  <2>2. g \in Seq(Lines) /\ Len(g) = n + 1 /\ g[n + 1] = l /\ \A k \in 1 .. n : g[k] = file[k]
    BY SequenceFacts
  <2>3. DOMAIN g = 1 .. n + 1 /\ g # <<>>
    BY <2>1, <2>2
  <2> HIDE DEF g, n
  <2> QED BY <2>1, <2>2, <2>3 DEF Last
<1> HIDE DEF g, n
<1>2. \A k : k \in DOMAIN g <=> (k \in DOMAIN file \/ k = n + 1)
  BY <1>1
<1>3. \A k \in DOMAIN file : g[k] = file[k]
  BY <1>1
<1>4. Unended(g) <=> ~l.ended
  BY <1>1 DEF Unended
<1>5. Safe(g) = Safe(file) \cup (IF l.ended /\ l.entries # <<>> THEN {Head(l.entries)} ELSE {})
  BY <1>1, <1>2, <1>3, Zenon DEF Safe, Parsed
<1>6. Found(g) = Found(file) \cup (IF l.entries # <<>> THEN {Head(l.entries)} ELSE {})
  BY <1>1, <1>2, <1>3, Zenon DEF Found, Parsed
<1> QED BY <1>1, <1>4, <1>5, <1>6 DEF g

\* The unended line that the next entry spoils carries nothing that is safe.
LEMMA WithoutLast ==
    ASSUME NEW file \in Seq(Lines), Unended(file)
    PROVE  /\ Front(file) \in Seq(Lines)
           /\ Safe(Front(file)) = Safe(file)
           /\ Found(Front(file)) \subseteq Found(file)
<1> DEFINE g == Front(file)
           n == Len(file)
<1>1. /\ g \in Seq(Lines) /\ Len(g) = n - 1 /\ n >= 1 /\ n \in Nat
      /\ \A k \in 1 .. n - 1 : g[k] = file[k]
      /\ ~file[n].ended
  <2>1. file # <<>> /\ ~Last(file).ended
    BY DEF Unended
  <2> QED BY <2>1, SequenceFacts
<1>2. DOMAIN file = 1 .. n /\ DOMAIN g = 1 .. n - 1
  BY <1>1
<1> HIDE DEF g, n
<1>3. /\ \A k \in DOMAIN g : k \in DOMAIN file /\ g[k] = file[k]
      /\ \A k \in DOMAIN file : file[k].ended => k \in DOMAIN g
  <2>1. \A k \in DOMAIN file : k \in DOMAIN g \/ k = n
    BY <1>1, <1>2
  <2> QED BY <1>1, <1>2, <2>1
<1>4. Safe(g) = Safe(file) /\ Found(g) \subseteq Found(file)
  BY <1>3, Zenon DEF Safe, Found, Parsed
<1> QED BY <1>1, <1>4 DEF g

LEMMA LineType ==
    ASSUME NEW e \in Entry, NEW ended \in BOOLEAN
    PROVE  /\ Line(<<>>, ended) \in Lines /\ Line(<<e>>, ended) \in Lines
           /\ Line(<<>>, ended).ended = ended /\ Line(<<e>>, ended).ended = ended
           /\ Line(<<>>, ended).entries = <<>>
           /\ Line(<<e>>, ended).entries # <<>> /\ Head(Line(<<e>>, ended).entries) = e
<1>1. <<e>> \in Seq(Entry) /\ <<>> \in Seq(Entry) /\ <<e>> # <<>> /\ Head(<<e>>) = e
  OBVIOUS
<1> QED BY <1>1 DEF Line, Lines

LEMMA SpoiltLine ==
    ASSUME NEW file \in Seq(Lines), Unended(file), NEW ended \in BOOLEAN
    PROVE  LET g == Append(Front(file), Line(<<>>, ended))
           IN  /\ g \in Seq(Lines)
               /\ Unended(g) <=> ~ended
               /\ Safe(g) = Safe(file)
               /\ Found(g) \subseteq Found(file)
<1> DEFINE front == Front(file)
           l == Line(<<>>, ended)
<1>1. /\ front \in Seq(Lines) /\ Safe(front) = Safe(file)
      /\ Found(front) \subseteq Found(file)
  BY WithoutLast
<1>2. l \in Lines /\ l.ended = ended /\ l.entries = <<>>
  <2>1. <<>> \in Seq(Entry)
    OBVIOUS
  <2> QED BY <2>1 DEF Line, Lines
<1> HIDE DEF front, l
<1>3. /\ Append(front, l) \in Seq(Lines)
      /\ Unended(Append(front, l)) <=> ~l.ended
      /\ Safe(Append(front, l)) =
           Safe(front) \cup (IF l.ended /\ l.entries # <<>> THEN {Head(l.entries)} ELSE {})
      /\ Found(Append(front, l)) =
           Found(front) \cup (IF l.entries # <<>> THEN {Head(l.entries)} ELSE {})
  BY <1>1, <1>2, OneLine
<1> QED BY <1>1, <1>2, <1>3 DEF front, l

\* A line that is appended is safe, unless it ends up behind an unended one.
LEMMA Appended ==
    ASSUME NEW file \in Seq(Lines), NEW e \in Entry
    PROVE  /\ AppendLine(file, e) \in Seq(Lines)
           /\ ~Unended(AppendLine(file, e))
           /\ Safe(AppendLine(file, e)) = IF Unended(file) THEN Safe(file) ELSE Safe(file) \cup {e}
           /\ Found(AppendLine(file, e)) \subseteq Found(file) \cup {e}
<1>1. CASE Unended(file)
  <2>1. AppendLine(file, e) = Append(Front(file), Line(<<>>, TRUE))
    BY <1>1 DEF AppendLine
  <2> QED BY <1>1, <2>1, SpoiltLine
<1>2. CASE ~Unended(file)
  <2>1. AppendLine(file, e) = Append(file, Line(<<e>>, TRUE))
    BY <1>2 DEF AppendLine
  <2> QED BY <1>2, <2>1, LineType, OneLine
<1> QED BY <1>1, <1>2

\* A write that is cut short changes nothing that is safe.
LEMMA CutShortFacts ==
    ASSUME NEW file \in Seq(Lines), NEW e \in Entry, NEW cut \in CutShort(file, e)
    PROVE  /\ cut \in Seq(Lines)
           /\ Safe(cut) = Safe(file)
           /\ Found(cut) \subseteq Found(file) \cup {e}
<1>1. CASE cut = file
  BY <1>1
<1>2. CASE Unended(file) /\ cut = Append(Front(file), Line(<<>>, FALSE))
  BY <1>2, SpoiltLine
<1>3. CASE cut = Append(file, Line(<<>>, FALSE))
  BY <1>3, LineType, OneLine
<1>4. CASE cut = Append(file, Line(<<e>>, FALSE))
  BY <1>4, LineType, OneLine
<1> QED BY <1>1, <1>2, <1>3, <1>4 DEF CutShort

\* What is found is entries.
LEMMA FoundType ==
    ASSUME NEW file \in Seq(Lines)
    PROVE  /\ \A k \in Parsed(file) : Head(file[k].entries) \in Entry
           /\ Found(file) \subseteq Entry
<1>1. ASSUME NEW k \in Parsed(file) PROVE Head(file[k].entries) \in Entry
  <2>1. file[k] \in Lines /\ file[k].entries # <<>>
    BY DEF Parsed
  <2>2. file[k].entries \in Seq(Entry) /\ file[k].entries # <<>>
    BY <2>1 DEF Lines
  <2> QED BY <2>2, HeadTailProperties
<1> QED BY <1>1 DEF Found

\* What is read from some lines, in order, is a sequence of what is on them.
LEMMA EntriesAtType ==
    ASSUME NEW file \in Seq(Lines), NEW T, NEW S \in SUBSET DOMAIN file,
           \A k \in S : Head(file[k].entries) \in T
    PROVE  EntriesAt(file, S) \in Seq(T)
<1>1. Len(file) \in Nat /\ S \in SUBSET (1 .. Len(file))
  OBVIOUS
<1>2. InOrder(S) \in Seq(S)
  BY <1>1, InOrderType
<1>3. DOMAIN InOrder(S) = 1 .. Len(InOrder(S)) /\ Len(InOrder(S)) \in Nat
  BY <1>2
<1>4. \A i \in DOMAIN InOrder(S) : Head(file[InOrder(S)[i]].entries) \in T
  BY <1>2, ElementOfSeq
<1>5. EntriesAt(file, S) \in [1 .. Len(InOrder(S)) -> T]
  BY <1>3, <1>4 DEF EntriesAt
<1> QED BY <1>3, <1>5, SeqDef

-----------------------------------------------------------------------------
(* The inductive invariant *)

\* Where the entries of file f are, and no other: they are of channels and
\* collaborations that have been created.
FilesInv(fs, ags) ==
    \A f \in FileNames : \A e \in Found(fs[f]) : e.file = f /\ ags[e.channel] # <<>>

\* Nothing is known of c, to a process with this memory.
Unheard(m, c) ==
    /\ m.channel[c] = "none"
    /\ c \in Collaborations => m.status[c] = "none" /\ \A a \in Agents : m.results[c][a] = None

\* The entry e, which is the k-th still to be made.  Only the first makes a
\* channel, of which nothing is known yet; a delivery carries the result that is
\* held.
EntryInv(m, e, k) ==
    /\ ~Shut(m, e.channel)
    /\ e.file = "channels" => k = 1 /\ Unheard(m, e.channel)
    /\ \A a \in Agents : Delivers(e, a) =>
          e.channel \in Collaborations /\ e.payload = m.results[e.channel][a]

\* The newest delivery of a carries the result that is held, or is about to.
Agrees(m, q, c, a) ==
    m.results[c][a] # None /\ m.channel[c] = "open"
    => \/ Newest(m.queue[c], a, m.results[c][a])
       \/ q # <<>> /\ Delivers(q[1], a) /\ q[1].channel = c

\* A process with memory m, the entries q still to be made, when the
\* channels and collaborations created are those of ags.
MemoryInv(m, q, ags) ==
    /\ \A k \in DOMAIN q : EntryInv(m, q[k], k) /\ ags[q[k].channel] # <<>>
    /\ \A c \in Names : ags[c] = <<>> => Unheard(m, c)
    /\ \A c \in Collaborations :
         /\ m.status[c] \in {"completed", "failed"} => m.channel[c] # "open"
         /\ \A a \in ToSet(ags[c]) : Agrees(m, q, c, a)

ProcessInv(m, q, ags) == IF m = None THEN q = <<>> ELSE MemoryInv(m, q, ags)

\* What was logged and is on no line that has its newline was lost to an unended
\* line, and each of these was left by a failure.
Kept == UNION {Safe(files[f]) : f \in FileNames}
Loose == {f \in FileNames : Unended(files[f])}
LossInv == /\ IsFiniteSet(logged)
           /\ Cardinality(logged \ Kept) + Cardinality(Loose) <= failures

Inv == /\ TypeOK
       /\ FilesInv(files, agents)
       /\ \A p \in Processes : ProcessInv(memory[p], todo[p], agents)
       /\ LossInv

-----------------------------------------------------------------------------
(* What the operators on memories give *)

Lists == [Names -> AgentLists \cup {<<>>}]

LEMMA MemberOfList ==
    ASSUME NEW ags \in Lists, NEW c \in Names
    PROVE  ags[c] \in Seq(Agents) /\ ToSet(ags[c]) \subseteq Agents
<1>1. ags[c] \in Seq(Agents)
  <2>1. ags[c] \in AgentLists \/ ags[c] = <<>>
    BY DEF Lists
  <2>2. <<>> \in Seq(Agents)
    OBVIOUS
  <2> QED BY <2>1, <2>2, AgentListsAssumption
<1> QED BY <1>1 DEF ToSet

LEMMA EntryKinds ==
    ASSUME NEW e \in Entry
    PROVE  /\ e.file \in FileNames /\ e.channel \in Names
           /\ e.file = "messages" <=> e \in Message
           /\ e.file = "tasks" => e.channel \in Collaborations
BY DEF Entry, Message, FileNames, Names

LEMMA RememberType ==
    ASSUME NEW m \in Memory, NEW e \in Entry
    PROVE  Remember(m, e) \in Memory
<1>1. CASE e.file = "channels"
  <2> DEFINE channel == [m.channel EXCEPT ![e.channel] = "open"]
             queue == [m.queue EXCEPT ![e.channel] = <<>>]
  <2>1. <<>> \in Seq(Message)
    OBVIOUS
  <2>2. /\ channel \in [Names -> {"none", "open", "closed"}]
        /\ queue \in [Names -> Seq(Message)]
    BY <2>1 DEF Memory
  <2>3. Remember(m, e) = [m EXCEPT !.channel = channel, !.queue = queue]
    BY <1>1 DEF Remember
  <2> HIDE DEF channel, queue
  <2> QED BY <2>2, <2>3 DEF Memory
<1>2. CASE e.file = "tasks"
  BY <1>2, EntryKinds DEF Remember, Memory, Statuses
<1>3. CASE e.file = "messages"
  <2>1. m.queue[e.channel] \in Seq(Message) /\ e \in Message
    BY <1>3, EntryKinds DEF Memory
  <2>2. Append(m.queue[e.channel], e) \in Seq(Message)
    BY <2>1, AppendProperties
  <2> DEFINE queue == [m.queue EXCEPT ![e.channel] = Append(@, e)]
  <2>3. queue \in [Names -> Seq(Message)]
    BY <2>2 DEF Memory
  <2>4. Remember(m, e) = [m EXCEPT !.queue = queue]
    BY <1>3 DEF Remember
  <2> HIDE DEF queue
  <2> QED BY <2>3, <2>4 DEF Memory
<1> QED BY <1>1, <1>2, <1>3, EntryKinds DEF FileNames

\* A message behind the others of a queue: the newest delivery is this one, or
\* as before.
LEMMA NewestAppended ==
    ASSUME NEW queue \in Seq(Message), NEW e \in Message, NEW a, NEW result
    PROVE  /\ Delivers(e, a) /\ e.payload = result => Newest(Append(queue, e), a, result)
           /\ ~Delivers(e, a) /\ Newest(queue, a, result) => Newest(Append(queue, e), a, result)
<1> DEFINE q == Append(queue, e)
           n == Len(queue)
<1>1. /\ DOMAIN q = 1 .. n + 1 /\ DOMAIN queue = 1 .. n /\ n \in Nat /\ q[n + 1] = e
      /\ \A k \in 1 .. n : q[k] = queue[k]
  <2>1. n \in Nat /\ DOMAIN queue = 1 .. n
    OBVIOUS
  <2>2. q \in Seq(Message) /\ Len(q) = n + 1 /\ q[n + 1] = e /\ \A k \in 1 .. n : q[k] = queue[k]
    BY SequenceFacts
  <2> HIDE DEF q, n
  <2> QED BY <2>1, <2>2
<1> HIDE DEF q, n
<1>2. ASSUME Delivers(e, a), e.payload = result PROVE Newest(q, a, result)
  <2>1. n + 1 \in DOMAIN q /\ \A j \in DOMAIN q : ~(j > n + 1)
    BY <1>1
  <2> QED BY <1>1, <1>2, <2>1 DEF Newest
<1>3. ASSUME ~Delivers(e, a), Newest(queue, a, result) PROVE Newest(q, a, result)
  <2>1. PICK k \in DOMAIN queue :
          /\ Delivers(queue[k], a) /\ queue[k].payload = result
          /\ \A j \in DOMAIN queue : j > k => ~Delivers(queue[j], a)
    BY <1>3 DEF Newest
  <2>2. k \in DOMAIN q /\ q[k] = queue[k]
    BY <1>1
  <2>3. \A j \in DOMAIN q : j > k => ~Delivers(q[j], a)
    <3>1. \A j \in DOMAIN q : j \in DOMAIN queue \/ j = n + 1
      BY <1>1
    <3> QED BY <1>1, <1>3, <2>1, <3>1
  <2> QED BY <2>1, <2>2, <2>3 DEF Newest
<1> QED BY <1>2, <1>3 DEF q

\* The queue q that is left when the first entry is gone, or all of them.
Rest(q, rest) == \A k \in DOMAIN rest : k \in Nat /\ k >= 1 /\ k + 1 \in DOMAIN q /\ rest[k] = q[k + 1]

LEMMA RememberInv ==
    ASSUME NEW m \in Memory, NEW q \in Seq(Entry), NEW ags \in Lists, MemoryInv(m, q, ags),
           q # <<>>, NEW rest, Rest(q, rest)
    PROVE  MemoryInv(Remember(m, q[1]), rest, ags)
<1> DEFINE e == q[1]
           r == Remember(m, e)
<1>1. /\ 1 \in DOMAIN q /\ e \in Entry /\ EntryInv(m, e, 1) /\ ags[e.channel] # <<>>
  <2>1. Len(q) \in Nat /\ Len(q) >= 1
    BY EmptySeq
  <2> QED BY <2>1, ElementOfSeq DEF MemoryInv
<1>2. /\ e.file \in FileNames /\ e.channel \in Names
      /\ e.file = "messages" <=> e \in Message
      /\ e.file = "tasks" => e.channel \in Collaborations
  BY <1>1, EntryKinds
<1> HIDE DEF e
<1>3. /\ r.results = m.results
      /\ \A c \in Collaborations :
           r.status[c] = IF e.file = "tasks" /\ c = e.channel THEN "active" ELSE m.status[c]
      /\ \A c \in Names :
           /\ r.channel[c] = IF e.file = "channels" /\ c = e.channel THEN "open" ELSE m.channel[c]
           /\ ~(e.file = "channels" /\ c = e.channel) =>
                r.queue[c] = IF e.file = "messages" /\ c = e.channel THEN Append(m.queue[c], e)
                             ELSE m.queue[c]
  <2>1. m.status \in [Collaborations -> Statuses] /\ m.channel \in [Names -> {"none", "open", "closed"}]
        /\ m.queue \in [Names -> Seq(Message)]
    BY DEF Memory
  <2>2. CASE e.file = "channels"
    BY <1>2, <2>1, <2>2 DEF Remember, Memory
  <2>3. CASE e.file = "tasks"
    BY <1>2, <2>1, <2>3 DEF Remember, Memory
  <2>4. CASE e.file = "messages"
    BY <1>2, <2>1, <2>4 DEF Remember, Memory
  <2> QED BY <1>2, <2>2, <2>3, <2>4 DEF FileNames
<1> HIDE DEF r
<1>4. ASSUME NEW k \in DOMAIN rest
      PROVE  EntryInv(r, rest[k], k) /\ ags[rest[k].channel] # <<>>
  <2>1. k + 1 \in DOMAIN q /\ k + 1 # 1 /\ rest[k] = q[k + 1]
    BY DEF Rest
  <2>2. EntryInv(m, q[k + 1], k + 1) /\ ags[q[k + 1].channel] # <<>>
    BY <2>1 DEF MemoryInv
  <2>3. ~Shut(r, rest[k].channel)
    <3>1. rest[k] \in Entry /\ ~Shut(m, rest[k].channel)
      BY <2>1, <2>2, ElementOfSeq DEF EntryInv
    <3>2. rest[k].channel \in Names
      BY <3>1, EntryKinds
    <3> QED BY <1>3, <3>1, <3>2 DEF Shut
  <2> QED BY <1>3, <2>1, <2>2, <2>3 DEF EntryInv
<1>5. ASSUME NEW c \in Names, ags[c] = <<>> PROVE Unheard(r, c)
  BY <1>1, <1>2, <1>3, <1>5 DEF MemoryInv, Unheard
<1>6. ASSUME NEW c \in Collaborations, r.status[c] \in {"completed", "failed"}
      PROVE  r.channel[c] # "open"
  BY <1>1, <1>3, <1>6 DEF MemoryInv, EntryInv, Unheard, Names
<1>7. ASSUME NEW c \in Collaborations, NEW a \in ToSet(ags[c]) PROVE Agrees(r, rest, c, a)
  <2>1. Agrees(m, q, c, a) /\ a \in Agents /\ m.queue[c] \in Seq(Message) /\ c \in Names
    BY MemberOfList DEF MemoryInv, Memory, Names
  <2>2. SUFFICES ASSUME m.results[c][a] # None, r.channel[c] = "open"
                 PROVE  Newest(r.queue[c], a, m.results[c][a])
    BY <1>3 DEF Agrees
  <2>3. m.channel[c] = "open" /\ ~(e.file = "channels" /\ c = e.channel)
    BY <1>1, <1>3, <2>1, <2>2 DEF EntryInv, Unheard
  <2>4. \/ Newest(m.queue[c], a, m.results[c][a])
        \/ Delivers(e, a) /\ e.channel = c
    BY <2>1, <2>2, <2>3 DEF Agrees, e
  <2>5. CASE e.file = "messages" /\ c = e.channel
    <3>1. r.queue[c] = Append(m.queue[c], e) /\ e \in Message
      BY <1>2, <1>3, <2>5
    <3>2. Delivers(e, a) => e.payload = m.results[c][a]
      BY <1>1, <2>1, <2>5 DEF EntryInv
    <3> QED BY <2>1, <2>4, <3>1, <3>2, NewestAppended
  <2>6. CASE ~(e.file = "messages" /\ c = e.channel)
    <3>1. r.queue[c] = m.queue[c]
      BY <1>3, <2>1, <2>3, <2>6
    <3> QED BY <2>4, <2>6, <3>1 DEF Delivers
  <2> QED BY <2>5, <2>6
<1> QED BY <1>4, <1>5, <1>6, <1>7 DEF MemoryInv, r, e

\* A channel or collaboration that is created changes nothing for a process that
\* has not heard of it.
LEMMA CreatedInv ==
    ASSUME NEW m \in Memory, NEW q, NEW ags \in Lists, MemoryInv(m, q, ags),
           NEW c \in Names, ags[c] = <<>>, NEW list \in AgentLists,
           \A k \in DOMAIN q : q[k].channel \in Names
    PROVE  MemoryInv(m, q, [ags EXCEPT ![c] = list])
<1> DEFINE new == [ags EXCEPT ![c] = list]
<1>1. list # <<>> /\ list \in Seq(Agents) /\ ToSet(list) \subseteq Agents
  BY AgentListsAssumption DEF ToSet
<1>2. \A d \in Names : new[d] = IF d = c THEN list ELSE ags[d]
  BY DEF Lists
<1> HIDE DEF new
<1>3. \A k \in DOMAIN q : EntryInv(m, q[k], k) /\ new[q[k].channel] # <<>>
  BY <1>1, <1>2 DEF MemoryInv
<1>4. ASSUME NEW d \in Names, new[d] = <<>> PROVE Unheard(m, d)
  BY <1>1, <1>2, <1>4 DEF MemoryInv
<1>5. ASSUME NEW d \in Collaborations
      PROVE  /\ m.status[d] \in {"completed", "failed"} => m.channel[d] # "open"
             /\ \A a \in ToSet(new[d]) : Agrees(m, q, d, a)
  <2>1. CASE d = c
    BY <1>1, <1>2, <2>1 DEF MemoryInv, Unheard, Agrees, Names
  <2>2. CASE d # c
    BY <1>2, <2>2 DEF MemoryInv, Names
  <2> QED BY <2>1, <2>2
<1> QED BY <1>3, <1>4, <1>5 DEF MemoryInv, new

\* Entries to be made that agree with the memory leave it as it is.
LEMMA TodoInv ==
    ASSUME NEW m, NEW q, NEW ags, MemoryInv(m, <<>>, ags),
           \A k \in DOMAIN q : EntryInv(m, q[k], k) /\ ags[q[k].channel] # <<>>
    PROVE  MemoryInv(m, q, ags)
BY DEF MemoryInv, Agrees

\* A status that is not the end of a collaboration.
LEMMA StatusInv ==
    ASSUME NEW m \in Memory, NEW ags, MemoryInv(m, <<>>, ags),
           NEW c \in Collaborations, m.status[c] # "none", NEW s \in {"active", "conflict"}
    PROVE  /\ [m EXCEPT !.status[c] = s] \in Memory
           /\ MemoryInv([m EXCEPT !.status[c] = s], <<>>, ags)
           /\ ags[c] # <<>>
<1> DEFINE r == [m EXCEPT !.status[c] = s]
<1>1. r \in Memory
  BY DEF Memory, Statuses
<1>2. /\ r.results = m.results /\ r.channel = m.channel /\ r.queue = m.queue
      /\ \A d \in Collaborations : r.status[d] = IF d = c THEN s ELSE m.status[d]
  BY DEF Memory
<1> HIDE DEF r
<1>3. ags[c] # <<>>
  BY DEF MemoryInv, Unheard, Names
<1>4. MemoryInv(r, <<>>, ags)
  BY <1>2, <1>3 DEF MemoryInv, Unheard, Agrees
<1> QED BY <1>1, <1>3, <1>4 DEF r

\* A channel that is closed.
LEMMA ClosedInv ==
    ASSUME NEW m \in Memory, NEW ags, MemoryInv(m, <<>>, ags), NEW c \in Names
    PROVE  LET r == Closed(m, c)
           IN  /\ r \in Memory /\ MemoryInv(r, <<>>, ags)
               /\ r.results = m.results /\ r.queue = m.queue /\ r.status = m.status
               /\ r.channel[c] # "open"
               /\ \A d \in Names : r.channel[d] \in {m.channel[d], "closed"}
<1> DEFINE r == Closed(m, c)
<1>1. /\ r \in Memory
      /\ r.results = m.results /\ r.queue = m.queue /\ r.status = m.status
      /\ \A d \in Names :
           r.channel[d] = IF d = c /\ m.channel[d] # "none" THEN "closed" ELSE m.channel[d]
  BY DEF Closed, Memory
<1> HIDE DEF r
<1>2. MemoryInv(r, <<>>, ags)
  BY <1>1 DEF MemoryInv, Unheard, Agrees, Names
<1> QED BY <1>1, <1>2 DEF r

\* The end of a collaboration, and of its channel.
LEMMA EndedInv ==
    ASSUME NEW m \in Memory, NEW ags, MemoryInv(m, <<>>, ags),
           NEW c \in Collaborations, m.status[c] # "none", NEW s \in {"completed", "failed"}
    PROVE  LET r == Closed([m EXCEPT !.status[c] = s], c)
           IN  /\ r \in Memory /\ MemoryInv(r, <<>>, ags)
               /\ r.queue = m.queue
               /\ \A d \in Names : r.channel[d] \in {m.channel[d], "closed"}
<1> DEFINE r == Closed([m EXCEPT !.status[c] = s], c)
<1>1. /\ r \in Memory
      /\ r.results = m.results /\ r.queue = m.queue
      /\ \A d \in Collaborations : r.status[d] = IF d = c THEN s ELSE m.status[d]
      /\ \A d \in Names :
           r.channel[d] = IF d = c /\ m.channel[d] # "none" THEN "closed" ELSE m.channel[d]
  BY DEF Closed, Memory, Statuses, Names
<1> HIDE DEF r
<1>2. ags[c] # <<>>
  BY DEF MemoryInv, Unheard, Names
<1>3. \A d \in Names : ags[d] = <<>> => Unheard(r, d)
  BY <1>1, <1>2 DEF MemoryInv, Unheard
<1>4. ASSUME NEW d \in Collaborations
      PROVE  /\ r.status[d] \in {"completed", "failed"} => r.channel[d] # "open"
             /\ \A a \in ToSet(ags[d]) : Agrees(r, <<>>, d, a)
  <2>1. d \in Names
    BY DEF Names
  <2> QED BY <1>1, <2>1 DEF MemoryInv, Agrees
<1>5. MemoryInv(r, <<>>, ags)
  BY <1>3, <1>4 DEF MemoryInv
<1> QED BY <1>1, <1>5 DEF r

-----------------------------------------------------------------------------
(* The messages that are made *)

LEMMA MessageType ==
    ASSUME Inv, NEW c \in Names, NEW k \in Nat, k >= 1, RoomFor(k),
           NEW from \in Addresses, NEW to \in Addresses, NEW content \in Content,
           NEW direct \in BOOLEAN
    PROVE  MessageEntry(c, k, from, to, content, direct) \in Message
<1>1. sent + k \in 1 .. MaxMessages
  BY BoundsAssumption DEF Inv, TypeOK, RoomFor
<1> QED BY <1>1 DEF MessageEntry, Message, Content

LEMMA SaidType ==
    ASSUME NEW type \in Types
    PROVE  Said(type) \in Content /\ Said(type).type = type
BY DEF Said, Content

LEMMA ParticipantsType ==
    ASSUME Inv, NEW c \in Names, NEW list \in Seq(Agents), RoomFor(Len(list)),
           NEW from \in Addresses, NEW content \in Content, NEW direct \in BOOLEAN
    PROVE  LET messages == ToParticipants(c, list, from, content, direct)
           IN  /\ messages \in Seq(Message) /\ Len(messages) <= Len(list)
               /\ \A k \in DOMAIN messages : /\ messages[k].channel = c
                                             /\ messages[k].type = content.type
                                             /\ messages[k].direct = direct
                                             /\ messages[k].file = "messages"
<1> DEFINE S == {k \in DOMAIN list : list[k] # from}
           to == InOrder(S)
           messages == ToParticipants(c, list, from, content, direct)
<1>1. Len(list) \in Nat /\ S \in SUBSET (1 .. Len(list)) /\ DOMAIN list = 1 .. Len(list)
  OBVIOUS
<1>2. to \in Seq(S) /\ Len(to) <= Len(list)
  BY <1>1, InOrderType
<1>3. DOMAIN to = 1 .. Len(to) /\ Len(to) \in Nat
  BY <1>2
<1>4. messages = [k \in DOMAIN to |-> MessageEntry(c, k, from, list[to[k]], content, direct)]
  BY DEF ToParticipants
<1>5. \A k \in DOMAIN to : list[to[k]] \in Addresses
  <2>1. \A k \in DOMAIN to : to[k] \in DOMAIN list
    BY <1>2, ElementOfSeq
  <2> QED BY <2>1 DEF Addresses
<1> HIDE DEF S, to, messages
<1>6. ASSUME NEW k \in DOMAIN to PROVE messages[k] \in Message
  <2>1. k \in Nat /\ k >= 1 /\ RoomFor(k)
    <3>1. k \in 1 .. Len(to)
      BY <1>3
    <3>2. sent \in Nat /\ MaxMessages \in Nat
      BY BoundsAssumption DEF Inv, TypeOK
    <3> QED BY <1>1, <1>2, <1>3, <3>1, <3>2 DEF RoomFor
  <2> QED BY <1>4, <1>5, <2>1, MessageType
<1>7. messages \in Seq(Message) /\ Len(messages) = Len(to)
  <2>1. messages \in [1 .. Len(to) -> Message]
    BY <1>3, <1>4, <1>6
  <2> QED BY <1>3, <2>1, SeqDef, LenProperties
<1>8. \A k \in DOMAIN messages :
        /\ messages[k].channel = c /\ messages[k].type = content.type
        /\ messages[k].direct = direct /\ messages[k].file = "messages"
  BY <1>4 DEF MessageEntry
<1> QED BY <1>2, <1>7, <1>8 DEF messages

-----------------------------------------------------------------------------
(* The steps *)

LEMMA FilesKept ==
    ASSUME NEW fs, NEW ags \in Lists, FilesInv(fs, ags), NEW c \in Names,
           NEW list \in AgentLists
    PROVE  FilesInv(fs, [ags EXCEPT ![c] = list])
<1>1. list # <<>>
  BY AgentListsAssumption
<1>2. \A d : [ags EXCEPT ![c] = list][d] = <<>> => ags[d] = <<>>
  BY <1>1 DEF Lists
<1> QED BY <1>2, Zenon DEF FilesInv

\* A process that only changes its memory.
LEMMA MemoryOnly ==
    ASSUME Inv, NEW p \in Processes, NEW m \in Memory \cup {None},
           memory' = [memory EXCEPT ![p] = m], todo' = [todo EXCEPT ![p] = <<>>],
           ProcessInv(m, <<>>, agents), UNCHANGED <<files, agents, sent, failures, logged>>
    PROVE  Inv'
<1>1. TypeOK'
  <2>1. memory' \in [Processes -> Memory \cup {None}]
    BY DEF Inv, TypeOK
  <2>2. todo' \in [Processes -> Seq(Entry)]
    <3>1. <<>> \in Seq(Entry)
      OBVIOUS
    <3> QED BY <3>1 DEF Inv, TypeOK
  <2> QED BY <2>1, <2>2 DEF Inv, TypeOK
<1>2. ASSUME NEW r \in Processes PROVE ProcessInv(memory[r], todo[r], agents)'
  <2>1. memory'[r] = (IF r = p THEN m ELSE memory[r]) /\ todo'[r] = IF r = p THEN <<>> ELSE todo[r]
    BY DEF Inv, TypeOK
  <2> QED BY <2>1 DEF Inv
<1>3. FilesInv(files, agents)' /\ LossInv'
  BY DEF Inv, LossInv, Kept, Loose
<1> QED BY <1>1, <1>2, <1>3 DEF Inv

\* A process that has entries to make.
LEMMA RecordInv ==
    ASSUME Inv, NEW p \in Processes, Ready(p), NEW m \in Memory,
           NEW entries \in Seq(Entry), NEW messages \in Seq(Message), RoomFor(Len(messages)),
           Record(p, m, entries, messages), MemoryInv(m, entries \o messages, agents'),
           \/ UNCHANGED agents
           \/ \E c \in Names, list \in AgentLists :
                agents[c] = <<>> /\ agents' = [agents EXCEPT ![c] = list]
    PROVE  Inv'
<1> DEFINE q == entries \o messages
<1>1. q \in Seq(Entry)
  <2>1. Message \subseteq Entry
    BY DEF Entry
  <2>2. messages \in Seq(Entry)
    BY <2>1
  <2> QED BY <2>2, ConcatProperties
<1>2. agents' \in Lists
  BY DEF Inv, TypeOK, Lists
<1>3. sent' \in 0 .. MaxMessages
  <2>1. Len(messages) \in Nat
    OBVIOUS
  <2> QED BY <2>1, BoundsAssumption DEF Record, RoomFor, Inv, TypeOK
<1> HIDE DEF q
<1>4. TypeOK'
  BY <1>1, <1>2, <1>3 DEF Inv, TypeOK, Record, Lists, q
<1>5. ASSUME NEW r \in Processes PROVE ProcessInv(memory[r], todo[r], agents)'
  <2>1. memory'[r] = (IF r = p THEN m ELSE memory[r]) /\ todo'[r] = IF r = p THEN q ELSE todo[r]
    BY DEF Inv, TypeOK, Record, q
  <2>2. CASE r = p
    BY <2>1, <2>2, NoMemoryAssumption DEF ProcessInv, q
  <2>3. CASE r # p /\ UNCHANGED agents
    BY <2>1, <2>3 DEF Inv
  <2>4. ASSUME NEW c \in Names, NEW list \in AgentLists, r # p, agents[c] = <<>>,
               agents' = [agents EXCEPT ![c] = list]
        PROVE  ProcessInv(memory[r], todo[r], agents)'
    <3>1. CASE memory[r] = None
      BY <2>1, <2>4, <3>1 DEF Inv, ProcessInv
    <3>2. CASE memory[r] # None
      <4>1. memory[r] \in Memory /\ agents \in Lists /\ MemoryInv(memory[r], todo[r], agents)
        BY <3>2 DEF Inv, TypeOK, ProcessInv, Lists
      <4>2. \A k \in DOMAIN todo[r] : todo[r][k].channel \in Names
        BY EntryKinds, ElementOfSeq DEF Inv, TypeOK
      <4>3. MemoryInv(memory[r], todo[r], agents')
        BY <2>4, <4>1, <4>2, CreatedInv
      <4> QED BY <2>1, <2>4, <3>2, <4>3 DEF ProcessInv
    <3> QED BY <3>1, <3>2
  <2> QED BY <2>2, <2>3, <2>4
<1>6. FilesInv(files, agents)'
  BY FilesKept DEF Inv, TypeOK, Lists, Record
<1>7. LossInv'
  BY DEF Inv, LossInv, Kept, Loose, Record
<1> QED BY <1>4, <1>5, <1>6, <1>7 DEF Inv

\* What a process between two operations knows.
LEMMA ReadyFacts ==
    ASSUME Inv, NEW p \in Processes, Ready(p)
    PROVE  /\ memory[p] \in Memory /\ todo[p] = <<>> /\ agents \in Lists
           /\ MemoryInv(memory[p], <<>>, agents)
BY DEF Inv, TypeOK, ProcessInv, Ready, Alive, Lists

LEMMA NothingBefore ==
    ASSUME NEW messages \in Seq(Message)
    PROVE  <<>> \o messages = messages /\ <<>> \in Seq(Entry)
BY ConcatProperties

\* Messages other than a result submitted, on a channel that has been created.
LEMMA SaidInv ==
    ASSUME Inv, NEW p \in Processes, Ready(p), NEW m \in Memory, MemoryInv(m, <<>>, agents),
           NEW c \in Names, NEW messages \in Seq(Message), RoomFor(Len(messages)),
           \A k \in DOMAIN messages :
             /\ messages[k].channel = c /\ agents[c] # <<>> /\ ~Shut(m, c)
             /\ messages[k].type # "result_delivery" \/ messages[k].direct
             /\ messages[k].file = "messages",
           Record(p, m, <<>>, messages), UNCHANGED agents
    PROVE  Inv'
<1>1. \A k \in DOMAIN messages : EntryInv(m, messages[k], k) /\ agents[messages[k].channel] # <<>>
  BY DEF EntryInv, Delivers
<1>2. MemoryInv(m, messages, agents)
  BY <1>1, TodoInv
<1>3. MemoryInv(m, <<>> \o messages, agents') /\ <<>> \in Seq(Entry)
  BY <1>2, NothingBefore
<1> QED BY <1>3, RecordInv

\* What is open is not shut.
LEMMA OpenNotShut ==
    ASSUME NEW m \in Memory, NEW q, NEW ags, MemoryInv(m, q, ags), NEW c \in Names,
           m.channel[c] = "open"
    PROVE  ~Shut(m, c) /\ ags[c] # <<>>
BY DEF MemoryInv, Shut, Unheard

\* A broadcast on a channel, in any state of it.
LEMMA BroadcastInv ==
    ASSUME Inv, NEW p \in Processes, Ready(p), NEW m \in Memory, MemoryInv(m, <<>>, agents),
           m.channel = memory[p].channel,
           NEW c \in Names, RoomFor(Len(agents[c])), NEW from \in Addresses,
           NEW content \in Content, NEW direct \in BOOLEAN,
           content.type # "result_delivery" \/ direct,
           Record(p, m, <<>>, Broadcast(memory[p], c, from, content, direct)), UNCHANGED agents
    PROVE  Inv'
<1> DEFINE messages == Broadcast(memory[p], c, from, content, direct)
<1>1. agents[c] \in Seq(Agents)
  BY ReadyFacts, MemberOfList
<1>2. /\ messages \in Seq(Message) /\ Len(messages) <= Len(agents[c])
      /\ \A k \in DOMAIN messages :
           /\ messages[k].channel = c /\ messages[k].type = content.type
           /\ messages[k].direct = direct /\ messages[k].file = "messages"
           /\ memory[p].channel[c] = "open"
  <2>1. CASE memory[p].channel[c] = "open"
    BY <1>1, <2>1, ParticipantsType DEF Broadcast
  <2>2. CASE memory[p].channel[c] # "open"
    <3>1. messages = <<>>
      BY <2>2 DEF Broadcast
    <3> HIDE DEF messages
    <3> QED BY <1>1, <3>1
  <2> QED BY <2>1, <2>2
<1> HIDE DEF messages
<1>3. Len(messages) \in Nat /\ Len(agents[c]) \in Nat
  BY <1>1, <1>2
<1>4. RoomFor(Len(messages))
  BY <1>2, <1>3, BoundsAssumption DEF RoomFor, Inv, TypeOK
<1>5. \A k \in DOMAIN messages : agents[c] # <<>> /\ ~Shut(m, c)
  BY <1>2, OpenNotShut
<1> QED BY <1>2, <1>4, <1>5, SaidInv DEF messages

-----------------------------------------------------------------------------
(* The operations *)

LEMMA OpenInv == ASSUME Inv, NEW p \in Processes, Open(p) PROVE Inv'
<1> USE DEF FileNames
<1>1. todo[p] = <<>> /\ todo' = [todo EXCEPT ![p] = <<>>]
  <2>1. todo[p] = <<>> /\ todo' = todo
    BY DEF Open, Alive, Inv, ProcessInv
  <2> QED BY <2>1 DEF Inv, TypeOK
<1>2. ASSUME NEW f \in FileNames
      PROVE  /\ files[f] \in Seq(Lines)
             /\ \A e \in Found(files[f]) : e.file = f /\ agents[e.channel] # <<>>
  BY DEF Inv, TypeOK, Lines, FilesInv
<1>3. ASSUME NEW c \in Names PROVE QueueOf(c) \in Seq(Message)
  <2> DEFINE file == files.messages
             S == {k \in Parsed(file) : Head(file[k].entries).channel = c}
  <2>1. file \in Seq(Lines) /\ \A e \in Found(file) : e.file = "messages"
    BY <1>2
  <2> HIDE DEF file
  <2>2. \A k \in Parsed(file) : Head(file[k].entries) \in Message
    <3>1. \A k \in Parsed(file) : Head(file[k].entries) \in Entry /\ Head(file[k].entries) \in Found(file)
      BY <2>1, FoundType DEF Found
    <3> QED BY <2>1, <3>1, EntryKinds
  <2>3. S \in SUBSET DOMAIN file /\ \A k \in S : Head(file[k].entries) \in Message
    BY <2>2 DEF Parsed
  <2> HIDE DEF S
  <2>4. EntriesAt(file, S) \in Seq(Message)
    BY <2>1, <2>3, EntriesAtType
  <2> QED BY <2>4 DEF QueueOf, S, file
<1> DEFINE m == Recalled
           Has(f, c) == \E e \in Found(files[f]) : e.channel = c
           opened == [c \in Names |-> IF Has("channels", c) THEN "open" ELSE "none"]
           queues == [c \in Names |-> QueueOf(c)]
           active == [c \in Collaborations |-> IF Has("tasks", c) THEN "active" ELSE "none"]
           nothing == [c \in Collaborations |-> [a \in Agents |-> None]]
<1>a. m = [channel |-> opened, queue |-> queues, status |-> active, results |-> nothing]
  BY Zenon DEF Recalled
<1>b. /\ opened \in [Names -> {"none", "open", "closed"}]
      /\ active \in [Collaborations -> Statuses]
  BY DEF Statuses
<1>c. queues \in [Names -> Seq(Message)]
  BY <1>3
<1>d. /\ \A c \in Collaborations : active[c] # "none" => active[c] = "active" /\ Has("tasks", c)
      /\ \A c \in Names : opened[c] # "none" => Has("channels", c)
  OBVIOUS
<1> HIDE DEF m, opened, queues, active
<1>4. /\ m.channel \in [Names -> {"none", "open", "closed"}]
      /\ m.queue \in [Names -> Seq(Message)]
      /\ m.status \in [Collaborations -> Statuses]
      /\ m.results = [c \in Collaborations |-> [a \in Agents |-> None]]
      /\ m = [channel |-> m.channel, queue |-> m.queue, status |-> m.status, results |-> m.results]
  BY <1>a, <1>b, <1>c
<1>5. /\ \A c \in Collaborations : m.status[c] # "none" =>
           m.status[c] = "active" /\ \E e \in Found(files["tasks"]) : e.channel = c
      /\ \A c \in Names : m.channel[c] # "none" =>
           \E e \in Found(files["channels"]) : e.channel = c
  BY <1>a, <1>d
<1>6. m \in Memory
  BY <1>4 DEF Memory
<1>7. \A c \in Names : agents[c] = <<>> =>
        m.channel[c] = "none" /\ (c \in Collaborations => m.status[c] = "none")
  BY <1>2, <1>5
<1>8. MemoryInv(m, <<>>, agents)
  <2>1. ASSUME NEW c \in Collaborations
        PROVE  /\ m.status[c] \in {"completed", "failed"} => m.channel[c] # "open"
               /\ \A a \in ToSet(agents[c]) : Agrees(m, <<>>, c, a)
    <3>1. \A a \in ToSet(agents[c]) : a \in Agents
      BY MemberOfList DEF Inv, TypeOK, Lists, Names
    <3> QED BY <1>4, <1>5, <3>1 DEF Agrees
  <2>2. \A c \in Names : agents[c] = <<>> => Unheard(m, c)
    BY <1>4, <1>7 DEF Unheard
  <2> QED BY <2>1, <2>2 DEF MemoryInv
<1>9. ProcessInv(m, <<>>, agents)
  BY <1>6, <1>8, NoMemoryAssumption DEF ProcessInv
<1>10. memory' = [memory EXCEPT ![p] = m] /\ UNCHANGED <<files, agents, sent, failures, logged>>
  BY DEF Open, m
<1> QED BY <1>1, <1>6, <1>9, <1>10, MemoryOnly

LEMMA ExitInv == ASSUME Inv, NEW p \in Processes, Exit(p) PROVE Inv'
<1>1. ProcessInv(None, <<>>, agents)
  BY DEF ProcessInv
<1> QED BY <1>1, MemoryOnly DEF Exit

LEMMA ReadyOnly ==
    ASSUME Inv, NEW p \in Processes, Ready(p), NEW m \in Memory, MemoryInv(m, <<>>, agents),
           memory' = [memory EXCEPT ![p] = m],
           UNCHANGED <<files, todo, agents, sent, failures, logged>>
    PROVE  Inv'
<1>1. todo' = [todo EXCEPT ![p] = <<>>]
  BY ReadyFacts DEF Inv, TypeOK
<1>2. ProcessInv(m, <<>>, agents)
  BY NoMemoryAssumption DEF ProcessInv
<1> QED BY <1>1, <1>2, MemoryOnly

LEMMA CloseChannelInv ==
    ASSUME Inv, NEW p \in Processes, NEW c \in Names, CloseChannel(p, c)
    PROVE  Inv'
<1>1. Ready(p) /\ memory[p] \in Memory /\ MemoryInv(memory[p], <<>>, agents)
  BY ReadyFacts DEF CloseChannel
<1>2. Closed(memory[p], c) \in Memory /\ MemoryInv(Closed(memory[p], c), <<>>, agents)
  BY <1>1, ClosedInv
<1>3. memory' = [memory EXCEPT ![p] = Closed(memory[p], c)]
      /\ UNCHANGED <<files, todo, agents, sent, failures, logged>>
  BY DEF CloseChannel
<1> QED BY <1>1, <1>2, <1>3, ReadyOnly

LEMMA EndInv ==
    ASSUME Inv, NEW p \in Processes, NEW c \in Collaborations,
           NEW status \in {"completed", "failed"}, End(p, c, status)
    PROVE  Inv'
<1> DEFINE m == Closed([memory[p] EXCEPT !.status[c] = status], c)
<1>1. Ready(p) /\ memory[p] \in Memory /\ MemoryInv(memory[p], <<>>, agents)
      /\ memory[p].status[c] # "none"
  BY ReadyFacts DEF End, Knows
<1>2. m \in Memory /\ MemoryInv(m, <<>>, agents)
  BY <1>1, EndedInv
<1>3. memory' = [memory EXCEPT ![p] = m]
      /\ UNCHANGED <<files, todo, agents, sent, failures, logged>>
  BY DEF End
<1> HIDE DEF m
<1> QED BY <1>1, <1>2, <1>3, ReadyOnly

LEMMA SendMessageInv ==
    ASSUME Inv, NEW p \in Processes, NEW c \in Names, NEW a \in Agents,
           NEW content \in Contents, SendMessage(p, c, a, content)
    PROVE  Inv'
<1> DEFINE messages == Send(memory[p], c, a, "*", content, TRUE)
           e == MessageEntry(c, 1, a, "*", content, TRUE)
<1>1. /\ Ready(p) /\ RoomFor(1) /\ UNCHANGED agents
      /\ Record(p, memory[p], <<>>, messages)
  BY DEF SendMessage
<1>2. memory[p] \in Memory /\ MemoryInv(memory[p], <<>>, agents)
  BY <1>1, ReadyFacts
<1>3. e \in Message
  <2>1. a \in Addresses /\ "*" \in Addresses /\ content \in Content
    BY ContentsAssumption DEF Addresses
  <2>2. \A direct \in BOOLEAN : MessageEntry(c, 1, a, "*", content, direct) \in Message
    BY <1>1, <2>1, MessageType
  <2> QED BY <2>2
<1>4. e.channel = c /\ e.direct /\ e.file = "messages"
  BY DEF MessageEntry
<1> HIDE DEF e
<1>5. CASE memory[p].channel[c] = "open" /\ a \in ToSet(agents[c])
  <2>1. messages = <<e>>
    BY <1>5 DEF Send, e
  <2> HIDE DEF messages
  <2>2. messages \in Seq(Message) /\ Len(messages) = 1 /\ \A k \in DOMAIN messages : messages[k] = e
    BY <1>3, <2>1
  <2>3. agents[c] # <<>> /\ ~Shut(memory[p], c)
    BY <1>2, <1>5, OpenNotShut
  <2> QED BY <1>1, <1>2, <1>4, <2>2, <2>3, SaidInv
<1>6. CASE ~(memory[p].channel[c] = "open" /\ a \in ToSet(agents[c]))
  <2>1. messages = <<>>
    BY <1>6 DEF Send
  <2> HIDE DEF messages
  <2>2. messages \in Seq(Message) /\ Len(messages) = 0 /\ \A k \in DOMAIN messages : FALSE
    BY <2>1
  <2>3. RoomFor(0)
    BY BoundsAssumption DEF RoomFor, Inv, TypeOK
  <2> QED BY <1>1, <1>2, <2>2, <2>3, SaidInv
<1> QED BY <1>5, <1>6

LEMMA BroadcastMessageInv ==
    ASSUME Inv, NEW p \in Processes, NEW c \in Names, NEW a \in Agents,
           NEW content \in Contents, BroadcastMessage(p, c, a, content)
    PROVE  Inv'
<1>1. a \in Addresses /\ content \in Content
  BY ContentsAssumption DEF Addresses
<1>2. Ready(p) /\ memory[p] \in Memory /\ MemoryInv(memory[p], <<>>, agents)
  BY ReadyFacts DEF BroadcastMessage
<1>3. /\ RoomFor(Len(agents[c])) /\ UNCHANGED agents
      /\ Record(p, memory[p], <<>>, Broadcast(memory[p], c, a, content, TRUE))
  BY DEF BroadcastMessage
<1> QED BY <1>1, <1>2, <1>3, BroadcastInv

\* report_conflict and resolve_conflict.
LEMMA ConflictInv ==
    ASSUME Inv, NEW p \in Processes, NEW c \in Collaborations,
           ReportConflict(p, c) \/ ResolveConflict(p, c)
    PROVE  Inv'
<1>1. PICK s \in {"active", "conflict"}, type \in {"conflict_report", "sync_response"} :
        /\ RoomFor(Len(agents[c])) /\ UNCHANGED agents
        /\ Record(p, [memory[p] EXCEPT !.status[c] = s], <<>>,
                  Broadcast(memory[p], c, "coordinator", Said(type), FALSE))
  BY DEF ReportConflict, ResolveConflict
<1>2. Ready(p) /\ memory[p].status[c] # "none"
  BY DEF ReportConflict, ResolveConflict, Knows
<1>3. memory[p] \in Memory /\ MemoryInv(memory[p], <<>>, agents)
  BY <1>2, ReadyFacts
<1>4. /\ [memory[p] EXCEPT !.status[c] = s] \in Memory
      /\ MemoryInv([memory[p] EXCEPT !.status[c] = s], <<>>, agents)
  BY <1>2, <1>3, StatusInv
<1>5. /\ "coordinator" \in Addresses /\ c \in Names
      /\ Said(type) \in Content /\ Said(type).type # "result_delivery"
  BY SaidType DEF Addresses, Types, Names
<1>6. [memory[p] EXCEPT !.status[c] = s].channel = memory[p].channel
  BY <1>3 DEF Memory
<1> QED BY <1>1, <1>2, <1>4, <1>5, <1>6, BroadcastInv

\* The entries that create a collaboration, or a channel of its own.
LEMMA CreationInv ==
    ASSUME Inv, NEW p \in Processes, Ready(p), NEW c \in Names, NEW list \in AgentLists,
           Unheard(memory[p], c),
           agents[c] \in {<<>>, list}, agents' = [agents EXCEPT ![c] = list],
           NEW entries,
           \/ entries = <<ChannelEntry(c)>>
           \/ c \in Collaborations /\ entries = <<ChannelEntry(c), TaskEntry(c)>>,
           NEW messages \in Seq(Message), RoomFor(Len(messages)),
           \A k \in DOMAIN messages : /\ messages[k].channel = c /\ messages[k].file = "messages"
                                      /\ messages[k].type # "result_delivery",
           Record(p, memory[p], entries, messages)
    PROVE  Inv'
<1> DEFINE m == memory[p]
           q == entries \o messages
           ags == [agents EXCEPT ![c] = list]
<1>1. m \in Memory /\ MemoryInv(m, <<>>, agents) /\ agents \in Lists
  BY ReadyFacts
<1>a. agents[c] # <<>> => ags = agents
  BY <1>1 DEF Lists
<1>2. MemoryInv(m, <<>>, ags)
  <2>1. \A k \in DOMAIN <<>> : <<>>[k].channel \in Names
    OBVIOUS
  <2>2. CASE agents[c] = <<>>
    BY <1>1, <2>1, <2>2, CreatedInv
  <2> QED BY <1>1, <1>a, <2>2
<1>3. ags[c] # <<>>
  BY <1>1, AgentListsAssumption DEF Lists
<1>4. Unheard(m, c) /\ ~Shut(m, c)
  BY DEF Unheard, Shut
<1>5. /\ ChannelEntry(c) \in Entry /\ (c \in Collaborations => TaskEntry(c) \in Entry)
      /\ ChannelEntry(c).file = "channels" /\ ChannelEntry(c).channel = c
      /\ TaskEntry(c).file = "tasks" /\ TaskEntry(c).channel = c
  BY DEF ChannelEntry, TaskEntry, Entry
<1>6. /\ entries \in Seq(Entry)
      /\ \A k \in DOMAIN entries : /\ entries[k].channel = c
                                   /\ entries[k].file = "channels" => k = 1
                                   /\ entries[k].file # "messages"
  <2>1. CASE entries = <<ChannelEntry(c)>>
    <3>1. entries \in Seq(Entry) /\ Len(entries) = 1 /\ entries[1] = ChannelEntry(c)
      BY <1>5, <2>1
    <3> QED BY <1>5, <3>1
  <2>2. CASE c \in Collaborations /\ entries = <<ChannelEntry(c), TaskEntry(c)>>
    <3>1. /\ entries \in Seq(Entry) /\ Len(entries) = 2
          /\ entries[1] = ChannelEntry(c) /\ entries[2] = TaskEntry(c)
      BY <1>5, <2>2
    <3> QED BY <1>5, <3>1
  <2> QED BY <2>1, <2>2
<1>7. \A k \in DOMAIN q : /\ q[k].channel = c
                          /\ q[k].file = "channels" => k = 1
                          /\ q[k].file = "messages" => q[k].type # "result_delivery"
  <2>1. /\ Len(entries) \in Nat /\ Len(messages) \in Nat
        /\ DOMAIN entries = 1 .. Len(entries) /\ DOMAIN messages = 1 .. Len(messages)
    BY <1>6
  <2>2. /\ DOMAIN q = 1 .. Len(entries) + Len(messages)
        /\ \A k \in DOMAIN q : q[k] = IF k <= Len(entries) THEN entries[k]
                                      ELSE messages[k - Len(entries)]
    <3>1. Message \subseteq Entry
      BY DEF Entry
    <3>2. messages \in Seq(Entry)
      BY <3>1
    <3> QED BY <1>6, <2>1, <3>2, ConcatProperties
  <2> HIDE DEF q
  <2>3. ASSUME NEW k \in DOMAIN q
        PROVE  /\ q[k].channel = c
               /\ q[k].file = "channels" => k = 1
               /\ q[k].file = "messages" => q[k].type # "result_delivery"
    <3>1. CASE k <= Len(entries)
      BY <1>6, <2>1, <2>2, <3>1
    <3>2. CASE ~(k <= Len(entries))
      <4>1. k - Len(entries) \in DOMAIN messages
        BY <2>1, <2>2, <3>2
      <4> QED BY <2>2, <3>2, <4>1
    <3> QED BY <3>1, <3>2
  <2> QED BY <2>3
<1> HIDE DEF q, ags
<1>8. \A k \in DOMAIN q : EntryInv(m, q[k], k) /\ ags[q[k].channel] # <<>>
  BY <1>3, <1>4, <1>7 DEF EntryInv, Delivers
<1>9. MemoryInv(m, q, ags)
  BY <1>2, <1>8, TodoInv
<1>10. \/ UNCHANGED agents
       \/ agents[c] = <<>> /\ agents' = [agents EXCEPT ![c] = list]
  BY <1>a DEF ags
<1> QED BY <1>1, <1>6, <1>9, <1>10, RecordInv DEF q, ags

LEMMA CreateChannelInv ==
    ASSUME Inv, NEW p \in Processes, NEW c \in Channels, NEW list \in AgentLists,
           CreateChannel(p, c, list)
    PROVE  Inv'
<1>1. /\ <<>> \in Seq(Message) /\ Len(<<>>) = 0 /\ \A k \in DOMAIN <<>> : FALSE
  OBVIOUS
<1>2. RoomFor(Len(<<>>))
  BY <1>1, BoundsAssumption DEF RoomFor, Inv, TypeOK
<1>3. /\ Ready(p) /\ agents[c] \in {<<>>, list} /\ agents' = [agents EXCEPT ![c] = list]
      /\ Record(p, memory[p], <<ChannelEntry(c)>>, <<>>)
  BY DEF CreateChannel
<1>4. Unheard(memory[p], c) /\ c \in Names
  BY NamesAssumption DEF CreateChannel, Unheard, Names
<1> QED BY <1>1, <1>2, <1>3, <1>4, CreationInv

LEMMA CreateCollaborationInv ==
    ASSUME Inv, NEW p \in Processes, NEW c \in Collaborations, NEW list \in AgentLists,
           CreateCollaboration(p, c, list)
    PROVE  Inv'
<1> DEFINE messages == ToParticipants(c, list, "coordinator", Said("task_assignment"), FALSE)
           entries == <<ChannelEntry(c), TaskEntry(c)>>
<1>1. /\ Ready(p) /\ RoomFor(Len(list)) /\ agents[c] = <<>>
      /\ agents' = [agents EXCEPT ![c] = list] /\ Record(p, memory[p], entries, messages)
  BY DEF CreateCollaboration
<1>2. /\ list \in Seq(Agents) /\ "coordinator" \in Addresses /\ c \in Names
      /\ Said("task_assignment") \in Content /\ Said("task_assignment").type = "task_assignment"
  BY AgentListsAssumption, SaidType DEF Addresses, Types, Names
<1>3. /\ messages \in Seq(Message) /\ Len(messages) <= Len(list)
      /\ \A k \in DOMAIN messages : /\ messages[k].channel = c /\ messages[k].file = "messages"
                                    /\ messages[k].type = "task_assignment"
  <2> DEFINE content == Said("task_assignment")
  <2>1. content \in Content /\ content.type = "task_assignment"
    BY <1>2
  <2> HIDE DEF content
  <2>2. \A direct \in BOOLEAN :
          LET made == ToParticipants(c, list, "coordinator", content, direct)
          IN  /\ made \in Seq(Message) /\ Len(made) <= Len(list)
              /\ \A k \in DOMAIN made : /\ made[k].channel = c /\ made[k].file = "messages"
                                        /\ made[k].type = "task_assignment"
    BY <1>1, <1>2, <2>1, ParticipantsType
  <2> QED BY <2>2 DEF content
<1> HIDE DEF messages
<1>4. RoomFor(Len(messages))
  <2>1. Len(messages) \in Nat /\ Len(list) \in Nat
    BY <1>2, <1>3
  <2> QED BY <1>1, <1>3, <2>1, BoundsAssumption DEF RoomFor, Inv, TypeOK
<1>5. entries = <<ChannelEntry(c), TaskEntry(c)>>
  OBVIOUS
<1>6. Unheard(memory[p], c)
  BY <1>1, <1>2, ReadyFacts DEF MemoryInv
<1> HIDE DEF entries
<1> QED BY <1>1, <1>2, <1>3, <1>4, <1>5, <1>6, CreationInv

\* The result is held, and its delivery, if the agent may send on the channel, is
\* the only entry to be made.
LEMMA SubmitResultInv ==
    ASSUME Inv, NEW p \in Processes, NEW c \in Collaborations, NEW a \in Agents,
           NEW result \in Results, SubmitResult(p, c, a, result)
    PROVE  Inv'
<1> DEFINE m == memory[p]
           r == Stored(m, c, a, result)
           content == [type |-> "result_delivery", payload |-> result]
           messages == Send(m, c, a, "coordinator", content, FALSE)
           e == MessageEntry(c, 1, a, "coordinator", content, FALSE)
<1>1. /\ Ready(p) /\ RoomFor(1) /\ UNCHANGED agents /\ m.status[c] # "none"
      /\ Record(p, r, <<>>, messages)
  BY DEF SubmitResult, Knows
<1>2. m \in Memory /\ MemoryInv(m, <<>>, agents) /\ agents \in Lists
  BY <1>1, ReadyFacts
<1> HIDE DEF m
<1>3. agents[c] # <<>> /\ c \in Names
  BY <1>1, <1>2 DEF MemoryInv, Unheard, Names
<1>4. /\ r \in Memory
      /\ r.channel = m.channel /\ r.status = m.status /\ r.queue = m.queue
      /\ \A d \in Collaborations, b \in Agents :
           r.results[d][b] = IF d = c /\ b = a THEN result ELSE m.results[d][b]
  BY <1>2 DEF Stored, Memory
<1>5. e \in Message
  <2>1. a \in Addresses /\ "coordinator" \in Addresses /\ content \in Content
    BY DEF Addresses, Types, Content
  <2>2. \A direct \in BOOLEAN :
          MessageEntry(c, 1, a, "coordinator", content, direct) \in Message
    <3> HIDE DEF content
    <3> QED BY <1>1, <1>3, <2>1, MessageType
  <2> QED BY <2>2
<1>6. /\ e.channel = c /\ e.type = "result_delivery" /\ e.file = "messages" /\ e.from = a
      /\ e.payload = result /\ ~e.direct
  BY DEF MessageEntry
<1>7. /\ messages \in Seq(Message) /\ Len(messages) \in 0 .. 1
      /\ \A k \in DOMAIN messages : messages[k] = e /\ m.channel[c] = "open"
      /\ m.channel[c] = "open" /\ a \in ToSet(agents[c]) => messages # <<>> /\ messages[1] = e
  <2>1. (messages = <<e>> /\ m.channel[c] = "open") \/ messages = <<>>
    BY DEF Send
  <2>2. m.channel[c] = "open" /\ a \in ToSet(agents[c]) => messages = <<e>>
    BY DEF Send
  <2> HIDE DEF messages, e
  <2>3. CASE messages = <<e>> /\ m.channel[c] = "open"
    <3>1. messages \in Seq(Message) /\ Len(messages) = 1 /\ messages # <<>> /\ messages[1] = e
      BY <1>5, <2>3
    <3>2. \A k \in DOMAIN messages : messages[k] = e
      BY <3>1
    <3> QED BY <2>3, <3>1, <3>2
  <2>4. CASE messages = <<>>
    <3>1. messages \in Seq(Message) /\ Len(messages) = 0 /\ \A k \in DOMAIN messages : FALSE
      BY <2>4
    <3>2. <<>> # <<e>>
      OBVIOUS
    <3> QED BY <2>2, <2>4, <3>1, <3>2
  <2> QED BY <2>1, <2>3, <2>4
<1> HIDE DEF e, messages, r
<1>8. RoomFor(Len(messages))
  BY <1>1, <1>7, BoundsAssumption DEF RoomFor, Inv, TypeOK
<1>9. ASSUME NEW k \in DOMAIN messages
      PROVE  EntryInv(r, messages[k], k) /\ agents[messages[k].channel] # <<>>
  <2>1. ~Shut(r, c)
    <3>1. ~Shut(m, c)
      BY <1>2, <1>3, <1>7, OpenNotShut
    <3> QED BY <1>4, <3>1 DEF Shut
  <2> QED BY <1>3, <1>4, <1>6, <1>7, <2>1 DEF EntryInv, Delivers
<1>10. ASSUME NEW d \in Collaborations
       PROVE  /\ r.status[d] \in {"completed", "failed"} => r.channel[d] # "open"
              /\ \A b \in ToSet(agents[d]) : Agrees(r, messages, d, b)
  <2>2. r.status[d] \in {"completed", "failed"} => r.channel[d] # "open"
    BY <1>2, <1>4 DEF MemoryInv
  <2>3. ASSUME NEW b \in ToSet(agents[d]) PROVE Agrees(r, messages, d, b)
    <3>1. b \in Agents /\ Agrees(m, <<>>, d, b)
      BY <1>2, MemberOfList DEF MemoryInv, Names
    <3>2. CASE d = c /\ b = a
      BY <1>4, <1>6, <1>7, <3>2 DEF Agrees, Delivers
    <3>3. CASE ~(d = c /\ b = a)
      BY <1>4, <3>1, <3>3 DEF Agrees
    <3> QED BY <3>2, <3>3
  <2> QED BY <2>2, <2>3
<1>11. MemoryInv(r, messages, agents)
  <2>1. \A d \in Names : agents[d] = <<>> => Unheard(r, d)
    BY <1>2, <1>3, <1>4 DEF MemoryInv, Unheard
  <2> QED BY <1>9, <1>10, <2>1 DEF MemoryInv
<1>12. MemoryInv(r, <<>> \o messages, agents') /\ <<>> \in Seq(Entry)
  BY <1>1, <1>7, <1>11, NothingBefore
<1> QED BY <1>1, <1>4, <1>7, <1>8, <1>12, RecordInv

-----------------------------------------------------------------------------
(* A line that is written *)

LEMMA LooseFinite ==
    /\ IsFiniteSet(FileNames)
    /\ \A S \in SUBSET FileNames : IsFiniteSet(S) /\ Cardinality(S) \in Nat
<1>1. IsFiniteSet({"channels"}) /\ IsFiniteSet({"messages"}) /\ IsFiniteSet({"tasks"})
  BY FS_Singleton
<1>2. FileNames = {"channels"} \cup ({"messages"} \cup {"tasks"})
  BY DEF FileNames
<1>3. IsFiniteSet(FileNames)
  BY <1>1, <1>2, FS_Union
<1> QED BY <1>3, FS_Subset, FS_CardinalityType

\* One more element at most.
LEMMA OneMore ==
    ASSUME NEW S, NEW T, NEW x, IsFiniteSet(S), T \subseteq S \cup {x}
    PROVE  IsFiniteSet(T) /\ Cardinality(T) <= Cardinality(S) + 1
<1>1. IsFiniteSet(S \cup {x}) /\ Cardinality(S \cup {x}) <= Cardinality(S) + 1
  <2>1. Cardinality(S) \in Nat
    BY FS_CardinalityType
  <2>2. /\ IsFiniteSet(S \cup {x})
        /\ Cardinality(S \cup {x}) = IF x \in S THEN Cardinality(S) ELSE Cardinality(S) + 1
    BY FS_AddElement
  <2> QED BY <2>1, <2>2
<1>2. IsFiniteSet(T) /\ Cardinality(T) <= Cardinality(S \cup {x})
  BY <1>1, FS_Subset
<1>3. Cardinality(S) \in Nat /\ Cardinality(T) \in Nat /\ Cardinality(S \cup {x}) \in Nat
  BY <1>1, <1>2, FS_CardinalityType
<1> QED BY <1>1, <1>2, <1>3

\* What a write does to the lines that are safe and to the unended ones.
LEMMA LinesAfter ==
    ASSUME Inv, NEW f \in FileNames, NEW new \in Seq(Lines), files' = [files EXCEPT ![f] = new],
           NEW more, Safe(new) = Safe(files[f]) \cup more
    PROVE  /\ Kept' = Kept \cup more
           /\ Loose' = IF Unended(new) THEN Loose \cup {f} ELSE Loose \ {f}
<1>1. \A g \in FileNames : files'[g] = IF g = f THEN new ELSE files[g]
  BY DEF Inv, TypeOK
<1>2. Kept' = Kept \cup more
  <2>1. \A g \in FileNames : Safe(files'[g]) = IF g = f THEN Safe(files[f]) \cup more
                                               ELSE Safe(files[g])
    <3> SUFFICES ASSUME NEW g \in FileNames
                 PROVE  Safe(files'[g]) = IF g = f THEN Safe(files[f]) \cup more
                                          ELSE Safe(files[g])
      OBVIOUS
    <3>1. CASE g = f
      BY <1>1, <3>1
    <3>2. CASE g # f
      <4>1. files'[g] = files[g]
        BY <1>1, <3>2
      <4> QED BY <3>2, <4>1
    <3> QED BY <3>1, <3>2
  <2>2. Kept' = UNION {Safe(files'[g]) : g \in FileNames}
    BY DEF Kept, Safe, Parsed
  <2> QED BY <2>1, <2>2 DEF Kept
<1>3. Loose' = IF Unended(new) THEN Loose \cup {f} ELSE Loose \ {f}
  <2>1. Loose' = {g \in FileNames : Unended(files'[g])}
    BY DEF Loose, Unended
  <2> QED BY <1>1, <2>1 DEF Loose
<1> QED BY <1>2, <1>3

\* Process p writes the entry e, which is remembered: file new takes the place of
\* the one before, rest is still to be made, more is safe and log is logged.
Written(p, e, new, rest, more, log, ok) ==
    /\ files' = [files EXCEPT ![e.file] = new] /\ todo' = [todo EXCEPT ![p] = rest]
    /\ memory' = [memory EXCEPT ![p] = Remember(memory[p], e)]
    /\ logged' = logged \cup log
    /\ failures' = IF ok THEN failures ELSE failures + 1
    /\ ok  => /\ rest = Tail(todo[p]) /\ log = {e} /\ new = AppendLine(files[e.file], e)
              /\ more = IF Unended(files[e.file]) THEN {} ELSE {e}
    /\ ~ok => /\ rest = <<>> /\ log = {} /\ more = {} /\ new \in CutShort(files[e.file], e)
              /\ failures < MaxFailures

LEMMA WriteOutcome ==
    ASSUME NEW p, Write(p)
    PROVE  \E new, rest, more, log : \E ok \in BOOLEAN :
             Written(p, Head(todo[p]), new, rest, more, log, ok)
<1> DEFINE e == Head(todo[p])
<1>1. memory' = [memory EXCEPT ![p] = Remember(memory[p], e)]
  BY DEF Write
<1>2. ASSUME files' = [files EXCEPT ![e.file] = AppendLine(files[e.file], e)],
             logged' = logged \cup {e},
             todo' = [todo EXCEPT ![p] = Tail(todo[p])], UNCHANGED failures
      PROVE  \E new, rest, more, log : \E ok \in BOOLEAN : Written(p, e, new, rest, more, log, ok)
  <2>1. Written(p, e, AppendLine(files[e.file], e), Tail(todo[p]),
                IF Unended(files[e.file]) THEN {} ELSE {e}, {e}, TRUE)
    BY <1>1, <1>2 DEF Written
  <2> HIDE DEF e
  <2> QED BY <2>1
<1>3. ASSUME failures < MaxFailures, NEW cut \in CutShort(files[e.file], e),
             files' = [files EXCEPT ![e.file] = cut], UNCHANGED logged,
             todo' = [todo EXCEPT ![p] = <<>>], failures' = failures + 1
      PROVE  \E new, rest, more, log : \E ok \in BOOLEAN : Written(p, e, new, rest, more, log, ok)
  <2>1. Written(p, e, cut, <<>>, {}, {}, FALSE)
    BY <1>1, <1>3 DEF Written
  <2> HIDE DEF e
  <2> QED BY <2>1
<1> QED BY <1>2, <1>3 DEF Write

LEMMA WriteInv == ASSUME Inv, NEW p \in Processes, Write(p) PROVE Inv'
<1> DEFINE q == todo[p]
           e == Head(q)
           f == e.file
           file == files[f]
<1>1. /\ q \in Seq(Entry) /\ q # <<>> /\ agents \in Lists /\ UNCHANGED <<agents, sent>>
      /\ Len(q) \in Nat /\ Len(q) >= 1
  <2>1. q \in Seq(Entry) /\ q # <<>> /\ agents \in Lists /\ UNCHANGED <<agents, sent>>
    BY DEF Write, Inv, TypeOK, Lists
  <2> QED BY <2>1, EmptySeq
<1>2. e \in Entry /\ e = q[1] /\ f \in FileNames /\ agents[e.channel] # <<>>
      /\ memory[p] \in Memory /\ MemoryInv(memory[p], q, agents)
  <2>1. e = q[1] /\ 1 \in DOMAIN q
    BY <1>1
  <2>2. e \in Entry
    BY <1>1, HeadTailProperties
  <2>3. memory[p] \in Memory /\ MemoryInv(memory[p], q, agents)
    BY <1>1 DEF Inv, TypeOK, ProcessInv
  <2>4. f \in FileNames
    BY <2>2, EntryKinds
  <2> QED BY <2>1, <2>2, <2>3, <2>4 DEF MemoryInv
<1> DEFINE m == Remember(memory[p], e)
<1>v. PICK new, rest, more, log : \E ok \in BOOLEAN : Written(p, e, new, rest, more, log, ok)
  BY WriteOutcome
<1>w. PICK ok \in BOOLEAN : Written(p, e, new, rest, more, log, ok)
  BY <1>v
<1>3. /\ files' = [files EXCEPT ![f] = new] /\ todo' = [todo EXCEPT ![p] = rest]
      /\ memory' = [memory EXCEPT ![p] = m]
      /\ logged' = logged \cup log
      /\ failures' = IF ok THEN failures ELSE failures + 1
      /\ ok  => /\ rest = Tail(q) /\ log = {e} /\ new = AppendLine(file, e)
                /\ more = IF Unended(file) THEN {} ELSE {e}
      /\ ~ok => /\ rest = <<>> /\ log = {} /\ more = {} /\ new \in CutShort(file, e)
                /\ failures < MaxFailures
  BY <1>w DEF Written
<1> HIDE DEF q, e, f, file, m
<1>4. file \in Seq(Lines) /\ \A g \in FileNames : files[g] \in Seq(Lines)
  BY <1>2 DEF Inv, TypeOK, Lines, file
<1>5. /\ new \in Seq(Lines) /\ Found(new) \subseteq Found(file) \cup {e}
      /\ Safe(new) = Safe(file) \cup more
      /\ ok => ~Unended(new)
  <2>1. CASE ok
    BY <1>2, <1>3, <1>4, <2>1, Appended
  <2>2. CASE ~ok
    BY <1>2, <1>3, <1>4, <2>2, CutShortFacts
  <2> QED BY <2>1, <2>2
<1>6. Rest(q, rest) /\ rest \in Seq(Entry)
  <2>1. CASE ok
    <3>1. Tail(q) \in Seq(Entry) /\ Len(Tail(q)) = Len(q) - 1
          /\ \A k \in 1 .. Len(q) - 1 : Tail(q)[k] = q[k + 1]
      BY <1>1, HeadTailProperties
    <3>2. DOMAIN Tail(q) = 1 .. Len(q) - 1 /\ DOMAIN q = 1 .. Len(q)
      BY <1>1, <3>1
    <3>3. \A k \in 1 .. Len(q) - 1 : k \in Nat /\ k >= 1 /\ k + 1 \in 1 .. Len(q)
      BY <1>1
    <3>4. Rest(q, Tail(q))
      BY <3>1, <3>2, <3>3 DEF Rest
    <3> QED BY <1>3, <2>1, <3>1, <3>4
  <2>2. CASE ~ok
    <3>1. rest = <<>>
      BY <1>3, <2>2
    <3> QED BY <3>1 DEF Rest
  <2> QED BY <2>1, <2>2
<1>7. m \in Memory /\ MemoryInv(m, rest, agents)
  BY <1>1, <1>2, <1>6, RememberType, RememberInv DEF m
<1>8. failures' \in 0 .. MaxFailures
  BY <1>3, BoundsAssumption DEF Inv, TypeOK
<1>9. TypeOK'
  <2>1. files' \in [FileNames -> Seq(Lines)]
    BY <1>2, <1>3, <1>4, <1>5 DEF Inv, TypeOK, Lines
  <2>2. memory' \in [Processes -> Memory \cup {None}] /\ todo' \in [Processes -> Seq(Entry)]
    BY <1>3, <1>6, <1>7 DEF Inv, TypeOK
  <2>3. logged' \subseteq Entry
    BY <1>2, <1>3 DEF Inv, TypeOK
  <2> QED BY <1>1, <1>8, <2>1, <2>2, <2>3 DEF Inv, TypeOK, Lines
<1>10. ASSUME NEW r \in Processes PROVE ProcessInv(memory[r], todo[r], agents)'
  <2>1. /\ memory'[r] = (IF r = p THEN m ELSE memory[r])
        /\ todo'[r] = IF r = p THEN rest ELSE todo[r]
    BY <1>3 DEF Inv, TypeOK
  <2>2. CASE r = p
    BY <1>1, <1>7, <2>1, <2>2, NoMemoryAssumption DEF ProcessInv
  <2>3. CASE r # p
    BY <1>1, <2>1, <2>3 DEF Inv
  <2> QED BY <2>2, <2>3
<1>11. FilesInv(files, agents)'
  <2>1. ASSUME NEW g \in FileNames, NEW x \in Found(files'[g])
        PROVE  x.file = g /\ agents[x.channel] # <<>>
    <3>1. files'[g] = IF g = f THEN new ELSE files[g]
      BY <1>3 DEF Inv, TypeOK
    <3>2. \A y \in Found(files[g]) : y.file = g /\ agents[y.channel] # <<>>
      BY DEF Inv, FilesInv
    <3>3. CASE g = f
      BY <1>2, <1>5, <2>1, <3>1, <3>2, <3>3 DEF f, file
    <3>4. CASE g # f
      BY <2>1, <3>1, <3>2, <3>4
    <3> QED BY <3>3, <3>4
  <2> QED BY <1>1, <2>1 DEF FilesInv, Found, Parsed
<1>12. LossInv'
  <2>1. /\ Kept' = Kept \cup more
        /\ Loose' = IF Unended(new) THEN Loose \cup {f} ELSE Loose \ {f}
    BY <1>2, <1>3, <1>5, LinesAfter DEF file
  <2> DEFINE lost == logged \ Kept
             lostNow == logged' \ Kept'
  <2>2. /\ IsFiniteSet(logged) /\ IsFiniteSet(lost) /\ Cardinality(lost) \in Nat
        /\ IsFiniteSet(Loose) /\ Cardinality(Loose) \in Nat
        /\ Cardinality(lost) + Cardinality(Loose) <= failures /\ failures \in Nat
    <3>1. IsFiniteSet(logged) /\ Cardinality(lost) + Cardinality(Loose) <= failures
          /\ failures \in Nat
      BY DEF Inv, LossInv, TypeOK
    <3>2. IsFiniteSet(lost)
      BY <3>1, FS_Subset
    <3>3. Loose \in SUBSET FileNames
      BY DEF Loose
    <3> QED BY <3>1, <3>2, <3>3, LooseFinite, FS_CardinalityType
  <2>3. IsFiniteSet(logged')
    <3>1. IsFiniteSet(logged \cup {e}) /\ logged' \subseteq logged \cup {e}
      BY <1>3, <2>2, FS_AddElement
    <3> QED BY <3>1, FS_Subset
  <2>4. IsFiniteSet(lostNow) /\ Cardinality(lostNow) \in Nat
    BY <2>3, FS_Subset, FS_CardinalityType
  <2>5. Loose' \in SUBSET FileNames /\ Cardinality(Loose') \in Nat
    <3>1. Loose' \in SUBSET FileNames
      BY <1>2, <2>1 DEF Loose
    <3> QED BY <3>1, LooseFinite
  <2> HIDE DEF lost, lostNow
  <2>6. Cardinality(lostNow) + Cardinality(Loose') <= failures'
    <3>1. CASE ok /\ Unended(file)
      <4>1. lostNow \subseteq lost \cup {e}
        BY <1>3, <2>1, <3>1 DEF lost, lostNow
      <4>2. Cardinality(lostNow) <= Cardinality(lost) + 1
        BY <2>2, <4>1, OneMore
      <4>3. f \in Loose /\ Loose' = Loose \ {f}
        BY <1>2, <1>5, <2>1, <3>1 DEF Loose, file
      <4>4. Cardinality(Loose') = Cardinality(Loose) - 1
        BY <2>2, <4>3, FS_RemoveElement
      <4>5. failures' = failures
        BY <1>3, <3>1
      <4> QED BY <2>2, <2>4, <2>5, <4>2, <4>4, <4>5
    <3>2. CASE ok /\ ~Unended(file)
      <4>1. lostNow \subseteq lost
        BY <1>3, <2>1, <3>2 DEF lost, lostNow
      <4>2. Cardinality(lostNow) <= Cardinality(lost)
        BY <2>2, <4>1, FS_Subset
      <4>3. Loose' \subseteq Loose
        BY <1>5, <2>1, <3>2
      <4>4. Cardinality(Loose') <= Cardinality(Loose)
        BY <2>2, <4>3, FS_Subset
      <4>5. failures' = failures
        BY <1>3, <3>2
      <4> QED BY <2>2, <2>4, <2>5, <4>2, <4>4, <4>5
    <3>3. CASE ~ok
      <4>1. lostNow \subseteq lost
        BY <1>3, <2>1, <3>3 DEF lost, lostNow
      <4>2. Cardinality(lostNow) <= Cardinality(lost)
        BY <2>2, <4>1, FS_Subset
      <4>3. Loose' \subseteq Loose \cup {f}
        BY <2>1
      <4>4. Cardinality(Loose') <= Cardinality(Loose) + 1
        BY <2>2, <4>3, OneMore
      <4>5. failures' = failures + 1
        BY <1>3, <3>3
      <4> QED BY <2>2, <2>4, <2>5, <4>2, <4>4, <4>5
    <3> QED BY <3>1, <3>2, <3>3
  <2> QED BY <2>3, <2>6 DEF LossInv, lostNow
<1> QED BY <1>9, <1>10, <1>11, <1>12 DEF Inv

-----------------------------------------------------------------------------
(* All steps *)

LEMMA InitInv == ASSUME Init PROVE Inv
<1>1. /\ files = [f \in FileNames |-> <<>>] /\ memory = [p \in Processes |-> None]
      /\ todo = [p \in Processes |-> <<>>] /\ agents = [c \in Names |-> <<>>]
      /\ sent = 0 /\ failures = 0 /\ logged = {}
  BY DEF Init
<1>2. TypeOK
  BY <1>1, BoundsAssumption DEF TypeOK
<1>3. \A f \in FileNames : Found(files[f]) = {} /\ ~Unended(files[f])
  BY <1>1 DEF Found, Parsed, Unended
<1>4. FilesInv(files, agents)
  BY <1>3 DEF FilesInv
<1>5. \A p \in Processes : ProcessInv(memory[p], todo[p], agents)
  BY <1>1 DEF ProcessInv
<1>6. LossInv
  <2>1. Loose = {} /\ logged \ Kept = {}
    BY <1>1, <1>3 DEF Loose
  <2> QED BY <1>1, <2>1, FS_EmptySet DEF LossInv
<1> QED BY <1>2, <1>4, <1>5, <1>6 DEF Inv

LEMMA NextInv == ASSUME Inv, [Next]_vars PROVE Inv'
<1>1. CASE UNCHANGED vars
  <2>1. /\ files' = files /\ memory' = memory /\ todo' = todo /\ agents' = agents
        /\ sent' = sent /\ failures' = failures /\ logged' = logged
    BY <1>1 DEF vars
  <2>2. TypeOK' /\ FilesInv(files, agents)' /\ LossInv'
    BY <2>1 DEF Inv, TypeOK, LossInv, Kept, Loose
  <2>3. \A p \in Processes : ProcessInv(memory[p], todo[p], agents)'
    BY <2>1 DEF Inv
  <2> QED BY <2>2, <2>3 DEF Inv
<1>2. ASSUME NEW p \in Processes, Open(p) \/ Exit(p) \/ Write(p) PROVE Inv'
  BY <1>2, OpenInv, ExitInv, WriteInv
<1>3. ASSUME NEW p \in Processes, NEW c \in Names, ChannelOperation(p, c) PROVE Inv'
  BY <1>3, CloseChannelInv, SendMessageInv, BroadcastMessageInv DEF ChannelOperation
<1>4. ASSUME NEW p \in Processes, NEW c \in Collaborations, CoordinatorOperation(p, c) PROVE Inv'
  BY <1>4, CreateCollaborationInv, SubmitResultInv, ConflictInv, EndInv DEF CoordinatorOperation
<1>5. ASSUME NEW p \in Processes, NEW c \in Channels, NEW list \in AgentLists,
             CreateChannel(p, c, list)
      PROVE  Inv'
  BY <1>5, CreateChannelInv
<1> QED BY <1>1, <1>2, <1>3, <1>4, <1>5 DEF Next

-----------------------------------------------------------------------------
(* Channels that are closed *)

\* From memory m to memory r nothing was queued on c, and it was not opened.
Silent(m, r, c) == r.channel[c] # "open" /\ r.queue[c] = m.queue[c]

\* What is shut is not open.
LEMMA ShutNotOpen ==
    ASSUME Inv, NEW p \in Processes, Alive(p), NEW c \in Names, Shut(memory[p], c)
    PROVE  /\ memory[p] \in Memory /\ MemoryInv(memory[p], todo[p], agents)
           /\ memory[p].channel[c] # "open" /\ Silent(memory[p], memory[p], c)
BY DEF Inv, TypeOK, ProcessInv, MemoryInv, Alive, Shut, Silent

\* A process that records what it has to make has the channels and queues it had.
LEMMA RecordSilent ==
    ASSUME Inv, NEW p \in Processes, Alive(p), NEW c \in Names, Shut(memory[p], c),
           NEW m, NEW entries, NEW messages, Record(p, m, entries, messages),
           m.channel = memory[p].channel, m.queue = memory[p].queue
    PROVE  Silent(memory[p], memory'[p], c)
BY ShutNotOpen DEF Record, Silent, Inv, TypeOK

LEMMA WriteSilent ==
    ASSUME Inv, NEW p \in Processes, Write(p), NEW c \in Names, Shut(memory[p], c)
    PROVE  Silent(memory[p], memory'[p], c)
<1> DEFINE m == memory[p]
           e == Head(todo[p])
<1>1. todo[p] \in Seq(Entry) /\ todo[p] # <<>> /\ Alive(p)
      /\ memory' = [memory EXCEPT ![p] = Remember(m, e)]
  BY DEF Write, Inv, TypeOK, ProcessInv, Alive
<1>2. m \in Memory /\ MemoryInv(m, todo[p], agents) /\ Silent(m, m, c)
  BY <1>1, ShutNotOpen
<1>3. e \in Entry /\ e = todo[p][1] /\ 1 \in DOMAIN todo[p]
  BY <1>1, HeadTailProperties, EmptySeq
<1>4. ~Shut(m, e.channel) /\ e.channel # c /\ e.channel \in Names /\ e.file \in FileNames
  BY <1>2, <1>3, EntryKinds DEF MemoryInv, EntryInv
<1>5. memory'[p] = Remember(m, e)
  BY <1>1 DEF Inv, TypeOK
<1> HIDE DEF m, e
<1>6. Remember(m, e).channel[c] = m.channel[c] /\ Remember(m, e).queue[c] = m.queue[c]
  BY <1>2, <1>4 DEF Remember, Memory, FileNames
<1> QED BY <1>2, <1>5, <1>6 DEF Silent, m

LEMMA ChannelSilent ==
    ASSUME Inv, NEW p \in Processes, Alive(p), NEW c \in Names, Shut(memory[p], c),
           NEW d \in Names, ChannelOperation(p, d)
    PROVE  Silent(memory[p], memory'[p], c)
<1> DEFINE m == memory[p]
<1>1. m \in Memory /\ Silent(m, m, c)
  BY ShutNotOpen
<1>2. CASE CloseChannel(p, d)
  <2>1. Ready(p) /\ memory'[p] = Closed(m, d)
    BY <1>2 DEF CloseChannel, Inv, TypeOK
  <2>2. MemoryInv(m, <<>>, agents)
    BY <2>1, ReadyFacts
  <2> QED BY <1>1, <2>1, <2>2, ClosedInv DEF Silent
<1>3. ASSUME NEW a \in Agents, NEW content \in Contents,
             SendMessage(p, d, a, content) \/ BroadcastMessage(p, d, a, content)
      PROVE  Silent(m, memory'[p], c)
  BY <1>3, RecordSilent DEF SendMessage, BroadcastMessage
<1> QED BY <1>2, <1>3 DEF ChannelOperation

LEMMA CoordinatorSilent ==
    ASSUME Inv, NEW p \in Processes, Alive(p), NEW c \in Names, Shut(memory[p], c),
           NEW d \in Collaborations, CoordinatorOperation(p, d)
    PROVE  Silent(memory[p], memory'[p], c)
<1> DEFINE m == memory[p]
<1>1. m \in Memory /\ Silent(m, m, c)
  BY ShutNotOpen
<1>2. ASSUME NEW list \in AgentLists, CreateCollaboration(p, d, list)
      PROVE  Silent(m, memory'[p], c)
  BY <1>2, RecordSilent DEF CreateCollaboration
<1>3. ASSUME NEW a \in Agents, NEW result \in Results, SubmitResult(p, d, a, result)
      PROVE  Silent(m, memory'[p], c)
  <2>1. /\ Stored(m, d, a, result).channel = m.channel
        /\ Stored(m, d, a, result).queue = m.queue
    BY <1>1 DEF Stored, Memory
  <2> QED BY <1>3, <2>1, RecordSilent DEF SubmitResult
<1>4. CASE ReportConflict(p, d) \/ ResolveConflict(p, d)
  <2>1. \A s : /\ [m EXCEPT !.status[d] = s].channel = m.channel
               /\ [m EXCEPT !.status[d] = s].queue = m.queue
    BY <1>1 DEF Memory
  <2> QED BY <1>4, <2>1, RecordSilent DEF ReportConflict, ResolveConflict
<1>5. ASSUME NEW status \in {"completed", "failed"}, End(p, d, status)
      PROVE  Silent(m, memory'[p], c)
  <2>1. Ready(p) /\ m.status[d] # "none"
        /\ memory'[p] = Closed([m EXCEPT !.status[d] = status], d)
    BY <1>5 DEF End, Knows, Inv, TypeOK
  <2>2. MemoryInv(m, <<>>, agents)
    BY <2>1, ReadyFacts
  <2> DEFINE r == Closed([m EXCEPT !.status[d] = status], d)
  <2>3. r.queue = m.queue /\ \A e \in Names : r.channel[e] \in {m.channel[e], "closed"}
    BY <1>1, <2>1, <2>2, EndedInv
  <2> HIDE DEF r
  <2> QED BY <1>1, <2>1, <2>3 DEF Silent, r
<1> QED BY <1>2, <1>3, <1>4, <1>5 DEF CoordinatorOperation

\* Whatever the processes do, what is shut to one stays silent.
LEMMA StepSilent ==
    ASSUME Inv, [Next]_vars, NEW p \in Processes, NEW c \in Names, Alive(p),
           Shut(memory[p], c), memory'[p] # None
    PROVE  Silent(memory[p], memory'[p], c)
<1>1. Silent(memory[p], memory[p], c)
  BY ShutNotOpen
<1>2. CASE UNCHANGED vars
  BY <1>1, <1>2 DEF vars
<1>3. ASSUME NEW r \in Processes,
             \/ Open(r) \/ Exit(r) \/ Write(r)
             \/ \E d \in Channels, list \in AgentLists : CreateChannel(r, d, list)
             \/ \E d \in Names : ChannelOperation(r, d)
             \/ \E d \in Collaborations : CoordinatorOperation(r, d)
      PROVE  Silent(memory[p], memory'[p], c)
  <2>1. CASE r # p
    <3>1. \E m : memory' = [memory EXCEPT ![r] = m]
      BY <1>3 DEF Open, Exit, Write, CreateChannel, ChannelOperation, CoordinatorOperation,
                  CloseChannel, SendMessage, BroadcastMessage, CreateCollaboration, SubmitResult,
                  ReportConflict, ResolveConflict, End, Record
    <3>2. memory'[p] = memory[p]
      BY <2>1, <3>1 DEF Inv, TypeOK
    <3> QED BY <1>1, <3>2
  <2>2. CASE r = p
    <3>1. ~Open(r) /\ ~Exit(r)
      BY <2>2 DEF Open, Exit, Inv, TypeOK
    <3>2. ASSUME NEW d \in Channels, NEW list \in AgentLists, CreateChannel(r, d, list)
          PROVE  Silent(memory[p], memory'[p], c)
      BY <2>2, <3>2, RecordSilent DEF CreateChannel
    <3> QED BY <1>3, <2>2, <3>1, <3>2, WriteSilent, ChannelSilent, CoordinatorSilent
  <2> QED BY <2>1, <2>2
<1> QED BY <1>2, <1>3 DEF Next

-----------------------------------------------------------------------------
(* Theorems *)

LEMMA Invariant == Spec => []Inv
BY InitInv, NextInv, PTL DEF Spec

\* The files, the memories and the entries still to be made keep their types, for
\* any number of processes and agents.
THEOREM TypeCorrect == Spec => []TypeOK
<1>1. Inv => TypeOK
  BY DEF Inv
<1> QED BY Invariant, <1>1, PTL

\* However many processes append to the files at a time, each write that is cut
\* short costs at most one other entry (agent_comm/channel.py:100-106).
THEOREM LossesBounded == Spec => []LossesCounted
<1>1. ASSUME Inv PROVE LossesCounted
  <2> DEFINE found == UNION {Found(files[f]) : f \in FileNames}
             lost == logged \ Kept
  <2>1. logged \ found \subseteq lost
    BY SafeFound DEF Kept
  <2>2. IsFiniteSet(logged) /\ Cardinality(lost) + Cardinality(Loose) <= failures
    BY <1>1 DEF Inv, LossInv
  <2>3. IsFiniteSet(lost)
    BY <2>2, FS_Subset
  <2>4. IsFiniteSet(logged \ found) /\ Cardinality(logged \ found) <= Cardinality(lost)
    BY <2>1, <2>3, FS_Subset
  <2>5. Cardinality(Loose) \in Nat
    BY LooseFinite DEF Loose
  <2>6. Cardinality(logged \ found) \in Nat /\ Cardinality(lost) \in Nat
    BY <2>3, <2>4, FS_CardinalityType
  <2>7. failures \in Nat
    BY <1>1 DEF Inv, TypeOK
  <2> HIDE DEF lost, found
  <2>8. Cardinality(logged \ found) <= failures
    BY <2>2, <2>4, <2>5, <2>6, <2>7
  <2> QED BY <2>8 DEF LossesCounted, found
<1> QED BY Invariant, <1>1, PTL

\* Nothing is queued on a channel that a process has closed, or whose collaboration
\* it has completed or failed, and it is not opened again there, whatever else is
\* done to the two (coordinator.py:88-135, channel.py:42-86).
THEOREM ClosedSilent == Spec => ClosedIsSilent
<1>1. Inv /\ [Next]_vars =>
        [\A p \in Processes, c \in Names :
           Alive(p) /\ Shut(memory[p], c) /\ memory'[p] # None
           => /\ memory'[p].channel[c] # "open"
              /\ memory'[p].queue[c] = memory[p].queue[c]]_vars
  BY StepSilent DEF Silent
<1> QED BY Invariant, <1>1, PTL DEF Spec, ClosedIsSilent

\* Between the operations of a process the newest delivery that submit_result has
\* put on an open channel for each member is the result that the collaboration has
\* of it, whatever the program sends itself (coordinator.py:75-84).
THEOREM ResultsDelivered == Spec => []ResultsInChannel
<1>1. ASSUME Inv PROVE ResultsInChannel
  <2> SUFFICES ASSUME NEW p \in Processes, NEW c \in Collaborations, Ready(p),
                      NEW a \in ToSet(agents[c]), memory[p].results[c][a] # None,
                      memory[p].channel[c] = "open"
               PROVE  Newest(memory[p].queue[c], a, memory[p].results[c][a])
    BY DEF ResultsInChannel
  <2>1. Agrees(memory[p], <<>>, c, a)
    BY <1>1, ReadyFacts DEF MemoryInv
  <2> QED BY <2>1 DEF Agrees
<1> QED BY Invariant, <1>1, PTL
=============================================================================
