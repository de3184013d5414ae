--------------------------- MODULE PullRequestProofs ---------------------------
(* Proofs about PullRequest, for any changes, registries, numbers and sizes of *)
(* log files, and any number of operations that stop halfway: what the logs    *)
(* keep, and what create_pr answers.                                           *)
EXTENDS PullRequest, SequenceTheorems, FiniteSetTheorems, WellFoundedInduction, TLAPS

-----------------------------------------------------------------------------
(* Parts of a sequence, and loops *)

\* The places of a set of numbers, and the numbers, correspond.
LEMMA InOrderFacts ==
    ASSUME NEW n \in Nat, NEW S \in SUBSET (1 .. n)
    PROVE  /\ Cardinality(S) \in 0 .. n
           /\ InOrder(S) \in [1 .. Cardinality(S) -> S]
           /\ \A i, j \in 1 .. Cardinality(S) : InOrder(S)[i] = InOrder(S)[j] => i = j
           /\ \A m \in S : \E i \in 1 .. Cardinality(S) : InOrder(S)[i] = m
<1> DEFINE c == Cardinality(S)
           upto(m) == {j \in S : j <= m}
           rank == [m \in S |-> Cardinality(upto(m))]
<1>1. IsFiniteSet(S) /\ c <= n
  <2>1. IsFiniteSet(1 .. n) /\ Cardinality(1 .. n) = n
    BY FS_Interval
  <2> QED BY <2>1, FS_Subset
<1>2. c \in Nat
  BY <1>1, FS_CardinalityType
<1>3. ASSUME NEW m \in S
      PROVE  IsFiniteSet(upto(m)) /\ rank[m] \in 1 .. c
  <2>1. IsFiniteSet(upto(m)) /\ Cardinality(upto(m)) <= c
    BY <1>1, FS_Subset
  <2>2. Cardinality(upto(m)) \in Nat
    BY <2>1, FS_CardinalityType
  <2>3. m \in upto(m)
    OBVIOUS
  <2>4. Cardinality(upto(m)) # 0
    BY <2>1, <2>3, FS_EmptySet
  <2>5. rank[m] = Cardinality(upto(m))
    OBVIOUS
  <2> HIDE DEF upto, rank, c
  <2> QED BY <1>2, <2>1, <2>2, <2>4, <2>5
<1>4. ASSUME NEW j \in S, NEW m \in S, j < m PROVE rank[j] # rank[m]
  <2>1. (\A i \in S : i <= j => i <= m) /\ m <= m /\ ~(m <= j)
    BY <1>4
  <2>2. upto(j) \subseteq upto(m) /\ m \in upto(m) /\ m \notin upto(j)
    BY <1>4, <2>1
  <2>3. Cardinality(upto(j)) # Cardinality(upto(m))
    BY <1>3, <2>2, FS_Subset
  <2> QED BY <2>3
<1>5. \A j, m \in S : rank[j] = rank[m] => j = m
  <2>1. \A j, m \in S : j < m \/ m < j \/ j = m
    OBVIOUS
  <2> HIDE DEF rank
  <2> QED BY <1>4, <2>1
<1>6. rank \in [S -> 1 .. c]
  BY <1>3
<1>7. rank \in Injection(S, 1 .. c)
  BY <1>5, <1>6 DEF Injection, IsInjective
<1>8. IsFiniteSet(1 .. c) /\ Cardinality(1 .. c) = Cardinality(S)
  BY <1>2, FS_Interval
<1>9. rank \in Surjection(S, 1 .. c)
  BY <1>7, <1>8, FS_Injection
<1>10. ASSUME NEW i \in 1 .. c PROVE InOrder(S)[i] \in S /\ rank[InOrder(S)[i]] = i
  <2>1. \E m \in S : Cardinality({j \in S : j <= m}) = i
    BY <1>9 DEF Surjection
  <2>2. InOrder(S)[i] = CHOOSE m \in S : Cardinality({j \in S : j <= m}) = i
    BY DEF InOrder
  <2>3. InOrder(S)[i] \in S /\ Cardinality(upto(InOrder(S)[i])) = i
    BY <2>1, <2>2
  <2> QED BY <2>3
<1>11. InOrder(S) = [i \in 1 .. c |-> InOrder(S)[i]]
  <2>1. InOrder(S) = [i \in 1 .. c |-> CHOOSE m \in S : Cardinality(upto(m)) = i]
    BY DEF InOrder
  <2> HIDE DEF c, upto
  <2> QED BY <2>1
<1> HIDE DEF c, rank
<1>12. InOrder(S) \in [1 .. c -> S]
  BY <1>10, <1>11
<1>13. \A i, j \in 1 .. c : InOrder(S)[i] = InOrder(S)[j] => i = j
  BY <1>10
<1>14. \A m \in S : rank[m] \in 1 .. c /\ InOrder(S)[rank[m]] = m
  BY <1>5, <1>6, <1>10
<1> QED BY <1>1, <1>2, <1>12, <1>13, <1>14 DEF c

\* What is picked is there once for each place it is picked from.
LEMMA PickedFacts ==
    ASSUME NEW T, NEW list \in Seq(T), NEW S \in SUBSET DOMAIN list
    PROVE  /\ Picked(list, S) \in Seq(T)
           /\ Len(Picked(list, S)) = Cardinality(S) /\ Cardinality(S) \in 0 .. Len(list)
           /\ \A i \in DOMAIN Picked(list, S) :
                InOrder(S)[i] \in S /\ Picked(list, S)[i] = list[InOrder(S)[i]]
           /\ \A i, j \in DOMAIN Picked(list, S) : InOrder(S)[i] = InOrder(S)[j] => i = j
           /\ \A m \in S : \E i \in DOMAIN Picked(list, S) : Picked(list, S)[i] = list[m]
           /\ Picked(list, S) = <<>> <=> S = {}
<1> DEFINE c == Cardinality(S)
           order == InOrder(S)
<1>1. Len(list) \in Nat /\ DOMAIN list = 1 .. Len(list)
  OBVIOUS
<1>2. /\ c \in 0 .. Len(list)
      /\ order \in [1 .. c -> S]
      /\ \A i, j \in 1 .. c : order[i] = order[j] => i = j
      /\ \A m \in S : \E i \in 1 .. c : order[i] = m
  BY <1>1, InOrderFacts
<1>3. DOMAIN order = 1 .. c
  BY <1>2
<1>4. Picked(list, S) = [i \in 1 .. c |-> list[order[i]]]
  BY <1>3 DEF Picked
<1> HIDE DEF c, order
<1>5. \A i \in 1 .. c : order[i] \in S /\ list[order[i]] \in T
  BY <1>2, <1>1, ElementOfSeq
<1>6. Picked(list, S) \in [1 .. c -> T]
  BY <1>4, <1>5
<1>7. c \in Nat
  BY <1>1, <1>2
<1>8. Picked(list, S) \in Seq(T) /\ Len(Picked(list, S)) = c /\ DOMAIN Picked(list, S) = 1 .. c
  BY <1>6, <1>7, SeqDef, LenProperties
<1>9. \A i \in 1 .. c : Picked(list, S)[i] = list[order[i]]
  BY <1>4
<1>10. \A m \in S : \E i \in 1 .. c : Picked(list, S)[i] = list[m]
  BY <1>2, <1>9
<1>11. Picked(list, S) = <<>> <=> S = {}
  <2>1. Picked(list, S) = <<>> <=> c = 0
    BY <1>7, <1>8, EmptySeq
  <2>2. S = {} => c = 0
    BY FS_EmptySet DEF c
  <2>3. S # {} => c # 0
    BY <1>2
  <2> QED BY <2>1, <2>2, <2>3
<1> QED BY <1>2, <1>5, <1>8, <1>9, <1>10, <1>11 DEF c, order

\* A set of numbers that has the first, and with each the next one, has all.
LEMMA AllOfThem ==
    ASSUME NEW N \in Nat, NEW S, 0 \in S, \A n \in 1 .. N : n - 1 \in S => n \in S
    PROVE  0 .. N \subseteq S
<1> DEFINE T == {n \in 0 .. N : n \notin S}
           Less == {pair \in Nat \X Nat : pair[1] < pair[2]}
<1> SUFFICES ASSUME T # {} PROVE FALSE
  OBVIOUS
<1>1. IsWellFoundedOn(Less, Nat)
  BY NatLessThanWellFounded, Zenon DEF OpToRel
<1>2. T \subseteq Nat
  OBVIOUS
<1> HIDE DEF Less
<1>3. PICK n \in T : \A m \in T : <<m, n>> \notin Less
  BY <1>1, <1>2, WFMin
<1>4. \A m \in T : ~(m < n)
  BY <1>2, <1>3 DEF Less
<1>5. n \in 1 .. N /\ n - 1 \in 0 .. N /\ n - 1 < n
  OBVIOUS
<1>6. n - 1 \in S
  BY <1>4, <1>5
<1> QED BY <1>3, <1>5, <1>6

\* What a loop over N things makes of d.
Steps(D, N) == [1 .. N -> [D -> D]]
Looped(D, d, N, step, a) ==
    a \in [0 .. N -> D] /\ a[0] = d /\ \A n \in 1 .. N : a[n] = step[n][a[n - 1]]

LEMMA LoopExists ==
    ASSUME NEW D, NEW d \in D, NEW N \in Nat, NEW step \in Steps(D, N)
    PROVE  \E a : Looped(D, d, N, step, a)
<1> DEFINE Made(m, a) == a[0] = d /\ \A n \in 1 .. m : a[n] = step[n][a[n - 1]]
           S == {m \in 0 .. N : \E a \in [0 .. m -> D] : Made(m, a)}
<1>1. 0 \in S
  <2> DEFINE a == [n \in 0 .. 0 |-> d]
  <2>1. a \in [0 .. 0 -> D] /\ Made(0, a)
    OBVIOUS
  <2> HIDE DEF a, Made
  <2> QED BY <2>1
<1>2. ASSUME NEW m \in 1 .. N, m - 1 \in S PROVE m \in S
  <2>1. PICK a \in [0 .. m - 1 -> D] : Made(m - 1, a)
    BY <1>2
  <2> DEFINE b == [n \in 0 .. m |-> IF n = m THEN step[m][a[m - 1]] ELSE a[n]]
  <2>2. m - 1 \in 0 .. m - 1 /\ a[m - 1] \in D
    OBVIOUS
  <2>3. step[m][a[m - 1]] \in D
    BY <2>2 DEF Steps
  <2>4. b \in [0 .. m -> D] /\ b[0] = d /\ b[m] = step[m][a[m - 1]]
        /\ \A n \in 0 .. m - 1 : b[n] = a[n]
    BY <2>1, <2>3
  <2> HIDE DEF b
  <2>5. ASSUME NEW n \in 1 .. m PROVE b[n] = step[n][b[n - 1]]
    <3>1. CASE n = m
      BY <2>2, <2>4, <3>1
    <3>2. CASE n # m
      <4>1. n \in 1 .. m - 1 /\ n - 1 \in 0 .. m - 1 /\ n \in 0 .. m - 1
        BY <3>2
      <4>2. b[n] = a[n] /\ b[n - 1] = a[n - 1] /\ a[n] = step[n][a[n - 1]]
        BY <2>1, <2>4, <4>1
      <4> QED BY <4>2
    <3> QED BY <3>1, <3>2
  <2>6. Made(m, b) /\ m \in 0 .. N
    BY <2>4, <2>5
  <2> HIDE DEF Made
  <2> QED BY <2>4, <2>6
<1> HIDE DEF S
<1>3. 0 .. N \subseteq S
  BY <1>1, <1>2, AllOfThem
<1>4. N \in S
  BY <1>3
<1> QED BY <1>4 DEF S, Looped

-----------------------------------------------------------------------------
(* Lines and what is found on them *)

Lines == [entries : Seq(Nat), ended : BOOLEAN]

\* What is on a last line without its newline.
OnLast(file) ==
    IF Unended(file) /\ Last(file).entries # <<>> THEN {Head(Last(file).entries)} ELSE {}

LEMMA SequenceFacts ==
    ASSUME NEW S, NEW q \in Seq(S)
    PROVE  /\ Len(q) \in Nat /\ DOMAIN q = 1 .. Len(q)
           /\ \A e \in S : /\ Append(q, e) \in Seq(S) /\ Len(Append(q, e)) = Len(q) + 1
                           /\ Append(q, e)[Len(q) + 1] = e
                           /\ \A n \in 1 .. Len(q) : Append(q, e)[n] = q[n]
           /\ q # <<>> => /\ Front(q) \in Seq(S) /\ Len(Front(q)) = Len(q) - 1
                          /\ \A n \in 1 .. Len(q) - 1 : Front(q)[n] = q[n]
                          /\ Last(q) = q[Len(q)] /\ Len(q) >= 1
<1>1. \A e \in S : /\ Append(q, e) \in Seq(S) /\ Len(Append(q, e)) = Len(q) + 1
                   /\ Append(q, e)[Len(q) + 1] = e
                   /\ \A n \in 1 .. Len(q) : Append(q, e)[n] = q[n]
  BY AppendProperties
<1>2. ASSUME q # <<>>
      PROVE  /\ Front(q) \in Seq(S) /\ Len(Front(q)) = Len(q) - 1
             /\ \A n \in 1 .. Len(q) - 1 : Front(q)[n] = q[n]
             /\ Last(q) = q[Len(q)] /\ Len(q) >= 1
  <2>1. Len(q) \in Nat /\ Len(q) >= 1
    BY <1>2, EmptySeq
  <2>2. \A n \in 1 .. Len(q) - 1 : q[n] \in S
    BY <2>1, ElementOfSeq
  <2>3. Front(q) = [n \in 1 .. Len(q) - 1 |-> q[n]]
    BY <2>1, <2>2 DEF Front
  <2>4. Front(q) \in Seq(S)
    BY <2>1, <2>2, <2>3, SeqDef
  <2> QED BY <2>1, <2>3, <2>4, LenProperties DEF Last
<1> QED BY <1>1, <1>2

LEMMA LineFacts ==
    ASSUME NEW e \in Nat, NEW ended \in BOOLEAN
    PROVE  /\ Line(<<>>, ended) \in Lines /\ Line(<<e>>, ended) \in Lines
           /\ Line(<<>>, ended).ended = ended /\ Line(<<e>>, ended).ended = ended
           /\ Line(<<>>, ended).entries = <<>>
           /\ Line(<<e>>, ended).entries # <<>> /\ Head(Line(<<e>>, ended).entries) = e
<1>1. <<e>> \in Seq(Nat) /\ <<>> \in Seq(Nat) /\ <<e>> # <<>> /\ Head(<<e>>) = e
  OBVIOUS
<1> QED BY <1>1 DEF Line, Lines

\* One more line than those before.
LEMMA OneLine ==
    ASSUME NEW file \in Seq(Lines), NEW l \in Lines
    PROVE  LET on == IF l.entries # <<>> THEN {Head(l.entries)} ELSE {}
               more == Append(file, l)
           IN  /\ more \in Seq(Lines) /\ Len(more) = Len(file) + 1
               /\ Unended(more) <=> ~l.ended
               /\ OnLast(more) = IF l.ended THEN {} ELSE on
               /\ Found(more) = Found(file) \cup on
<1> DEFINE more == Append(file, l)
           c == Len(file)
<1>1. /\ more \in Seq(Lines) /\ Len(more) = c + 1
      /\ DOMAIN more = 1 .. c + 1 /\ more[c + 1] = l
      /\ DOMAIN file = 1 .. c /\ \A n \in 1 .. c : more[n] = file[n]
      /\ c \in Nat /\ more # <<>> /\ Last(more) = l
  <2>1. c \in Nat /\ DOMAIN file = 1 .. c
    OBVIOUS
  <2>2. /\ more \in Seq(Lines) /\ Len(more) = c + 1 /\ more[c + 1] = l
        /\ \A n \in 1 .. c : more[n] = file[n]
    BY SequenceFacts
  <2>3. DOMAIN more = 1 .. c + 1 /\ more # <<>>
    BY <2>1, <2>2
  <2> HIDE DEF more, c
  <2> QED BY <2>1, <2>2, <2>3 DEF Last
<1> HIDE DEF more, c
<1>2. \A n : n \in DOMAIN more <=> (n \in DOMAIN file \/ n = c + 1)
  BY <1>1
<1>3. \A n \in DOMAIN file : more[n] = file[n]
  BY <1>1
<1>4. Unended(more) <=> ~l.ended
  BY <1>1 DEF Unended
<1>5. Found(more) = Found(file) \cup (IF l.entries # <<>> THEN {Head(l.entries)} ELSE {})
  BY <1>1, <1>2, <1>3, Zenon DEF Found, Parsed
<1>6. OnLast(more) = IF ~l.ended /\ l.entries # <<>> THEN {Head(l.entries)} ELSE {}
  BY <1>1, <1>4 DEF OnLast
<1> QED BY <1>1, <1>4, <1>5, <1>6 DEF more, c

\* The next entry behind an unended line spoils it.
LEMMA SpoiltLine ==
    ASSUME NEW file \in Seq(Lines), Unended(file), NEW ended \in BOOLEAN
    PROVE  LET more == Append(Front(file), Line(<<>>, ended))
           IN  /\ more \in Seq(Lines) /\ Len(more) = Len(file)
               /\ Unended(more) <=> ~ended
               /\ OnLast(more) = {}
               /\ Found(more) \subseteq Found(file)
               /\ Found(file) \ OnLast(file) \subseteq Found(more)
<1> DEFINE front == Front(file)
           c == Len(file)
<1>1. /\ front \in Seq(Lines) /\ Len(front) = c - 1 /\ c >= 1 /\ c \in Nat
      /\ \A n \in 1 .. c - 1 : front[n] = file[n]
      /\ Last(file) = file[c]
  <2>1. file # <<>> /\ ~Last(file).ended
    BY DEF Unended
  <2> QED BY <2>1, SequenceFacts
<1>2. DOMAIN file = 1 .. c /\ DOMAIN front = 1 .. c - 1
  BY <1>1
<1> HIDE DEF front, c
<1>3. /\ \A n \in DOMAIN front : n \in DOMAIN file /\ front[n] = file[n]
      /\ \A n \in DOMAIN file : n \in DOMAIN front \/ n = c
  BY <1>1, <1>2
<1>4. Found(front) \subseteq Found(file)
  BY <1>3, Zenon DEF Found, Parsed
<1>5. Found(file) \ OnLast(file) \subseteq Found(front)
  <2>1. file[c].entries # <<>> => OnLast(file) = {Head(file[c].entries)}
    BY <1>1 DEF OnLast
  <2> QED BY <1>3, <2>1, Zenon DEF Found, Parsed
<1>6. /\ Line(<<>>, ended) \in Lines /\ Line(<<>>, ended).ended = ended
      /\ Line(<<>>, ended).entries = <<>>
  BY LineFacts
<1> DEFINE l == Line(<<>>, ended)
<1> HIDE DEF l
<1>7. l \in Lines /\ l.ended = ended /\ l.entries = <<>>
  BY <1>6 DEF l
<1>8. /\ Append(front, l) \in Seq(Lines) /\ Len(Append(front, l)) = Len(front) + 1
      /\ Unended(Append(front, l)) <=> ~l.ended
      /\ OnLast(Append(front, l)) = {}
      /\ Found(Append(front, l)) = Found(front)
  BY <1>1, <1>7, OneLine
<1>9. Len(front) + 1 = c
  BY <1>1
<1> QED BY <1>4, <1>5, <1>7, <1>8, <1>9 DEF front, c, l

\* A line that is appended is found, unless it ends up behind an unended one.
LEMMA AppendFacts ==
    ASSUME NEW file \in Seq(Lines), NEW e \in Nat
    PROVE  LET more == AppendLine(file, e)
           IN  /\ more \in Seq(Lines) /\ Len(more) <= Len(file) + 1
               /\ ~Unended(more) /\ OnLast(more) = {}
               /\ Found(more) \subseteq Found(file) \cup {e}
               /\ Found(file) \ OnLast(file) \subseteq Found(more)
               /\ ~Unended(file) => Found(more) = Found(file) \cup {e}
<1> DEFINE more == AppendLine(file, e)
<1>0. Len(file) \in Nat /\ TRUE \in BOOLEAN
  OBVIOUS
<1>1. CASE Unended(file)
  <2>1. more = Append(Front(file), Line(<<>>, TRUE))
    BY <1>1 DEF AppendLine
  <2> HIDE DEF more
  <2>2. /\ more \in Seq(Lines) /\ Len(more) = Len(file) /\ ~Unended(more) /\ OnLast(more) = {}
        /\ Found(more) \subseteq Found(file) /\ Found(file) \ OnLast(file) \subseteq Found(more)
    BY <1>0, <1>1, <2>1, SpoiltLine
  <2> QED BY <1>0, <1>1, <2>2 DEF more
<1>2. CASE ~Unended(file)
  <2> DEFINE l == Line(<<e>>, TRUE)
  <2>1. more = Append(file, l)
    BY <1>2 DEF AppendLine
  <2>2. l \in Lines /\ l.ended /\ l.entries # <<>> /\ Head(l.entries) = e
    BY <1>0, LineFacts
  <2> HIDE DEF more, l
  <2>3. /\ more \in Seq(Lines) /\ Len(more) = Len(file) + 1 /\ ~Unended(more) /\ OnLast(more) = {}
        /\ Found(more) = Found(file) \cup {e}
    BY <2>1, <2>2, OneLine
  <2> QED BY <1>0, <1>2, <2>3 DEF more
<1> QED BY <1>1, <1>2

\* A write that is cut short spoils an unended line too; otherwise it takes
\* nothing from what is found.
LEMMA CutShortFacts ==
    ASSUME NEW file \in Seq(Lines), NEW e \in Nat, NEW cut \in CutShort(file, e)
    PROVE  /\ cut \in Seq(Lines) /\ Len(cut) <= Len(file) + 1
           /\ Found(cut) \subseteq Found(file) \cup {e}
           /\ \/ cut = file
              \/ /\ Unended(file) /\ Unended(cut) /\ OnLast(cut) = {}
                 /\ Found(file) \ OnLast(file) \subseteq Found(cut)
              \/ /\ ~Unended(file) /\ Unended(cut) /\ Found(file) \subseteq Found(cut)
                 /\ OnLast(cut) \subseteq {e} /\ OnLast(cut) \subseteq Found(cut)
<1>0. Len(file) \in Nat /\ FALSE \in BOOLEAN
  OBVIOUS
<1>1. CASE cut = file
  BY <1>0, <1>1
<1>2. CASE Unended(file) /\ cut = Append(Front(file), Line(<<>>, FALSE))
  <2>1. /\ cut \in Seq(Lines) /\ Len(cut) = Len(file) /\ Unended(cut) /\ OnLast(cut) = {}
        /\ Found(cut) \subseteq Found(file) /\ Found(file) \ OnLast(file) \subseteq Found(cut)
    BY <1>0, <1>2, SpoiltLine
  <2>2. Len(cut) <= Len(file) + 1
    BY <1>0, <2>1
  <2> QED BY <1>2, <2>1, <2>2, Zenon
<1>3. ASSUME ~Unended(file), NEW l \in Lines, ~l.ended, cut = Append(file, l),
             l.entries # <<>> => Head(l.entries) = e
      PROVE  /\ cut \in Seq(Lines) /\ Len(cut) = Len(file) + 1 /\ Unended(cut)
             /\ Found(cut) \subseteq Found(file) \cup {e} /\ Found(file) \subseteq Found(cut)
             /\ OnLast(cut) \subseteq {e} /\ OnLast(cut) \subseteq Found(cut)
  <2>1. /\ cut \in Seq(Lines) /\ Len(cut) = Len(file) + 1 /\ Unended(cut)
        /\ OnLast(cut) = IF l.entries # <<>> THEN {Head(l.entries)} ELSE {}
        /\ Found(cut) = Found(file) \cup (IF l.entries # <<>> THEN {Head(l.entries)} ELSE {})
    BY <1>3, OneLine
  <2> QED BY <1>3, <2>1
<1>4. CASE ~Unended(file) /\ cut = Append(file, Line(<<>>, FALSE))
  <2>1. /\ Line(<<>>, FALSE) \in Lines /\ ~Line(<<>>, FALSE).ended
        /\ Line(<<>>, FALSE).entries = <<>>
    BY <1>0, LineFacts
  <2>2. /\ cut \in Seq(Lines) /\ Len(cut) = Len(file) + 1 /\ Unended(cut)
        /\ Found(cut) \subseteq Found(file) \cup {e} /\ Found(file) \subseteq Found(cut)
        /\ OnLast(cut) \subseteq {e} /\ OnLast(cut) \subseteq Found(cut)
    BY <1>3, <1>4, <2>1
  <2>3. Len(cut) <= Len(file) + 1
    BY <1>0, <2>2
  <2> QED BY <1>4, <2>2, <2>3, Zenon
<1>5. CASE ~Unended(file) /\ cut = Append(file, Line(<<e>>, FALSE))
  <2>1. /\ Line(<<e>>, FALSE) \in Lines /\ ~Line(<<e>>, FALSE).ended
        /\ Head(Line(<<e>>, FALSE).entries) = e
    BY <1>0, LineFacts
  <2>2. /\ cut \in Seq(Lines) /\ Len(cut) = Len(file) + 1 /\ Unended(cut)
        /\ Found(cut) \subseteq Found(file) \cup {e} /\ Found(file) \subseteq Found(cut)
        /\ OnLast(cut) \subseteq {e} /\ OnLast(cut) \subseteq Found(cut)
    BY <1>3, <1>5, <2>1
  <2>3. Len(cut) <= Len(file) + 1
    BY <1>0, <2>2
  <2> QED BY <1>5, <2>2, <2>3, Zenon
<1> QED BY <1>1, <1>2, <1>4, <1>5 DEF CutShort

-----------------------------------------------------------------------------
(* Directories and what a rotation does to them *)

\* The files of a log that is rotated n times at most.
Dirs(n) == UNION {[D -> Seq(Lines)] : D \in SUBSET (0 .. n)}

LEMMA DirFacts ==
    ASSUME NEW n \in Nat, NEW dir \in Dirs(n)
    PROVE  /\ DOMAIN dir \subseteq 0 .. n
           /\ \A f \in DOMAIN dir : dir[f] \in Seq(Lines)
           /\ Current(dir) \in Seq(Lines) /\ Len(Current(dir)) \in Nat
<1>1. PICK D \in SUBSET (0 .. n) : dir \in [D -> Seq(Lines)]
  BY DEF Dirs
<1>2. Current(dir) \in Seq(Lines)
  <2>1. <<>> \in Seq(Lines)
    OBVIOUS
  <2> QED BY <1>1, <2>1 DEF Current, Exists
<1> QED BY <1>1, <1>2

LEMMA DirType ==
    ASSUME NEW n \in Nat, NEW D \in SUBSET (0 .. n), NEW dir, dir = [f \in D |-> dir[f]],
           \A f \in D : dir[f] \in Seq(Lines)
    PROVE  dir \in Dirs(n)
<1>1. dir \in [D -> Seq(Lines)]
  OBVIOUS
<1> QED BY <1>1 DEF Dirs

LEMMA CurrentFound ==
    ASSUME NEW dir PROVE /\ Exists(dir, 0) => Current(dir) = dir[0]
                         /\ ~Exists(dir, 0) => Current(dir) = <<>> /\ Found(Current(dir)) = {}
<1>1. Found(<<>>) = {}
  BY DEF Found, Parsed
<1> QED BY <1>1 DEF Current

\* What the current file's replacement changes.
LEMMA WithCurrentFacts ==
    ASSUME NEW n \in Nat, NEW dir \in Dirs(n), NEW lines \in Seq(Lines)
    PROVE  /\ WithCurrent(dir, lines) \in Dirs(n)
           /\ Current(WithCurrent(dir, lines)) = lines
           /\ DOMAIN WithCurrent(dir, lines) = DOMAIN dir \cup {0}
           /\ \A f \in DOMAIN dir \ {0} : WithCurrent(dir, lines)[f] = dir[f]
<1> DEFINE new == WithCurrent(dir, lines)
           D == DOMAIN dir \cup {0}
<1>1. D \in SUBSET (0 .. n)
  BY DirFacts
<1>2. /\ new = [f \in D |-> new[f]] /\ new[0] = lines
      /\ \A f \in DOMAIN dir \ {0} : new[f] = dir[f]
  BY DEF WithCurrent
<1>3. \A f \in D : new[f] \in Seq(Lines)
  BY <1>2, DirFacts
<1>4. Current(new) = lines
  BY <1>2 DEF Current, Exists
<1> HIDE DEF new
<1>5. new \in Dirs(n)
  BY <1>1, <1>2, <1>3, DirType
<1> QED BY <1>2, <1>4, <1>5 DEF new

\* File f of dir is in dir2 under its number, or under the next one; a current
\* file that was renamed leaves none behind.
Stays(dir, dir2, f) == f \in DOMAIN dir2 /\ dir2[f] = dir[f]
Moves(dir, dir2, f) == /\ f + 1 \in DOMAIN dir2 /\ dir2[f + 1] = dir[f]
                       /\ f = 0 => Current(dir2) = <<>>

\* The files from top on may be lost when the current one is full.
MayGo(dir, f, top, size) == f # 0 /\ f >= top /\ Full(dir, size)

\* What may be said of each directory that a rotation goes through, and of the
\* one that it ends with.
Carries(dir, dir2, top, size) ==
    /\ Current(dir2) \in {Current(dir), <<>>}
    /\ \A f \in DOMAIN dir : \/ MayGo(dir, f, top, size)
                             \/ Stays(dir, dir2, f)
                             \/ Moves(dir, dir2, f)
Completes(dir, dir2, top, size) ==
    \A f \in DOMAIN dir : \/ MayGo(dir, f, top, size)
                          \/ Stays(dir, dir2, f)
                          \/ Moves(dir, dir2, f) /\ Full(dir, size) /\ Current(dir2) = <<>>

Sound(rotation, dir, n, top, size) ==
    /\ \A dir2 \in rotation.through \cup {rotation.end} :
         dir2 \in Dirs(n) /\ Carries(dir, dir2, top, size)
    /\ Completes(dir, rotation.end, top, size)

LEMMA MovedUpFacts ==
    ASSUME NEW n \in Nat, NEW dir \in Dirs(n), NEW top \in 0 .. n, NEW from \in 0 .. top
    PROVE  LET new == MovedUp(dir, from, top)
           IN  /\ new \in Dirs(n)
               /\ Current(new) = IF from = 0 /\ top > 0 THEN <<>> ELSE Current(dir)
               /\ \A f \in DOMAIN dir : f < from => Stays(dir, new, f)
               /\ \A f \in DOMAIN dir : from <= f /\ f < top => Moves(dir, new, f)
               /\ top = 0 => new = dir
<1> DEFINE moved == {f \in DOMAIN dir : from <= f /\ f < top}
           D == (DOMAIN dir \ moved) \cup {j + 1 : j \in moved}
           new == MovedUp(dir, from, top)
<1>1. /\ DOMAIN dir \subseteq 0 .. n /\ \A f \in DOMAIN dir : dir[f] \in Seq(Lines)
      /\ from \in Nat /\ top \in Nat /\ top <= n
  BY DirFacts
<1>2. new = [f \in D |-> IF f - 1 \in moved THEN dir[f - 1] ELSE dir[f]]
  BY DEF MovedUp
<1>3. D \in SUBSET (0 .. n)
  <2>1. \A j \in moved : j + 1 \in 0 .. n
    BY <1>1
  <2> QED BY <1>1, <2>1
<1>4. \A f \in D : f - 1 \in moved \/ f \in DOMAIN dir \ moved
  <2>1. \A j \in moved : (j + 1) - 1 = j
    BY <1>1
  <2> QED BY <2>1
<1>5. \A f \in D : new[f] = IF f - 1 \in moved THEN dir[f - 1] ELSE dir[f]
  BY <1>2
<1>6. \A f \in D : new[f] \in Seq(Lines)
  <2>1. moved \subseteq DOMAIN dir
    OBVIOUS
  <2> HIDE DEF D, new, moved
  <2> QED BY <1>1, <1>4, <1>5, <2>1
<1>7. ASSUME NEW f \in DOMAIN dir, f < from PROVE f \in DOMAIN new /\ new[f] = dir[f]
  <2>1. f \in D /\ f - 1 \notin moved
    BY <1>1, <1>7
  <2> QED BY <1>2, <1>5, <2>1
<1>8. ASSUME NEW f \in moved PROVE f + 1 \in DOMAIN new /\ new[f + 1] = dir[f]
  <2>1. f + 1 \in D /\ (f + 1) - 1 = f
    BY <1>1
  <2> QED BY <1>2, <1>5, <2>1
<1>9. Current(new) = IF from = 0 /\ top > 0 THEN <<>> ELSE Current(dir)
  <2>1. 0 - 1 \notin moved /\ (0 \in moved <=> 0 \in DOMAIN dir /\ from = 0 /\ top > 0)
    BY <1>1
  <2>2. 0 \in D <=> 0 \in DOMAIN dir /\ ~(from = 0 /\ top > 0)
    <3>1. \A j \in moved : j + 1 # 0
      BY <1>1
    <3> QED BY <2>1, <3>1
  <2>3. 0 \in D => new[0] = dir[0]
    BY <1>5, <2>1
  <2>4. DOMAIN new = D
    BY <1>2
  <2> HIDE DEF new, D, moved
  <2> QED BY <2>2, <2>3, <2>4 DEF Current, Exists
<1>10. new = [f \in D |-> new[f]]
  BY <1>2
<1>11. new \in Dirs(n)
  <2> HIDE DEF new, D
  <2> QED BY <1>3, <1>6, <1>10, DirType
<1>14. ASSUME top = 0 PROVE new = dir
  <2>1. moved = {} /\ from = 0
    BY <1>1, <1>14
  <2>2. new = [f \in DOMAIN dir |-> dir[f]]
    BY <1>2, <2>1
  <2>3. dir = [f \in DOMAIN dir |-> dir[f]]
    BY DEF Dirs
  <2> QED BY <2>2, <2>3
<1> HIDE DEF new
<1>12. \A f \in DOMAIN dir : f < from => Stays(dir, new, f)
  BY <1>7 DEF Stays
<1>13. \A f \in DOMAIN dir : from <= f /\ f < top => Moves(dir, new, f)
  <2>1. ASSUME NEW f \in DOMAIN dir, from <= f, f < top PROVE Moves(dir, new, f)
    <3>1. f = 0 => Current(new) = <<>>
      BY <1>1, <1>9, <2>1
    <3> QED BY <1>8, <2>1, <3>1 DEF Moves
  <2> QED BY <2>1
<1> QED BY <1>9, <1>11, <1>12, <1>13, <1>14 DEF new

LEMMA UnlinkFacts ==
    ASSUME NEW n \in Nat, NEW dir \in Dirs(n), NEW f \in 1 .. n
    PROVE  LET new == Unlink(dir, f)
           IN  /\ new \in Dirs(n) /\ Current(new) = Current(dir)
               /\ DOMAIN new = DOMAIN dir \ {f}
               /\ \A j \in DOMAIN dir : j # f => Stays(dir, new, j)
<1> DEFINE new == Unlink(dir, f)
           D == DOMAIN dir \ {f}
<1>1. /\ new = [j \in D |-> new[j]] /\ \A j \in D : new[j] = dir[j]
  BY DEF Unlink, Restrict
<1>2. D \in SUBSET (0 .. n) /\ \A j \in D : dir[j] \in Seq(Lines)
  BY DirFacts
<1> HIDE DEF new
<1>3. new \in Dirs(n)
  BY <1>1, <1>2, DirType
<1>4. DOMAIN new = D /\ (0 \in D <=> 0 \in DOMAIN dir)
  BY <1>1
<1>5. Current(new) = Current(dir)
  BY <1>1, <1>4 DEF Current, Exists
<1>6. \A j \in DOMAIN dir : j # f => Stays(dir, new, j)
  BY <1>1, <1>4 DEF Stays
<1> QED BY <1>3, <1>4, <1>5, <1>6 DEF new

LEMMA NoRotationSound ==
    ASSUME NEW n \in Nat, NEW dir \in Dirs(n), NEW top, NEW size
    PROVE  Sound(NoRotation(dir), dir, n, top, size)
BY DEF NoRotation, Rotation, Sound, Carries, Completes, Stays

\* The audit log loses its oldest file only (AuditStore._rotate_if_needed).
LEMMA RotateSound ==
    ASSUME NEW n \in Nat \ {0}, NEW dir \in Dirs(n), NEW size \in Nat, Full(dir, size)
    PROVE  Sound(Rotate(dir, n), dir, n, n, size)
<1>1. n \in Nat /\ n \in 0 .. n /\ n > 0 /\ DOMAIN dir \subseteq 0 .. n
  BY DirFacts
<1>2. \A f \in DOMAIN dir : f < n \/ MayGo(dir, f, n, size)
  BY <1>1 DEF MayGo
<1>3. ASSUME NEW from \in 0 .. n
      PROVE  /\ MovedUp(dir, from, n) \in Dirs(n)
             /\ Carries(dir, MovedUp(dir, from, n), n, size)
  <2>1. /\ MovedUp(dir, from, n) \in Dirs(n)
        /\ Current(MovedUp(dir, from, n)) \in {<<>>, Current(dir)}
        /\ \A f \in DOMAIN dir : f < from => Stays(dir, MovedUp(dir, from, n), f)
        /\ \A f \in DOMAIN dir : from <= f /\ f < n => Moves(dir, MovedUp(dir, from, n), f)
    BY <1>1, MovedUpFacts
  <2>2. \A f \in DOMAIN dir : f < from \/ from <= f
    BY <1>1
  <2> QED BY <1>2, <2>1, <2>2 DEF Carries
<1>4. /\ Unlink(dir, n) \in Dirs(n)
      /\ Carries(dir, Unlink(dir, n), n, size)
  <2>1. n \in 1 .. n
    BY <1>1
  <2>2. /\ Unlink(dir, n) \in Dirs(n) /\ Current(Unlink(dir, n)) = Current(dir)
        /\ \A f \in DOMAIN dir : f # n => Stays(dir, Unlink(dir, n), f)
    BY <1>1, <2>1, UnlinkFacts
  <2>3. MayGo(dir, n, n, size)
    BY <1>1 DEF MayGo
  <2> QED BY <2>2, <2>3 DEF Carries
<1>5. Completes(dir, MovedUp(dir, 0, n), n, size)
  <2>1. 0 \in 0 .. n /\ \A f \in DOMAIN dir : 0 <= f
    BY <1>1
  <2>2. /\ Current(MovedUp(dir, 0, n)) = <<>>
        /\ \A f \in DOMAIN dir : f < n => Moves(dir, MovedUp(dir, 0, n), f)
    BY <1>1, <2>1, MovedUpFacts
  <2> QED BY <1>2, <2>2 DEF Completes
<1> DEFINE rotation == Rotate(dir, n)
<1>6. rotation.end = MovedUp(dir, 0, n) /\ 0 \in 0 .. n
  BY <1>1 DEF Rotate, Rotation
<1>7. \A dir2 \in rotation.through :
         dir2 = Unlink(dir, n) \/ \E from \in 0 .. n : dir2 = MovedUp(dir, from, n)
  BY <1>1 DEF Rotate, Rotation
<1> HIDE DEF rotation
<1> QED BY <1>3, <1>4, <1>5, <1>6, <1>7 DEF Sound, rotation

\* A log of the trace may lose its two oldest files (TraceStore._maybe_rotate).
LEMMA RotateTraceSound ==
    ASSUME NEW n \in Nat \ {0}, NEW dir \in Dirs(n), NEW size \in Nat, Full(dir, size)
    PROVE  Sound(RotateTrace(dir, n), dir, n, n - 1, size)
<1> DEFINE freed == Unlink(dir, n)
           top == IF Exists(dir, n) THEN n - 1 ELSE n
           rotation == RotateTrace(dir, n)
<1>1. /\ n \in Nat /\ n \in 1 .. n /\ DOMAIN dir \subseteq 0 .. n /\ top \in 0 .. n
      /\ top \in {n - 1, n} /\ 0 \in 0 .. top
  <2>1. n \in Nat /\ DOMAIN dir \subseteq 0 .. n
    BY DirFacts
  <2>2. n \in 1 .. n /\ n - 1 \in 0 .. n /\ n \in 0 .. n /\ top \in {n - 1, n}
    BY <2>1
  <2> HIDE DEF top
  <2> QED BY <2>1, <2>2
<1>2. /\ freed \in Dirs(n) /\ Current(freed) = Current(dir)
      /\ DOMAIN freed = DOMAIN dir \ {n}
      /\ \A j \in DOMAIN dir : j # n => j \in DOMAIN freed /\ freed[j] = dir[j]
  <2>1. /\ freed \in Dirs(n) /\ Current(freed) = Current(dir)
        /\ DOMAIN freed = DOMAIN dir \ {n}
        /\ \A j \in DOMAIN dir : j # n => Stays(dir, freed, j)
    BY <1>1, UnlinkFacts
  <2> HIDE DEF freed
  <2> QED BY <2>1 DEF Stays
<1>3. \A f \in DOMAIN dir : f # 0 /\ ~(f < n - 1) => MayGo(dir, f, n - 1, size)
  BY <1>1 DEF MayGo
<1>4. rotation.end = MovedUp(freed, 0, top)
  BY DEF RotateTrace, Rotation
<1>5. \A dir2 \in rotation.through :
         dir2 = dir \/ \E from \in 0 .. top : dir2 = MovedUp(freed, from, top)
  BY DEF RotateTrace, Rotation
<1> HIDE DEF rotation, top, freed
<1>6. ASSUME NEW from \in 0 .. top, NEW new, new = MovedUp(freed, from, top)
      PROVE  /\ new \in Dirs(n)
             /\ Carries(dir, new, n - 1, size)
             /\ from = 0 => Completes(dir, new, n - 1, size)
  <2>1. /\ new \in Dirs(n)
        /\ Current(new) = IF from = 0 /\ top > 0 THEN <<>> ELSE Current(freed)
        /\ \A f \in DOMAIN freed : f < from => Stays(freed, new, f)
        /\ \A f \in DOMAIN freed : from <= f /\ f < top => Moves(freed, new, f)
        /\ top = 0 => new = freed
    BY <1>1, <1>2, <1>6, MovedUpFacts
  <2>2. ASSUME NEW f \in DOMAIN dir
        PROVE  \/ MayGo(dir, f, n - 1, size)
               \/ Stays(dir, new, f) /\ (f < from \/ top = 0)
               \/ Moves(dir, new, f) /\ top # 0
    <3>1. CASE f < n - 1
      <4>1. /\ f \in DOMAIN freed /\ freed[f] = dir[f] /\ f < top /\ top # 0
            /\ f < from \/ from <= f
        BY <1>1, <1>2, <3>1
      <4> QED BY <2>1, <4>1 DEF Stays, Moves
    <3>2. CASE f # 0 /\ ~(f < n - 1)
      BY <1>3, <3>2
    <3>3. CASE f = 0 /\ top = 0
      BY <1>1, <1>2, <2>1, <3>3 DEF Stays
    <3>4. CASE f = 0 /\ top > 0
      <4>1. f \in DOMAIN freed /\ freed[f] = dir[f] /\ (f < from \/ from <= f)
        BY <1>1, <1>2, <3>4
      <4> QED BY <2>1, <3>4, <4>1 DEF Stays, Moves
    <3> QED BY <1>1, <3>1, <3>2, <3>3, <3>4
  <2>3. Carries(dir, new, n - 1, size)
    BY <1>2, <2>1, <2>2 DEF Carries
  <2>4. ASSUME from = 0 PROVE Completes(dir, new, n - 1, size)
    <3>1. \A f \in DOMAIN dir : ~(f < from)
      BY <1>1, <2>4
    <3>2. top # 0 => Current(new) = <<>>
      BY <1>1, <2>1, <2>4
    <3> QED BY <2>1, <2>2, <3>1, <3>2 DEF Completes
  <2> QED BY <2>1, <2>3, <2>4
<1>7. dir \in Dirs(n) /\ Carries(dir, dir, n - 1, size)
  BY DEF Carries, Stays
<1> QED BY <1>1, <1>4, <1>5, <1>6, <1>7 DEF Sound, rotation

-----------------------------------------------------------------------------
(* Entries and how far they may be *)

LEMMA Products ==
    ASSUME NEW f \in Int, NEW lost \in Int, NEW size \in Nat
    PROVE  /\ (f - 1 - lost) * size \in Int
           /\ (f + 1 - 1 - lost) * size = (f - 1 - lost) * size + size
           /\ (f - 1 - (lost + 1)) * size = (f - 1 - lost) * size - size
           /\ (f + 1 - 1 - (lost + 1)) * size = (f - 1 - lost) * size
           /\ (f - lost) * size = (f - 1 - lost) * size + size
           /\ (f - (lost + 1)) * size = (f - lost) * size - size
OBVIOUS

LEMMA Monotone ==
    ASSUME NEW low \in Int, NEW high \in Int, NEW size \in Nat, low <= high
    PROVE  low * size <= high * size
<1>1. (high - low) \in Nat
  OBVIOUS
<1>2. (high - low) * size \in Nat
  BY <1>1
<1>3. high * size = low * size + (high - low) * size
  OBVIOUS
<1>4. low * size \in Int /\ high * size \in Int
  OBVIOUS
<1> QED BY <1>2, <1>3, <1>4

\* The entry e is in the current file; or in an older one, behind which there are
\* as many entries as the files before it hold, but for those of one file for each
\* operation that was lost.
Placed(dir, e, now, lost, size) ==
    \/ e \in Found(Current(dir))
    \/ \E f \in DOMAIN dir \ {0} :
         /\ e \in Found(dir[f])
         /\ now - e >= (f - 1 - lost) * size + Len(Current(dir))

\* An entry that is recent enough is in no file that may go.
LEMMA Recent ==
    ASSUME NEW n \in Nat, NEW dir \in Dirs(n), NEW top \in Int, NEW size \in Nat,
           NEW now \in Nat, NEW lost \in Nat, NEW e \in Nat, NEW f \in DOMAIN dir,
           now - e >= (f - 1 - lost) * size + Len(Current(dir)),
           now - e < (top - lost) * size
    PROVE  ~MayGo(dir, f, top, size)
<1> SUFFICES ASSUME f # 0, f >= top, Full(dir, size) PROVE FALSE
  BY DEF MayGo
<1>1. f \in Nat /\ Len(Current(dir)) \in Nat /\ Len(Current(dir)) >= size
  BY DirFacts, CurrentFound DEF Full
<1>2. f - 1 - lost \in Int /\ top - 1 - lost \in Int /\ top - 1 - lost <= f - 1 - lost
  BY <1>1
<1>3. (top - 1 - lost) * size <= (f - 1 - lost) * size
  BY <1>2, Monotone
<1>4. /\ (top - lost) * size = (top - 1 - lost) * size + size
      /\ (top - 1 - lost) * size \in Int /\ (f - 1 - lost) * size \in Int
  BY <1>1, Products
<1> DEFINE a == (top - 1 - lost) * size
           b == (f - 1 - lost) * size
           c == (top - lost) * size
<1>5. a <= b /\ c = a + size /\ a \in Int /\ b \in Int
      /\ now - e >= b + Len(Current(dir)) /\ now - e < c
  BY <1>3, <1>4
<1> HIDE DEF a, b, c
<1> QED BY <1>1, <1>5

\* One more entry, by an operation that is lost.
LEMMA CarriedPlaced ==
    ASSUME NEW n \in Nat, NEW dir \in Dirs(n), NEW dir2 \in Dirs(n), NEW top \in Int,
           NEW size \in Nat, NEW now \in Nat, NEW lost \in Nat, NEW e \in Nat, e <= now,
           Carries(dir, dir2, top, size), Placed(dir, e, now, lost, size),
           now - e < (top - lost) * size
    PROVE  Placed(dir2, e, now + 1, lost + 1, size)
<1>1. /\ DOMAIN dir \subseteq Nat /\ Len(Current(dir)) \in Nat /\ Len(Current(dir2)) \in Nat
      /\ Len(Current(dir2)) <= Len(Current(dir))
  <2>1. Len(<<>>) = 0
    OBVIOUS
  <2>2. DOMAIN dir \subseteq Nat /\ Len(Current(dir)) \in Nat /\ Len(Current(dir2)) \in Nat
    BY DirFacts
  <2> QED BY <2>1, <2>2 DEF Carries
<1>2. CASE e \in Found(Current(dir))
  <2>1. 0 \in DOMAIN dir /\ Current(dir) = dir[0] /\ e \in Found(dir[0])
    BY <1>2, CurrentFound DEF Exists
  <2>2. ~MayGo(dir, 0, top, size)
    BY DEF MayGo
  <2>3. CASE Stays(dir, dir2, 0)
    BY <2>1, <2>3, CurrentFound DEF Stays, Exists, Placed
  <2>4. CASE Moves(dir, dir2, 0)
    <3>1. /\ 1 \in DOMAIN dir2 \ {0} /\ e \in Found(dir2[1]) /\ Current(dir2) = <<>>
      BY <2>1, <2>4 DEF Moves
    <3>2. now + 1 - e >= (1 - 1 - (lost + 1)) * size + Len(Current(dir2))
      <4>1. Len(<<>>) = 0 /\ 1 - 1 - (lost + 1) \in Int /\ 1 - 1 - (lost + 1) <= 0 /\ 0 \in Int
        OBVIOUS
      <4>2. (1 - 1 - (lost + 1)) * size <= 0 * size /\ (1 - 1 - (lost + 1)) * size \in Int
        BY <4>1, Monotone
      <4>3. 0 * size = 0 /\ now + 1 - e >= 0
        OBVIOUS
      <4> DEFINE a == (1 - 1 - (lost + 1)) * size
      <4>4. a <= 0 /\ a \in Int
        BY <4>2, <4>3
      <4> HIDE DEF a
      <4>5. now + 1 - e >= a + Len(Current(dir2))
        BY <3>1, <4>1, <4>3, <4>4
      <4> QED BY <4>5 DEF a
    <3> QED BY <3>1, <3>2 DEF Placed
  <2> QED BY <2>1, <2>2, <2>3, <2>4 DEF Carries
<1>3. ASSUME NEW f \in DOMAIN dir \ {0}, e \in Found(dir[f]),
             now - e >= (f - 1 - lost) * size + Len(Current(dir))
      PROVE  Placed(dir2, e, now + 1, lost + 1, size)
  <2>1. ~MayGo(dir, f, top, size) /\ f \in Nat
    BY <1>1, <1>3, Recent
  <2>2. /\ (f - 1 - lost) * size \in Int
        /\ (f - 1 - (lost + 1)) * size = (f - 1 - lost) * size - size
        /\ (f + 1 - 1 - (lost + 1)) * size = (f - 1 - lost) * size
    BY <2>1, Products
  <2> DEFINE a == (f - 1 - lost) * size
             b == (f - 1 - (lost + 1)) * size
             c == (f + 1 - 1 - (lost + 1)) * size
  <2>3. a \in Int /\ b = a - size /\ c = a /\ now - e >= a + Len(Current(dir))
    BY <1>3, <2>2
  <2> HIDE DEF a, b, c
  <2>4. /\ now + 1 - e >= b + Len(Current(dir2))
        /\ now + 1 - e >= c + Len(Current(dir2))
    BY <1>1, <2>3
  <2>5. CASE Stays(dir, dir2, f)
    BY <1>3, <2>4, <2>5 DEF Stays, Placed, b
  <2>6. CASE Moves(dir, dir2, f)
    <3>1. f + 1 \in DOMAIN dir2 \ {0} /\ e \in Found(dir2[f + 1])
      BY <1>3, <2>1, <2>6 DEF Moves
    <3>2. PICK g : g = f + 1
      OBVIOUS
    <3>3. c = (g - 1 - (lost + 1)) * size
      BY <2>1, <3>2 DEF c
    <3> QED BY <2>4, <3>1, <3>2, <3>3 DEF Placed
  <2> QED BY <2>1, <2>5, <2>6 DEF Carries
<1> QED BY <1>2, <1>3 DEF Placed

\* One more entry, behind a rotation that came to its end.
LEMMA CompletedPlaced ==
    ASSUME NEW n \in Nat, NEW dir \in Dirs(n), NEW dir2 \in Dirs(n), NEW top \in Int,
           NEW size \in Nat, NEW now \in Nat, NEW lost \in Nat, NEW e \in Nat, e <= now,
           Carries(dir, dir2, top, size), Completes(dir, dir2, top, size),
           Placed(dir, e, now, lost, size), now - e < (top - lost) * size,
           NEW lines \in Seq(Lines), Len(lines) <= Len(Current(dir2)) + 1,
           e \in Found(Current(dir2)) => e \in Found(lines)
    PROVE  Placed(WithCurrent(dir2, lines), e, now + 1, lost, size)
<1> DEFINE new == WithCurrent(dir2, lines)
<1> SUFFICES Placed(new, e, now + 1, lost, size)
  OBVIOUS
<1>1. /\ DOMAIN dir \subseteq Nat /\ Len(Current(dir)) \in Nat /\ Len(Current(dir2)) \in Nat
      /\ Len(lines) \in Nat /\ Len(<<>>) = 0
      /\ Len(Current(dir2)) <= Len(Current(dir))
  <2>1. Len(<<>>) = 0
    OBVIOUS
  <2>2. /\ DOMAIN dir \subseteq Nat /\ Len(Current(dir)) \in Nat /\ Len(Current(dir2)) \in Nat
        /\ Len(lines) \in Nat
    BY DirFacts
  <2> QED BY <2>1, <2>2 DEF Carries
<1>2. /\ Current(new) = lines /\ DOMAIN new = DOMAIN dir2 \cup {0}
      /\ \A f \in DOMAIN dir2 \ {0} : new[f] = dir2[f]
  BY WithCurrentFacts
<1> HIDE DEF new
<1>3. CASE e \in Found(Current(dir))
  <2>1. 0 \in DOMAIN dir /\ Current(dir) = dir[0] /\ e \in Found(dir[0])
    BY <1>3, CurrentFound DEF Exists
  <2>2. ~MayGo(dir, 0, top, size)
    BY DEF MayGo
  <2>3. CASE Stays(dir, dir2, 0)
    <3>1. e \in Found(Current(dir2))
      BY <2>1, <2>3, CurrentFound DEF Stays, Exists
    <3> QED BY <1>2, <3>1 DEF Placed
  <2>4. CASE Moves(dir, dir2, 0)
    <3>1. /\ 1 \in DOMAIN new \ {0} /\ e \in Found(new[1]) /\ Current(dir2) = <<>>
      BY <1>2, <2>1, <2>4 DEF Moves
    <3>2. now + 1 - e >= (1 - 1 - lost) * size + Len(Current(new))
      <4>1. 1 - 1 - lost \in Int /\ 1 - 1 - lost <= 0 /\ 0 \in Int
        OBVIOUS
      <4>2. (1 - 1 - lost) * size <= 0 * size /\ (1 - 1 - lost) * size \in Int
        BY <4>1, Monotone
      <4>3. 0 * size = 0 /\ now + 1 - e >= 1
        OBVIOUS
      <4> DEFINE a == (1 - 1 - lost) * size
      <4>4. a <= 0 /\ a \in Int
        BY <4>2, <4>3
      <4>6. Len(lines) <= 1
        BY <1>1, <3>1
      <4> HIDE DEF a
      <4>5. now + 1 - e >= a + Len(Current(new))
        BY <1>1, <1>2, <4>3, <4>4, <4>6
      <4> QED BY <4>5 DEF a
    <3> QED BY <3>1, <3>2 DEF Placed
  <2> QED BY <2>1, <2>2, <2>3, <2>4 DEF Carries
<1>4. ASSUME NEW f \in DOMAIN dir \ {0}, e \in Found(dir[f]),
             now - e >= (f - 1 - lost) * size + Len(Current(dir))
      PROVE  Placed(new, e, now + 1, lost, size)
  <2>1. ~MayGo(dir, f, top, size) /\ f \in Nat
    BY <1>1, <1>4, Recent
  <2>2. /\ (f - 1 - lost) * size \in Int
        /\ (f + 1 - 1 - lost) * size = (f - 1 - lost) * size + size
    BY <2>1, Products
  <2> DEFINE a == (f - 1 - lost) * size
             b == (f + 1 - 1 - lost) * size
  <2>3. a \in Int /\ b = a + size /\ now - e >= a + Len(Current(dir))
    BY <1>4, <2>2
  <2> HIDE DEF a, b
  <2>4. CASE Stays(dir, dir2, f)
    <3>1. now + 1 - e >= a + Len(Current(new))
      BY <1>1, <1>2, <2>3
    <3>2. f \in DOMAIN new \ {0} /\ e \in Found(new[f])
      BY <1>2, <1>4, <2>4 DEF Stays
    <3> QED BY <3>1, <3>2 DEF Placed, a
  <2>5. CASE Moves(dir, dir2, f) /\ Full(dir, size) /\ Current(dir2) = <<>>
    <3>1. Len(Current(dir)) >= size /\ Len(lines) <= 1
      BY <1>1, <2>5, CurrentFound DEF Full
    <3>2. now + 1 - e >= b + Len(Current(new))
      BY <1>1, <1>2, <2>3, <3>1
    <3>3. f + 1 \in DOMAIN new \ {0} /\ e \in Found(new[f + 1])
      BY <1>2, <1>4, <2>1, <2>5 DEF Moves
    <3>4. PICK g : g = f + 1
      OBVIOUS
    <3>5. b = (g - 1 - lost) * size
      BY <2>1, <3>4 DEF b
    <3> QED BY <3>2, <3>3, <3>4, <3>5 DEF Placed
  <2> QED BY <2>1, <2>4, <2>5 DEF Completes
<1> QED BY <1>3, <1>4 DEF Placed

\* What is placed is placed if one more operation is lost.
LEMMA PlacedStill ==
    ASSUME NEW n \in Nat, NEW dir \in Dirs(n), NEW size \in Nat, NEW now \in Nat,
           NEW lost \in Nat, NEW e \in Nat, Placed(dir, e, now, lost, size)
    PROVE  Placed(dir, e, now, lost + 1, size)
<1>1. ASSUME NEW f \in DOMAIN dir, now - e >= (f - 1 - lost) * size + Len(Current(dir))
      PROVE  now - e >= (f - 1 - (lost + 1)) * size + Len(Current(dir))
  <2>1. f \in Nat /\ Len(Current(dir)) \in Nat
    BY DirFacts
  <2>2. /\ (f - 1 - lost) * size \in Int
        /\ (f - 1 - (lost + 1)) * size = (f - 1 - lost) * size - size
    BY <2>1, Products
  <2> DEFINE a == (f - 1 - lost) * size
             b == (f - 1 - (lost + 1)) * size
  <2>3. a \in Int /\ b = a - size /\ now - e >= a + Len(Current(dir))
    BY <1>1, <2>2
  <2> HIDE DEF a, b
  <2>4. now - e >= b + Len(Current(dir))
    BY <2>1, <2>3
  <2> QED BY <2>4 DEF b
<1> QED BY <1>1 DEF Placed

\* The entries that a rotation may not lose.
Bound(dir, now, lost, top, size) ==
    {e \in Nat : e <= now /\ Placed(dir, e, now, lost, size) /\ now - e < (top - lost) * size}

LEMMA AppendedPlaced ==
    ASSUME NEW n \in Nat, NEW dir \in Dirs(n), NEW top \in Int, NEW size \in Nat,
           NEW now \in Nat, NEW lost \in Nat,
           NEW rotation, Sound(rotation, dir, n, top, size)
    PROVE  LET new == Appended(rotation, now + 1)
           IN  /\ new \in Dirs(n)
               /\ ~Unended(Current(new)) /\ OnLast(Current(new)) = {}
               /\ \A e \in Bound(dir, now, lost, top, size) \ OnLast(Current(dir)) :
                    Placed(new, e, now + 1, lost, size)
               /\ ~Unended(Current(dir)) => Placed(new, now + 1, now + 1, lost, size)
<1> DEFINE end == rotation.end
           file == Current(end)
           lines == AppendLine(file, now + 1)
           new == WithCurrent(end, lines)
<1>1. /\ end \in Dirs(n) /\ Carries(dir, end, top, size) /\ Completes(dir, end, top, size)
      /\ now + 1 \in Nat
  BY DEF Sound
<1>2. Appended(rotation, now + 1) = new
  BY DEF Appended
<1> HIDE DEF end
<1>3. file \in Seq(Lines) /\ file \in {Current(dir), <<>>}
  BY <1>1, DirFacts DEF Carries
<1>4. ~Unended(<<>>) /\ OnLast(<<>>) = {}
  BY DEF Unended, OnLast
<1>5. /\ lines \in Seq(Lines) /\ Len(lines) <= Len(file) + 1
      /\ ~Unended(lines) /\ OnLast(lines) = {}
      /\ Found(file) \ OnLast(file) \subseteq Found(lines)
      /\ ~Unended(file) => Found(lines) = Found(file) \cup {now + 1}
  BY <1>1, <1>3, AppendFacts
<1>6. new \in Dirs(n) /\ Current(new) = lines
  BY <1>1, <1>5, WithCurrentFacts
<1>7. ASSUME NEW e \in Bound(dir, now, lost, top, size) \ OnLast(Current(dir))
      PROVE  Placed(new, e, now + 1, lost, size)
  <2>1. e \in Nat /\ e <= now /\ Placed(dir, e, now, lost, size) /\ now - e < (top - lost) * size
    BY DEF Bound
  <2>2. e \in Found(file) => e \in Found(lines)
    BY <1>3, <1>4, <1>5
  <2> HIDE DEF file, lines
  <2> QED BY <1>1, <1>5, <2>1, <2>2, CompletedPlaced DEF file
<1>8. ASSUME ~Unended(Current(dir)) PROVE Placed(new, now + 1, now + 1, lost, size)
  BY <1>3, <1>4, <1>5, <1>6, <1>8 DEF Placed
<1> HIDE DEF new, lines
<1> QED BY <1>2, <1>5, <1>6, <1>7, <1>8

LEMMA InterruptedPlaced ==
    ASSUME NEW n \in Nat, NEW dir \in Dirs(n), NEW top \in Int, NEW size \in Nat,
           NEW now \in Nat, NEW lost \in Nat,
           NEW rotation, Sound(rotation, dir, n, top, size),
           NEW new \in Interrupted(rotation, now + 1)
    PROVE  /\ new \in Dirs(n)
           /\ OnLast(Current(new)) \subseteq OnLast(Current(dir)) \cup {now + 1}
           /\ \/ /\ Current(new) \in {Current(dir), <<>>}
                 /\ \A e \in Bound(dir, now, lost, top, size) :
                      Placed(new, e, now + 1, lost + 1, size)
              \/ /\ Unended(Current(dir)) /\ Unended(Current(new)) /\ OnLast(Current(new)) = {}
                 /\ \A e \in Bound(dir, now, lost, top, size) \ OnLast(Current(dir)) :
                      Placed(new, e, now + 1, lost + 1, size)
              \/ /\ Unended(Current(new)) /\ OnLast(Current(new)) \subseteq {now + 1}
                 /\ \A e \in Bound(dir, now, lost, top, size) :
                      Placed(new, e, now + 1, lost + 1, size)
                 /\ OnLast(Current(new)) # {} => Placed(new, now + 1, now + 1, lost + 1, size)
<1> DEFINE end == rotation.end
           file == Current(end)
<1>1. /\ end \in Dirs(n) /\ Carries(dir, end, top, size) /\ Completes(dir, end, top, size)
      /\ now + 1 \in Nat
  BY DEF Sound
<1>2. \A e \in Bound(dir, now, lost, top, size) :
        e \in Nat /\ e <= now /\ Placed(dir, e, now, lost, size) /\ now - e < (top - lost) * size
  BY DEF Bound
<1>3. ~Unended(<<>>) /\ OnLast(<<>>) = {}
  BY DEF Unended, OnLast
<1>4. CASE new \in rotation.through \cup {rotation.end}
  <2>1. new \in Dirs(n) /\ Carries(dir, new, top, size)
    BY <1>4 DEF Sound
  <2>2. Current(new) \in {Current(dir), <<>>}
    BY <2>1 DEF Carries
  <2>3. \A e \in Bound(dir, now, lost, top, size) : Placed(new, e, now + 1, lost + 1, size)
    BY <1>2, <2>1, CarriedPlaced
  <2> QED BY <1>3, <2>1, <2>2, <2>3
<1>5. CASE new \in {WithCurrent(end, lines) : lines \in CutShort(file, now + 1)}
  <2>1. PICK cut \in CutShort(file, now + 1) : new = WithCurrent(end, cut)
    BY <1>5
  <2> HIDE DEF end
  <2>2. file \in Seq(Lines) /\ file \in {Current(dir), <<>>}
    BY <1>1, DirFacts DEF Carries
  <2>3. /\ cut \in Seq(Lines) /\ Len(cut) <= Len(file) + 1
        /\ \/ cut = file
           \/ /\ Unended(file) /\ Unended(cut) /\ OnLast(cut) = {}
              /\ Found(file) \ OnLast(file) \subseteq Found(cut)
           \/ /\ ~Unended(file) /\ Unended(cut) /\ Found(file) \subseteq Found(cut)
              /\ OnLast(cut) \subseteq {now + 1} /\ OnLast(cut) \subseteq Found(cut)
    BY <1>1, <2>2, CutShortFacts
  <2>4. new \in Dirs(n) /\ Current(new) = cut
    BY <1>1, <2>1, <2>3, WithCurrentFacts
  <2>5. ASSUME NEW e \in Bound(dir, now, lost, top, size), e \in Found(file) => e \in Found(cut)
        PROVE  Placed(new, e, now + 1, lost + 1, size)
    <3>1. Placed(new, e, now + 1, lost, size)
      <4> HIDE DEF file
      <4> QED BY <1>1, <1>2, <2>1, <2>3, <2>5, CompletedPlaced DEF file
    <3>2. PICK later \in Nat : later = now + 1
      OBVIOUS
    <3> QED BY <1>2, <2>4, <3>1, <3>2, PlacedStill
  <2>6. CASE cut = file
    <3>1. \A e \in Bound(dir, now, lost, top, size) : Placed(new, e, now + 1, lost + 1, size)
      BY <2>5, <2>6
    <3> QED BY <1>3, <2>2, <2>4, <2>6, <3>1
  <2>7. CASE /\ Unended(file) /\ Unended(cut) /\ OnLast(cut) = {}
             /\ Found(file) \ OnLast(file) \subseteq Found(cut)
    <3>1. file = Current(dir)
      BY <1>3, <2>2, <2>7
    <3>2. \A e \in Bound(dir, now, lost, top, size) \ OnLast(Current(dir)) :
            Placed(new, e, now + 1, lost + 1, size)
      BY <2>5, <2>7, <3>1
    <3> QED BY <2>4, <2>7, <3>1, <3>2
  <2>8. CASE /\ ~Unended(file) /\ Unended(cut) /\ Found(file) \subseteq Found(cut)
             /\ OnLast(cut) \subseteq {now + 1} /\ OnLast(cut) \subseteq Found(cut)
    <3>1. \A e \in Bound(dir, now, lost, top, size) : Placed(new, e, now + 1, lost + 1, size)
      BY <2>5, <2>8
    <3>2. OnLast(cut) # {} => Placed(new, now + 1, now + 1, lost + 1, size)
      BY <2>4, <2>8 DEF Placed
    <3> QED BY <2>4, <2>8, <3>1, <3>2
  <2> QED BY <2>3, <2>6, <2>7, <2>8
<1> QED BY <1>4, <1>5 DEF Interrupted

-----------------------------------------------------------------------------
(* The audit log *)

\* The entries that are to be kept, and those of them that are in no place where
\* the next rotations leave them.
Fresh == {e \in logged : e >= cutoff /\ clock - e < (MaxFiles - stops) * FileLines}
Adrift == {e \in Fresh : ~Placed(audit, e, clock, stops, FileLines)}

\* An append that stopped costs one of them at most: at once with a rotation's
\* file, or later with the line that it left without a newline.
AuditInv ==
    /\ audit \in Dirs(MaxFiles)
    /\ clock \in Nat /\ logged \subseteq 1 .. clock /\ cutoff \in 1 .. clock + 1
    /\ stops \in Nat /\ cleanups \in Nat
    /\ Cardinality(Adrift) + (IF Unended(Current(audit)) THEN 1 ELSE 0) <= stops
    /\ OnLast(Current(audit)) \cap logged = {}

LEMMA CountOneMore ==
    ASSUME NEW S, IsFiniteSet(S), NEW T, NEW x, T \subseteq S \cup {x}
    PROVE  /\ IsFiniteSet(T) /\ Cardinality(T) \in Nat /\ Cardinality(S) \in Nat
           /\ Cardinality(T) <= Cardinality(S) + 1
           /\ T \subseteq S => Cardinality(T) <= Cardinality(S)
<1>1. /\ IsFiniteSet(S \cup {x}) /\ Cardinality(S) \in Nat
      /\ Cardinality(S \cup {x}) \in {Cardinality(S), Cardinality(S) + 1}
  BY FS_AddElement, FS_CardinalityType
<1>2. IsFiniteSet(T) /\ Cardinality(T) <= Cardinality(S \cup {x}) /\ Cardinality(T) \in Nat
  BY <1>1, FS_Subset, FS_CardinalityType
<1>3. T \subseteq S => Cardinality(T) <= Cardinality(S)
  BY FS_Subset
<1> QED BY <1>1, <1>2, <1>3

LEMMA AdriftFinite == ASSUME AuditInv PROVE IsFiniteSet(Adrift)
<1>1. clock \in Nat /\ logged \subseteq 1 .. clock /\ Adrift \subseteq logged
  BY DEF AuditInv, Adrift, Fresh
<1>2. IsFiniteSet(1 .. clock)
  BY <1>1, FS_Interval
<1> QED BY <1>1, <1>2, FS_Subset

\* What is fresh behind the next entry is bound to be kept by a rotation.
LEMMA FreshLater ==
    ASSUME NEW now \in Nat, NEW e \in 1 .. now, NEW n \in Nat, NEW lost \in Nat, NEW size \in Nat,
           NEW later \in {lost, lost + 1}, now + 1 - e < (n - later) * size
    PROVE  now - e < (n - lost) * size
<1>1. (n - lost) * size \in Int /\ (n - (lost + 1)) * size = (n - lost) * size - size
  <2>1. (n - lost) \in Int
    OBVIOUS
  <2> QED BY <2>1, Products
<1> DEFINE a == (n - lost) * size
           b == (n - (lost + 1)) * size
<1>2. a \in Int /\ b = a - size
  BY <1>1
<1>3. later = lost => now + 1 - e < a
  OBVIOUS
<1>4. later = lost + 1 => now + 1 - e < b
  OBVIOUS
<1> HIDE DEF a, b
<1>5. now - e < a
  BY <1>2, <1>3, <1>4
<1> QED BY <1>5 DEF a

LEMMA LogOperationInv == ASSUME AuditInv, LogOperation PROVE AuditInv'
<1> DEFINE entry == clock + 1
           rotation == IF Full(audit, FileLines) THEN Rotate(audit, MaxFiles)
                                                 ELSE NoRotation(audit)
<1>1. /\ MaxFiles \in Nat \ {0} /\ MaxFiles \in Nat /\ MaxFiles \in Int
      /\ FileLines \in Nat /\ entry \in Nat /\ entry \notin logged
  BY AuditAssumption DEF AuditInv
<1>2. Sound(rotation, audit, MaxFiles, MaxFiles, FileLines)
  BY <1>1, RotateSound, NoRotationSound DEF AuditInv
<1>3. /\ clock' = entry /\ cutoff' = cutoff /\ cleanups' = cleanups
      /\ \/ audit' = Appended(rotation, entry) /\ logged' = logged \cup {entry} /\ stops' = stops
         \/ audit' \in Interrupted(rotation, entry) /\ stops' = stops + 1 /\ logged' = logged
  BY DEF LogOperation
<1> DEFINE bound == Bound(audit, clock, stops, MaxFiles, FileLines)
<1>4. ASSUME NEW e \in Fresh', e # entry
      PROVE  e \in Adrift \/ e \in bound
  <2>1. /\ e \in logged /\ e \in 1 .. clock /\ e >= cutoff
        /\ clock + 1 - e < (MaxFiles - stops') * FileLines /\ stops' \in {stops, stops + 1}
    <3>1. /\ e \in logged' /\ e >= cutoff'
          /\ clock' - e < (MaxFiles - stops') * FileLines
      BY <1>4 DEF Fresh
    <3>2. e \in logged /\ e \in 1 .. clock
      BY <1>3, <1>4, <3>1 DEF AuditInv
    <3> DEFINE limit == (MaxFiles - stops') * FileLines
    <3>3. clock' - e < limit /\ clock' = clock + 1 /\ clock \in Nat
      BY <1>3, <3>1 DEF AuditInv
    <3>4. limit \in Int
      BY <1>1, <1>3 DEF AuditInv
    <3> HIDE DEF limit
    <3>5. clock + 1 - e < limit
      BY <3>2, <3>3, <3>4
    <3>6. e >= cutoff /\ stops' \in {stops, stops + 1}
      BY <1>3, <3>1
    <3> QED BY <3>2, <3>5, <3>6 DEF limit
  <2>2. clock - e < (MaxFiles - stops) * FileLines
    BY <1>1, <2>1, FreshLater DEF AuditInv
  <2> QED BY <2>1, <2>2 DEF Fresh, Adrift, Bound
<1>5. IsFiniteSet(Adrift) /\ Cardinality(Adrift) \in Nat
  BY AdriftFinite, FS_CardinalityType
<1> HIDE DEF rotation
<1>6. CASE audit' = Appended(rotation, entry) /\ logged' = logged \cup {entry} /\ stops' = stops
  <2>1. /\ audit' \in Dirs(MaxFiles) /\ ~Unended(Current(audit')) /\ OnLast(Current(audit')) = {}
        /\ \A e \in bound \ OnLast(Current(audit)) :
             Placed(audit', e, entry, stops, FileLines)
        /\ ~Unended(Current(audit)) => Placed(audit', entry, entry, stops, FileLines)
    BY <1>1, <1>2, <1>6, AppendedPlaced DEF AuditInv
  <2>2. \A e \in Adrift' : e \in Fresh' /\ ~Placed(audit', e, entry, stops, FileLines)
    BY <1>3, <1>6 DEF Adrift
  <2>3. \A e \in Adrift' : e # entry => e \in logged
    BY <1>6 DEF Adrift, Fresh
  <2> HIDE DEF bound, entry
  <2>4. Adrift' \subseteq Adrift \cup {entry}
    BY <1>4, <2>1, <2>2, <2>3 DEF AuditInv
  <2>5. ~Unended(Current(audit)) => Adrift' \subseteq Adrift
    BY <2>1, <2>2, <2>4
  <2>6. /\ Cardinality(Adrift') \in Nat
        /\ Cardinality(Adrift') <= Cardinality(Adrift) + 1
        /\ ~Unended(Current(audit)) => Cardinality(Adrift') <= Cardinality(Adrift)
    BY <1>5, <2>4, <2>5, CountOneMore
  <2>7. Cardinality(Adrift') <= stops
    BY <1>5, <2>6 DEF AuditInv
  <2>8. /\ clock' \in Nat /\ logged' \subseteq 1 .. clock' /\ cutoff' \in 1 .. clock' + 1
        /\ stops' \in Nat /\ cleanups' \in Nat
    BY <1>3, <1>6 DEF AuditInv, entry
  <2>9. Cardinality(Adrift') + (IF Unended(Current(audit')) THEN 1 ELSE 0) <= stops'
    BY <1>6, <2>1, <2>6, <2>7
  <2>10. OnLast(Current(audit')) \cap logged' = {}
    BY <2>1
  <2> QED BY <2>1, <2>8, <2>9, <2>10 DEF AuditInv
<1>7. CASE audit' \in Interrupted(rotation, entry) /\ stops' = stops + 1 /\ logged' = logged
  <2>1. /\ audit' \in Dirs(MaxFiles)
        /\ OnLast(Current(audit')) \subseteq OnLast(Current(audit)) \cup {entry}
        /\ \A e \in bound \ OnLast(Current(audit)) :
             Placed(audit', e, entry, stops + 1, FileLines)
    BY <1>1, <1>2, <1>7, InterruptedPlaced DEF AuditInv
  <2>2. \A e \in Adrift' : e \in Fresh' /\ ~Placed(audit', e, entry, stops + 1, FileLines)
    BY <1>3, <1>7 DEF Adrift
  <2>3. \A e \in Adrift' : e # entry /\ e \in logged
    BY <1>1, <1>7 DEF Adrift, Fresh
  <2>8. /\ clock' \in Nat /\ logged' \subseteq 1 .. clock' /\ cutoff' \in 1 .. clock' + 1
        /\ stops' \in Nat /\ cleanups' \in Nat
    BY <1>3, <1>7 DEF AuditInv
  <2> HIDE DEF bound, entry
  <2>4. Adrift' \subseteq Adrift
    BY <1>4, <2>1, <2>2, <2>3 DEF AuditInv
  <2>5. Cardinality(Adrift') \in Nat /\ Cardinality(Adrift') <= Cardinality(Adrift)
    BY <1>5, <2>4, CountOneMore
  <2>6. Cardinality(Adrift') + (IF Unended(Current(audit')) THEN 1 ELSE 0) <= stops'
    <3>1. Cardinality(Adrift) <= stops /\ stops \in Nat
      BY <1>5 DEF AuditInv
    <3> QED BY <1>5, <1>7, <2>5, <3>1
  <2>7. OnLast(Current(audit')) \cap logged' = {}
    BY <1>1, <1>7, <2>1 DEF AuditInv
  <2> QED BY <2>1, <2>6, <2>7, <2>8 DEF AuditInv
<1> QED BY <1>3, <1>6, <1>7

-----------------------------------------------------------------------------
(* What a reader of a directory finds *)

\* The places of a directory that have an entry, and the entries.
Places(dir) == UNION {{f} \X Parsed(dir[f]) : f \in DOMAIN dir}
Entry(dir, place) == Head(dir[place[1]][place[2]].entries)

\* The sequence has the entry of each of these places once.
ListsBy(w, seq, dir, P) ==
    /\ w \in [1 .. Len(seq) -> P]
    /\ \A i, j \in 1 .. Len(seq) : w[i] = w[j] => i = j
    /\ \A place \in P : \E i \in 1 .. Len(seq) : w[i] = place
    /\ \A i \in 1 .. Len(seq) : seq[i] = Entry(dir, w[i])
Lists(seq, dir, P) == seq \in Seq(Nat) /\ \E w : ListsBy(w, seq, dir, P)

LEMMA PlacesFacts ==
    ASSUME NEW dir
    PROVE  /\ \A f, j : <<f, j>> \in Places(dir) <=> f \in DOMAIN dir /\ j \in Parsed(dir[f])
           /\ \A place \in Places(dir) :
                \E f \in DOMAIN dir : \E j \in Parsed(dir[f]) : place = <<f, j>>
<1>1. ASSUME NEW f \in DOMAIN dir, NEW place \in {f} \X Parsed(dir[f])
      PROVE  \E j \in Parsed(dir[f]) : place = <<f, j>>
  OBVIOUS
<1>2. ASSUME NEW f \in DOMAIN dir, NEW j \in Parsed(dir[f])
      PROVE  <<f, j>> \in {f} \X Parsed(dir[f])
  OBVIOUS
<1>3. \A place \in Places(dir) :
        \E f \in DOMAIN dir : \E j \in Parsed(dir[f]) : place = <<f, j>>
  <2> SUFFICES ASSUME NEW place \in Places(dir)
               PROVE  \E f \in DOMAIN dir : \E j \in Parsed(dir[f]) : place = <<f, j>>
    OBVIOUS
  <2>1. PICK f \in DOMAIN dir : place \in {f} \X Parsed(dir[f])
    BY DEF Places
  <2> QED BY <1>1, <2>1
<1>4. \A f \in DOMAIN dir : \A j \in Parsed(dir[f]) : <<f, j>> \in Places(dir)
  <2> SUFFICES ASSUME NEW f \in DOMAIN dir, NEW j \in Parsed(dir[f])
               PROVE  <<f, j>> \in Places(dir)
    OBVIOUS
  <2> QED BY <1>2 DEF Places
<1>5. ASSUME NEW f, NEW j, <<f, j>> \in Places(dir) PROVE f \in DOMAIN dir /\ j \in Parsed(dir[f])
  <2>1. PICK g \in DOMAIN dir : \E i \in Parsed(dir[g]) : <<f, j>> = <<g, i>>
    BY <1>3, <1>5
  <2>2. PICK i \in Parsed(dir[g]) : <<f, j>> = <<g, i>>
    BY <2>1
  <2>3. f = g /\ j = i
    BY <2>2
  <2> QED BY <2>2, <2>3
<1> QED BY <1>3, <1>4, <1>5

LEMMA FoundPlaces ==
    ASSUME NEW n \in Nat, NEW dir \in Dirs(n)
    PROVE  /\ \A f \in DOMAIN dir : \A e \in Found(dir[f]) :
                \E place \in Places(dir) : place[1] = f /\ Entry(dir, place) = e
           /\ \A place \in Places(dir) : /\ place[1] \in DOMAIN dir
                                         /\ Entry(dir, place) \in Found(dir[place[1]])
                                         /\ Entry(dir, place) \in Nat
<1>1. \A f \in DOMAIN dir : dir[f] \in Seq(Lines)
  BY DirFacts
<1>2. ASSUME NEW f \in DOMAIN dir, NEW j \in Parsed(dir[f])
      PROVE  j \in Nat /\ Head(dir[f][j].entries) \in Nat
  <2>1. j \in DOMAIN dir[f] /\ dir[f][j].entries # <<>>
    BY DEF Parsed
  <2>2. dir[f][j] \in Lines /\ j \in Nat
    BY <1>1, <2>1
  <2>3. dir[f][j].entries \in Seq(Nat)
    BY <2>2 DEF Lines
  <2> QED BY <2>1, <2>2, <2>3, HeadTailProperties
<1>3. ASSUME NEW f \in DOMAIN dir, NEW e \in Found(dir[f])
      PROVE  \E place \in Places(dir) : place[1] = f /\ Entry(dir, place) = e
  <2>1. PICK j \in Parsed(dir[f]) : e = Head(dir[f][j].entries)
    BY DEF Found
  <2>2. <<f, j>> \in Places(dir) /\ <<f, j>>[1] = f /\ <<f, j>>[2] = j
    BY <2>1, PlacesFacts
  <2>3. Entry(dir, <<f, j>>) = e
    BY <2>1, <2>2 DEF Entry
  <2> QED BY <2>2, <2>3
<1>4. ASSUME NEW place \in Places(dir)
      PROVE  /\ place[1] \in DOMAIN dir /\ Entry(dir, place) \in Found(dir[place[1]])
             /\ Entry(dir, place) \in Nat
  <2>1. PICK f \in DOMAIN dir : \E j \in Parsed(dir[f]) : place = <<f, j>>
    BY PlacesFacts
  <2>2. PICK j \in Parsed(dir[f]) : place = <<f, j>>
    BY <2>1
  <2>3. place[1] = f /\ Entry(dir, place) = Head(dir[f][j].entries)
    BY <2>2 DEF Entry
  <2> QED BY <1>2, <2>3 DEF Found
<1> QED BY <1>3, <1>4

LEMMA EmptyListing ==
    ASSUME NEW dir PROVE Lists(<<>>, dir, {})
<1> DEFINE w == [i \in 1 .. 0 |-> 0]
<1>1. w \in [1 .. 0 -> {}] /\ 1 .. 0 = {} /\ Len(<<>>) = 0 /\ <<>> \in Seq(Nat)
  OBVIOUS
<1> HIDE DEF w
<1>2. ListsBy(w, <<>>, dir, {})
  BY <1>1 DEF ListsBy
<1> QED BY <1>1, <1>2 DEF Lists

\* One list behind the other.
LEMMA MoreListing ==
    ASSUME NEW dir, NEW s, NEW t, NEW P, NEW Q, P \cap Q = {}, Lists(s, dir, P), Lists(t, dir, Q)
    PROVE  Lists(s \o t, dir, P \cup Q)
<1> DEFINE a == Len(s)
           b == Len(t)
           seq == s \o t
<1>1. /\ s \in Seq(Nat) /\ t \in Seq(Nat) /\ a \in Nat /\ b \in Nat
      /\ seq \in Seq(Nat) /\ Len(seq) = a + b
      /\ \A i \in 1 .. a : seq[i] = s[i]
      /\ \A i \in a + 1 .. a + b : seq[i] = t[i - a]
  <2>1. s \in Seq(Nat) /\ t \in Seq(Nat)
    BY DEF Lists
  <2>2. /\ seq \in Seq(Nat) /\ Len(seq) = a + b
        /\ \A i \in 1 .. a + b : seq[i] = IF i <= a THEN s[i] ELSE t[i - a]
    BY <2>1, ConcatProperties
  <2>3. a \in Nat /\ b \in Nat
    BY <2>1
  <2> HIDE DEF seq, a, b
  <2>4. \A i \in 1 .. a : i \in 1 .. a + b /\ i <= a
    BY <2>3
  <2>5. \A i \in a + 1 .. a + b : i \in 1 .. a + b /\ ~(i <= a)
    BY <2>3
  <2> QED BY <2>1, <2>2, <2>3, <2>4, <2>5
<1>2. PICK v : ListsBy(v, s, dir, P)
  BY DEF Lists
<1>3. PICK w : ListsBy(w, t, dir, Q)
  BY DEF Lists
<1>4. /\ v \in [1 .. a -> P] /\ \A i, j \in 1 .. a : v[i] = v[j] => i = j
      /\ \A place \in P : \E i \in 1 .. a : v[i] = place
      /\ \A i \in 1 .. a : s[i] = Entry(dir, v[i])
  BY <1>2 DEF ListsBy
<1>5. /\ w \in [1 .. b -> Q] /\ \A i, j \in 1 .. b : w[i] = w[j] => i = j
      /\ \A place \in Q : \E i \in 1 .. b : w[i] = place
      /\ \A i \in 1 .. b : t[i] = Entry(dir, w[i])
  BY <1>3 DEF ListsBy
<1> DEFINE u == [i \in 1 .. a + b |-> IF i <= a THEN v[i] ELSE w[i - a]]
<1> HIDE DEF a, b, seq
<1>6. \A i \in 1 .. a + b : i \in 1 .. a \/ (i \in a + 1 .. a + b /\ ~(i <= a) /\ i - a \in 1 .. b)
  BY <1>1
<1>7. /\ \A i \in 1 .. a : i \in 1 .. a + b /\ i <= a
      /\ \A i \in 1 .. b : i + a \in 1 .. a + b /\ ~(i + a <= a) /\ (i + a) - a = i
  BY <1>1
<1>8. /\ \A i \in 1 .. a : u[i] = v[i] /\ u[i] \in P
      /\ \A i \in a + 1 .. a + b : i \in 1 .. a + b => u[i] = w[i - a]
  <2>1. \A i \in a + 1 .. a + b : ~(i <= a)
    BY <1>1
  <2> QED BY <1>4, <1>7, <2>1
<1>9. \A i \in 1 .. a + b : i \notin 1 .. a => u[i] = w[i - a] /\ u[i] \in Q /\ i - a \in 1 .. b
  BY <1>5, <1>6, <1>8
<1>10. u \in [1 .. a + b -> P \cup Q]
  BY <1>8, <1>9
<1>11. ASSUME NEW i \in 1 .. a + b, NEW j \in 1 .. a + b, u[i] = u[j] PROVE i = j
  <2>1. CASE i \in 1 .. a /\ j \in 1 .. a
    BY <1>4, <1>8, <1>11, <2>1
  <2>2. CASE i \notin 1 .. a /\ j \notin 1 .. a
    <3>1. w[i - a] = w[j - a] /\ i - a \in 1 .. b /\ j - a \in 1 .. b
      BY <1>9, <1>11, <2>2
    <3>2. i - a = j - a
      BY <1>5, <3>1
    <3> QED BY <1>1, <3>2
  <2>3. CASE ~(i \in 1 .. a <=> j \in 1 .. a)
    BY <1>8, <1>9, <1>11, <2>3
  <2> QED BY <2>1, <2>2, <2>3
<1>12. ASSUME NEW place \in P \cup Q PROVE \E i \in 1 .. a + b : u[i] = place
  <2>1. CASE place \in P
    BY <1>4, <1>7, <1>8, <2>1
  <2>2. CASE place \in Q
    <3>1. PICK i \in 1 .. b : w[i] = place
      BY <1>5, <2>2
    <3>2. i + a \in 1 .. a + b /\ u[i + a] = w[i]
      BY <1>7
    <3> QED BY <3>1, <3>2
  <2> QED BY <2>1, <2>2
<1>13. ASSUME NEW i \in 1 .. a + b PROVE seq[i] = Entry(dir, u[i])
  <2>1. CASE i \in 1 .. a
    BY <1>1, <1>4, <1>8, <2>1
  <2>2. CASE i \notin 1 .. a
    BY <1>1, <1>5, <1>6, <1>9, <2>2
  <2> QED BY <2>1, <2>2
<1> HIDE DEF u
<1>14. ListsBy(u, seq, dir, P \cup Q)
  BY <1>1, <1>10, <1>11, <1>12, <1>13 DEF ListsBy
<1> QED BY <1>1, <1>14 DEF Lists, seq

\* A file is read from its first line to its last.
LEMMA FileListing ==
    ASSUME NEW n \in Nat, NEW dir \in Dirs(n), NEW f \in DOMAIN dir
    PROVE  Lists(Entries(dir[f]), dir, {place \in Places(dir) : place[1] = f})
<1> DEFINE file == dir[f]
           S == Parsed(file)
           c == Cardinality(S)
           order == InOrder(S)
           seq == Entries(file)
           P == {place \in Places(dir) : place[1] = f}
           w == [i \in 1 .. c |-> <<f, order[i]>>]
<1>1. file \in Seq(Lines) /\ Len(file) \in Nat /\ S \in SUBSET (1 .. Len(file))
  BY DirFacts DEF Parsed
<1>2. /\ c \in Nat /\ order \in [1 .. c -> S]
      /\ \A i, j \in 1 .. c : order[i] = order[j] => i = j
      /\ \A j \in S : \E i \in 1 .. c : order[i] = j
  <2>1. PICK m \in Nat : m = Len(file)
    BY <1>1
  <2>2. S \in SUBSET (1 .. m)
    BY <1>1, <2>1
  <2> HIDE DEF S
  <2> QED BY <2>2, InOrderFacts
<1>3. \A j \in S : <<f, j>> \in P
  <2>1. \A j \in S : <<f, j>> \in Places(dir) /\ <<f, j>>[1] = f
    BY PlacesFacts
  <2> HIDE DEF S
  <2> QED BY <2>1
<1>4. \A place \in P : place = <<f, place[2]>> /\ place[2] \in S
  <2>1. ASSUME NEW place \in P PROVE place = <<f, place[2]>> /\ place[2] \in S
    <3>1. PICK g \in DOMAIN dir : \E j \in Parsed(dir[g]) : place = <<g, j>>
      BY PlacesFacts
    <3>2. PICK j \in Parsed(dir[g]) : place = <<g, j>>
      BY <3>1
    <3>3. g = f /\ place[2] = j
      BY <3>2
    <3> QED BY <3>2, <3>3
  <2> HIDE DEF S, P
  <2> QED BY <2>1
<1>5. \A i \in 1 .. c : order[i] \in S /\ Entry(dir, <<f, order[i]>>) = Head(file[order[i]].entries)
  BY <1>2 DEF Entry
<1>6. seq = [i \in 1 .. c |-> Head(file[order[i]].entries)]
  <2>1. DOMAIN order = 1 .. c
    BY <1>2
  <2> HIDE DEF c
  <2> QED BY <2>1 DEF Entries, EntriesAt
<1>7. \A i \in 1 .. c : <<f, order[i]>> \in Places(dir)
  BY <1>3, <1>5
<1>8. \A place \in Places(dir) : Entry(dir, place) \in Nat
  BY FoundPlaces
<1> HIDE DEF c, order, seq, S, file
<1>9. seq \in [1 .. c -> Nat]
  BY <1>5, <1>6, <1>7, <1>8
<1>10. seq \in Seq(Nat) /\ Len(seq) = c
  BY <1>2, <1>9, SeqDef, LenProperties
<1> HIDE DEF P
<1>11. w \in [1 .. c -> P]
  BY <1>3, <1>5
<1>12. \A i, j \in 1 .. c : w[i] = w[j] => i = j
  <2>1. \A i \in 1 .. c : w[i] = <<f, order[i]>>
    OBVIOUS
  <2>2. \A i, j \in 1 .. c : <<f, order[i]>> = <<f, order[j]>> => order[i] = order[j]
    OBVIOUS
  <2> HIDE DEF w
  <2> QED BY <1>2, <2>1, <2>2
<1>13. \A place \in P : \E i \in 1 .. c : w[i] = place
  BY <1>2, <1>4
<1>14. \A i \in 1 .. c : seq[i] = Entry(dir, w[i])
  BY <1>5, <1>6
<1> HIDE DEF w
<1>15. ListsBy(w, seq, dir, P)
  BY <1>10, <1>11, <1>12, <1>13, <1>14 DEF ListsBy
<1> QED BY <1>10, <1>15 DEF Lists, P, seq, file

LEMMA ReadOneListing ==
    ASSUME NEW n \in Nat, NEW dir \in Dirs(n), NEW f \in 0 .. n
    PROVE  Lists(IF f \in DOMAIN dir THEN Entries(dir[f]) ELSE <<>>,
                 dir, {place \in Places(dir) : place[1] = f})
<1>1. CASE f \in DOMAIN dir
  BY <1>1, FileListing
<1>2. CASE f \notin DOMAIN dir
  <2>1. {place \in Places(dir) : place[1] = f} = {}
    BY <1>2, FoundPlaces
  <2> QED BY <1>2, <2>1, EmptyListing
<1> QED BY <1>1, <1>2

LEMMA NamesFacts ==
    /\ Len(ByName) = 10
    /\ \A n \in 1 .. 10 : ByName[n] \in 1 .. 10 /\ ByName[n] \in 0 .. 10 /\ ByName[n] # 0
    /\ \A m, n \in 1 .. 10 : ByName[m] = ByName[n] => m = n
    /\ \A f \in 0 .. 10 : f = 0 \/ \E n \in 1 .. 10 : f = ByName[n]
BY DEF ByName

\* read_all finds every place of every file, and each once.
LEMMA ReadAllLists ==
    ASSUME audit \in Dirs(MaxFiles) PROVE Lists(ReadAll, audit, Places(audit))
<1> DEFINE N == 10
           Read(f) == IF f \in DOMAIN audit THEN Entries(audit[f]) ELSE <<>>
           F(g) == [n \in 0 .. N |->
                      IF n = 0 THEN Read(0) ELSE g[n - 1] \o Read(ByName[n])]
           upto == CHOOSE g : g = F(g)
           step == [n \in 1 .. N |-> [d \in Seq(Nat) |-> d \o Read(ByName[n])]]
<1>1. N \in Nat /\ audit \in Dirs(N)
  <2>1. 0 .. MaxFiles \subseteq 0 .. 10
    BY AuditAssumption
  <2> QED BY <2>1 DEF Dirs
<1>2. ReadAll = upto[N]
  BY NamesFacts DEF ReadAll, Exists
<1>3. \A f \in 0 .. N : Lists(Read(f), audit, {place \in Places(audit) : place[1] = f})
  <2> HIDE DEF N
  <2> QED BY <1>1, ReadOneListing
<1>4. \A f \in 0 .. N : Read(f) \in Seq(Nat)
  BY <1>3 DEF Lists
<1> HIDE DEF N, Read, upto
<1>5. /\ \A n \in 1 .. N : ByName[n] \in 1 .. N /\ ByName[n] \in 0 .. N /\ ByName[n] # 0
      /\ \A m, n \in 1 .. N : ByName[m] = ByName[n] => m = n
      /\ \A f \in 0 .. N : f = 0 \/ \E n \in 1 .. N : f = ByName[n]
  BY NamesFacts DEF N
<1>6. 0 \in 0 .. N
  BY <1>1
<1>7. step \in Steps(Seq(Nat), N)
  <2>1. ASSUME NEW n \in 1 .. N PROVE [d \in Seq(Nat) |-> d \o Read(ByName[n])] \in [Seq(Nat) -> Seq(Nat)]
    <3>1. Read(ByName[n]) \in Seq(Nat)
      BY <1>4, <1>5
    <3>2. \A d \in Seq(Nat) : d \o Read(ByName[n]) \in Seq(Nat)
      BY <3>1, ConcatProperties
    <3> QED BY <3>2
  <2> QED BY <2>1 DEF Steps
<1>8. PICK a : Looped(Seq(Nat), Read(0), N, step, a)
  <2> HIDE DEF step
  <2> QED BY <1>1, <1>4, <1>6, <1>7, LoopExists
<1>9. /\ a \in [0 .. N -> Seq(Nat)] /\ a[0] = Read(0)
      /\ \A n \in 1 .. N : a[n] = step[n][a[n - 1]]
  BY <1>8 DEF Looped
<1>10. \A n \in 1 .. N : n - 1 \in 0 .. N /\ a[n - 1] \in Seq(Nat)
  BY <1>1, <1>9
<1>11. \A n \in 1 .. N : a[n] = a[n - 1] \o Read(ByName[n])
  BY <1>9, <1>10
<1>12. a = F(a)
  <2>1. \A n \in 0 .. N : n # 0 => n \in 1 .. N
    BY <1>1
  <2> QED BY <1>9, <1>11, <2>1
<1>13. upto = F(upto)
  <2> HIDE DEF F
  <2> QED BY <1>12 DEF upto
<1>14. upto[0] = Read(0) /\ \A n \in 1 .. N : upto[n] = upto[n - 1] \o Read(ByName[n])
  <2>1. \A n \in 1 .. N : n \in 0 .. N /\ n # 0
    BY <1>1
  <2>2. \A n \in 0 .. N : upto[n] = F(upto)[n]
    BY <1>13
  <2> QED BY <1>6, <2>1, <2>2
<1> DEFINE P(n) == {place \in Places(audit) : place[1] = 0 \/ \E m \in 1 .. n : place[1] = ByName[m]}
           Good(n) == Lists(upto[n], audit, P(n))
           S == {n \in 0 .. N : Good(n)}
<1>15. \A place \in Places(audit) : place[1] \in 0 .. N
  BY <1>1, FoundPlaces, DirFacts
<1>16. 0 \in S
  <2>1. P(0) = {place \in Places(audit) : place[1] = 0}
    OBVIOUS
  <2>2. Good(0)
    BY <1>3, <1>6, <1>14, <2>1
  <2> QED BY <1>6, <2>2
<1>17. ASSUME NEW n \in 1 .. N, n - 1 \in S PROVE n \in S
  <2> DEFINE Q == {place \in Places(audit) : place[1] = ByName[n]}
  <2>1. /\ 1 .. n = (1 .. n - 1) \cup {n} /\ n \notin 1 .. n - 1
        /\ n \in 1 .. N /\ 1 .. n - 1 \subseteq 1 .. N
    BY <1>1
  <2>2. P(n) = P(n - 1) \cup Q /\ P(n - 1) \cap Q = {}
    BY <1>5, <2>1
  <2>3. Lists(upto[n - 1], audit, P(n - 1))
    BY <1>17
  <2>4. Lists(Read(ByName[n]), audit, Q)
    BY <1>3, <1>5
  <2>5. upto[n] = upto[n - 1] \o Read(ByName[n])
    BY <1>14
  <2> HIDE DEF P, Q
  <2>6. Good(n)
    BY <2>2, <2>3, <2>4, <2>5, MoreListing
  <2> QED BY <1>1, <2>6
<1>18. N \in S
  <2> HIDE DEF S
  <2>1. 0 .. N \subseteq S
    BY <1>1, <1>16, <1>17, AllOfThem
  <2> QED BY <1>1, <2>1
<1>19. P(N) = Places(audit)
  BY <1>5, <1>15
<1> HIDE DEF P
<1> QED BY <1>2, <1>18, <1>19

LEMMA RewrittenFacts ==
    ASSUME NEW kept \in Seq(Nat)
    PROVE  /\ Rewritten(kept) \in Seq(Lines) /\ Len(Rewritten(kept)) = Len(kept)
           /\ ~Unended(Rewritten(kept)) /\ OnLast(Rewritten(kept)) = {}
           /\ Parsed(Rewritten(kept)) = DOMAIN kept
           /\ \A i \in DOMAIN kept : Head(Rewritten(kept)[i].entries) = kept[i]
<1> DEFINE lines == Rewritten(kept)
           c == Len(kept)
<1>1. c \in Nat /\ DOMAIN kept = 1 .. c /\ \A i \in 1 .. c : kept[i] \in Nat
  OBVIOUS
<1>2. lines = [i \in 1 .. c |-> Line(<<kept[i]>>, TRUE)]
  BY <1>1 DEF Rewritten
<1> HIDE DEF lines, c
<1>3. ASSUME NEW i \in 1 .. c
      PROVE  /\ lines[i] \in Lines /\ lines[i].ended /\ lines[i].entries # <<>>
             /\ Head(lines[i].entries) = kept[i]
  <2>1. lines[i] = Line(<<kept[i]>>, TRUE) /\ kept[i] \in Nat
    BY <1>1, <1>2
  <2>2. TRUE \in BOOLEAN
    OBVIOUS
  <2> QED BY <2>1, <2>2, LineFacts
<1>4. lines \in [1 .. c -> Lines]
  BY <1>2, <1>3
<1>5. lines \in Seq(Lines) /\ Len(lines) = c /\ DOMAIN lines = 1 .. c
  BY <1>1, <1>4, SeqDef, LenProperties
<1>6. ~Unended(lines)
  <2> SUFFICES ASSUME lines # <<>>, ~Last(lines).ended PROVE FALSE
    BY DEF Unended
  <2>1. Last(lines) = lines[Len(lines)] /\ Len(lines) >= 1
    BY <1>5, SequenceFacts
  <2>2. Last(lines) = lines[c] /\ c \in 1 .. c
    BY <1>1, <1>5, <2>1
  <2> QED BY <1>3, <2>2
<1>7. Parsed(lines) = 1 .. c
  BY <1>3, <1>5 DEF Parsed
<1> QED BY <1>1, <1>3, <1>5, <1>6, <1>7 DEF lines, c, OnLast

\* Whatever files are left, what is to be kept is in the new one.
LEMMA CleanupInv ==
    ASSUME AuditInv, NEW from \in 1 .. clock + 1, Cleanup(from) PROVE AuditInv'
<1> DEFINE read == ReadAll
           kept == KeptFrom(read, from)
           S == {n \in DOMAIN read : read[n] >= from}
           lines == Rewritten(kept)
           replaced == WithCurrent(audit, lines)
<1>1. MaxFiles \in Nat /\ audit \in Dirs(MaxFiles)
  BY AuditAssumption DEF AuditInv
<1>2. read \in Seq(Nat) /\ \E w : ListsBy(w, read, audit, Places(audit))
  BY <1>1, ReadAllLists DEF Lists
<1>3. kept = Picked(read, S) /\ S \in SUBSET DOMAIN read
  BY DEF KeptFrom
<1>4. /\ cutoff' \in {from, cutoff} /\ cutoff' >= from /\ cutoff' >= cutoff
      /\ clock' = clock /\ logged' = logged /\ stops' = stops
      /\ cleanups' \in {cleanups, cleanups + 1}
      /\ \E left \in SUBSET (DOMAIN audit \ {0}) : audit' = Restrict(replaced, {0} \cup left)
  <2>1. /\ cutoff' = (IF from > cutoff THEN from ELSE cutoff)
        /\ clock' = clock /\ logged' = logged /\ stops' = stops
        /\ \/ audit' = Restrict(replaced, {0}) /\ cleanups' = cleanups
           \/ /\ \E left \in SUBSET (DOMAIN audit \ {0}) :
                   audit' = Restrict(replaced, {0} \cup left)
              /\ cleanups' = cleanups + 1
    BY DEF Cleanup
  <2>2. {} \in SUBSET (DOMAIN audit \ {0}) /\ {0} \cup {} = {0}
    OBVIOUS
  <2>3. from \in Int /\ cutoff \in Int
    BY DEF AuditInv
  <2>4. cutoff' \in {from, cutoff} /\ cutoff' >= from /\ cutoff' >= cutoff
    BY <2>1, <2>3
  <2> HIDE DEF replaced
  <2> QED BY <2>1, <2>2, <2>4
<1> HIDE DEF read, kept, S
<1>5. kept \in Seq(Nat) /\ \A m \in S : \E i \in DOMAIN kept : kept[i] = read[m]
  BY <1>2, <1>3, PickedFacts
<1>6. /\ lines \in Seq(Lines) /\ ~Unended(lines) /\ OnLast(lines) = {}
      /\ Parsed(lines) = DOMAIN kept /\ \A i \in DOMAIN kept : Head(lines[i].entries) = kept[i]
  BY <1>5, RewrittenFacts
<1> HIDE DEF lines
<1>7. PICK left \in SUBSET (DOMAIN audit \ {0}) : audit' = Restrict(replaced, {0} \cup left)
  BY <1>4
<1>8. audit' \in Dirs(MaxFiles) /\ Current(audit') = lines
  <2>1. /\ replaced \in Dirs(MaxFiles) /\ Current(replaced) = lines
        /\ DOMAIN replaced = DOMAIN audit \cup {0}
    BY <1>1, <1>6, WithCurrentFacts
  <2> DEFINE D == {0} \cup left
  <2>2. /\ D \subseteq DOMAIN replaced /\ DOMAIN replaced \subseteq 0 .. MaxFiles
        /\ \A f \in DOMAIN replaced : replaced[f] \in Seq(Lines)
    BY <1>1, <2>1, DirFacts
  <2>3. Current(replaced) = replaced[0]
    BY <2>1, CurrentFound DEF Exists
  <2> HIDE DEF replaced
  <2> DEFINE new == Restrict(replaced, D)
  <2>4. new = [f \in D |-> new[f]] /\ 0 \in D /\ \A f \in D : new[f] = replaced[f]
    BY DEF Restrict
  <2> HIDE DEF new
  <2>5. new \in Dirs(MaxFiles)
    BY <1>1, <2>2, <2>4, DirType
  <2>6. Current(new) = lines
    BY <2>1, <2>3, <2>4, CurrentFound DEF Exists
  <2> QED BY <1>7, <2>5, <2>6 DEF new
<1>9. ASSUME NEW f \in DOMAIN audit, NEW e \in Found(audit[f]), e >= from
      PROVE  e \in Found(lines)
  <2>1. PICK place \in Places(audit) : Entry(audit, place) = e
    BY <1>1, FoundPlaces
  <2>2. PICK w : ListsBy(w, read, audit, Places(audit))
    BY <1>2
  <2>3. PICK m \in 1 .. Len(read) : w[m] = place
    BY <2>2 DEF ListsBy
  <2>4. read[m] = e /\ m \in DOMAIN read
    BY <1>2, <2>1, <2>2, <2>3 DEF ListsBy
  <2>5. m \in S
    BY <1>9, <2>4 DEF S
  <2>6. PICK i \in DOMAIN kept : kept[i] = e
    BY <1>5, <2>4, <2>5
  <2> QED BY <1>6, <2>6 DEF Found
<1>10. Adrift' \subseteq Adrift
  <2> SUFFICES ASSUME NEW e \in Adrift' PROVE e \in Adrift
    OBVIOUS
  <2>1. /\ e \in logged /\ e >= cutoff' /\ clock - e < (MaxFiles - stops) * FileLines
        /\ ~Placed(audit', e, clock, stops, FileLines)
    BY <1>4 DEF Adrift, Fresh
  <2>2. e >= from /\ e >= cutoff
    <3>1. e \in Int /\ cutoff \in Int
      BY <2>1 DEF AuditInv
    <3> QED BY <1>4, <2>1, <3>1
  <2>3. e \notin Found(lines)
    BY <1>8, <2>1 DEF Placed
  <2>4. \A f \in DOMAIN audit : e \notin Found(audit[f])
    BY <1>9, <2>2, <2>3
  <2>5. ~Placed(audit, e, clock, stops, FileLines)
    BY <2>4, CurrentFound DEF Placed, Exists
  <2> QED BY <2>1, <2>2, <2>5 DEF Adrift, Fresh
<1>11. Cardinality(Adrift') \in Nat /\ Cardinality(Adrift') <= Cardinality(Adrift)
  BY <1>10, AdriftFinite, CountOneMore
<1>12. Cardinality(Adrift) <= stops /\ stops \in Nat
  BY AdriftFinite, FS_CardinalityType DEF AuditInv
<1>13. Cardinality(Adrift') + (IF Unended(Current(audit')) THEN 1 ELSE 0) <= stops'
  <2>1. ~Unended(Current(audit')) /\ stops' = stops
    BY <1>4, <1>6, <1>8
  <2>2. Cardinality(Adrift) \in Nat
    BY AdriftFinite, FS_CardinalityType
  <2> HIDE DEF Adrift
  <2> QED BY <1>11, <1>12, <2>1, <2>2
<1>14. /\ clock' \in Nat /\ logged' \subseteq 1 .. clock' /\ cutoff' \in 1 .. clock' + 1
       /\ stops' \in Nat /\ cleanups' \in Nat
  BY <1>4 DEF AuditInv
<1> QED BY <1>6, <1>8, <1>13, <1>14 DEF AuditInv

\* What is fresh and in no file is adrift.
LEMMA AuditRetained == ASSUME AuditInv PROVE AuditRetains
<1>1. Fresh \ EntriesIn(audit) \subseteq Adrift
  <2> SUFFICES ASSUME NEW e \in Fresh, e \notin EntriesIn(audit), e \notin Adrift PROVE FALSE
    OBVIOUS
  <2>1. Placed(audit, e, clock, stops, FileLines)
    BY DEF Adrift
  <2>2. PICK f \in DOMAIN audit : e \in Found(audit[f])
    BY <2>1, CurrentFound DEF Placed, Exists
  <2> QED BY <2>2 DEF EntriesIn
<1>2. /\ Cardinality(Fresh \ EntriesIn(audit)) \in Nat
      /\ Cardinality(Fresh \ EntriesIn(audit)) <= Cardinality(Adrift)
  BY <1>1, AdriftFinite, CountOneMore
<1>3. Cardinality(Adrift) <= stops /\ stops \in Nat
  BY AdriftFinite, FS_CardinalityType DEF AuditInv
<1>4. Cardinality(Fresh \ EntriesIn(audit)) <= stops
  <2>1. Cardinality(Adrift) \in Nat
    BY AdriftFinite, FS_CardinalityType
  <2> QED BY <1>2, <1>3, <2>1
<1> QED BY <1>4 DEF AuditRetains, Fresh

-----------------------------------------------------------------------------
(* The logs of the trace *)

\* The same of a log of the trace: what failed is counted among what was made.
AdriftOf(dir, now, lost) ==
    {e \in 1 .. now : /\ now - e <= (MaxRotations - 1 - lost) * TraceLines
                      /\ ~Placed(dir, e, now, lost, TraceLines)}
Loose(dir) == IF Unended(Current(dir)) THEN 1 ELSE 0

\* An append that failed costs the entry that it had, and perhaps the next one or
\* a second file of the rotation.
LogInv(dir, now, lost) ==
    /\ dir \in Dirs(MaxRotations) /\ now \in Nat /\ lost \in Nat
    /\ Cardinality(AdriftOf(dir, now, lost)) + Loose(dir)
          + Cardinality(OnLast(Current(dir))) <= 2 * lost

TraceInv == /\ trace \in [Kinds -> Dirs(MaxRotations)]
            /\ made \in [Kinds -> Nat]
            /\ \A kind \in Kinds : LogInv(trace[kind], made[kind], losses)

LEMMA CountUnion ==
    ASSUME NEW S, IsFiniteSet(S), NEW A, IsFiniteSet(A), NEW T, T \subseteq S \cup A
    PROVE  /\ IsFiniteSet(T) /\ Cardinality(T) \in Nat
           /\ Cardinality(T) <= Cardinality(S) + Cardinality(A)
<1>1. /\ IsFiniteSet(S \cup A)
      /\ Cardinality(S \cup A) = Cardinality(S) + Cardinality(A) - Cardinality(S \cap A)
  BY FS_Union
<1>2. IsFiniteSet(S \cap A) /\ S \cap A \subseteq S
  BY FS_Subset
<1>3. /\ Cardinality(S) \in Nat /\ Cardinality(A) \in Nat /\ Cardinality(S \cap A) \in Nat
      /\ Cardinality(S \cup A) \in Nat
  BY <1>1, <1>2, FS_CardinalityType
<1>4. IsFiniteSet(T) /\ Cardinality(T) \in Nat /\ Cardinality(T) <= Cardinality(S \cup A)
  BY <1>1, FS_Subset, FS_CardinalityType
<1> QED BY <1>1, <1>3, <1>4

LEMMA LogCounts ==
    ASSUME NEW dir, NEW now \in Nat, NEW lost
    PROVE  /\ IsFiniteSet(AdriftOf(dir, now, lost)) /\ Cardinality(AdriftOf(dir, now, lost)) \in Nat
           /\ IsFiniteSet(OnLast(Current(dir)))
           /\ Cardinality(OnLast(Current(dir))) \in {0, 1}
           /\ OnLast(Current(dir)) = {} <=> Cardinality(OnLast(Current(dir))) = 0
           /\ Loose(dir) \in {0, 1} /\ (Loose(dir) = 0 <=> ~Unended(Current(dir)))
<1>1. IsFiniteSet(1 .. now) /\ AdriftOf(dir, now, lost) \subseteq 1 .. now
  BY FS_Interval DEF AdriftOf
<1>2. IsFiniteSet(AdriftOf(dir, now, lost)) /\ Cardinality(AdriftOf(dir, now, lost)) \in Nat
  BY <1>1, FS_Subset, FS_CardinalityType
<1> DEFINE O == OnLast(Current(dir))
<1>3. O = {} \/ \E x : O = {x}
  BY DEF OnLast
<1>4. Loose(dir) \in {0, 1} /\ (Loose(dir) = 0 <=> ~Unended(Current(dir)))
  BY DEF Loose
<1> HIDE DEF O
<1>5. IsFiniteSet(O) /\ Cardinality(O) \in {0, 1} /\ (O = {} <=> Cardinality(O) = 0)
  <2>1. CASE O = {}
    BY <2>1, FS_EmptySet
  <2>2. CASE O # {}
    <3>1. PICK x : O = {x}
      BY <1>3, <2>2
    <3>2. IsFiniteSet(O) /\ Cardinality(O) = 1
      BY <3>1, FS_Singleton
    <3> QED BY <2>2, <3>2
  <2> QED BY <2>1, <2>2
<1> QED BY <1>2, <1>4, <1>5 DEF O

\* What is bound to be kept behind the next entry, and what may be adrift there.
LEMMA AdriftLater ==
    ASSUME NEW dir, NEW now \in Nat, NEW lost \in Nat, NEW dir2, NEW later \in {lost, lost + 1},
           NEW gone,
           \A e \in Bound(dir, now, lost, MaxRotations - 1, TraceLines) \ gone :
                Placed(dir2, e, now + 1, later, TraceLines)
    PROVE  AdriftOf(dir2, now + 1, later) \subseteq AdriftOf(dir, now, lost) \cup gone \cup {now + 1}
<1> SUFFICES ASSUME NEW e \in AdriftOf(dir2, now + 1, later), e # now + 1, e \notin gone,
                    e \notin AdriftOf(dir, now, lost)
             PROVE  FALSE
  OBVIOUS
<1>1. /\ e \in 1 .. now + 1 /\ now + 1 - e <= (MaxRotations - 1 - later) * TraceLines
      /\ ~Placed(dir2, e, now + 1, later, TraceLines)
  BY DEF AdriftOf
<1>2. MaxRotations - 1 \in Int /\ TraceLines \in Nat /\ e \in 1 .. now /\ e \in Nat /\ e <= now
  BY <1>1, TraceAssumption
<1>3. PICK top \in Int : top = MaxRotations - 1
  BY <1>2
<1> DEFINE a == (top - lost) * TraceLines
           b == (top - (lost + 1)) * TraceLines
<1>4. a \in Int /\ b = a - TraceLines
  <2>1. top - lost \in Int
    OBVIOUS
  <2> QED BY <1>2, <2>1, Products
<1>5. later = lost => now + 1 - e <= a
  BY <1>1, <1>3
<1>6. later = lost + 1 => now + 1 - e <= b
  BY <1>1, <1>3
<1> HIDE DEF a, b
<1>7. now - e < a
  BY <1>2, <1>4, <1>5, <1>6
<1>8. now - e < (MaxRotations - 1 - lost) * TraceLines
  BY <1>3, <1>7 DEF a
<1>9. Placed(dir, e, now, lost, TraceLines)
  <2>1. now - e <= (MaxRotations - 1 - lost) * TraceLines
    BY <1>2, <1>3, <1>4, <1>7 DEF a
  <2> QED BY <1>2, <2>1 DEF AdriftOf
<1>10. e \in Bound(dir, now, lost, MaxRotations - 1, TraceLines)
  BY <1>2, <1>8, <1>9 DEF Bound
<1> QED BY <1>1, <1>10

LEMMA LogAppended ==
    ASSUME NEW dir, NEW now, NEW lost, LogInv(dir, now, lost),
           NEW rotation, Sound(rotation, dir, MaxRotations, MaxRotations - 1, TraceLines)
    PROVE  LogInv(Appended(rotation, now + 1), now + 1, lost)
<1> DEFINE new == Appended(rotation, now + 1)
           onLast == OnLast(Current(dir))
           adrift == AdriftOf(dir, now, lost)
           adrift2 == AdriftOf(new, now + 1, lost)
<1>1. /\ MaxRotations \in Nat /\ MaxRotations - 1 \in Int /\ TraceLines \in Nat
      /\ dir \in Dirs(MaxRotations) /\ now \in Nat /\ lost \in Nat /\ now + 1 \in Nat
  BY TraceAssumption DEF LogInv
<1>2. /\ new \in Dirs(MaxRotations)
      /\ ~Unended(Current(new)) /\ OnLast(Current(new)) = {}
      /\ \A e \in Bound(dir, now, lost, MaxRotations - 1, TraceLines) \ OnLast(Current(dir)) :
           Placed(new, e, now + 1, lost, TraceLines)
      /\ ~Unended(Current(dir)) => Placed(new, now + 1, now + 1, lost, TraceLines)
  <2>1. PICK top \in Int : top = MaxRotations - 1
    BY <1>1
  <2> HIDE DEF new
  <2> QED BY <1>1, <2>1, AppendedPlaced DEF new
<1> HIDE DEF new
<1>3. adrift2 \subseteq adrift \cup onLast \cup {now + 1}
  BY <1>1, <1>2, AdriftLater
<1>4. ~Unended(Current(dir)) => adrift2 \subseteq adrift \cup onLast
  BY <1>2, <1>3 DEF AdriftOf
<1>5. /\ IsFiniteSet(adrift) /\ IsFiniteSet(onLast)
      /\ Cardinality(adrift) \in Nat /\ Cardinality(onLast) \in Nat
      /\ Loose(dir) \in {0, 1} /\ (Loose(dir) = 0 <=> ~Unended(Current(dir)))
      /\ Loose(new) = 0 /\ Cardinality(OnLast(Current(new))) = 0
      /\ Cardinality(adrift2) \in Nat
  <2>1. /\ IsFiniteSet(adrift) /\ IsFiniteSet(onLast)
        /\ Cardinality(adrift) \in Nat /\ Cardinality(onLast) \in {0, 1}
        /\ Loose(dir) \in {0, 1} /\ (Loose(dir) = 0 <=> ~Unended(Current(dir)))
    BY <1>1, LogCounts
  <2>2. /\ Cardinality(adrift2) \in Nat
        /\ Loose(new) = 0 <=> ~Unended(Current(new))
        /\ OnLast(Current(new)) = {} <=> Cardinality(OnLast(Current(new))) = 0
    BY <1>1, LogCounts
  <2> HIDE DEF adrift, adrift2, onLast
  <2> QED BY <1>2, <2>1, <2>2
<1>6. Cardinality(adrift) + Loose(dir) + Cardinality(onLast) <= 2 * lost
  BY DEF LogInv
<1> HIDE DEF adrift, adrift2, onLast
<1>7. /\ IsFiniteSet(adrift \cup onLast) /\ Cardinality(adrift \cup onLast) \in Nat
      /\ Cardinality(adrift \cup onLast) <= Cardinality(adrift) + Cardinality(onLast)
  <2>1. adrift \cup onLast \subseteq adrift \cup onLast
    OBVIOUS
  <2> QED BY <1>5, <2>1, CountUnion
<1>8. /\ Cardinality(adrift2) <= Cardinality(adrift \cup onLast) + 1
      /\ ~Unended(Current(dir)) => Cardinality(adrift2) <= Cardinality(adrift \cup onLast)
  <2>1. adrift2 \subseteq (adrift \cup onLast) \cup {now + 1}
    BY <1>3
  <2> QED BY <1>4, <1>7, <2>1, CountOneMore
<1>9. Cardinality(adrift2) <= Cardinality(adrift) + Loose(dir) + Cardinality(onLast)
  <2>1. CASE Unended(Current(dir))
    <3>1. Loose(dir) = 1
      BY <1>5, <2>1
    <3> QED BY <1>5, <1>7, <1>8, <3>1
  <2>2. CASE ~Unended(Current(dir))
    <3>1. Loose(dir) = 0
      BY <1>5, <2>2
    <3> QED BY <1>5, <1>7, <1>8, <2>2, <3>1
  <2> QED BY <2>1, <2>2
<1>10. Cardinality(adrift2) + Loose(new) + Cardinality(OnLast(Current(new))) <= 2 * lost
  BY <1>1, <1>5, <1>6, <1>9
<1> QED BY <1>1, <1>2, <1>10 DEF LogInv, new, adrift2

LEMMA LogInterrupted ==
    ASSUME NEW dir, NEW now, NEW lost, LogInv(dir, now, lost),
           NEW rotation, Sound(rotation, dir, MaxRotations, MaxRotations - 1, TraceLines),
           NEW new \in Interrupted(rotation, now + 1)
    PROVE  LogInv(new, now + 1, lost + 1)
<1> DEFINE onLast == OnLast(Current(dir))
           onLast2 == OnLast(Current(new))
           adrift == AdriftOf(dir, now, lost)
           adrift2 == AdriftOf(new, now + 1, lost + 1)
           bound == Bound(dir, now, lost, MaxRotations - 1, TraceLines)
<1>1. /\ MaxRotations \in Nat /\ MaxRotations - 1 \in Int /\ TraceLines \in Nat
      /\ dir \in Dirs(MaxRotations) /\ now \in Nat /\ lost \in Nat /\ now + 1 \in Nat
      /\ lost + 1 \in Nat
  BY TraceAssumption DEF LogInv
<1>2. /\ new \in Dirs(MaxRotations)
      /\ \/ /\ Current(new) \in {Current(dir), <<>>}
            /\ \A e \in bound : Placed(new, e, now + 1, lost + 1, TraceLines)
         \/ /\ Unended(Current(dir)) /\ Unended(Current(new)) /\ onLast2 = {}
            /\ \A e \in bound \ onLast : Placed(new, e, now + 1, lost + 1, TraceLines)
         \/ /\ Unended(Current(new)) /\ onLast2 \subseteq {now + 1}
            /\ \A e \in bound : Placed(new, e, now + 1, lost + 1, TraceLines)
            /\ onLast2 # {} => Placed(new, now + 1, now + 1, lost + 1, TraceLines)
  <2>1. PICK top \in Int : top = MaxRotations - 1
    BY <1>1
  <2>2. Sound(rotation, dir, MaxRotations, top, TraceLines)
    BY <2>1
  <2> DEFINE kept == Bound(dir, now, lost, top, TraceLines)
  <2>3. bound = kept
    BY <2>1
  <2>4. /\ new \in Dirs(MaxRotations)
        /\ \/ /\ Current(new) \in {Current(dir), <<>>}
              /\ \A e \in kept : Placed(new, e, now + 1, lost + 1, TraceLines)
           \/ /\ Unended(Current(dir)) /\ Unended(Current(new)) /\ onLast2 = {}
              /\ \A e \in kept \ onLast : Placed(new, e, now + 1, lost + 1, TraceLines)
           \/ /\ Unended(Current(new)) /\ onLast2 \subseteq {now + 1}
              /\ \A e \in kept : Placed(new, e, now + 1, lost + 1, TraceLines)
              /\ onLast2 # {} => Placed(new, now + 1, now + 1, lost + 1, TraceLines)
    BY <1>1, <2>2, InterruptedPlaced
  <2> HIDE DEF bound, kept
  <2> QED BY <2>3, <2>4
<1>3. /\ IsFiniteSet(adrift) /\ IsFiniteSet(onLast)
      /\ Cardinality(adrift) \in Nat /\ Cardinality(adrift2) \in Nat
      /\ Cardinality(onLast) \in {0, 1} /\ Cardinality(onLast2) \in {0, 1}
      /\ onLast2 = {} <=> Cardinality(onLast2) = 0
      /\ Loose(dir) \in {0, 1} /\ (Loose(dir) = 0 <=> ~Unended(Current(dir)))
      /\ Loose(new) \in {0, 1} /\ (Loose(new) = 0 <=> ~Unended(Current(new)))
  BY <1>1, LogCounts
<1>4. Cardinality(adrift) + Loose(dir) + Cardinality(onLast) <= 2 * lost
  BY DEF LogInv
<1>5. ASSUME NEW gone, \A e \in bound \ gone : Placed(new, e, now + 1, lost + 1, TraceLines)
      PROVE  adrift2 \subseteq (adrift \cup gone) \cup {now + 1}
  <2>1. PICK later : later = lost + 1
    OBVIOUS
  <2> QED BY <1>1, <1>5, <2>1, AdriftLater
<1>6. Placed(new, now + 1, now + 1, lost + 1, TraceLines) => now + 1 \notin adrift2
  BY DEF AdriftOf
<1> HIDE DEF bound, onLast, onLast2, adrift, adrift2
<1>7. Cardinality(adrift2) + Loose(new) + Cardinality(onLast2)
        <= Cardinality(adrift) + Loose(dir) + Cardinality(onLast) + 2
  <2>1. CASE /\ Current(new) \in {Current(dir), <<>>}
             /\ \A e \in bound : Placed(new, e, now + 1, lost + 1, TraceLines)
    <3>1. adrift2 \subseteq adrift \cup {now + 1}
      <4>1. adrift2 \subseteq (adrift \cup {}) \cup {now + 1}
        BY <1>5, <2>1
      <4> QED BY <4>1
    <3>2. Cardinality(adrift2) <= Cardinality(adrift) + 1
      BY <1>3, <3>1, CountOneMore
    <3>3. ~Unended(<<>>) /\ OnLast(<<>>) = {}
      BY DEF Unended, OnLast
    <3>4. /\ Loose(new) = Loose(dir) \/ Loose(new) = 0
          /\ onLast2 = onLast \/ onLast2 = {}
      BY <1>3, <2>1, <3>3 DEF Loose, onLast, onLast2
    <3>5. Cardinality(onLast2) <= Cardinality(onLast)
      BY <1>3, <3>4
    <3> QED BY <1>3, <3>2, <3>4, <3>5
  <2>2. CASE /\ Unended(Current(dir)) /\ Unended(Current(new)) /\ onLast2 = {}
             /\ \A e \in bound \ onLast : Placed(new, e, now + 1, lost + 1, TraceLines)
    <3>1. adrift2 \subseteq (adrift \cup onLast) \cup {now + 1}
      BY <1>5, <2>2
    <3>2. /\ IsFiniteSet(adrift \cup onLast) /\ Cardinality(adrift \cup onLast) \in Nat
          /\ Cardinality(adrift \cup onLast) <= Cardinality(adrift) + Cardinality(onLast)
      <4>1. adrift \cup onLast \subseteq adrift \cup onLast
        OBVIOUS
      <4> QED BY <1>3, <4>1, CountUnion
    <3>3. Cardinality(adrift2) <= Cardinality(adrift \cup onLast) + 1
      BY <3>1, <3>2, CountOneMore
    <3>4. Loose(dir) = 1 /\ Loose(new) = 1 /\ Cardinality(onLast2) = 0
      BY <1>3, <2>2
    <3> QED BY <1>3, <3>2, <3>3, <3>4
  <2>3. CASE /\ Unended(Current(new)) /\ onLast2 \subseteq {now + 1}
             /\ \A e \in bound : Placed(new, e, now + 1, lost + 1, TraceLines)
             /\ onLast2 # {} => Placed(new, now + 1, now + 1, lost + 1, TraceLines)
    <3>1. adrift2 \subseteq adrift \cup {now + 1}
      <4>1. adrift2 \subseteq (adrift \cup {}) \cup {now + 1}
        BY <1>5, <2>3
      <4> QED BY <4>1
    <3>2. /\ Cardinality(adrift2) <= Cardinality(adrift) + 1
          /\ adrift2 \subseteq adrift => Cardinality(adrift2) <= Cardinality(adrift)
      BY <1>3, <3>1, CountOneMore
    <3>3. onLast2 # {} => adrift2 \subseteq adrift
      BY <1>6, <2>3, <3>1
    <3>4. Cardinality(adrift2) + Cardinality(onLast2) <= Cardinality(adrift) + 1
      <4>1. CASE onLast2 = {}
        BY <1>3, <3>2, <4>1
      <4>2. CASE onLast2 # {}
        BY <1>3, <3>2, <3>3, <4>2
      <4> QED BY <4>1, <4>2
    <3>5. Loose(new) = 1
      BY <1>3, <2>3
    <3> QED BY <1>3, <3>4, <3>5
  <2> QED BY <1>2, <2>1, <2>2, <2>3
<1>8. Cardinality(adrift2) + Loose(new) + Cardinality(onLast2) <= 2 * (lost + 1)
  BY <1>1, <1>3, <1>4, <1>7
<1> QED BY <1>1, <1>2, <1>8 DEF LogInv, adrift2, onLast2

\* The log of the other kind.
LEMMA LogStill ==
    ASSUME NEW dir, NEW now, NEW lost, LogInv(dir, now, lost) PROVE LogInv(dir, now, lost + 1)
<1> DEFINE adrift == AdriftOf(dir, now, lost)
           adrift2 == AdriftOf(dir, now, lost + 1)
<1>1. /\ MaxRotations - 1 \in Int /\ TraceLines \in Nat /\ MaxRotations \in Nat
      /\ dir \in Dirs(MaxRotations) /\ now \in Nat /\ lost \in Nat /\ lost + 1 \in Nat
  BY TraceAssumption DEF LogInv
<1>2. adrift2 \subseteq adrift
  <2> SUFFICES ASSUME NEW e \in adrift2, e \notin adrift PROVE FALSE
    OBVIOUS
  <2>1. /\ e \in 1 .. now /\ now - e <= (MaxRotations - 1 - (lost + 1)) * TraceLines
        /\ ~Placed(dir, e, now, lost + 1, TraceLines)
    BY DEF AdriftOf
  <2>2. PICK top \in Int : top = MaxRotations - 1
    BY <1>1
  <2> DEFINE a == (top - lost) * TraceLines
             b == (top - (lost + 1)) * TraceLines
  <2>3. a \in Int /\ b = a - TraceLines
    <3>1. top - lost \in Int
      BY <1>1
    <3> QED BY <1>1, <3>1, Products
  <2>4. now - e <= b
    BY <2>1, <2>2
  <2> HIDE DEF a, b
  <2>5. now - e <= a
    BY <1>1, <2>1, <2>3, <2>4
  <2>6. now - e <= (MaxRotations - 1 - lost) * TraceLines
    BY <2>2, <2>5 DEF a
  <2>7. Placed(dir, e, now, lost, TraceLines)
    BY <2>1, <2>6 DEF AdriftOf
  <2>8. e \in Nat
    BY <2>1
  <2> QED BY <1>1, <2>1, <2>7, <2>8, PlacedStill
<1>3. /\ IsFiniteSet(adrift) /\ Cardinality(adrift) \in Nat /\ Cardinality(adrift2) \in Nat
      /\ Loose(dir) \in {0, 1} /\ Cardinality(OnLast(Current(dir))) \in {0, 1}
  BY <1>1, LogCounts
<1>4. Cardinality(adrift) + Loose(dir) + Cardinality(OnLast(Current(dir))) <= 2 * lost
  BY DEF LogInv
<1> HIDE DEF adrift, adrift2
<1>5. Cardinality(adrift2) <= Cardinality(adrift)
  BY <1>2, <1>3, FS_Subset
<1>6. Cardinality(adrift2) + Loose(dir) + Cardinality(OnLast(Current(dir))) <= 2 * (lost + 1)
  BY <1>1, <1>3, <1>4, <1>5
<1> QED BY <1>1, <1>6 DEF LogInv, adrift2

LEMMA AppendToInv ==
    ASSUME TraceInv, NEW kind \in Kinds, AppendTo(kind, made[kind] + 1) PROVE TraceInv'
<1> DEFINE dir == trace[kind]
           entry == made[kind] + 1
           rotation == IF Full(dir, TraceLines) THEN RotateTrace(dir, MaxRotations)
                                                ELSE NoRotation(dir)
<1>1. /\ MaxRotations \in Nat \ {0} /\ MaxRotations \in Nat /\ TraceLines \in Nat
      /\ dir \in Dirs(MaxRotations) /\ made[kind] \in Nat /\ entry \in Nat
  BY TraceAssumption DEF TraceInv
<1>2. Sound(rotation, dir, MaxRotations, MaxRotations - 1, TraceLines)
  <2> HIDE DEF dir
  <2> QED BY <1>1, RotateTraceSound, NoRotationSound
<1>3. /\ made' = [made EXCEPT ![kind] = made[kind] + 1]
      /\ \/ trace' = [trace EXCEPT ![kind] = Appended(rotation, entry)] /\ losses' = losses
         \/ /\ \E left \in Interrupted(rotation, entry) : trace' = [trace EXCEPT ![kind] = left]
            /\ losses' = losses + 1
  BY DEF AppendTo
<1>4. PICK new : /\ trace' = [trace EXCEPT ![kind] = new]
                 /\ \/ new = Appended(rotation, entry) /\ losses' = losses
                    \/ new \in Interrupted(rotation, entry) /\ losses' = losses + 1
  BY <1>3
<1>5. LogInv(dir, made[kind], losses)
  BY DEF TraceInv
<1>6. LogInv(new, entry, losses')
  <2> HIDE DEF rotation, dir
  <2>1. CASE new = Appended(rotation, entry) /\ losses' = losses
    BY <1>2, <1>5, <2>1, LogAppended
  <2>2. CASE new \in Interrupted(rotation, entry) /\ losses' = losses + 1
    BY <1>2, <1>5, <2>2, LogInterrupted
  <2> QED BY <1>4, <2>1, <2>2
<1>7. new \in Dirs(MaxRotations) /\ losses' \in {losses, losses + 1}
  BY <1>4, <1>6 DEF LogInv
<1>8. trace' \in [Kinds -> Dirs(MaxRotations)] /\ made' \in [Kinds -> Nat]
  BY <1>1, <1>3, <1>4, <1>7 DEF TraceInv
<1>9. ASSUME NEW other \in Kinds PROVE LogInv(trace'[other], made'[other], losses')
  <2>1. CASE other = kind
    <3>1. trace'[other] = new /\ made'[other] = entry
      BY <1>3, <1>4, <2>1 DEF TraceInv
    <3> QED BY <1>6, <3>1
  <2>2. CASE other # kind
    <3>1. trace'[other] = trace[other] /\ made'[other] = made[other]
      BY <1>3, <1>4, <2>2 DEF TraceInv
    <3>2. LogInv(trace[other], made[other], losses) /\ LogInv(trace[other], made[other], losses + 1)
      BY LogStill DEF TraceInv
    <3> QED BY <1>7, <3>1, <3>2
  <2> QED BY <2>1, <2>2
<1> QED BY <1>8, <1>9 DEF TraceInv

LEMMA TraceRetained == ASSUME TraceInv PROVE TraceRetains
<1> SUFFICES ASSUME NEW kind \in Kinds
             PROVE  Cardinality({e \in 1 .. made[kind] :
                        made[kind] - e <= (MaxRotations - 1 - losses) * TraceLines}
                        \ EntriesIn(trace[kind])) <= 2 * losses
  BY DEF TraceRetains
<1> DEFINE fresh == {e \in 1 .. made[kind] :
                       made[kind] - e <= (MaxRotations - 1 - losses) * TraceLines}
           dir == trace[kind]
           adrift == AdriftOf(dir, made[kind], losses)
<1>1. LogInv(dir, made[kind], losses) /\ made[kind] \in Nat /\ losses \in Nat
  BY DEF TraceInv, LogInv
<1>2. fresh \ EntriesIn(dir) \subseteq adrift
  <2> SUFFICES ASSUME NEW e \in fresh, e \notin EntriesIn(dir), e \notin adrift PROVE FALSE
    OBVIOUS
  <2>1. Placed(dir, e, made[kind], losses, TraceLines)
    BY DEF AdriftOf
  <2>2. PICK f \in DOMAIN dir : e \in Found(dir[f])
    BY <2>1, CurrentFound DEF Placed, Exists
  <2> QED BY <2>2 DEF EntriesIn
<1>3. /\ IsFiniteSet(adrift) /\ Cardinality(adrift) \in Nat
      /\ Loose(dir) \in {0, 1} /\ Cardinality(OnLast(Current(dir))) \in {0, 1}
  BY <1>1, LogCounts
<1>4. Cardinality(adrift) + Loose(dir) + Cardinality(OnLast(Current(dir))) <= 2 * losses
  BY <1>1 DEF LogInv
<1> HIDE DEF adrift, fresh
<1>5. /\ Cardinality(fresh \ EntriesIn(dir)) \in Nat
      /\ Cardinality(fresh \ EntriesIn(dir)) <= Cardinality(adrift)
  BY <1>2, <1>3, CountOneMore
<1>6. Cardinality(fresh \ EntriesIn(dir)) <= 2 * losses
  BY <1>1, <1>3, <1>4, <1>5
<1> QED BY <1>6 DEF fresh

-----------------------------------------------------------------------------
(* What the logs keep *)

\* What a step of create_pr, or of another process, does to the logs.
AuditStep == \/ LogOperation
             \/ \E from \in 2 .. clock + 1 : Cleanup(from)
             \/ UNCHANGED auditVars
TraceStep == \/ \E kind \in Kinds : AppendTo(kind, made[kind] + 1)
             \/ UNCHANGED <<trace, made, losses>>

LEMMA RunLogs ==
    ASSUME NEW text, NEW effects, NEW next, Run(text, effects, next)
    PROVE  LogOperation \/ UNCHANGED auditVars
<1>1. ASSUME PostExec PROVE LogOperation \/ UNCHANGED auditVars
  BY <1>1 DEF PostExec
<1>2. PostExec \/ UNCHANGED auditVars
  BY DEF Run
<1> QED BY <1>1, <1>2

LEMMA LogSteps == ASSUME [Next]_vars PROVE AuditStep /\ TraceStep
<1>1. CASE \E list \in ChangeLists, text \in {{}, {"destructive"}} : CreatePR(list, text)
  BY <1>1 DEF CreatePR, AuditStep, TraceStep, traceVars
<1>2. CASE Checkout \/ Add \/ Commit
  <2>1. LogOperation \/ UNCHANGED auditVars
    BY <1>2, RunLogs DEF Checkout, Add, Commit
  <2>2. UNCHANGED <<trace, made, losses>>
    BY <1>2 DEF Checkout, Add, Commit, traceVars
  <2> QED BY <2>1, <2>2 DEF AuditStep, TraceStep
<1>3. CASE Write
  BY <1>3 DEF Write, AuditStep, TraceStep, traceVars
<1>4. ASSUME NEW kind \in Kinds, AddTo(kind) PROVE TraceStep
  BY <1>4 DEF AddTo, TraceStep
<1>5. CASE Trace
  <2>1. AddTo("nodes") \/ UNCHANGED traceVars
    BY <1>5 DEF Trace, AddNode
  <2>2. "nodes" \in Kinds
    BY DEF Kinds
  <2>3. TraceStep
    BY <1>4, <2>1, <2>2 DEF TraceStep, traceVars
  <2>4. UNCHANGED auditVars
    BY <1>5 DEF Trace
  <2> QED BY <2>3, <2>4 DEF AuditStep
<1>6. CASE Link
  <2>1. AddTo("edges") /\ "edges" \in Kinds
    BY <1>6 DEF Link, AddEdge, Kinds
  <2>2. UNCHANGED auditVars
    BY <1>6 DEF Link
  <2> QED BY <1>4, <2>1, <2>2 DEF AuditStep
<1>7. CASE AuditCommand
  BY <1>7 DEF AuditCommand, AuditStep, TraceStep, traceVars
<1>8. CASE Die
  BY <1>8 DEF Die, AuditStep, TraceStep
<1>9. CASE UNCHANGED vars
  BY <1>9 DEF vars, traceVars, AuditStep, TraceStep
<1> QED BY <1>1, <1>2, <1>3, <1>5, <1>6, <1>7, <1>8, <1>9 DEF Next

LEMMA AuditStart == ASSUME AuditInit PROVE AuditInv
<1>1. /\ audit = [f \in {} |-> <<>>] /\ clock = 0 /\ logged = {} /\ cutoff = 1 /\ stops = 0
      /\ cleanups = 0
  BY DEF AuditInit
<1>2. audit \in Dirs(MaxFiles)
  <2>1. MaxFiles \in Nat /\ {} \in SUBSET (0 .. MaxFiles)
    BY AuditAssumption
  <2> DEFINE none == [f \in {} |-> <<>>]
  <2>2. none = [f \in {} |-> none[f]]
    OBVIOUS
  <2> HIDE DEF none
  <2>3. none \in Dirs(MaxFiles)
    BY <2>1, <2>2, DirType
  <2> QED BY <1>1, <2>3 DEF none
<1>3. Current(audit) = <<>>
  BY <1>1 DEF Current, Exists
<1>4. ~Unended(Current(audit)) /\ OnLast(Current(audit)) = {}
  BY <1>3 DEF Unended, OnLast
<1>5. Adrift = {}
  BY <1>1 DEF Adrift, Fresh
<1>6. Cardinality(Adrift) = 0
  BY <1>5, FS_EmptySet
<1> QED BY <1>1, <1>2, <1>4, <1>6 DEF AuditInv

LEMMA TraceStart == ASSUME TraceInit PROVE TraceInv
<1> DEFINE none == [f \in {} |-> <<>>]
<1>1. /\ trace = [kind \in Kinds |-> none] /\ made = [kind \in Kinds |-> 0] /\ losses = 0
  BY DEF TraceInit
<1>2. none \in Dirs(MaxRotations)
  <2>1. MaxRotations \in Nat /\ {} \in SUBSET (0 .. MaxRotations)
    BY TraceAssumption
  <2>2. none = [f \in {} |-> none[f]]
    OBVIOUS
  <2> HIDE DEF none
  <2> QED BY <2>1, <2>2, DirType
<1>3. Current(none) = <<>>
  BY DEF Current, Exists
<1> HIDE DEF none
<1>4. ~Unended(Current(none)) /\ OnLast(Current(none)) = {}
  BY <1>3 DEF Unended, OnLast
<1>5. LogInv(none, 0, 0)
  <2>1. AdriftOf(none, 0, 0) = {}
    BY DEF AdriftOf
  <2>2. Cardinality({}) = 0
    BY FS_EmptySet
  <2> QED BY <1>2, <1>4, <2>1, <2>2 DEF LogInv, Loose
<1> QED BY <1>1, <1>2, <1>5 DEF TraceInv

LEMMA LogsKept ==
    ASSUME AuditInv, TraceInv, AuditStep, TraceStep PROVE AuditInv' /\ TraceInv'
<1>1. ASSUME LogOperation PROVE AuditInv'
  BY <1>1, LogOperationInv
<1>2. ASSUME NEW from \in 2 .. clock + 1, Cleanup(from) PROVE AuditInv'
  <2>1. from \in 1 .. clock + 1
    BY DEF AuditInv
  <2> QED BY <1>2, <2>1, CleanupInv
<1>3. ASSUME UNCHANGED auditVars PROVE AuditInv'
  BY <1>3 DEF auditVars, AuditInv, Adrift, Fresh
<1>4. ASSUME NEW kind \in Kinds, AppendTo(kind, made[kind] + 1) PROVE TraceInv'
  BY <1>4, AppendToInv
<1>5. ASSUME UNCHANGED <<trace, made, losses>> PROVE TraceInv'
  BY <1>5 DEF TraceInv
<1>6. AuditInv'
  BY <1>1, <1>2, <1>3 DEF AuditStep
<1>7. TraceInv'
  BY <1>4, <1>5 DEF TraceStep
<1> QED BY <1>6, <1>7

\* What was logged, is not below the limit of a cleanup and has not had as many
\* entries after it as the rotated files hold is in some file, but for one entry
\* and one file for each operation that stopped halfway; and so is what was traced,
\* where a rotation may take two files (AuditStore._rotate_if_needed, append and
\* _rewrite, TraceStore._maybe_rotate).
THEOREM LogsRetain == Spec => []Retention
<1>1. Init => AuditInv /\ TraceInv
  BY AuditStart, TraceStart DEF Init
<1>2. AuditInv /\ TraceInv /\ [Next]_vars => AuditInv' /\ TraceInv'
  BY LogSteps, LogsKept
<1>3. AuditInv /\ TraceInv => Retention
  BY AuditRetained, TraceRetained DEF Retention
<1> QED BY <1>1, <1>2, <1>3, PTL DEF Spec

-----------------------------------------------------------------------------
(* Handlers *)

\* What one more handler makes of a decision.
OneMore(handler, payload, verdict, decision) ==
    Follow(decision, Decide(handler, [payload EXCEPT !.text = decision.text], verdict))

LEMMA OneMoreFacts ==
    ASSUME NEW handler, NEW payload \in Payload, NEW verdict, NEW decision \in Decision
    PROVE  /\ OneMore(handler, payload, verdict, decision) \in Decision
           /\ decision.action = "deny" \/ (handler = "path_guard" /\ payload.path = "system") =>
                OneMore(handler, payload, verdict, decision).action = "deny"
<1> DEFINE seen == [payload EXCEPT !.text = decision.text]
           next == Decide(handler, seen, verdict)
<1>1. seen.text = decision.text /\ seen.path = payload.path /\ decision.text \in Texts
  BY DEF Payload, Decision
<1>2. next \in {Deny(seen.text), Allow(seen.text), Modify(seen.text \ {"secret"}),
                Modify(seen.text \ {"flagged"})}
  BY DEF Decide, Evaluate
<1>3. next \in Decision
  BY <1>1, <1>2 DEF Decision, Deny, Allow, Modify, Texts
<1>4. handler = "path_guard" /\ payload.path = "system" => next = Deny(seen.text)
  BY <1>1 DEF Decide
<1> HIDE DEF next, seen
<1>5. OneMore(handler, payload, verdict, decision)
        = IF decision.action = "deny" \/ next.action = "allow" THEN decision ELSE next
  BY DEF OneMore, Follow, next, seen
<1>6. \A t : Deny(t).action = "deny"
  BY DEF Deny
<1> QED BY <1>3, <1>4, <1>5, <1>6

\* A chain goes from the payload's text to what is emitted, a handler at a time.
LEMMA EmitIsChain ==
    ASSUME NEW handlers \in Seq(Handlers), NEW payload \in Payload, NEW verdict
    PROVE  \E after : /\ after[0] = Allow(payload.text)
                      /\ \A n \in 1 .. Len(handlers) :
                           after[n] = OneMore(handlers[n], payload, verdict, after[n - 1])
                      /\ Emit(handlers, payload, verdict) = after[Len(handlers)]
<1> DEFINE N == Len(handlers)
           F(g) == [n \in 0 .. N |->
                      IF n = 0 THEN Allow(payload.text)
                      ELSE Follow(g[n - 1], Decide(handlers[n],
                                     [payload EXCEPT !.text = g[n - 1].text], verdict))]
           after == CHOOSE g : g = F(g)
           step == [n \in 1 .. N |-> [d \in Decision |->
                      OneMore(handlers[n], payload, verdict, d)]]
<1>1. Emit(handlers, payload, verdict) = after[N]
  BY DEF Emit
<1>2. N \in Nat /\ Allow(payload.text) \in Decision
  BY DEF Allow, Payload, Decision
<1>3. step \in Steps(Decision, N)
  BY OneMoreFacts DEF Steps
<1>4. PICK a \in [0 .. N -> Decision] : /\ a[0] = Allow(payload.text)
                                        /\ \A n \in 1 .. N : a[n] = step[n][a[n - 1]]
  <2>1. PICK m \in Nat : m = N
    BY <1>2
  <2>2. PICK first \in Decision : first = Allow(payload.text)
    BY <1>2
  <2>3. PICK st \in Steps(Decision, m) : st = step
    BY <1>3, <2>1
  <2>4. PICK a : Looped(Decision, first, m, st, a)
    BY LoopExists
  <2> HIDE DEF step, N, F, after
  <2> QED BY <2>1, <2>2, <2>3, <2>4 DEF Looped
<1>5. \A n \in 1 .. N : n - 1 \in 0 .. N /\ a[n - 1] \in Decision
  BY <1>2
<1>6. \A n \in 1 .. N : a[n] = OneMore(handlers[n], payload, verdict, a[n - 1])
  BY <1>4, <1>5
<1>7. a = F(a)
  <2> HIDE DEF N
  <2>1. \A n \in 0 .. N : n # 0 => n \in 1 .. N
    BY <1>2
  <2> QED BY <1>4, <1>6, <2>1 DEF OneMore
<1> HIDE DEF F
<1>8. after = F(after)
  BY <1>7
<1> HIDE DEF after
<1>9. after[0] = Allow(payload.text)
      /\ \A n \in 1 .. N : after[n] = OneMore(handlers[n], payload, verdict, after[n - 1])
  <2> HIDE DEF N
  <2>1. 0 \in 0 .. N /\ \A n \in 1 .. N : n \in 0 .. N /\ n # 0
    BY <1>2
  <2>2. \A n \in 0 .. N : after[n] = F(after)[n]
    BY <1>8
  <2> QED BY <2>1, <2>2 DEF F, OneMore
<1> QED BY <1>1, <1>9

\* Where path_guard is among the handlers, nothing in a system directory passes.
LEMMA EmitDenies ==
    ASSUME NEW handlers \in Seq(Handlers), NEW payload \in Payload, NEW verdict,
           NEW j \in DOMAIN handlers, handlers[j] = "path_guard", payload.path = "system"
    PROVE  Emit(handlers, payload, verdict).action = "deny"
<1>1. PICK after : /\ after[0] = Allow(payload.text)
                   /\ \A n \in 1 .. Len(handlers) :
                        after[n] = OneMore(handlers[n], payload, verdict, after[n - 1])
                   /\ Emit(handlers, payload, verdict) = after[Len(handlers)]
  BY EmitIsChain
<1> DEFINE N == Len(handlers)
           Good(n) == after[n] \in Decision /\ (j <= n => after[n].action = "deny")
           S == {n \in 0 .. N : Good(n)}
<1>2. N \in Nat /\ DOMAIN handlers = 1 .. N /\ j \in 1 .. N
  OBVIOUS
<1> HIDE DEF N
<1>3. 0 \in S
  <2>1. Allow(payload.text) \in Decision
    BY DEF Allow, Payload, Decision
  <2>2. ~(j <= 0)
    BY <1>2
  <2> QED BY <1>1, <1>2, <2>1, <2>2
<1>4. ASSUME NEW n \in 1 .. N, n - 1 \in S PROVE n \in S
  <2> DEFINE d == after[n - 1]
             e == after[n]
  <2>1. e = OneMore(handlers[n], payload, verdict, d)
    BY <1>1 DEF N
  <2>2. d \in Decision /\ (j <= n - 1 => d.action = "deny")
    BY <1>4
  <2> HIDE DEF d, e
  <2>3. /\ e \in Decision
        /\ d.action = "deny" \/ handlers[n] = "path_guard" => e.action = "deny"
    BY <2>1, <2>2, OneMoreFacts
  <2>4. j <= n => j <= n - 1 \/ j = n
    BY <1>2
  <2>5. Good(n)
    BY <2>2, <2>3, <2>4 DEF e
  <2> HIDE DEF Good
  <2>6. n \in 0 .. N
    BY <1>2
  <2> QED BY <2>5, <2>6
<1>5. N \in S
  <2> HIDE DEF S
  <2>1. 0 .. N \subseteq S
    BY <1>2, <1>3, <1>4, AllOfThem
  <2> QED BY <1>2, <2>1
<1>6. Good(N) /\ j <= N
  BY <1>2, <1>5
<1> QED BY <1>1, <1>6 DEF N

-----------------------------------------------------------------------------
(* What create_pr answers *)

Files == [Names -> {"old", "torn", "written", "absent"}]
Git == [staged : SUBSET Names, commits : Nat]

\* Each of the first n changes is what its file says, or a later one is.
Done(files, list, n) ==
    \A m \in 1 .. n : \/ files[list[m].name] = Left(list[m])
                      \/ \E j \in m + 1 .. n : list[j].name = list[m].name

\* No list of changes gets at what path_guard denies.
Guarded(registry, files) ==
    "path_guard" \in Registered(registry, "pre_write") =>
        \A list \in ChangeLists : \A n \in DOMAIN list :
            list[n].path = "system" => files[list[n].name] = "old"

CallTypes == /\ hooks \in Registries
             /\ pc \in {"idle", "checkout", "write", "add", "commit", "trace"}
             /\ changes \in ChangeLists \cup {<<>>} /\ title \subseteq Marks
             /\ k \in 0 .. Len(changes)
             /\ tree \in Files /\ git \in Git
             /\ records \in Seq({"success", "failed", "denied"})
             /\ answer \in {"none", "created", "error"}
             /\ base \in 0 .. calls /\ late \in BOOLEAN /\ calls \in 0 .. MaxCalls
             /\ git.commits <= calls

\* Where the call is, and what it has done and said.
CallInv ==
    /\ CallTypes
    /\ pc \in {"checkout", "write", "add", "commit"} =>
         git.commits = base /\ base < calls /\ ~late
    /\ pc = "checkout" => k = 0
    /\ pc = "write" => k < Len(changes)
    /\ pc = "add" => k > 0
    /\ pc \in {"commit", "trace"} => k = Len(changes)
    /\ pc # "idle" => Done(tree, changes, k) /\ answer = "none"
    /\ answer = "error" => (git.commits = base \/ late) /\ Last(records) # "success"
    /\ answer = "created" => Done(tree, changes, Len(changes)) /\ Last(records) = "success"
    /\ Guarded(hooks, tree)

LEMMA ChangesFacts ==
    ASSUME CallTypes
    PROVE  /\ changes \in Seq(Change) /\ Len(changes) \in Nat /\ k \in Nat /\ MaxCalls \in Nat
           /\ calls \in Nat /\ base \in Nat /\ git.commits \in Nat
           /\ \A n \in 1 .. Len(changes) : /\ changes \in ChangeLists /\ n \in DOMAIN changes
                                           /\ changes[n] \in Change
                                           /\ changes[n].name \in Names
<1>1. changes \in Seq(Change)
  <2>1. <<>> \in Seq(Change)
    OBVIOUS
  <2> QED BY <2>1, ChangesAssumption DEF CallTypes
<1>2. Len(changes) \in Nat /\ DOMAIN changes = 1 .. Len(changes)
  BY <1>1
<1>3. changes = <<>> => Len(changes) = 0
  OBVIOUS
<1>4. k \in Nat /\ MaxCalls \in Nat /\ calls \in Nat /\ base \in Nat /\ git.commits \in Nat
  BY <1>2, CallsAssumption DEF CallTypes, Git
<1>5. ASSUME NEW n \in 1 .. Len(changes)
      PROVE  /\ changes \in ChangeLists /\ n \in DOMAIN changes
             /\ changes[n] \in Change /\ changes[n].name \in Names
  <2>1. changes # <<>>
    BY <1>2, <1>3
  <2>2. changes \in ChangeLists
    BY <2>1 DEF CallTypes
  <2>3. changes[n] \in Change
    BY <1>1, ElementOfSeq
  <2> QED BY <1>2, <2>2, <2>3 DEF Change
<1> QED BY <1>1, <1>2, <1>4, <1>5

LEMMA AppendRecord ==
    ASSUME NEW S, NEW list \in Seq(S), NEW e \in S
    PROVE  Append(list, e) \in Seq(S) /\ Last(Append(list, e)) = e
<1>1. /\ Append(list, e) \in Seq(S) /\ Len(Append(list, e)) = Len(list) + 1
      /\ Append(list, e)[Len(list) + 1] = e
  BY SequenceFacts
<1> QED BY <1>1 DEF Last

LEMMA DoneOneMore ==
    ASSUME NEW files \in Files, NEW list \in Seq(Change), NEW n \in Nat, n < Len(list),
           Done(files, list, n)
    PROVE  Done([files EXCEPT ![list[n + 1].name] = Left(list[n + 1])], list, n + 1)
<1> DEFINE name == list[n + 1].name
           new == [files EXCEPT ![name] = Left(list[n + 1])]
<1>1. Len(list) \in Nat /\ n + 1 \in 1 .. Len(list)
  OBVIOUS
<1>2. name \in Names
  <2>1. list[n + 1] \in Change
    BY <1>1, ElementOfSeq
  <2> QED BY <2>1 DEF Change
<1>3. new[name] = Left(list[n + 1]) /\ \A other \in Names : other # name => new[other] = files[other]
  BY <1>2 DEF Files
<1>4. ASSUME NEW m \in 1 .. n + 1
      PROVE  \/ new[list[m].name] = Left(list[m])
             \/ \E j \in m + 1 .. n + 1 : list[j].name = list[m].name
  <2> HIDE DEF new
  <2>1. CASE m = n + 1
    BY <1>3, <2>1
  <2>2. CASE m # n + 1 /\ list[m].name = name
    <3>1. n + 1 \in m + 1 .. n + 1
      BY <2>2
    <3> QED BY <2>2, <3>1
  <2>3. CASE m # n + 1 /\ list[m].name # name
    <3>1. m \in 1 .. n /\ m \in 1 .. Len(list) /\ m + 1 .. n \subseteq m + 1 .. n + 1
      BY <1>1, <2>3
    <3>2. list[m] \in Change
      BY <3>1, ElementOfSeq
    <3>3. list[m].name \in Names
      BY <3>2 DEF Change
    <3>4. new[list[m].name] = files[list[m].name]
      BY <1>3, <2>3, <3>3
    <3> QED BY <3>1, <3>4 DEF Done
  <2> QED BY <2>1, <2>2, <2>3
<1> QED BY <1>4 DEF Done

\* What a command leaves.
LEMMA RunFacts ==
    ASSUME NEW text, NEW effects, NEW next, Run(text, effects, next)
    PROVE  /\ git' \in effects \cup {git}
           /\ \/ pc' = next /\ answer' = answer /\ records' = records /\ late' = late
              \/ Failed /\ ((git' = git /\ late' = late) \/ late' = (pc = "commit"))
<1>1. CASE \E verdict \in Verdicts : Failed /\ git' = git /\ late' = late
  BY <1>1
<1>2. CASE \E verdict \in Verdicts :
             /\ git' \in effects \cup {git}
             /\ \/ pc' = next /\ answer' = answer /\ records' = records /\ late' = late
                \/ Failed /\ late' = (pc = "commit")
  BY <1>2
<1>3. \/ \E verdict \in Verdicts : Failed /\ git' = git /\ late' = late
      \/ \E verdict \in Verdicts :
             /\ git' \in effects \cup {git}
             /\ \/ pc' = next /\ answer' = answer /\ records' = records /\ late' = late
                \/ Failed /\ late' = (pc = "commit")
  BY DEF Run
<1> QED BY <1>1, <1>2, <1>3

\* A call that ends with an error.
LEMMA EndsBadly ==
    ASSUME CallInv, NEW record \in {"failed", "denied"}, Ends("error", record),
           UNCHANGED <<hooks, changes, title, k, base, calls>>,
           tree' \in Files, Guarded(hooks, tree'), git' \in Git, git'.commits <= calls,
           late' \in BOOLEAN, git'.commits = base \/ late'
    PROVE  CallInv'
<1>1. pc' = "idle" /\ answer' = "error" /\ records' = Append(records, record)
  BY DEF Ends
<1>2. records' \in Seq({"success", "failed", "denied"}) /\ Last(records') = record
  BY <1>1, AppendRecord DEF CallInv, CallTypes
<1>3. CallTypes'
  BY <1>1, <1>2 DEF CallInv, CallTypes
<1>4. Guarded(hooks', tree')
  OBVIOUS
<1> QED BY <1>1, <1>2, <1>3, <1>4 DEF CallInv

LEMMA RunInv ==
    ASSUME CallInv, NEW text, NEW effects, NEW next, Run(text, effects, next),
           pc \in {"checkout", "add", "commit"},
           UNCHANGED <<hooks, changes, title, k, tree, base, calls>>,
           \A g \in effects : g \in Git /\ g.commits <= calls,
           pc # "commit" => \A g \in effects : g.commits = git.commits,
           pc # "commit" => next = NextChange(k), pc = "commit" => next = "trace"
    PROVE  CallInv'
<1>1. /\ git \in Git /\ git.commits <= calls /\ git.commits = base /\ base < calls /\ ~late
      /\ tree \in Files /\ Guarded(hooks, tree) /\ k \in 0 .. Len(changes)
      /\ Done(tree, changes, k) /\ answer = "none" /\ Len(changes) \in Nat
      /\ late = FALSE
  BY ChangesFacts DEF CallInv, CallTypes
<1>2. /\ git' \in effects \cup {git}
      /\ \/ pc' = next /\ answer' = answer /\ records' = records /\ late' = late
         \/ Failed /\ ((git' = git /\ late' = late) \/ late' = (pc = "commit"))
  BY RunFacts
<1>3. git' \in Git /\ git'.commits <= calls /\ (pc # "commit" => git'.commits = base)
  BY <1>1, <1>2
<1>4. CASE Failed /\ ((git' = git /\ late' = late) \/ late' = (pc = "commit"))
  <2>1. late' \in BOOLEAN /\ (git'.commits = base \/ late')
    <3>1. CASE pc = "commit"
      <4>1. late' = TRUE \/ (late' = FALSE /\ git' = git)
        BY <1>1, <1>4, <3>1
      <4> QED BY <1>1, <4>1
    <3>2. CASE pc # "commit"
      <4>1. late' = FALSE
        BY <1>1, <1>4, <3>2
      <4> QED BY <1>3, <3>2, <4>1
    <3> QED BY <3>1, <3>2
  <2>2. Ends("error", "failed") /\ tree' = tree
    BY <1>4 DEF Failed
  <2>3. Guarded(hooks, tree') /\ tree' \in Files
    BY <1>1, <2>2
  <2> QED BY <1>3, <2>1, <2>2, <2>3, EndsBadly
<1>5. CASE pc' = next /\ answer' = answer /\ records' = records /\ late' = late
  <2>1. CASE pc = "commit"
    <3>1. pc' = "trace" /\ k = Len(changes)
      BY <1>5, <2>1 DEF CallInv
    <3>2. CallTypes'
      BY <1>3, <1>5, <3>1 DEF CallInv, CallTypes
    <3>3. Done(tree', changes', k') /\ answer' = "none" /\ Guarded(hooks', tree')
      BY <1>1, <1>5
    <3>4. k' = Len(changes')
      BY <3>1
    <3> QED BY <3>1, <3>2, <3>3, <3>4 DEF CallInv
  <2>2. CASE pc # "commit"
    <3>1. /\ pc' \in {"write", "commit"} /\ (pc' = "write" => k < Len(changes))
          /\ (pc' = "commit" => k = Len(changes))
      <4>1. pc' = IF k < Len(changes) THEN "write" ELSE "commit"
        BY <1>5, <2>2 DEF NextChange
      <4> QED BY <1>1, <4>1
    <3>2. CallTypes'
      BY <1>3, <1>5, <3>1 DEF CallInv, CallTypes
    <3>3. Done(tree', changes', k') /\ answer' = "none" /\ Guarded(hooks', tree')
      BY <1>1, <1>5
    <3>4. git'.commits = base' /\ base' < calls' /\ ~late'
      BY <1>1, <1>3, <1>5, <2>2
    <3>5. (pc' = "write" => k' < Len(changes')) /\ (pc' = "commit" => k' = Len(changes'))
      BY <3>1
    <3> QED BY <3>1, <3>2, <3>3, <3>4, <3>5 DEF CallInv
  <2> QED BY <2>1, <2>2
<1> QED BY <1>2, <1>4, <1>5

LEMMA CommandInv == ASSUME CallInv, Checkout \/ Add \/ Commit PROVE CallInv'
<1>1. /\ CallTypes /\ git \in Git /\ git.commits <= calls /\ git.commits \in Nat /\ calls \in Nat
      /\ base \in Nat
  BY ChangesFacts DEF CallInv, CallTypes
<1>2. CASE Checkout
  <2>1. Run({}, {git}, NextChange(k)) /\ pc = "checkout"
    BY <1>2 DEF Checkout, CallInv
  <2>2. UNCHANGED <<hooks, changes, title, k, tree, base, calls>>
    BY <1>2 DEF Checkout
  <2> QED BY <1>1, <2>1, <2>2, RunInv
<1>3. CASE Add
  <2> DEFINE name == changes[k].name
             added == [git EXCEPT !.staged = git.staged \cup {name}]
  <2>1. Run({}, {added}, NextChange(k)) /\ pc = "add"
    BY <1>3 DEF Add
  <2>2. k \in 1 .. Len(changes)
    BY <1>1, <2>1, ChangesFacts DEF CallInv, CallTypes
  <2>3. name \in Names
    BY <1>1, <2>2, ChangesFacts
  <2>4. added \in Git /\ added.commits = git.commits
    BY <1>1, <2>3 DEF Git
  <2>5. UNCHANGED <<hooks, changes, title, k, tree, base, calls>>
    BY <1>3 DEF Add
  <2> HIDE DEF added
  <2>6. \A g \in {added} : g \in Git /\ g.commits <= calls /\ g.commits = git.commits
    BY <1>1, <2>4
  <2> QED BY <2>1, <2>5, <2>6, RunInv
<1>4. CASE Commit
  <2> DEFINE done == [git EXCEPT !.staged = {}, !.commits = git.commits + 1]
             effects == IF git.staged = {} THEN {} ELSE {done}
  <2>1. Run(title, effects, "trace") /\ pc = "commit"
    BY <1>4 DEF Commit
  <2>2. git.commits = base /\ base < calls
    BY <2>1 DEF CallInv
  <2>3. done \in Git /\ done.commits = git.commits + 1
    <3> DEFINE half == [git EXCEPT !.staged = {}]
    <3>1. half \in Git /\ half.commits = git.commits
      BY <1>1 DEF Git
    <3>2. done = [half EXCEPT !.commits = git.commits + 1]
      BY DEF half, done
    <3> HIDE DEF half, done
    <3> QED BY <1>1, <3>1, <3>2 DEF Git
  <2>4. UNCHANGED <<hooks, changes, title, k, tree, base, calls>>
    BY <1>4 DEF Commit
  <2> HIDE DEF done
  <2>5. done.commits <= calls
    BY <1>1, <2>2, <2>3
  <2>6. \A g \in effects : g \in Git /\ g.commits <= calls
    BY <2>3, <2>5
  <2> HIDE DEF effects
  <2> QED BY <2>1, <2>4, <2>6, RunInv
<1> QED BY <1>2, <1>3, <1>4

\* A write may reach nothing that path_guard denies.
LEMMA WriteInv == ASSUME CallInv, Write PROVE CallInv'
<1> DEFINE change == changes[k + 1]
<1>1. /\ CallTypes /\ pc = "write" /\ k \in Nat /\ k < Len(changes) /\ changes \in Seq(Change)
      /\ Len(changes) \in Nat /\ git \in Git /\ git.commits <= calls /\ git.commits = base
      /\ base < calls /\ late = FALSE /\ tree \in Files /\ Guarded(hooks, tree)
      /\ Done(tree, changes, k) /\ answer = "none"
  BY ChangesFacts DEF Write, CallInv, CallTypes
<1>2. /\ k + 1 \in 1 .. Len(changes) /\ changes \in ChangeLists /\ k + 1 \in DOMAIN changes
      /\ change \in Change /\ change.name \in Names
  <2>1. k + 1 \in 1 .. Len(changes)
    BY <1>1
  <2> QED BY <1>1, <2>1, ChangesFacts
<1>3. /\ UNCHANGED <<hooks, changes, title, base, calls, git, late>>
      /\ \E verdict \in Verdicts :
           \/ ~Admits(change, verdict) /\ Ends("error", "denied") /\ tree' = tree /\ k' = k
           \/ /\ Admits(change, verdict)
              /\ tree' = [tree EXCEPT ![change.name] = Left(change)]
              /\ k' = k + 1 /\ pc' = "add" /\ answer' = answer /\ records' = records
           \/ /\ Admits(change, verdict)
              /\ \E left \in {tree[change.name], "torn"} :
                   tree' = [tree EXCEPT ![change.name] = left]
              /\ Failed /\ k' = k
  <2>1. UNCHANGED <<hooks, changes, title, base, calls, git, late>>
    BY DEF Write
  <2>2. PICK verdict \in Verdicts :
          IF ~Admits(change, verdict)
          THEN Ends("error", "denied") /\ UNCHANGED <<tree, k>>
          ELSE \/ /\ tree' = [tree EXCEPT ![change.name] = Left(change)]
                  /\ k' = k + 1
                  /\ pc' = "add"
                  /\ UNCHANGED <<answer, records>>
               \/ /\ tree' \in {[tree EXCEPT ![change.name] = left] :
                                  left \in {tree[change.name], "torn"}}
                  /\ change.delete => tree' = tree
                  /\ Failed
                  /\ UNCHANGED k
    BY DEF Write
  <2> HIDE DEF change
  <2> QED BY <2>1, <2>2
<1>4. PICK verdict \in Verdicts :
           \/ ~Admits(change, verdict) /\ Ends("error", "denied") /\ tree' = tree /\ k' = k
           \/ /\ Admits(change, verdict)
              /\ tree' = [tree EXCEPT ![change.name] = Left(change)]
              /\ k' = k + 1 /\ pc' = "add" /\ answer' = answer /\ records' = records
           \/ /\ Admits(change, verdict)
              /\ \E left \in {tree[change.name], "torn"} :
                   tree' = [tree EXCEPT ![change.name] = left]
              /\ Failed /\ k' = k
  BY <1>3
<1>5. ASSUME Admits(change, verdict), NEW left,
             "path_guard" \in Registered(hooks, "pre_write")
      PROVE  change.path # "system"
  <2> SUFFICES ASSUME change.path = "system" PROVE FALSE
    OBVIOUS
  <2> DEFINE chain == hooks["pre_write"]
             payload == [text |-> IF change.delete THEN {} ELSE change.text, path |-> change.path]
  <2>1. chain \in Seq(Handlers)
    BY <1>1, RegistriesAssumption DEF CallTypes, Events
  <2>2. payload \in Payload /\ payload.path = "system"
    <3>1. change.text \in Texts /\ {} \in Texts /\ change.path \in PathKinds
      BY <1>2 DEF Change, Texts
    <3> HIDE DEF change
    <3> QED BY <3>1 DEF Payload
  <2>3. PICK j \in DOMAIN chain : chain[j] = "path_guard"
    BY <1>5 DEF Registered
  <2>4. Emit(chain, payload, verdict).action # "deny"
    BY <1>5 DEF Admits
  <2> HIDE DEF chain, payload, change
  <2> QED BY <2>1, <2>2, <2>3, <2>4, EmitDenies
<1>6. ASSUME Admits(change, verdict), NEW left,
             NEW files \in Files, files = [tree EXCEPT ![change.name] = left]
      PROVE  Guarded(hooks, files)
  <2> SUFFICES ASSUME "path_guard" \in Registered(hooks, "pre_write"),
                      NEW list \in ChangeLists, NEW n \in DOMAIN list, list[n].path = "system"
               PROVE  files[list[n].name] = "old"
    BY DEF Guarded
  <2>1. change.path # "system"
    BY <1>5, <1>6
  <2>2. list[n].name # change.name
    BY <1>2, <2>1, PathsAssumption
  <2>3. tree[list[n].name] = "old"
    BY <1>1 DEF Guarded
  <2>4. list[n].name \in Names
    <3>1. list \in Seq(Change)
      BY ChangesAssumption
    <3>2. list[n] \in Change
      BY <3>1, ElementOfSeq
    <3> QED BY <3>2 DEF Change
  <2> HIDE DEF change
  <2> QED BY <1>1, <1>6, <2>2, <2>3, <2>4 DEF Files
<1>7. ASSUME NEW left \in {"old", "torn", "written", "absent"}
      PROVE  [tree EXCEPT ![change.name] = left] \in Files
  <2> HIDE DEF change
  <2> QED BY <1>1, <1>2 DEF Files
<1>8. CASE ~Admits(change, verdict) /\ Ends("error", "denied") /\ tree' = tree /\ k' = k
  <2>1. /\ Ends("error", "denied") /\ tree' = tree /\ k' = k /\ git' = git /\ late' = late
        /\ UNCHANGED <<hooks, changes, title, k, base, calls>> /\ "denied" \in {"failed", "denied"}
    BY <1>3, <1>8
  <2>2. Guarded(hooks, tree') /\ tree' \in Files /\ git' \in Git /\ git'.commits <= calls
        /\ late' \in BOOLEAN /\ git'.commits = base
    BY <1>1, <2>1
  <2> QED BY <2>1, <2>2, EndsBadly
<1>9. CASE /\ Admits(change, verdict)
           /\ tree' = [tree EXCEPT ![change.name] = Left(change)]
           /\ k' = k + 1 /\ pc' = "add" /\ answer' = answer /\ records' = records
  <2>1. Left(change) \in {"old", "torn", "written", "absent"}
    BY DEF Left
  <2>2. tree' \in Files
    BY <1>7, <1>9, <2>1
  <2>3. Guarded(hooks', tree')
    <3>1. PICK files \in Files : files = tree'
      BY <2>2
    <3>2. Guarded(hooks, files)
      BY <1>6, <1>9, <3>1
    <3> QED BY <1>3, <3>1, <3>2
  <2>4. Done(tree', changes', k')
    <3>1. Done([tree EXCEPT ![change.name] = Left(change)], changes, k + 1)
      BY <1>1, DoneOneMore
    <3> QED BY <1>3, <1>9, <3>1
  <2>5. k' \in 0 .. Len(changes') /\ k' > 0
    BY <1>1, <1>3, <1>9
  <2>6. CallTypes'
    BY <1>1, <1>3, <1>9, <2>2, <2>5 DEF CallTypes
  <2>7. git'.commits = base' /\ base' < calls' /\ ~late' /\ answer' = "none"
    BY <1>1, <1>3, <1>9
  <2> QED BY <1>9, <2>3, <2>4, <2>5, <2>6, <2>7 DEF CallInv
<1>10. CASE /\ Admits(change, verdict)
            /\ \E left \in {tree[change.name], "torn"} :
                 tree' = [tree EXCEPT ![change.name] = left]
            /\ Failed /\ k' = k
  <2>1. PICK left \in {tree[change.name], "torn"} : tree' = [tree EXCEPT ![change.name] = left]
    BY <1>10
  <2>2. tree[change.name] \in {"old", "torn", "written", "absent"}
    BY <1>1, <1>2 DEF Files
  <2>3. tree' \in Files
    BY <1>7, <2>1, <2>2
  <2>4. Guarded(hooks, tree')
    <3>1. PICK files \in Files : files = tree'
      BY <2>3
    <3>2. Guarded(hooks, files)
      BY <1>6, <1>10, <2>1, <3>1
    <3> QED BY <3>1, <3>2
  <2>5. /\ Ends("error", "failed") /\ UNCHANGED <<hooks, changes, title, k, base, calls>>
        /\ "failed" \in {"failed", "denied"} /\ git' \in Git /\ git'.commits <= calls
        /\ late' \in BOOLEAN /\ git'.commits = base
    BY <1>1, <1>3, <1>10 DEF Failed
  <2> QED BY <2>3, <2>4, <2>5, EndsBadly
<1> QED BY <1>4, <1>8, <1>9, <1>10

LEMMA CallStart == ASSUME Init PROVE CallInv
<1>1. /\ hooks \in Registries /\ pc = "idle" /\ changes = <<>> /\ title = {} /\ k = 0
      /\ tree = [name \in Names |-> "old"] /\ git = [staged |-> {}, commits |-> 0]
      /\ records = <<>> /\ answer = "none" /\ base = 0 /\ late = FALSE /\ calls = 0
  BY DEF Init
<1>2. tree \in Files /\ git \in Git /\ git.commits = 0
  BY <1>1 DEF Files, Git
<1>3. /\ Len(<<>>) = 0 /\ 0 \in 0 .. 0 /\ 0 \in 0 .. MaxCalls
      /\ <<>> \in Seq({"success", "failed", "denied"})
  BY CallsAssumption
<1>4. CallTypes
  <2>1. k \in 0 .. Len(changes) /\ records \in Seq({"success", "failed", "denied"})
    BY <1>1, <1>3
  <2>2. base \in 0 .. calls /\ calls \in 0 .. MaxCalls /\ git.commits <= calls
    BY <1>1, <1>2, <1>3
  <2>3. /\ hooks \in Registries /\ pc = "idle" /\ changes = <<>> /\ title = {}
        /\ answer = "none" /\ late = FALSE
    BY <1>1
  <2> QED BY <1>2, <2>1, <2>2, <2>3 DEF CallTypes
<1>5. Guarded(hooks, tree)
  <2> SUFFICES ASSUME NEW list \in ChangeLists, NEW n \in DOMAIN list
               PROVE  tree[list[n].name] = "old"
    BY DEF Guarded
  <2>1. list \in Seq(Change)
    BY ChangesAssumption
  <2>2. list[n] \in Change
    BY <2>1, ElementOfSeq
  <2> QED BY <1>1, <2>2 DEF Change
<1> QED BY <1>1, <1>4, <1>5 DEF CallInv

LEMMA CreateInv ==
    ASSUME CallInv, NEW list \in ChangeLists, NEW text \in {{}, {"destructive"}},
           CreatePR(list, text)
    PROVE  CallInv'
<1>1. /\ CallTypes /\ calls < MaxCalls
      /\ pc' = "checkout" /\ changes' = list /\ title' = text /\ k' = 0
      /\ base' = git.commits /\ late' = FALSE /\ answer' = "none" /\ calls' = calls + 1
      /\ UNCHANGED <<hooks, tree, git, records>> /\ Guarded(hooks, tree)
  BY DEF CreatePR, CallInv
<1>2. MaxCalls \in Nat /\ calls \in Nat /\ git.commits \in Nat /\ git.commits <= calls
  BY <1>1, ChangesFacts DEF CallTypes
<1>3. base' \in 0 .. calls' /\ calls' \in 0 .. MaxCalls /\ base' < calls' /\ git.commits <= calls'
  BY <1>1, <1>2
<1>4. k' \in 0 .. Len(changes')
  <2>1. list \in Seq(Change)
    BY ChangesAssumption
  <2>2. Len(list) \in Nat
    BY <2>1
  <2> QED BY <1>1, <2>2
<1>5. title' \subseteq Marks
  BY <1>1 DEF Marks
<1>6. CallTypes'
  BY <1>1, <1>3, <1>4, <1>5 DEF CallTypes
<1>7. Done(tree', changes', k')
  BY <1>1 DEF Done
<1>8. Guarded(hooks', tree') /\ git'.commits = base'
  BY <1>1
<1> QED BY <1>1, <1>3, <1>6, <1>7, <1>8 DEF CallInv

LEMMA TraceInvariant == ASSUME CallInv, Trace PROVE CallInv'
<1>1. /\ CallTypes /\ pc' = "idle" /\ answer' = "created" /\ records' = Append(records, "success")
      /\ UNCHANGED <<hooks, changes, title, k, tree, git, base, late, calls>>
      /\ Done(tree, changes, k) /\ k = Len(changes) /\ Guarded(hooks, tree)
  BY DEF Trace, Ends, CallInv
<1>2. records' \in Seq({"success", "failed", "denied"}) /\ Last(records') = "success"
  BY <1>1, AppendRecord DEF CallTypes
<1>3. CallTypes'
  BY <1>1, <1>2 DEF CallTypes
<1>4. Done(tree', changes', Len(changes')) /\ Guarded(hooks', tree')
  BY <1>1
<1> QED BY <1>1, <1>2, <1>3, <1>4 DEF CallInv

LEMMA DieInvariant == ASSUME CallInv, Die PROVE CallInv'
<1>1. /\ CallTypes /\ pc' = "idle" /\ answer' = "none" /\ records' = <<>>
      /\ UNCHANGED <<hooks, changes, title, k, tree, git, base, late, calls>>
      /\ Guarded(hooks, tree)
  BY DEF Die, CallInv
<1>2. CallTypes'
  <2>1. <<>> \in Seq({"success", "failed", "denied"})
    OBVIOUS
  <2> QED BY <1>1, <2>1 DEF CallTypes
<1>3. Guarded(hooks', tree')
  BY <1>1
<1> QED BY <1>1, <1>2, <1>3 DEF CallInv

LEMMA CallKept == ASSUME CallInv, [Next]_vars PROVE CallInv'
<1>1. CASE \E list \in ChangeLists, text \in {{}, {"destructive"}} : CreatePR(list, text)
  BY <1>1, CreateInv
<1>2. CASE Checkout \/ Add \/ Commit
  BY <1>2, CommandInv
<1>3. CASE Write
  BY <1>3, WriteInv
<1>4. CASE Trace
  BY <1>4, TraceInvariant
<1>5. CASE Die
  BY <1>5, DieInvariant
<1>6. CASE UNCHANGED callVars
  <2>1. UNCHANGED <<hooks, pc, changes, title, k, tree, git, records, answer, base, late, calls>>
    BY <1>6 DEF callVars
  <2>2. CallTypes'
    BY <2>1 DEF CallInv, CallTypes
  <2>3. Guarded(hooks', tree') /\ (Done(tree, changes, k) => Done(tree', changes', k'))
        /\ (Done(tree, changes, Len(changes)) => Done(tree', changes', Len(changes')))
    BY <2>1 DEF CallInv
  <2> QED BY <2>1, <2>2, <2>3 DEF CallInv
<1>7. Link \/ AuditCommand \/ UNCHANGED vars => UNCHANGED callVars
  BY DEF Link, AuditCommand, vars
<1> QED BY <1>1, <1>2, <1>3, <1>4, <1>5, <1>6, <1>7 DEF Next

\* An error leaves nothing committed, unless git was cut off in the commit itself;
\* after "created" every file is as the last change of it says; the last record
\* agrees; and no file that path_guard denies is ever touched, for any lists of
\* changes and any handlers (PipelineIntegrator.create_pr, SafeWriter.write_text
\* and unlink).
THEOREM CallsAnswered == Spec => []AnswerTells
<1>1. Init => CallInv
  BY CallStart
<1>2. CallInv /\ [Next]_vars => CallInv'
  BY CallKept
<1>3. CallInv => AnswerTells
  <2> SUFFICES ASSUME CallInv PROVE AnswerTells
    OBVIOUS
  <2>1. CallTypes /\ DOMAIN changes = 1 .. Len(changes) /\ Len(changes) \in Nat
    BY ChangesFacts DEF CallInv
  <2>2. ASSUME answer = "created", NEW n \in DOMAIN changes
        PROVE  \/ tree[changes[n].name] = Left(changes[n])
               \/ \E m \in DOMAIN changes : m > n /\ changes[m].name = changes[n].name
    <3>1. \/ tree[changes[n].name] = Left(changes[n])
          \/ \E m \in n + 1 .. Len(changes) : changes[m].name = changes[n].name
      BY <2>1, <2>2 DEF CallInv, Done
    <3>2. \A m \in n + 1 .. Len(changes) : m \in DOMAIN changes /\ m > n
      BY <2>1
    <3> QED BY <3>1, <3>2
  <2> QED BY <2>2 DEF AnswerTells, CallInv, Guarded
<1> QED BY <1>1, <1>2, <1>3, PTL DEF Spec

-----------------------------------------------------------------------------
(* Types *)

\* How often an operation stopped, and what the process and the current files
\* of the trace have.
StoreInv ==
    /\ stops + cleanups <= MaxStops
    /\ tracker \in [open : BOOLEAN, nodes : SUBSET Nat, edges : SUBSET Nat]
    /\ \A kind \in Kinds : /\ tracker[kind] \subseteq 1 .. made[kind]
                           /\ Found(Current(trace[kind])) \subseteq 1 .. made[kind]

\* A reader of a file finds nothing else than what is on its lines.
LEMMA EntriesFound ==
    ASSUME NEW file \in Seq(Lines) PROVE ToSet(Entries(file)) \subseteq Found(file)
<1> DEFINE S == Parsed(file)
           order == InOrder(S)
           c == Cardinality(S)
<1>1. Len(file) \in Nat /\ S \in SUBSET (1 .. Len(file))
  BY DEF Parsed
<1>2. order \in [1 .. c -> S]
  <2>1. PICK m \in Nat : m = Len(file)
    BY <1>1
  <2>2. S \in SUBSET (1 .. m)
    BY <1>1, <2>1
  <2> HIDE DEF S
  <2> QED BY <2>2, InOrderFacts
<1>3. Entries(file) = [i \in 1 .. c |-> Head(file[order[i]].entries)]
  <2>1. DOMAIN order = 1 .. c
    BY <1>2
  <2> HIDE DEF c
  <2> QED BY <2>1 DEF Entries, EntriesAt
<1> HIDE DEF order, c
<1>4. \A i \in 1 .. c : Entries(file)[i] \in Found(file)
  BY <1>2, <1>3 DEF Found
<1>5. DOMAIN Entries(file) = 1 .. c
  BY <1>3
<1> QED BY <1>4, <1>5 DEF ToSet

\* The current file has nothing new but the entry.
LEMMA CurrentLater ==
    ASSUME NEW n \in Nat, NEW dir \in Dirs(n), NEW top, NEW size, NEW entry \in Nat,
           NEW rotation, Sound(rotation, dir, n, top, size), NEW new,
           new = Appended(rotation, entry) \/ new \in Interrupted(rotation, entry)
    PROVE  Found(Current(new)) \subseteq Found(Current(dir)) \cup {entry}
<1> DEFINE end == rotation.end
           file == Current(end)
<1>1. \A dir2 \in rotation.through \cup {end} :
        dir2 \in Dirs(n) /\ Current(dir2) \in {Current(dir), <<>>}
  BY DEF Sound, Carries
<1>2. Found(<<>>) = {}
  BY DEF Found, Parsed
<1>3. file \in Seq(Lines) /\ Found(file) \subseteq Found(Current(dir)) /\ end \in Dirs(n)
  BY <1>1, <1>2, DirFacts
<1>4. CASE new = Appended(rotation, entry)
  <2> DEFINE more == AppendLine(file, entry)
  <2>1. new = WithCurrent(end, more)
    BY <1>4 DEF Appended
  <2>2. more \in Seq(Lines) /\ Found(more) \subseteq Found(file) \cup {entry}
    BY <1>3, AppendFacts
  <2> HIDE DEF end, file, more
  <2>3. Current(new) = more
    BY <1>3, <2>1, <2>2, WithCurrentFacts
  <2> QED BY <1>3, <2>2, <2>3
<1>5. CASE new \in rotation.through \cup {end}
  BY <1>1, <1>2, <1>5
<1>6. CASE new \in {WithCurrent(end, lines) : lines \in CutShort(file, entry)}
  <2>1. PICK cut \in CutShort(file, entry) : new = WithCurrent(end, cut)
    BY <1>6
  <2>2. cut \in Seq(Lines) /\ Found(cut) \subseteq Found(file) \cup {entry}
    BY <1>3, CutShortFacts
  <2> HIDE DEF end, file
  <2>3. Current(new) = cut
    BY <1>3, <2>1, <2>2, WithCurrentFacts
  <2> QED BY <1>3, <2>2, <2>3
<1> QED BY <1>4, <1>5, <1>6 DEF Interrupted

\* What the steps do to the process's memory.
LEMMA TrackerSteps ==
    ASSUME [Next]_vars
    PROVE  \/ \E kind \in Kinds : AddTo(kind)
           \/ UNCHANGED <<trace, made>> /\ tracker' \in {tracker, NoTracker}
<1>1. CASE \E list \in ChangeLists, text \in {{}, {"destructive"}} : CreatePR(list, text)
  BY <1>1 DEF CreatePR, traceVars
<1>2. CASE Checkout \/ Add \/ Commit
  BY <1>2 DEF Checkout, Add, Commit, traceVars
<1>3. CASE Write
  BY <1>3 DEF Write, traceVars
<1>4. CASE Trace
  BY <1>4 DEF Trace, AddNode, Kinds, traceVars
<1>5. CASE Link
  BY <1>5 DEF Link, AddEdge, Kinds
<1>6. CASE AuditCommand
  BY <1>6 DEF AuditCommand, traceVars
<1>7. CASE Die
  BY <1>7 DEF Die
<1>8. CASE UNCHANGED vars
  BY <1>8 DEF vars, traceVars
<1> QED BY <1>1, <1>2, <1>3, <1>4, <1>5, <1>6, <1>7, <1>8 DEF Next

LEMMA StopsCounted ==
    ASSUME AuditInv, stops + cleanups <= MaxStops, AuditStep PROVE (stops + cleanups <= MaxStops)'
<1>1. MaxStops \in Nat /\ stops \in Nat /\ cleanups \in Nat
  BY AuditAssumption DEF AuditInv
<1>2. CASE LogOperation
  <2>1. cleanups' = cleanups /\ (stops' = stops \/ (stops' = stops + 1 /\ stops + cleanups < MaxStops))
    BY <1>2 DEF LogOperation, MayStop
  <2> QED BY <1>1, <2>1
<1>3. ASSUME NEW from \in 2 .. clock + 1, Cleanup(from) PROVE (stops + cleanups <= MaxStops)'
  <2>1. stops' = stops /\ (cleanups' = cleanups
                           \/ (cleanups' = cleanups + 1 /\ stops + cleanups < MaxStops))
    BY <1>3 DEF Cleanup, MayStop
  <2> QED BY <1>1, <2>1
<1>4. CASE UNCHANGED auditVars
  BY <1>4 DEF auditVars
<1> QED BY <1>2, <1>3, <1>4 DEF AuditStep

LEMMA AddToStore ==
    ASSUME TraceInv, StoreInv, NEW kind \in Kinds, AddTo(kind)
    PROVE  /\ tracker' \in [open : BOOLEAN, nodes : SUBSET Nat, edges : SUBSET Nat]
           /\ \A other \in Kinds : /\ tracker'[other] \subseteq 1 .. made'[other]
                                   /\ Found(Current(trace'[other])) \subseteq 1 .. made'[other]
<1> DEFINE entry == made[kind] + 1
           now == Tracker
           dir == trace[kind]
           rotation == IF Full(dir, TraceLines) THEN RotateTrace(dir, MaxRotations)
                                                ELSE NoRotation(dir)
<1>1. /\ MaxRotations \in Nat \ {0} /\ MaxRotations \in Nat /\ TraceLines \in Nat
      /\ \A other \in Kinds : trace[other] \in Dirs(MaxRotations) /\ made[other] \in Nat
      /\ trace \in [Kinds -> Dirs(MaxRotations)] /\ made \in [Kinds -> Nat]
  BY TraceAssumption DEF TraceInv
<1>2. Sound(rotation, dir, MaxRotations, MaxRotations - 1, TraceLines)
  <2> HIDE DEF dir
  <2> QED BY <1>1, RotateTraceSound, NoRotationSound DEF dir
<1>3. /\ tracker' = [now EXCEPT ![kind] = now[kind] \cup {entry}]
      /\ made' = [made EXCEPT ![kind] = made[kind] + 1]
      /\ \E new : /\ trace' = [trace EXCEPT ![kind] = new]
                  /\ new = Appended(rotation, entry) \/ new \in Interrupted(rotation, entry)
  BY DEF AddTo, AppendTo
<1>4. /\ now \in [open : BOOLEAN, nodes : SUBSET Nat, edges : SUBSET Nat]
      /\ now["nodes"] \subseteq 1 .. made["nodes"] /\ now["edges"] \subseteq 1 .. made["edges"]
  <2>1. "nodes" \in Kinds /\ "edges" \in Kinds
    BY DEF Kinds
  <2>2. CASE now = tracker
    BY <2>1, <2>2 DEF StoreInv
  <2>3. CASE now = Loaded
    <3> DEFINE nodes == ToSet(Entries(Current(trace["nodes"])))
               edges == ToSet(Entries(Current(trace["edges"])))
    <3>1. /\ nodes \subseteq Found(Current(trace["nodes"]))
          /\ edges \subseteq Found(Current(trace["edges"]))
      BY <1>1, <2>1, DirFacts, EntriesFound
    <3>2. nodes \subseteq 1 .. made["nodes"] /\ edges \subseteq 1 .. made["edges"]
      BY <2>1, <3>1 DEF StoreInv
    <3>3. now = [open |-> TRUE, nodes |-> nodes, edges |-> edges]
      BY <2>3 DEF Loaded
    <3>4. nodes \subseteq Nat /\ edges \subseteq Nat
      BY <1>1, <2>1, <3>2
    <3> HIDE DEF now, nodes, edges
    <3> QED BY <3>2, <3>3, <3>4
  <2> QED BY <2>2, <2>3 DEF Tracker
<1>5. entry \in Nat /\ kind \in {"nodes", "edges"} /\ Kinds = {"nodes", "edges"}
  BY <1>1 DEF Kinds
<1> HIDE DEF now
<1>6. PICK new : /\ trace' = [trace EXCEPT ![kind] = new]
                 /\ new = Appended(rotation, entry) \/ new \in Interrupted(rotation, entry)
  BY <1>3
<1>7. Found(Current(new)) \subseteq Found(Current(dir)) \cup {entry}
  <2>1. PICK top : top = MaxRotations - 1
    OBVIOUS
  <2> HIDE DEF rotation, dir
  <2> QED BY <1>1, <1>2, <1>5, <1>6, <2>1, CurrentLater DEF dir
<1> HIDE DEF rotation
<1>8. tracker' \in [open : BOOLEAN, nodes : SUBSET Nat, edges : SUBSET Nat]
  <2>1. CASE kind = "nodes"
    BY <1>3, <1>4, <1>5, <2>1
  <2>2. CASE kind = "edges"
    BY <1>3, <1>4, <1>5, <2>2
  <2> QED BY <1>5, <2>1, <2>2
<1>9. ASSUME NEW other \in Kinds
      PROVE  /\ tracker'[other] \subseteq 1 .. made'[other]
             /\ Found(Current(trace'[other])) \subseteq 1 .. made'[other]
  <2>1. now[other] \subseteq 1 .. made[other] /\ Found(Current(trace[other])) \subseteq 1 .. made[other]
    BY <1>4, <1>5 DEF StoreInv
  <2>2. CASE other = kind
    <3>1. made'[other] = entry /\ trace'[other] = new
      BY <1>1, <1>3, <1>6, <2>2
    <3>2. tracker'[other] = now[other] \cup {entry}
      <4>1. CASE kind = "nodes"
        BY <1>3, <1>4, <2>2, <4>1
      <4>2. CASE kind = "edges"
        BY <1>3, <1>4, <2>2, <4>2
      <4> QED BY <1>5, <4>1, <4>2
    <3>3. 1 .. made[other] \subseteq 1 .. entry /\ entry \in 1 .. entry
      BY <1>1, <2>2
    <3> HIDE DEF entry
    <3> QED BY <1>7, <2>1, <2>2, <3>1, <3>2, <3>3
  <2>3. CASE other # kind
    <3>1. made'[other] = made[other] /\ trace'[other] = trace[other]
      BY <1>1, <1>3, <1>6, <2>3
    <3>2. tracker'[other] = now[other]
      <4>1. CASE kind = "nodes" /\ other = "edges"
        BY <1>3, <1>4, <4>1
      <4>2. CASE kind = "edges" /\ other = "nodes"
        BY <1>3, <1>4, <4>2
      <4> QED BY <1>5, <2>3, <4>1, <4>2
    <3> QED BY <2>1, <3>1, <3>2
  <2> QED BY <2>2, <2>3
<1> QED BY <1>8, <1>9

LEMMA StoreKept ==
    ASSUME AuditInv, TraceInv, StoreInv, [Next]_vars PROVE StoreInv'
<1>1. stops' + cleanups' <= MaxStops
  BY LogSteps, StopsCounted DEF StoreInv
<1>2. ASSUME NEW kind \in Kinds, AddTo(kind) PROVE StoreInv'
  BY <1>1, <1>2, AddToStore DEF StoreInv
<1>3. CASE UNCHANGED <<trace, made>> /\ tracker' \in {tracker, NoTracker}
  <2>1. NoTracker \in [open : BOOLEAN, nodes : SUBSET Nat, edges : SUBSET Nat]
    BY DEF NoTracker
  <2>2. \A kind \in Kinds : NoTracker[kind] = {}
    BY DEF NoTracker, Kinds
  <2> QED BY <1>1, <1>3, <2>1, <2>2 DEF StoreInv
<1> QED BY <1>2, <1>3, TrackerSteps

LEMMA StoreStart == ASSUME Init PROVE StoreInv
<1>1. /\ stops = 0 /\ cleanups = 0 /\ MaxStops \in Nat
      /\ tracker = [open |-> FALSE, nodes |-> {}, edges |-> {}]
      /\ trace = [kind \in Kinds |-> [f \in {} |-> <<>>]]
  BY AuditAssumption DEF Init, AuditInit, TraceInit, NoTracker
<1>2. stops + cleanups <= MaxStops
  BY <1>1
<1>3. tracker \in [open : BOOLEAN, nodes : SUBSET Nat, edges : SUBSET Nat]
  BY <1>1
<1>4. \A kind \in Kinds : tracker[kind] = {} /\ Found(Current(trace[kind])) = {}
  <2>1. \A kind \in Kinds : tracker[kind] = {}
    BY <1>1 DEF Kinds
  <2>2. \A kind \in Kinds : ~Exists(trace[kind], 0)
    BY <1>1 DEF Exists
  <2> QED BY <2>1, <2>2, CurrentFound
<1> QED BY <1>2, <1>3, <1>4 DEF StoreInv

\* Every variable keeps its type, no rotation leaves a file beyond the last one,
\* and the tracker knows nothing that was not made, whatever failed.
THEOREM TypeCorrect == Spec => []TypeOK
<1> DEFINE IInv == AuditInv /\ TraceInv /\ StoreInv /\ CallInv
<1>1. Init => IInv
  BY AuditStart, TraceStart, StoreStart, CallStart DEF Init
<1>2. IInv /\ [Next]_vars => IInv'
  BY LogSteps, LogsKept, StoreKept, CallKept
<1>3. IInv => TypeOK
  <2> SUFFICES ASSUME IInv PROVE TypeOK
    OBVIOUS
  <2>1. /\ hooks \in Registries
        /\ pc \in {"idle", "checkout", "write", "add", "commit", "trace"}
        /\ changes \in ChangeLists \cup {<<>>} /\ title \subseteq Marks
        /\ k \in 0 .. Len(changes)
        /\ tree \in [Names -> {"old", "torn", "written", "absent"}]
        /\ records \in Seq({"success", "failed", "denied"})
        /\ answer \in {"none", "created", "error"}
        /\ base \in 0 .. calls /\ late \in BOOLEAN /\ calls \in 0 .. MaxCalls
    BY DEF CallInv, CallTypes, Files
  <2>2. git.staged \subseteq Names /\ git.commits \in 0 .. calls
    <3>1. CallTypes /\ git.commits <= calls /\ git.staged \subseteq Names
      BY DEF CallInv, CallTypes, Git
    <3>2. git.commits \in Nat /\ calls \in Nat
      BY <3>1, ChangesFacts
    <3> QED BY <3>1, <3>2
  <2>3. /\ DOMAIN audit \subseteq 0 .. MaxFiles
        /\ logged \subseteq 1 .. clock /\ cutoff \in 1 .. clock + 1
    <3>1. MaxFiles \in Nat /\ audit \in Dirs(MaxFiles)
      BY AuditAssumption DEF AuditInv
    <3> QED BY <3>1, DirFacts DEF AuditInv
  <2>4. stops + cleanups \in 0 .. MaxStops
    BY AuditAssumption DEF AuditInv, StoreInv
  <2>5. \A kind \in Kinds : DOMAIN trace[kind] \subseteq 0 .. MaxRotations
    <3>1. MaxRotations \in Nat /\ \A kind \in Kinds : trace[kind] \in Dirs(MaxRotations)
      BY TraceAssumption DEF TraceInv
    <3> QED BY <3>1, DirFacts
  <2>6. \A kind \in Kinds : tracker[kind] \subseteq 1 .. made[kind]
    BY DEF StoreInv
  <2> QED BY <2>1, <2>2, <2>3, <2>4, <2>5, <2>6 DEF TypeOK
<1> HIDE DEF IInv
<1> QED BY <1>1, <1>2, <1>3, PTL DEF Spec

-----------------------------------------------------------------------------
(* How often an entry is there *)

LEMMA PowerOfTwo ==
    /\ 2 ^ 0 = 1
    /\ \A n \in Nat : 2 ^ n \in Nat /\ 2 ^ n >= 1 /\ 2 ^ (n + 1) = 2 ^ n + 2 ^ n
<1>1. ASSUME NEW n \in Nat
      PROVE  /\ IsFiniteSet(SUBSET (1 .. n)) /\ Cardinality(SUBSET (1 .. n)) = 2 ^ n
             /\ Cardinality(SUBSET (1 .. n)) \in Nat /\ Cardinality(SUBSET (1 .. n)) >= 1
  <2>1. IsFiniteSet(1 .. n) /\ Cardinality(1 .. n) = n
    BY FS_Interval
  <2>2. /\ IsFiniteSet(SUBSET (1 .. n))
        /\ Cardinality(SUBSET (1 .. n)) = 2 ^ Cardinality(1 .. n)
    BY <2>1, FS_SUBSET
  <2>3. Cardinality(SUBSET (1 .. n)) \in Nat
    BY <2>2, FS_CardinalityType
  <2>4. Cardinality(SUBSET (1 .. n)) # 0
    <3>1. {} \in SUBSET (1 .. n)
      OBVIOUS
    <3> QED BY <2>2, <3>1, FS_EmptySet
  <2> QED BY <2>1, <2>2, <2>3, <2>4
<1>2. 2 ^ 0 = 1
  <2>1. SUBSET (1 .. 0) = {{}}
    OBVIOUS
  <2>2. Cardinality(SUBSET (1 .. 0)) = 1
    BY <2>1, FS_Singleton
  <2> QED BY <1>1, <2>2
<1>3. ASSUME NEW n \in Nat PROVE 2 ^ (n + 1) = 2 ^ n + 2 ^ n
  <2> DEFINE A == SUBSET (1 .. n)
             B == {T \cup {n + 1} : T \in A}
             f == [T \in A |-> T \cup {n + 1}]
  <2>1. SUBSET (1 .. n + 1) = A \cup B
    <3>1. ASSUME NEW U \in SUBSET (1 .. n + 1) PROVE U \in A \cup B
      <4>1. U \ {n + 1} \in A
        OBVIOUS
      <4>2. CASE n + 1 \in U
        <5>1. U = (U \ {n + 1}) \cup {n + 1}
          BY <4>2
        <5> QED BY <4>1, <5>1
      <4>3. CASE n + 1 \notin U
        <5>1. U = U \ {n + 1}
          BY <4>3
        <5> QED BY <4>1, <5>1
      <4> QED BY <4>2, <4>3
    <3>2. ASSUME NEW T \in A
          PROVE  T \in SUBSET (1 .. n + 1) /\ T \cup {n + 1} \in SUBSET (1 .. n + 1)
      <4>1. 1 .. n \subseteq 1 .. n + 1 /\ n + 1 \in 1 .. n + 1
        OBVIOUS
      <4> QED BY <4>1
    <3> HIDE DEF A
    <3> QED BY <3>1, <3>2
  <2>2. \A T \in A : n + 1 \notin T
    OBVIOUS
  <2> HIDE DEF A
  <2>3. f \in [A -> B] /\ \A T \in A : f[T] = T \cup {n + 1}
    OBVIOUS
  <2>4. A \cap B = {}
    BY <2>2
  <2>5. ASSUME NEW T \in A, NEW U \in A, f[T] = f[U] PROVE T = U
    <3>1. T = (T \cup {n + 1}) \ {n + 1} /\ U = (U \cup {n + 1}) \ {n + 1}
      BY <2>2
    <3> QED BY <2>3, <2>5, <3>1
  <2>6. \A U \in B : \E T \in A : f[T] = U
    BY <2>3
  <2> HIDE DEF f, B
  <2>7. f \in Surjection(A, B)
    BY <2>3, <2>6 DEF Surjection
  <2>8. f \in Injection(A, B)
    BY <2>3, <2>5 DEF Injection, IsInjective
  <2>9. IsFiniteSet(A) /\ Cardinality(A) = 2 ^ n /\ Cardinality(A) \in Nat
    BY <1>1 DEF A
  <2>10. IsFiniteSet(B) /\ Cardinality(B) = Cardinality(A)
    BY <2>7, <2>8, <2>9, FS_Surjection
  <2>11. Cardinality(A \cup B) = Cardinality(A) + Cardinality(B) - Cardinality(A \cap B)
    BY <2>9, <2>10, FS_Union
  <2>12. Cardinality(A \cap B) = 0
    BY <2>4, FS_EmptySet
  <2>13. n + 1 \in Nat
    OBVIOUS
  <2>14. Cardinality(A \cup B) = 2 ^ (n + 1)
    BY <1>1, <2>1, <2>13
  <2> QED BY <2>9, <2>10, <2>11, <2>12, <2>14
<1> QED BY <1>1, <1>2, <1>3

\* The places of an entry, and how many they are at most.
Copies(dir, e) == {place \in Places(dir) : Entry(dir, place) = e}
Tallied(dir, e, c) == IsFiniteSet(Copies(dir, e)) /\ Cardinality(Copies(dir, e)) <= c

LEMMA Injected ==
    ASSUME NEW T, IsFiniteSet(T), NEW S, NEW f \in [S -> T], NEW c \in Nat, Cardinality(T) <= c,
           \A x, y \in S : f[x] = f[y] => x = y
    PROVE  IsFiniteSet(S) /\ Cardinality(S) \in Nat /\ Cardinality(S) <= c
<1>1. f \in Injection(S, T)
  BY DEF Injection, IsInjective
<1>2. IsFiniteSet(S) /\ Cardinality(S) <= Cardinality(T)
  BY <1>1, FS_Injection
<1>3. Cardinality(S) \in Nat /\ Cardinality(T) \in Nat
  BY <1>2, FS_CardinalityType
<1> QED BY <1>2, <1>3

LEMMA Fewer ==
    ASSUME NEW T, IsFiniteSet(T), NEW S, S \subseteq T, NEW c \in Nat, Cardinality(T) <= c
    PROVE  IsFiniteSet(S) /\ Cardinality(S) <= c
<1>1. IsFiniteSet(S) /\ Cardinality(S) <= Cardinality(T)
  BY FS_Subset
<1>2. Cardinality(S) \in Nat /\ Cardinality(T) \in Nat
  BY <1>1, FS_CardinalityType
<1> QED BY <1>1, <1>2

LEMMA MoreTallied ==
    \A dir, e : \A c, d \in Nat : c <= d /\ Tallied(dir, e, c) => Tallied(dir, e, d)
<1> SUFFICES ASSUME NEW dir, NEW e, NEW c \in Nat, NEW d \in Nat, c <= d, Tallied(dir, e, c)
             PROVE  Tallied(dir, e, d)
  OBVIOUS
<1>1. IsFiniteSet(Copies(dir, e)) /\ Cardinality(Copies(dir, e)) <= c
  BY DEF Tallied
<1>2. Cardinality(Copies(dir, e)) \in Nat
  BY <1>1, FS_CardinalityType
<1> QED BY <1>1, <1>2 DEF Tallied

\* Each file of dir2 is a file of dir, and no two are the same.
Rearranges(dir2, dir) ==
    \E g \in [DOMAIN dir2 -> DOMAIN dir] :
       /\ \A x, y \in DOMAIN dir2 : g[x] = g[y] => x = y
       /\ \A x \in DOMAIN dir2 : dir2[x] = dir[g[x]]

LEMMA RearrangedTally ==
    ASSUME NEW dir, NEW dir2, Rearranges(dir2, dir), NEW e, NEW c \in Nat, Tallied(dir, e, c)
    PROVE  Tallied(dir2, e, c)
<1>1. PICK g \in [DOMAIN dir2 -> DOMAIN dir] :
         /\ \A x, y \in DOMAIN dir2 : g[x] = g[y] => x = y
         /\ \A x \in DOMAIN dir2 : dir2[x] = dir[g[x]]
  BY DEF Rearranges
<1> DEFINE S == Copies(dir2, e)
           T == Copies(dir, e)
           f == [place \in S |-> <<g[place[1]], place[2]>>]
<1>2. ASSUME NEW place \in S
      PROVE  /\ place = <<place[1], place[2]>> /\ place[1] \in DOMAIN dir2
             /\ <<g[place[1]], place[2]>> \in T
  <2>1. place \in Places(dir2) /\ Entry(dir2, place) = e
    BY DEF Copies
  <2>2. PICK x \in DOMAIN dir2 : \E j \in Parsed(dir2[x]) : place = <<x, j>>
    BY <2>1, PlacesFacts
  <2>3. PICK j \in Parsed(dir2[x]) : place = <<x, j>>
    BY <2>2
  <2>4. place[1] = x /\ place[2] = j
    BY <2>3
  <2>5. g[x] \in DOMAIN dir /\ j \in Parsed(dir[g[x]])
    BY <1>1, <2>3
  <2>6. <<g[x], j>> \in Places(dir)
    BY <2>5, PlacesFacts
  <2>7. Entry(dir, <<g[x], j>>) = Entry(dir2, place)
    <3>1. <<g[x], j>>[1] = g[x] /\ <<g[x], j>>[2] = j
      OBVIOUS
    <3> QED BY <1>1, <2>4, <3>1 DEF Entry
  <2> QED BY <2>1, <2>3, <2>4, <2>6, <2>7 DEF Copies
<1>3. f \in [S -> T] /\ \A place \in S : f[place] = <<g[place[1]], place[2]>>
  BY <1>2
<1>4. ASSUME NEW p \in S, NEW q \in S, f[p] = f[q] PROVE p = q
  <2> HIDE DEF f, S
  <2>1. <<g[p[1]], p[2]>> = <<g[q[1]], q[2]>>
    BY <1>3, <1>4
  <2>2. g[p[1]] = g[q[1]] /\ p[2] = q[2]
    BY <2>1
  <2>3. p[1] = q[1]
    BY <1>1, <1>2, <2>2
  <2> QED BY <1>2, <2>2, <2>3
<1> HIDE DEF f
<1>5. IsFiniteSet(T) /\ Cardinality(T) <= c
  BY DEF Tallied
<1> HIDE DEF S, T
<1>6. IsFiniteSet(S) /\ Cardinality(S) <= c
  BY <1>3, <1>4, <1>5, Injected
<1> QED BY <1>6 DEF Tallied, S

LEMMA RotateRearranges ==
    ASSUME NEW n \in Nat \ {0}, NEW dir \in Dirs(n)
    PROVE  LET rotation == Rotate(dir, n)
           IN  \A dir2 \in rotation.through \cup {rotation.end} : Rearranges(dir2, dir)
<1> DEFINE rotation == Rotate(dir, n)
<1>1. n \in Nat /\ DOMAIN dir \subseteq 0 .. n
  BY DirFacts
<1>2. ASSUME NEW from \in 0 .. n PROVE Rearranges(MovedUp(dir, from, n), dir)
  <2> DEFINE moved == {f \in DOMAIN dir : from <= f /\ f < n}
             D == (DOMAIN dir \ moved) \cup {j + 1 : j \in moved}
             new == MovedUp(dir, from, n)
             g == [x \in D |-> IF x - 1 \in moved THEN x - 1 ELSE x]
  <2>1. new = [x \in D |-> IF x - 1 \in moved THEN dir[x - 1] ELSE dir[x]]
    BY DEF MovedUp
  <2>2. moved \subseteq DOMAIN dir /\ moved \subseteq Nat /\ D \subseteq Nat
    BY <1>1
  <2>3. \A x \in D : x - 1 \notin moved => x \in DOMAIN dir \ moved
    <3>1. \A j \in moved : (j + 1) - 1 = j
      BY <2>2
    <3> QED BY <3>1
  <2> HIDE DEF moved, D, new
  <2>4. g \in [D -> DOMAIN dir]
    BY <2>2, <2>3
  <2>5. \A x \in D : new[x] = dir[g[x]]
    BY <2>1
  <2>6. ASSUME NEW x \in D, NEW y \in D, g[x] = g[y] PROVE x = y
    <3>1. CASE x - 1 \in moved /\ y - 1 \in moved
      <4>1. x - 1 = y - 1
        BY <2>6, <3>1
      <4> QED BY <2>2, <4>1
    <3>2. CASE x - 1 \notin moved /\ y - 1 \notin moved
      BY <2>6, <3>2
    <3>3. CASE x - 1 \in moved /\ y - 1 \notin moved
      <4>1. x - 1 = y
        BY <2>6, <3>3
      <4> QED BY <2>3, <3>3, <4>1
    <3>4. CASE x - 1 \notin moved /\ y - 1 \in moved
      <4>1. x = y - 1
        BY <2>6, <3>4
      <4> QED BY <2>3, <3>4, <4>1
    <3> QED BY <3>1, <3>2, <3>3, <3>4
  <2>7. DOMAIN new = D
    BY <2>1
  <2> HIDE DEF g
  <2> QED BY <2>4, <2>5, <2>6, <2>7 DEF Rearranges, new
<1>3. Rearranges(Unlink(dir, n), dir)
  <2> DEFINE new == Unlink(dir, n)
             g == [x \in DOMAIN dir \ {n} |-> x]
  <2>1. DOMAIN new = DOMAIN dir \ {n} /\ \A x \in DOMAIN new : new[x] = dir[x]
    BY DEF Unlink, Restrict
  <2> HIDE DEF new
  <2>2. g \in [DOMAIN new -> DOMAIN dir] /\ \A x \in DOMAIN new : g[x] = x
    BY <2>1
  <2> HIDE DEF g
  <2> QED BY <2>1, <2>2 DEF Rearranges, new
<1>4. rotation.end = MovedUp(dir, 0, n) /\ 0 \in 0 .. n
  BY <1>1 DEF Rotate, Rotation
<1>5. \A dir2 \in rotation.through :
         dir2 = Unlink(dir, n) \/ \E from \in 0 .. n : dir2 = MovedUp(dir, from, n)
  BY <1>1 DEF Rotate, Rotation
<1> HIDE DEF rotation
<1> QED BY <1>2, <1>3, <1>4, <1>5 DEF rotation

\* Nothing is found on these lines but what was on those of the file, in its
\* place, and the entry behind them.
Adds(lines, file, e) ==
    \A j \in Parsed(lines) :
       \/ j \in Parsed(file) /\ Head(lines[j].entries) = Head(file[j].entries)
       \/ j = Len(file) + 1 /\ Head(lines[j].entries) = e

LEMMA AddsFacts ==
    ASSUME NEW file \in Seq(Lines), NEW e \in Nat
    PROVE  /\ Adds(AppendLine(file, e), file, e)
           /\ \A cut \in CutShort(file, e) : Adds(cut, file, e)
<1>1. Len(file) \in Nat /\ TRUE \in BOOLEAN /\ FALSE \in BOOLEAN
  OBVIOUS
<1>2. ASSUME NEW l \in Lines, l.entries # <<>> => Head(l.entries) = e
      PROVE  Adds(Append(file, l), file, e)
  <2> DEFINE more == Append(file, l)
             c == Len(file)
  <2>1. /\ DOMAIN file = 1 .. c /\ c \in Nat
        /\ DOMAIN more = 1 .. c + 1 /\ more[c + 1] = l /\ \A j \in 1 .. c : more[j] = file[j]
    <3>1. /\ Len(more) = c + 1 /\ more \in Seq(Lines)
          /\ more[c + 1] = l /\ \A j \in 1 .. c : more[j] = file[j]
      BY SequenceFacts
    <3>2. DOMAIN more = 1 .. Len(more) /\ DOMAIN file = 1 .. c
      BY <3>1
    <3> QED BY <1>1, <3>1, <3>2
  <2> HIDE DEF more, c
  <2>2. \A j \in DOMAIN more : j \in DOMAIN file \/ j = c + 1
    BY <2>1
  <2>3. \A j \in DOMAIN file : more[j] = file[j]
    BY <2>1
  <2> QED BY <1>2, <2>1, <2>2, <2>3 DEF Adds, Parsed, more, c
<1>3. ASSUME NEW l \in Lines, l.entries = <<>>, Unended(file)
      PROVE  Adds(Append(Front(file), l), file, e)
  <2> DEFINE front == Front(file)
             more == Append(front, l)
             c == Len(file)
  <2>1. /\ front \in Seq(Lines) /\ Len(front) = c - 1 /\ c >= 1 /\ c \in Nat
        /\ \A n \in 1 .. c - 1 : front[n] = file[n]
    <3>1. file # <<>>
      BY <1>3 DEF Unended
    <3> QED BY <3>1, SequenceFacts
  <2> HIDE DEF front, c
  <2>2. /\ more \in Seq(Lines) /\ Len(more) = c /\ more[c] = l
        /\ \A n \in 1 .. c - 1 : more[n] = file[n]
    <3>1. /\ Len(more) = Len(front) + 1 /\ more \in Seq(Lines)
          /\ more[Len(front) + 1] = l /\ \A j \in 1 .. Len(front) : more[j] = front[j]
      BY <2>1, SequenceFacts
    <3>2. Len(front) + 1 = c
      BY <2>1
    <3> QED BY <2>1, <3>1, <3>2
  <2>3. DOMAIN more = 1 .. c /\ DOMAIN file = 1 .. c
    BY <2>1, <2>2 DEF c
  <2> HIDE DEF more
  <2>4. \A j \in DOMAIN more : j = c \/ (j \in DOMAIN file /\ more[j] = file[j])
    BY <2>1, <2>2, <2>3
  <2> QED BY <1>3, <2>2, <2>4 DEF Adds, Parsed, more, front
<1>4. /\ Line(<<>>, TRUE) \in Lines /\ Line(<<>>, TRUE).entries = <<>>
      /\ Line(<<>>, FALSE) \in Lines /\ Line(<<>>, FALSE).entries = <<>>
      /\ Line(<<e>>, TRUE) \in Lines /\ Head(Line(<<e>>, TRUE).entries) = e
      /\ Line(<<e>>, FALSE) \in Lines /\ Head(Line(<<e>>, FALSE).entries) = e
  BY <1>1, LineFacts
<1>5. Adds(AppendLine(file, e), file, e)
  BY <1>2, <1>3, <1>4 DEF AppendLine
<1>6. Adds(file, file, e)
  BY DEF Adds
<1>7. ASSUME NEW cut \in CutShort(file, e) PROVE Adds(cut, file, e)
  <2>1. CASE cut = file
    BY <1>6, <2>1
  <2>2. CASE Unended(file) /\ cut = Append(Front(file), Line(<<>>, FALSE))
    BY <1>3, <1>4, <2>2
  <2>3. CASE cut \in {Append(file, Line(<<>>, FALSE)), Append(file, Line(<<e>>, FALSE))}
    BY <1>2, <1>4, <2>3
  <2> QED BY <2>1, <2>2, <2>3 DEF CutShort
<1> QED BY <1>5, <1>7

\* With a line more, only the entry may be there once more.
LEMMA WithCurrentTally ==
    ASSUME NEW n \in Nat, NEW dir \in Dirs(n), NEW entry, NEW lines,
           Adds(lines, Current(dir), entry), NEW e, NEW c \in Nat, Tallied(dir, e, c)
    PROVE  /\ e # entry => Tallied(WithCurrent(dir, lines), e, c)
           /\ e = entry => Tallied(WithCurrent(dir, lines), e, c + 1)
<1> DEFINE new == WithCurrent(dir, lines)
           last == <<0, Len(Current(dir)) + 1>>
<1>1. /\ DOMAIN new = DOMAIN dir \cup {0} /\ new[0] = lines
      /\ \A x \in DOMAIN dir : x # 0 => new[x] = dir[x]
  BY DEF WithCurrent
<1> HIDE DEF new
<1>2. ASSUME NEW place \in Copies(new, e)
      PROVE  place \in Copies(dir, e) \/ (e = entry /\ place = last)
  <2>1. place \in Places(new) /\ Entry(new, place) = e
    BY DEF Copies
  <2>2. PICK x \in DOMAIN new : \E j \in Parsed(new[x]) : place = <<x, j>>
    BY <2>1, PlacesFacts
  <2>3. PICK j \in Parsed(new[x]) : place = <<x, j>>
    BY <2>2
  <2>4. place[1] = x /\ place[2] = j /\ Head(new[x][j].entries) = e
    <3>1. place[1] = x /\ place[2] = j
      BY <2>3
    <3> QED BY <2>1, <3>1 DEF Entry
  <2>5. ASSUME x \in DOMAIN dir, j \in Parsed(dir[x]), Head(dir[x][j].entries) = e
        PROVE  place \in Copies(dir, e)
    <3>1. place \in Places(dir)
      BY <2>3, <2>5, PlacesFacts
    <3>2. Entry(dir, place) = e
      BY <2>4, <2>5 DEF Entry
    <3> QED BY <3>1, <3>2 DEF Copies
  <2>6. CASE x # 0
    BY <1>1, <2>3, <2>4, <2>5, <2>6
  <2>7. CASE x = 0 /\ j \in Parsed(Current(dir)) /\ Head(lines[j].entries) = Head(Current(dir)[j].entries)
    <3>1. 0 \in DOMAIN dir /\ Current(dir) = dir[0]
      <4>1. Current(dir) # <<>>
        BY <2>7 DEF Parsed
      <4> QED BY <4>1 DEF Current, Exists
    <3> QED BY <1>1, <2>4, <2>5, <2>7, <3>1
  <2>8. CASE x = 0 /\ j = Len(Current(dir)) + 1 /\ Head(lines[j].entries) = entry
    BY <1>1, <2>3, <2>4, <2>8
  <2>9. x = 0 => j \in Parsed(lines)
    BY <1>1, <2>3
  <2> QED BY <2>6, <2>7, <2>8, <2>9 DEF Adds
<1>3. IsFiniteSet(Copies(dir, e)) /\ Cardinality(Copies(dir, e)) <= c
  BY DEF Tallied
<1>4. ASSUME e # entry PROVE Tallied(new, e, c)
  <2>1. Copies(new, e) \subseteq Copies(dir, e)
    BY <1>2, <1>4
  <2> QED BY <1>3, <2>1, Fewer DEF Tallied
<1>5. Tallied(new, e, c + 1)
  <2>1. Copies(new, e) \subseteq Copies(dir, e) \cup {last}
    BY <1>2
  <2> HIDE DEF last
  <2>2. /\ IsFiniteSet(Copies(new, e)) /\ Cardinality(Copies(new, e)) \in Nat
        /\ Cardinality(Copies(dir, e)) \in Nat
        /\ Cardinality(Copies(new, e)) <= Cardinality(Copies(dir, e)) + 1
    BY <1>3, <2>1, CountOneMore
  <2> QED BY <1>3, <2>2 DEF Tallied
<1> QED BY <1>4, <1>5 DEF new

LEMMA LoggedTally ==
    ASSUME AuditInv, LogOperation, NEW e \in Nat, NEW c \in Nat, Tallied(audit, e, c)
    PROVE  /\ e # clock + 1 => Tallied(audit', e, c)
           /\ e = clock + 1 => Tallied(audit', e, c + 1)
<1> DEFINE entry == clock + 1
           rotation == IF Full(audit, FileLines) THEN Rotate(audit, MaxFiles)
                                                 ELSE NoRotation(audit)
           end == rotation.end
<1>1. /\ MaxFiles \in Nat \ {0} /\ MaxFiles \in Nat /\ FileLines \in Nat /\ entry \in Nat
      /\ audit \in Dirs(MaxFiles)
  BY AuditAssumption DEF AuditInv
<1>2. \A dir2 \in rotation.through \cup {end} :
        dir2 \in Dirs(MaxFiles) /\ Tallied(dir2, e, c)
  <2>1. CASE Full(audit, FileLines)
    <3>1. Sound(Rotate(audit, MaxFiles), audit, MaxFiles, MaxFiles, FileLines)
      BY <1>1, <2>1, RotateSound
    <3>2. \A dir2 \in Rotate(audit, MaxFiles).through \cup {Rotate(audit, MaxFiles).end} :
            Rearranges(dir2, audit)
      BY <1>1, RotateRearranges
    <3>3. rotation = Rotate(audit, MaxFiles)
      BY <2>1
    <3> HIDE DEF rotation
    <3> QED BY <3>1, <3>2, <3>3, RearrangedTally DEF Sound
  <2>2. CASE ~Full(audit, FileLines)
    <3>1. rotation.through = {} /\ end = audit
      BY <2>2 DEF NoRotation, Rotation
    <3> QED BY <1>1, <3>1
  <2> QED BY <2>1, <2>2
<1>3. audit' = Appended(rotation, entry) \/ audit' \in Interrupted(rotation, entry)
  BY DEF LogOperation
<1> HIDE DEF rotation
<1>4. Current(end) \in Seq(Lines)
  BY <1>1, <1>2, DirFacts
<1>5. ASSUME NEW lines, Adds(lines, Current(end), entry), audit' = WithCurrent(end, lines)
      PROVE  /\ e # entry => Tallied(audit', e, c)
             /\ e = entry => Tallied(audit', e, c + 1)
  <2> HIDE DEF end, entry
  <2> QED BY <1>1, <1>2, <1>5, WithCurrentTally
<1>6. CASE audit' = Appended(rotation, entry)
  <2>1. audit' = WithCurrent(end, AppendLine(Current(end), entry))
    BY <1>6 DEF Appended
  <2>2. Adds(AppendLine(Current(end), entry), Current(end), entry)
    BY <1>1, <1>4, AddsFacts
  <2> QED BY <1>5, <2>1, <2>2
<1>7. CASE audit' \in rotation.through \cup {end}
  <2>1. Tallied(audit', e, c)
    BY <1>2, <1>7
  <2>2. Tallied(audit', e, c + 1)
    BY <2>1, MoreTallied
  <2> QED BY <2>1, <2>2
<1>8. CASE audit' \in {WithCurrent(end, lines) : lines \in CutShort(Current(end), entry)}
  <2>1. PICK cut \in CutShort(Current(end), entry) : audit' = WithCurrent(end, cut)
    BY <1>8
  <2>2. Adds(cut, Current(end), entry)
    BY <1>1, <1>4, AddsFacts
  <2> QED BY <1>5, <2>1, <2>2
<1> QED BY <1>3, <1>6, <1>7, <1>8 DEF Interrupted

\* A cleanup that stops may leave what it keeps twice.
LEMMA CleanupTally ==
    ASSUME AuditInv, NEW from \in Int, Cleanup(from), NEW e \in Nat, NEW c \in Nat,
           Tallied(audit, e, c)
    PROVE  \/ /\ cleanups' = cleanups
              /\ Tallied(audit', e, c) /\ (e < from => Tallied(audit', e, 0))
           \/ /\ cleanups' = cleanups + 1
              /\ Tallied(audit', e, c + c)
<1> DEFINE read == ReadAll
           kept == KeptFrom(read, from)
           S == {n \in DOMAIN read : read[n] >= from}
           lines == Rewritten(kept)
           replaced == WithCurrent(audit, lines)
           T == Copies(audit, e)
<1>1. MaxFiles \in Nat /\ audit \in Dirs(MaxFiles)
  BY AuditAssumption DEF AuditInv
<1>2. read \in Seq(Nat) /\ \E w : ListsBy(w, read, audit, Places(audit))
  BY <1>1, ReadAllLists DEF Lists
<1>3. kept = Picked(read, S) /\ S \in SUBSET DOMAIN read
  BY DEF KeptFrom
<1>4. \/ audit' = Restrict(replaced, {0}) /\ cleanups' = cleanups
      \/ /\ \E left \in SUBSET (DOMAIN audit \ {0}) :
              audit' = Restrict(replaced, {0} \cup left)
         /\ cleanups' = cleanups + 1
  BY DEF Cleanup
<1> HIDE DEF read, kept, S
<1>5. PICK w : ListsBy(w, read, audit, Places(audit))
  BY <1>2
<1>6. /\ DOMAIN read = 1 .. Len(read)
      /\ w \in [1 .. Len(read) -> Places(audit)]
      /\ \A i, j \in 1 .. Len(read) : w[i] = w[j] => i = j
      /\ \A i \in 1 .. Len(read) : read[i] = Entry(audit, w[i])
  BY <1>2, <1>5 DEF ListsBy
<1>7. /\ kept \in Seq(Nat)
      /\ \A i \in DOMAIN kept : InOrder(S)[i] \in S /\ kept[i] = read[InOrder(S)[i]]
      /\ \A i, j \in DOMAIN kept : InOrder(S)[i] = InOrder(S)[j] => i = j
  BY <1>2, <1>3, PickedFacts
<1>8. /\ Parsed(lines) = DOMAIN kept
      /\ \A i \in DOMAIN kept : Head(lines[i].entries) = kept[i]
  BY <1>7, RewrittenFacts
<1> HIDE DEF lines
<1>9. replaced[0] = lines /\ \A x \in DOMAIN audit \ {0} : replaced[x] = audit[x]
  BY DEF WithCurrent
<1>10. PICK left \in SUBSET (DOMAIN audit \ {0}) :
         /\ audit' = Restrict(replaced, {0} \cup left)
         /\ (cleanups' = cleanups /\ left = {}) \/ cleanups' = cleanups + 1
  <2>1. {} \in SUBSET (DOMAIN audit \ {0}) /\ {0} \cup {} = {0}
    OBVIOUS
  <2> HIDE DEF replaced
  <2> QED BY <1>4, <2>1
<1> DEFINE A == {place \in Copies(audit', e) : place[1] = 0}
<1>11. /\ DOMAIN audit' = {0} \cup left /\ audit'[0] = lines
       /\ \A x \in left : x # 0 /\ audit'[x] = audit[x] /\ x \in DOMAIN audit
  <2>1. /\ DOMAIN Restrict(replaced, {0} \cup left) = {0} \cup left
        /\ \A x \in {0} \cup left : Restrict(replaced, {0} \cup left)[x] = replaced[x]
    BY DEF Restrict
  <2> HIDE DEF replaced
  <2> QED BY <1>9, <1>10, <2>1
<1> HIDE DEF replaced
<1>12. PICK now : now = audit'
  OBVIOUS
<1>13. ASSUME NEW place \in Copies(now, e)
       PROVE  \/ /\ place[1] = 0 /\ place = <<0, place[2]>>
                 /\ place[2] \in DOMAIN kept /\ kept[place[2]] = e
              \/ left # {} /\ place \in T
  <2>1. place \in Places(now) /\ Entry(now, place) = e
    BY DEF Copies
  <2>2. PICK x \in DOMAIN now : \E j \in Parsed(now[x]) : place = <<x, j>>
    BY <2>1, PlacesFacts
  <2>3. PICK j \in Parsed(now[x]) : place = <<x, j>>
    BY <2>2
  <2>4. place[1] = x /\ place[2] = j
    BY <2>3
  <2>5. Head(now[x][j].entries) = e
    BY <2>1, <2>4 DEF Entry
  <2>6. CASE x = 0
    BY <1>8, <1>11, <1>12, <2>3, <2>4, <2>5, <2>6
  <2>7. CASE x # 0
    <3>1. x \in left /\ now[x] = audit[x] /\ x \in DOMAIN audit
      BY <1>11, <1>12, <2>7
    <3>2. place \in Places(audit)
      BY <2>3, <3>1, PlacesFacts
    <3>3. Entry(audit, place) = e
      BY <2>4, <2>5, <3>1 DEF Entry
    <3> QED BY <3>1, <3>2, <3>3 DEF Copies
  <2> QED BY <2>6, <2>7
<1> DEFINE B == {place \in Copies(now, e) :
                   place = <<0, place[2]>> /\ place[2] \in DOMAIN kept /\ kept[place[2]] = e}
           f == [place \in B |-> w[InOrder(S)[place[2]]]]
<1>14. ASSUME NEW place \in B
       PROVE  /\ InOrder(S)[place[2]] \in 1 .. Len(read)
              /\ w[InOrder(S)[place[2]]] \in T /\ e >= from
  <2>1. place[2] \in DOMAIN kept /\ kept[place[2]] = e
    OBVIOUS
  <2> DEFINE m == InOrder(S)[place[2]]
  <2>2. m \in S /\ read[m] = e
    BY <1>7, <2>1
  <2>3. m \in 1 .. Len(read) /\ e >= from
    BY <1>3, <1>6, <2>2 DEF S
  <2>4. w[m] \in Places(audit) /\ Entry(audit, w[m]) = e
    BY <1>6, <2>2, <2>3
  <2> QED BY <2>3, <2>4 DEF Copies
<1>15. f \in [B -> T] /\ \A place \in B : f[place] = w[InOrder(S)[place[2]]]
  BY <1>14
<1>16. ASSUME NEW p \in B, NEW q \in B, f[p] = f[q] PROVE p = q
  <2>1. w[InOrder(S)[p[2]]] = w[InOrder(S)[q[2]]]
    BY <1>15, <1>16
  <2>2. InOrder(S)[p[2]] = InOrder(S)[q[2]]
    BY <1>6, <1>14, <2>1
  <2>3. p[2] \in DOMAIN kept /\ q[2] \in DOMAIN kept /\ p = <<0, p[2]>> /\ q = <<0, q[2]>>
    OBVIOUS
  <2>4. p[2] = q[2]
    BY <1>7, <2>2, <2>3
  <2> QED BY <2>3, <2>4
<1>17. IsFiniteSet(T) /\ Cardinality(T) <= c /\ Cardinality(T) \in Nat
  BY FS_CardinalityType DEF Tallied
<1> HIDE DEF f
<1>18. Copies(now, e) \subseteq T \cup B /\ (left = {} => Copies(now, e) \subseteq B)
  BY <1>13
<1>19. e < from => B = {}
  <2>1. \A place \in B : e >= from
    BY <1>14
  <2>2. e < from => ~(e >= from)
    OBVIOUS
  <2> HIDE DEF B
  <2> QED BY <2>1, <2>2
<1> HIDE DEF B, T
<1>20. IsFiniteSet(B) /\ Cardinality(B) \in Nat /\ Cardinality(B) <= c
  BY <1>15, <1>16, <1>17, Injected
<1>21. Tallied(now, e, c + c)
  <2>1. /\ IsFiniteSet(Copies(now, e)) /\ Cardinality(Copies(now, e)) \in Nat
        /\ Cardinality(Copies(now, e)) <= Cardinality(T) + Cardinality(B)
    BY <1>17, <1>18, <1>20, CountUnion
  <2> QED BY <1>17, <1>20, <2>1 DEF Tallied
<1>22. left = {} => Tallied(now, e, c) /\ (e < from => Tallied(now, e, 0))
  <2> SUFFICES ASSUME left = {} PROVE Tallied(now, e, c) /\ (e < from => Tallied(now, e, 0))
    OBVIOUS
  <2>1. Tallied(now, e, c)
    BY <1>18, <1>20, Fewer DEF Tallied
  <2>2. ASSUME e < from PROVE Tallied(now, e, 0)
    <3>1. Copies(now, e) = {}
      BY <1>18, <1>19, <2>2
    <3> QED BY <3>1, FS_EmptySet DEF Tallied
  <2> QED BY <2>1, <2>2
<1> QED BY <1>10, <1>12, <1>21, <1>22

\* An entry is there once, or up to twice as often for each cleanup that stopped;
\* none is there that has yet to be made.
ExactInv ==
    /\ \A e \in Nat : Tallied(audit, e, 2 ^ cleanups) /\ (e > clock => Tallied(audit, e, 0))
    /\ cleanups = 0 => \A e \in Nat : e < cutoff => Tallied(audit, e, 0)

\* The entry that is logged was in no place before.
LEMMA ExactLogged == ASSUME AuditInv, ExactInv, LogOperation PROVE ExactInv'
<1>1. clock \in Nat /\ cutoff \in 1 .. clock + 1 /\ cleanups \in Nat
  BY DEF AuditInv
<1>2. clock' = clock + 1 /\ cutoff' = cutoff /\ cleanups' = cleanups
  BY DEF LogOperation
<1>3. 2 ^ cleanups \in Nat /\ 2 ^ cleanups >= 1 /\ 0 + 1 = 1 /\ 1 \in Nat /\ 0 \in Nat
  BY <1>1, PowerOfTwo
<1>4. PICK now : now = audit'
  OBVIOUS
<1>5. ASSUME NEW e \in Nat
      PROVE  /\ Tallied(now, e, 2 ^ cleanups)
             /\ e > clock + 1 => Tallied(now, e, 0)
             /\ cleanups = 0 /\ e < cutoff => Tallied(now, e, 0)
  <2>1. \A c \in Nat : Tallied(audit, e, c) =>
          /\ e # clock + 1 => Tallied(now, e, c)
          /\ e = clock + 1 => Tallied(now, e, c + 1)
    BY <1>4, LoggedTally
  <2>2. CASE e # clock + 1
    <3>1. e > clock + 1 => e > clock
      BY <1>1
    <3> QED BY <1>3, <2>1, <2>2, <3>1 DEF ExactInv
  <2>3. CASE e = clock + 1
    <3>1. e > clock /\ ~(e > clock + 1) /\ ~(e < cutoff)
      BY <1>1, <2>3
    <3>2. Tallied(now, e, 0 + 1)
      BY <1>3, <2>1, <2>3, <3>1 DEF ExactInv
    <3> QED BY <1>3, <3>1, <3>2, MoreTallied
  <2> QED BY <2>2, <2>3
<1> QED BY <1>2, <1>4, <1>5 DEF ExactInv

LEMMA ExactCleaned ==
    ASSUME AuditInv, ExactInv, NEW from \in Nat, Cleanup(from) PROVE ExactInv'
<1>1. clock \in Nat /\ cutoff \in 1 .. clock + 1 /\ cleanups \in Nat /\ cutoff \in Int
  BY DEF AuditInv
<1>2. clock' = clock /\ cutoff' \in {from, cutoff}
  BY DEF Cleanup
<1>3. /\ 2 ^ cleanups \in Nat /\ 2 ^ (cleanups + 1) = 2 ^ cleanups + 2 ^ cleanups
      /\ 0 \in Nat /\ 0 + 0 = 0 /\ cleanups + 1 # 0
  BY <1>1, PowerOfTwo
<1>4. PICK now : now = audit'
  OBVIOUS
<1>5. ASSUME NEW e \in Nat, NEW c \in Nat, Tallied(audit, e, c)
      PROVE  \/ /\ cleanups' = cleanups
                /\ Tallied(now, e, c) /\ (e < from => Tallied(now, e, 0))
             \/ /\ cleanups' = cleanups + 1
                /\ Tallied(now, e, c + c)
  <2>1. from \in Int
    OBVIOUS
  <2> QED BY <1>4, <1>5, <2>1, CleanupTally
<1>6. ASSUME NEW e \in Nat
      PROVE  /\ Tallied(now, e, 2 ^ cleanups')
             /\ e > clock => Tallied(now, e, 0)
             /\ cleanups' = 0 /\ e < cutoff' => Tallied(now, e, 0)
  <2>1. Tallied(now, e, 2 ^ cleanups')
    BY <1>3, <1>5 DEF ExactInv
  <2>2. e > clock => Tallied(now, e, 0)
    BY <1>3, <1>5 DEF ExactInv
  <2>3. cleanups' = 0 /\ e < cutoff' => Tallied(now, e, 0)
    <3> SUFFICES ASSUME cleanups' = 0, e < cutoff' PROVE Tallied(now, e, 0)
      OBVIOUS
    <3>1. Tallied(audit, e, 2 ^ cleanups)
      BY DEF ExactInv
    <3>2. cleanups' = cleanups /\ (e < from => Tallied(now, e, 0))
      BY <1>3, <1>5, <3>1
    <3>3. CASE e < from
      BY <3>2, <3>3
    <3>4. CASE e < cutoff
      <4>1. Tallied(audit, e, 0)
        BY <3>2, <3>4 DEF ExactInv
      <4> QED BY <1>3, <1>5, <4>1
    <3> QED BY <1>2, <3>3, <3>4
  <2> QED BY <2>1, <2>2, <2>3
<1> QED BY <1>2, <1>4, <1>6 DEF ExactInv

LEMMA ExactKept == ASSUME AuditInv, ExactInv, AuditStep PROVE ExactInv'
<1>1. ASSUME NEW from \in 2 .. clock + 1, Cleanup(from) PROVE ExactInv'
  <2>1. from \in Nat
    BY DEF AuditInv
  <2> QED BY <1>1, <2>1, ExactCleaned
<1>2. ASSUME UNCHANGED auditVars PROVE ExactInv'
  <2>1. audit' = audit /\ clock' = clock /\ cutoff' = cutoff /\ cleanups' = cleanups
    BY <1>2 DEF auditVars
  <2> QED BY <2>1 DEF ExactInv
<1> QED BY <1>1, <1>2, ExactLogged DEF AuditStep

LEMMA ExactStart == ASSUME AuditInit PROVE ExactInv
<1>1. audit = [f \in {} |-> <<>>] /\ cleanups = 0
  BY DEF AuditInit
<1>2. ASSUME NEW e PROVE Copies(audit, e) = {}
  <2>1. Places(audit) = {}
    BY <1>1, PlacesFacts
  <2> QED BY <2>1 DEF Copies
<1>3. \A e : Tallied(audit, e, 0)
  <2>1. IsFiniteSet({}) /\ Cardinality({}) = 0
    BY FS_EmptySet
  <2> QED BY <1>2, <2>1 DEF Tallied
<1>4. 2 ^ cleanups \in Nat /\ 2 ^ cleanups >= 0 /\ 0 \in Nat
  BY <1>1, PowerOfTwo
<1>5. \A e \in Nat : Tallied(audit, e, 2 ^ cleanups)
  BY <1>3, <1>4, MoreTallied
<1> QED BY <1>3, <1>5 DEF ExactInv

LEMMA ExactlyRead == ASSUME AuditInv, ExactInv PROVE CleanupExact
<1> DEFINE read == ReadAll
           reads(e) == {n \in DOMAIN read : read[n] = e}
<1>1. MaxFiles \in Nat /\ audit \in Dirs(MaxFiles) /\ cutoff \in Nat /\ cleanups \in Nat
  BY AuditAssumption DEF AuditInv
<1>2. read \in Seq(Nat) /\ \E w : ListsBy(w, read, audit, Places(audit))
  BY <1>1, ReadAllLists DEF Lists
<1>3. PICK w : ListsBy(w, read, audit, Places(audit))
  BY <1>2
<1> HIDE DEF read
<1>4. /\ DOMAIN read = 1 .. Len(read)
      /\ w \in [1 .. Len(read) -> Places(audit)]
      /\ \A i, j \in 1 .. Len(read) : w[i] = w[j] => i = j
      /\ \A i \in 1 .. Len(read) : read[i] = Entry(audit, w[i])
  BY <1>2, <1>3 DEF ListsBy
<1>5. ASSUME NEW e \in EntriesIn(audit)
      PROVE  e \in Nat /\ Copies(audit, e) # {}
  <2>1. PICK f \in DOMAIN audit : e \in Found(audit[f])
    BY DEF EntriesIn
  <2>2. PICK place \in Places(audit) : Entry(audit, place) = e
    BY <1>1, <2>1, FoundPlaces
  <2> QED BY <1>1, <2>2, FoundPlaces DEF Copies
<1>6. ASSUME NEW e \in Nat PROVE Cardinality(reads(e)) <= 2 ^ cleanups
  <2> DEFINE S == reads(e)
             T == Copies(audit, e)
             f == [n \in S |-> w[n]]
  <2>1. IsFiniteSet(T) /\ Cardinality(T) <= 2 ^ cleanups
    BY DEF ExactInv, Tallied
  <2>2. ASSUME NEW n \in S PROVE n \in 1 .. Len(read) /\ w[n] \in T
    BY <1>4 DEF Copies
  <2>3. f \in [S -> T] /\ \A n \in S : f[n] = w[n]
    BY <2>2
  <2>4. \A m, n \in S : f[m] = f[n] => m = n
    BY <1>4, <2>2, <2>3
  <2>5. 2 ^ cleanups \in Nat
    BY <1>1, PowerOfTwo
  <2> HIDE DEF S, T, f
  <2>6. Cardinality(S) <= 2 ^ cleanups
    BY <2>1, <2>3, <2>4, <2>5, Injected
  <2> QED BY <2>6 DEF S
<1>7. ASSUME NEW e \in EntriesIn(audit), cleanups = 0 PROVE e >= cutoff
  <2> SUFFICES ASSUME e < cutoff PROVE FALSE
    BY <1>1, <1>5
  <2>1. IsFiniteSet(Copies(audit, e)) /\ Cardinality(Copies(audit, e)) <= 0
    BY <1>5, <1>7 DEF ExactInv, Tallied
  <2>2. Cardinality(Copies(audit, e)) = 0
    BY <2>1, FS_CardinalityType
  <2> QED BY <1>5, <2>1, <2>2, FS_EmptySet
<1> HIDE DEF reads
<1>8. \A e : reads(e) = {n \in DOMAIN read : read[n] = e}
  BY DEF reads
<1>9. \A e \in EntriesIn(audit) : Cardinality({n \in DOMAIN read : read[n] = e}) <= 2 ^ cleanups
  BY <1>5, <1>6, <1>8
<1> QED BY <1>7, <1>9 DEF CleanupExact, read

\* What read_all returns has an entry once for as long as no cleanup stops, and
\* then no entry below the limit of one; each cleanup that stops after it has
\* replaced the current file doubles the copies at most (AuditStore.cleanup,
\* _rewrite and read_all).
THEOREM CleanupIsExact == Spec => []CleanupExact
<1>1. Init => AuditInv /\ TraceInv /\ ExactInv
  BY AuditStart, TraceStart, ExactStart DEF Init
<1>2. AuditInv /\ TraceInv /\ ExactInv /\ [Next]_vars => AuditInv' /\ TraceInv' /\ ExactInv'
  BY LogSteps, LogsKept, ExactKept
<1>3. AuditInv /\ ExactInv => CleanupExact
  BY ExactlyRead
<1> QED BY <1>1, <1>2, <1>3, PTL DEF Spec

=============================================================================
