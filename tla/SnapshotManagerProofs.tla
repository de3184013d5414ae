------------------------ MODULE SnapshotManagerProofs ------------------------
(* Proofs about SnapshotManager: for any project and any snapshots, a restore *)
(* that succeeds is exact, one that fails once puts back what the scan had    *)
(* read, and that can be recovered wherever the restore stops; the deltas of  *)
(* a new snapshot tell what changed, and a clean-up leaves the newest ones.   *)
EXTENDS SnapshotManager, SequenceTheorems, FiniteSetTheorems,
        WellFoundedInduction, TLAPS

-----------------------------------------------------------------------------
(* The inductive invariant *)

\* The tree has at p just what files has there.
HoldsAt(files, p) ==
    IF files[p] = Absent THEN tree[p] \notin Readable ELSE tree[p] = files[p]

\* How far a restore has come at one path: what is not touched any more is as
\* it is wanted.
Placed(r, p) ==
    /\ p \in r.delete => r.want[p] = Absent
    /\ p \in r.write => r.want[p] # Absent
    /\ p \notin r.delete \cup r.write => HoldsAt(r.want, p)

\* The rollback that was saved is what the scan read before, and the newest.
Kept(r) == r.saved # None => /\ r.saved = Collected(r.before)
                             /\ rollbacks # <<>> /\ Last(rollbacks) = r.saved

RestoringInv ==
    restoring # None =>
        /\ answer = None
        /\ Kept(restoring)
        /\ \A p \in Paths : Placed(restoring, p)
        /\ restoring.phase = "rollback" => UsableRollback /\ restoring.want = restoring.saved

AnswerInv == answer # None => /\ ~answer.ok => Kept(answer)
                              /\ RestoreExact /\ FailureUndone

Inv == TypeOK /\ RestoringInv /\ AnswerInv

-----------------------------------------------------------------------------
(* Files and sequences *)

LEMMA CollectedType ==
    ASSUME NEW t \in Tree
    PROVE  /\ Collected(t) \in Files
           /\ \A p \in Paths : Collected(t)[p] = Absent <=> t[p] \notin Readable
BY NewlinesAssumption, DistinctAssumption DEF Collected, Read, Readable, Files, Tree

LEMMA FrontType ==
    ASSUME NEW S, NEW q \in Seq(S), q # <<>>
    PROVE  Front(q) \in Seq(S)
<1>1. Len(q) \in Nat /\ Len(q) >= 1
  BY EmptySeq
<1>2. \A k \in 1 .. Len(q) - 1 : q[k] \in S
  BY <1>1, ElementOfSeq
<1> QED
  BY <1>1, <1>2, SubSeqProperties DEF Front

LEMMA LastAppended ==
    ASSUME NEW S, NEW q \in Seq(S), NEW e \in S
    PROVE  Append(q, e) \in Seq(S) /\ Append(q, e) # <<>> /\ Last(Append(q, e)) = e
BY AppendProperties DEF Last

\* Removing snapshots leaves snapshots.
LEMMA DropType ==
    ASSUME snaps \in Seq(Snapshot), NEW S, Drop(S)
    PROVE  snaps' \in Seq(Snapshot)
<1> DEFINE kept == DOMAIN snaps \ S
<1>1. Len(snaps) \in Nat /\ DOMAIN snaps = 1 .. Len(snaps)
  OBVIOUS
<1>2. IsFiniteSet(kept)
  <2>1. IsFiniteSet(1 .. Len(snaps))
    BY <1>1, FS_Interval
  <2> QED
    BY <1>1, <2>1, FS_Subset
<1>3. Cardinality(kept) \in Nat
  BY <1>2, FS_CardinalityType
<1>4. PICK pick \in [1 .. Cardinality(kept) -> kept] :
        snaps' = [k \in DOMAIN pick |-> snaps[pick[k]]]
  BY DEF Drop
<1> HIDE DEF kept
<1>5. \A i \in kept : snaps[i] \in Snapshot
  BY DEF kept
<1>6. snaps' \in [1 .. Cardinality(kept) -> Snapshot]
  BY <1>4, <1>5
<1> QED
  BY <1>3, <1>6, SeqDef

-----------------------------------------------------------------------------
(* The beginning and the steps of a restore *)

LEMMA BeginInv ==
    ASSUME Inv, NEW files \in Files, Begin(files)
    PROVE  Inv'
<1> USE DistinctAssumption
<1>1. PICK saved \in {Collected(tree), None} :
        /\ rollbacks' = IF saved = None THEN rollbacks ELSE Append(rollbacks, saved)
        /\ restoring' = [phase |-> "restore", want |-> files,
                         delete |-> ToDelete(files), write |-> In(files),
                         saved |-> saved, before |-> tree]
  BY DEF Begin
<1>2. answer' = None /\ UNCHANGED <<tree, snaps>>
  BY DEF Begin
<1>3. tree \in Tree /\ Collected(tree) \in Files /\ rollbacks \in Seq(Files)
  BY CollectedType DEF Inv, TypeOK
<1>4. rollbacks' \in Seq(Files)
  BY <1>1, <1>3, LastAppended
<1>5. restoring' \in Restorings
  BY <1>1, <1>3 DEF Restorings, ToDelete, In
<1>6. TypeOK'
  BY <1>2, <1>4, <1>5 DEF Inv, TypeOK
<1>7. Kept(restoring)'
  BY <1>1, <1>3, LastAppended DEF Kept, Collected
<1>8. ASSUME NEW p \in Paths PROVE Placed(restoring, p)'
  <2>1. Collected(tree)[p] = Absent <=> tree[p] \notin Readable
    BY <1>3, CollectedType
  <2> QED
    BY <1>1, <1>2, <2>1 DEF Placed, HoldsAt, ToDelete, In
<1>9. restoring'.phase = "restore"
  BY <1>1
<1> QED
  BY <1>2, <1>6, <1>7, <1>8, <1>9 DEF Inv, RestoringInv, AnswerInv

\* A step of a restore in progress: one more path is as it is wanted.
LEMMA StepInv ==
    ASSUME Inv, NEW p \in Paths, DeleteFile(p) \/ WriteFile(p)
    PROVE  Inv'
<1> USE DistinctAssumption
<1>1. restoring \in Restorings /\ RestoringInv /\ answer = None /\ tree \in Tree
  BY DEF Inv, TypeOK, RestoringInv, DeleteFile, WriteFile, Idle
<1>2. UNCHANGED <<snaps, rollbacks, answer>>
  BY DEF DeleteFile, WriteFile
<1>3. /\ restoring' \in Restorings
      /\ restoring'.want = restoring.want /\ restoring'.before = restoring.before
      /\ restoring'.saved = restoring.saved /\ restoring'.phase = restoring.phase
      /\ restoring'.delete \cup restoring'.write = (restoring.delete \cup restoring.write) \ {p}
      /\ restoring'.delete \subseteq restoring.delete /\ restoring'.write \subseteq restoring.write
  <2>1. CASE DeleteFile(p)
    <3>1. p \notin restoring.write
      BY <1>1, <2>1 DEF DeleteFile, RestoringInv, Placed, Idle
    <3> QED
      BY <1>1, <2>1, <3>1 DEF DeleteFile, Restorings
  <2>2. CASE WriteFile(p)
    BY <1>1, <2>2 DEF WriteFile, Restorings
  <2> QED
    BY <2>1, <2>2
<1>4. /\ tree' = [tree EXCEPT ![p] = restoring.want[p]]
      /\ restoring.want[p] \in Readable \cup {Absent}
  <2>1. restoring.want[p] \in Readable \cup {Absent}
    BY <1>1 DEF Restorings, Files
  <2>2. CASE DeleteFile(p)
    BY <1>1, <2>1, <2>2 DEF DeleteFile, RestoringInv, Placed, Idle
  <2>3. CASE WriteFile(p)
    BY <2>1, <2>3 DEF WriteFile
  <2> QED
    BY <2>2, <2>3
<1>5. TypeOK'
  BY <1>1, <1>2, <1>3, <1>4 DEF Inv, TypeOK, Tree
<1>6. ASSUME NEW q \in Paths PROVE Placed(restoring, q)'
  <2>1. Placed(restoring, q)
    BY <1>1 DEF RestoringInv, DeleteFile, WriteFile, Idle
  <2>2. CASE q = p
    BY <1>1, <1>3, <1>4, <2>2 DEF Placed, HoldsAt, Tree, Readable
  <2>3. CASE q # p
    BY <1>1, <1>3, <1>4, <2>1, <2>3 DEF Placed, HoldsAt, Tree
  <2> QED
    BY <2>2, <2>3
<1>7. Kept(restoring)' /\ (restoring.phase = "rollback" => UsableRollback /\ restoring.want = restoring.saved)'
  BY <1>1, <1>2, <1>3 DEF RestoringInv, Kept, UsableRollback, DeleteFile, WriteFile, Idle, Collected
<1> QED
  BY <1>1, <1>2, <1>5, <1>6, <1>7 DEF Inv, RestoringInv, AnswerInv

-----------------------------------------------------------------------------
(* The ways a restore ends *)

\* What a failure leaves of the tree is a tree.
LEMMA SpoiltTree ==
    ASSUME Inv, restoring # None, Spoilt
    PROVE  tree' \in Tree
BY DEF Inv, TypeOK, Spoilt, Tree, Readable

\* A path at which nothing is left to do is as it is wanted, and so is the tree.
LEMMA NothingRemains ==
    ASSUME Inv, restoring # None, Remaining = {}
    PROVE  Holds(restoring.want)
BY DEF Inv, RestoringInv, Placed, HoldsAt, Holds, Remaining

\* An answer is made of the restore that it ends.
LEMMA AnswerType ==
    ASSUME Inv, restoring # None, NEW ok \in BOOLEAN, NEW twice \in BOOLEAN
    PROVE  /\ Answer(ok, twice) \in Answers
           /\ Kept(Answer(ok, twice)) <=> Kept(restoring)
BY DEF Inv, TypeOK, Restorings, Answers, Answer, Kept

\* A failure that is not the first, or that has no usable rollback.
LEMMA FailedInv ==
    ASSUME Inv, restoring # None, NEW twice \in BOOLEAN, Spoilt,
           answer' = Answer(FALSE, twice), restoring' = None, UNCHANGED <<snaps, rollbacks>>,
           twice \/ ~UsableRollback
    PROVE  Inv'
<1>1. TypeOK'
  BY SpoiltTree, AnswerType DEF Inv, TypeOK
<1>2. Kept(answer)'
  BY AnswerType DEF Inv, RestoringInv, Kept, Collected
<1>3. RestoreExact' /\ FailureUndone'
  BY DEF RestoreExact, FailureUndone, Answer, UsableRollback, In
<1> QED
  BY <1>1, <1>2, <1>3 DEF Inv, RestoringInv, AnswerInv

LEMMA RestoredInv == ASSUME Inv, Restored PROVE Inv'
<1>1. restoring # None /\ answer' = Answer(TRUE, FALSE) /\ restoring' = None
  BY DEF Restored, Idle
<1>2. rollbacks' \in Seq(Files)
  BY <1>1, FrontType DEF Restored, Inv, TypeOK, RestoringInv, Kept
<1>3. TypeOK'
  BY <1>1, <1>2, AnswerType DEF Restored, Inv, TypeOK
<1>4. RestoreExact' /\ FailureUndone' /\ answer'.ok
  BY <1>1, NothingRemains DEF Restored, RestoreExact, FailureUndone, Answer, Holds
<1> QED
  BY <1>1, <1>3, <1>4 DEF Inv, RestoringInv, AnswerInv

LEMMA RollBackInv == ASSUME Inv, RollBack PROVE Inv'
<1> USE DistinctAssumption
<1> DEFINE back == restoring.saved
<1>1. /\ restoring # None /\ UsableRollback /\ back \in Files /\ answer = None
      /\ restoring \in Restorings
  BY DEF RollBack, Idle, UsableRollback, Inv, TypeOK, Restorings, RestoringInv
<1>2. /\ tree' \in Tree /\ Collected(tree') \in Files
      /\ \A p \in Paths : Collected(tree')[p] = Absent <=> tree'[p] \notin Readable
  BY <1>1, SpoiltTree, CollectedType DEF RollBack
<1>3. /\ restoring' = [restoring EXCEPT !.phase = "rollback", !.want = back, !.write = In(back),
                                        !.delete = In(Collected(tree')) \ In(back)]
      /\ UNCHANGED <<snaps, rollbacks, answer>>
  BY DEF RollBack
<1>4. In(Collected(tree')) \in SUBSET Paths /\ In(back) \in SUBSET Paths
  BY DEF In
<1>5. /\ restoring' \in Restorings
      /\ restoring'.phase = "rollback" /\ restoring'.want = back /\ restoring'.write = In(back)
      /\ restoring'.delete = In(Collected(tree')) \ In(back)
      /\ restoring'.saved = back /\ restoring'.before = restoring.before
  BY <1>1, <1>3, <1>4 DEF Restorings
<1>6. TypeOK'
  BY <1>2, <1>3, <1>5 DEF Inv, TypeOK
<1>7. ASSUME NEW p \in Paths PROVE Placed(restoring, p)'
  BY <1>1, <1>2, <1>5 DEF Placed, HoldsAt, In, Files
<1>8. Kept(restoring)' /\ UsableRollback' /\ (restoring.want = restoring.saved)'
  BY <1>1, <1>3, <1>5 DEF Inv, RestoringInv, Kept, UsableRollback, Collected, In
<1> QED
  BY <1>1, <1>3, <1>6, <1>7, <1>8 DEF Inv, RestoringInv, AnswerInv

LEMMA RolledBackInv == ASSUME Inv, RolledBack PROVE Inv'
<1> USE DistinctAssumption
<1>1. restoring # None /\ answer' = Answer(FALSE, FALSE) /\ restoring' = None
  BY DEF RolledBack, Idle
<1>2. UNCHANGED <<tree, snaps, rollbacks>>
  BY DEF RolledBack
<1>3. TypeOK' /\ Kept(answer)'
  BY <1>1, <1>2, AnswerType DEF Inv, TypeOK, RestoringInv, Kept, Collected
<1>4. Holds(Collected(restoring.before))
  BY <1>1, NothingRemains DEF RolledBack, Inv, RestoringInv, Kept, UsableRollback
<1>5. RestoreExact' /\ FailureUndone'
  BY <1>1, <1>2, <1>4 DEF RestoreExact, FailureUndone, Answer, Holds, Collected
<1> QED
  BY <1>1, <1>3, <1>5 DEF Inv, RestoringInv, AnswerInv

-----------------------------------------------------------------------------
(* All steps *)

\* Whatever happens between restores forgets the last answer.
LEMMA BetweenInv ==
    ASSUME TypeOK', restoring' = None, answer' = None
    PROVE  Inv'
BY DEF Inv, RestoringInv, AnswerInv

LEMMA InitInv == ASSUME Init PROVE Inv
BY EditsAssumption DEF Init, Inv, TypeOK, RestoringInv, AnswerInv, Tree, Readable

LEMMA NextInv == ASSUME Inv, [Next]_vars PROVE Inv'
<1> USE DEF Idle
<1>1. CASE CreateSnapshot
  <2> DEFINE new == [files |-> Collected(tree),
                     deltas |-> [p \in Paths |-> DeltaKind(PreviousMap[p], Collected(tree)[p])],
                     zipped |-> FALSE]
  <2>1. snaps' = Append(snaps, new)
    BY <1>1 DEF CreateSnapshot
  <2>2. Collected(tree) \in Files
    BY CollectedType DEF Inv, TypeOK
  <2>3. \A old, this : DeltaKind(old, this) \in Kinds
    BY DEF DeltaKind, Kinds
  <2>4. new \in Snapshot
    BY <2>2, <2>3 DEF Snapshot
  <2>5. snaps' \in Seq(Snapshot)
    BY <2>1, <2>4, LastAppended DEF Inv, TypeOK
  <2> QED
    BY <1>1, <2>5, BetweenInv DEF CreateSnapshot, Inv, TypeOK
<1>2. ASSUME NEW i \in Positions, Begin(snaps[i].files) PROVE Inv'
  <2>1. snaps[i] \in Snapshot
    BY DEF Positions, Inv, TypeOK
  <2> QED
    BY <1>2, <2>1, BeginInv DEF Snapshot
<1>3. CASE RestoreSnapshot
  BY <1>2, <1>3 DEF RestoreSnapshot
<1>4. ASSUME NEW steps \in 1 .. MaxSnapshots, Rewind(steps) PROVE Inv'
  BY <1>2, <1>4 DEF Rewind
<1>5. ASSUME NEW p \in Paths, DeleteFile(p) \/ WriteFile(p) PROVE Inv'
  BY <1>5, StepInv
<1>6. CASE Restored
  BY <1>6, RestoredInv
<1>7. CASE RollBack
  BY <1>7, RollBackInv
<1>8. CASE GiveUp
  BY <1>8, FailedInv DEF GiveUp
<1>9. CASE RolledBack
  BY <1>9, RolledBackInv
<1>10. CASE RollbackFails
  BY <1>10, FailedInv DEF RollbackFails
<1>11. CASE Crash
  BY <1>11, FailedInv DEF Crash
<1>12. CASE DeleteSnapshot
  <2>1. snaps' \in Seq(Snapshot)
    BY <1>12, DropType DEF DeleteSnapshot, Inv, TypeOK
  <2> QED
    BY <1>12, <2>1, BetweenInv DEF DeleteSnapshot, Inv, TypeOK
<1>13. CASE AutoCleanup
  <2>1. snaps' \in Seq(Snapshot)
    BY <1>13, DropType DEF AutoCleanup, Inv, TypeOK
  <2> QED
    BY <1>13, <2>1, BetweenInv DEF AutoCleanup, Inv, TypeOK
<1>14. CASE CompressSnapshot
  <2>1. PICK i \in Positions : snaps' = [snaps EXCEPT ![i].zipped = TRUE]
    BY <1>14 DEF CompressSnapshot
  <2>2. snaps \in Seq(Snapshot) /\ i \in DOMAIN snaps /\ snaps[i] \in Snapshot
    BY DEF Positions, Inv, TypeOK
  <2>3. [snaps[i] EXCEPT !.zipped = TRUE] \in Snapshot
    BY <2>2 DEF Snapshot
  <2>4. snaps' \in Seq(Snapshot)
    BY <2>1, <2>2, <2>3, ExceptSeq
  <2> QED
    BY <1>14, <2>4, BetweenInv DEF CompressSnapshot, Inv, TypeOK
<1>15. ASSUME NEW p \in Paths, Edit(p) PROVE Inv'
  <2>1. tree' \in Tree
    BY <1>15, EditsAssumption DEF Edit, Inv, TypeOK, Tree, Readable
  <2> QED
    BY <1>15, <2>1, BetweenInv DEF Edit, Inv, TypeOK
<1>16. CASE UNCHANGED vars
  BY <1>16 DEF vars, Inv, TypeOK, RestoringInv, AnswerInv, Placed, Kept, UsableRollback,
               RestoreExact, FailureUndone, HoldsAt, Holds, Collected, In
<1> QED
  BY <1>1, <1>3, <1>4, <1>5, <1>6, <1>7, <1>8, <1>9, <1>10, <1>11, <1>12, <1>13, <1>14, <1>15,
     <1>16 DEF Next

-----------------------------------------------------------------------------
(* Theorems *)

LEMMA Invariant == Spec => []Inv
BY InitInv, NextInv, PTL DEF Spec

LEMMA InvariantSays ==
    ASSUME Inv
    PROVE  TypeOK /\ RestoreExact /\ FailureUndone /\ BeforeRecoverable
BY DEF Inv, RestoringInv, AnswerInv, Kept, BeforeRecoverable, RestoreExact, FailureUndone

\* The manager's state keeps its types.
THEOREM TypeCorrect == Spec => []TypeOK
BY Invariant, InvariantSays, PTL

\* A restore that answers True has restored the snapshot exactly
\* (snapshot/manager.py:160).
THEOREM Exact == Spec => []RestoreExact
BY Invariant, InvariantSays, PTL

\* A restore that failed once, with a rollback that can be used, has put back every
\* file that could be read, as it was read, and left no other readable one; the
\* files' own line ends are not kept (snapshot/manager.py:47,229,261).
THEOREM Undone == Spec => []FailureUndone
BY Invariant, InvariantSays, PTL

\* What was there before a restore can be recovered until it has answered True,
\* wherever it failed or stopped (snapshot/manager.py:172,198).
THEOREM Recoverable == Spec => []BeforeRecoverable
BY Invariant, InvariantSays, PTL

-----------------------------------------------------------------------------
(* What is left of the snapshots *)

LEMMA Greatest ==
    ASSUME NEW n \in Nat, NEW S \in SUBSET (1 .. n), S # {}
    PROVE  \E i \in S : \A j \in S : j <= i
<1> DEFINE T == {n - i : i \in S}
           Less == {pair \in Nat \X Nat : pair[1] < pair[2]}
<1>1. T \subseteq Nat /\ T # {}
  <2>1. PICK i \in S : TRUE
    OBVIOUS
  <2>2. n - i \in T
    OBVIOUS
  <2>3. \A j \in S : n - j \in Nat
    OBVIOUS
  <2> QED BY <2>2, <2>3
<1>2. IsWellFoundedOn(Less, Nat)
  BY NatLessThanWellFounded, Zenon DEF OpToRel
<1> HIDE DEF Less
<1>3. PICK x \in T : \A y \in T : <<y, x>> \notin Less
  BY <1>1, <1>2, WFMin
<1>4. \A y \in T : ~(y < x)
  BY <1>1, <1>3 DEF Less
<1>5. PICK i \in S : x = n - i
  OBVIOUS
<1>6. \A j \in S : ~(n - j < n - i)
  BY <1>4, <1>5
<1> QED BY <1>6

\* The members of S that come after position i.
After(S, i) == {j \in S : j > i}

LEMMA AfterFinite ==
    ASSUME NEW n \in Nat, NEW S \in SUBSET (1 .. n), NEW i \in Int
    PROVE  /\ IsFiniteSet(S) /\ IsFiniteSet(After(S, i))
           /\ Cardinality(After(S, i)) \in Nat
           /\ Cardinality(After(S, i)) <= n
<1>1. IsFiniteSet(1 .. n) /\ Cardinality(1 .. n) = n
  BY FS_Interval
<1>2. After(S, i) \subseteq 1 .. n
  BY DEF After
<1> QED BY <1>1, <1>2, FS_Subset, FS_CardinalityType

\* The latest snapshot is a listed one, with none after it.
LEMMA LatestListed ==
    ASSUME snaps \in Seq(Snapshot), Positions # {}
    PROVE  \E i \in Positions : Latest = snaps[i]
<1>1. Positions \in SUBSET (1 .. Len(snaps)) /\ Len(snaps) \in Nat
  BY DEF Positions
<1>2. PICK i \in Positions : \A j \in Positions : j <= i
  BY <1>1, Greatest
<1>3. {j \in Positions : j > i} = {}
  <2>1. \A j \in Positions : ~(j > i)
    BY <1>1, <1>2, SMT
  <2> QED BY <2>1
<1>4. Younger(i) = 0
  BY <1>3, FS_EmptySet DEF Younger
<1> DEFINE l == CHOOSE k \in Positions : Younger(k) = 0
<1>5. l \in Positions
  BY <1>4
<1> QED BY <1>5 DEF Latest

\* A removal keeps the other snapshots, as they are and in their order.
LEMMA DropPicks ==
    ASSUME snaps \in Seq(Snapshot), NEW S, Drop(S)
    PROVE  \E pick \in [DOMAIN snaps' -> DOMAIN snaps \ S] :
             /\ DOMAIN snaps' = 1 .. Len(snaps') /\ Len(snaps') \in Nat
             /\ Len(snaps') <= Len(snaps)
             /\ \A j, k \in DOMAIN snaps' : j < k => pick[j] < pick[k]
             /\ \A k \in DOMAIN snaps' : snaps'[k] = snaps[pick[k]]
             /\ \A i \in DOMAIN snaps \ S : \E k \in DOMAIN snaps' : pick[k] = i
<1> DEFINE kept == DOMAIN snaps \ S
           n == Cardinality(kept)
<1>1. Len(snaps) \in Nat /\ DOMAIN snaps = 1 .. Len(snaps)
  OBVIOUS
<1>2. IsFiniteSet(1 .. Len(snaps)) /\ Cardinality(1 .. Len(snaps)) = Len(snaps)
  <2> DEFINE m == Len(snaps)
  <2>1. m \in Nat
    BY <1>1
  <2> HIDE DEF m
  <2>2. IsFiniteSet(1 .. m) /\ Cardinality(1 .. m) = m
    BY <2>1, FS_Interval
  <2> QED BY <2>2 DEF m
<1>3. IsFiniteSet(kept) /\ n <= Len(snaps)
  BY <1>1, <1>2, FS_Subset
<1>4. n \in Nat
  BY <1>3, FS_CardinalityType
<1>5. PICK pick \in [1 .. n -> kept] :
        /\ \A j, k \in DOMAIN pick : j < k => pick[j] < pick[k]
        /\ snaps' = [k \in DOMAIN pick |-> snaps[pick[k]]]
  BY DEF Drop
<1>6. snaps' \in Seq(Snapshot)
  BY DropType
<1>7. DOMAIN snaps' = 1 .. n /\ Len(snaps') = n
  BY <1>4, <1>5, <1>6
<1>8. IsFiniteSet(1 .. n) /\ Cardinality(1 .. n) = n
  BY <1>4, FS_Interval
<1> HIDE DEF n
<1>9. pick \in Injection(1 .. n, kept)
  <2>1. ASSUME NEW j \in 1 .. n, NEW k \in 1 .. n, pick[j] = pick[k] PROVE j = k
    <3>1. pick[j] \in Int
      BY <1>1, <1>5
    <3>2. ~(j < k) /\ ~(k < j)
      BY <1>4, <1>5, <2>1, <3>1
    <3> QED BY <3>2
  <2> QED BY <1>5, <2>1 DEF Injection, IsInjective
<1>10. pick \in Surjection(1 .. n, kept)
  BY <1>3, <1>8, <1>9, FS_Injection DEF n
<1>11. \A i \in kept : \E k \in 1 .. n : pick[k] = i
  BY <1>10 DEF Surjection
<1>12. pick \in [DOMAIN snaps' -> DOMAIN snaps \ S] /\ DOMAIN pick = DOMAIN snaps'
  BY <1>5, <1>7
<1>13. /\ DOMAIN snaps' = 1 .. Len(snaps') /\ Len(snaps') \in Nat
       /\ Len(snaps') <= Len(snaps)
  BY <1>3, <1>4, <1>7
<1>14. /\ \A j, k \in DOMAIN snaps' : j < k => pick[j] < pick[k]
       /\ \A k \in DOMAIN snaps' : snaps'[k] = snaps[pick[k]]
  BY <1>5, <1>12
<1>15. \A i \in DOMAIN snaps \ S : \E k \in DOMAIN snaps' : pick[k] = i
  BY <1>7, <1>11
<1> HIDE DEF kept
<1> QED BY <1>12, <1>13, <1>14, <1>15

-----------------------------------------------------------------------------
(* The deltas *)

\* Where the deltas of a snapshot call a file deleted it has no such file.
Tombstones ==
    \A i \in DOMAIN snaps : \A p \in Paths :
        snaps[i].deltas[p] = "deleted" => snaps[i].files[p] = Absent

\* What DeltasFaithful says of one path of a new snapshot.
Told(old, new, kind) ==
    /\ (old = new /\ new # Absent) => kind = "none"
    /\ (new = Absent /\ old # Absent) => kind = "deleted"
    /\ (new \notin {Absent, Empty, old}) => kind \in {"new", "changed"}

\* The previous map stands for the latest snapshot's files: a tombstone, which
\* takes the place of a missing file, is the only difference.
LEMMA KindTold ==
    ASSUME NEW old, NEW previous, NEW new,
           previous = old \/ (old = Absent /\ previous = Empty)
    PROVE  /\ Told(old, new, DeltaKind(previous, new))
           /\ DeltaKind(previous, new) = "deleted" => new = Absent
BY DEF Told, DeltaKind

\* The files of the latest snapshot, which the deltas are relative to.
LatestFile(p) == IF Positions = {} THEN Absent ELSE Latest.files[p]

LEMMA PreviousStands ==
    ASSUME snaps \in Seq(Snapshot), Tombstones, NEW p \in Paths
    PROVE  \/ PreviousMap[p] = LatestFile(p)
           \/ LatestFile(p) = Absent /\ PreviousMap[p] = Empty
<1>1. CASE Positions = {}
  BY <1>1 DEF PreviousMap, LatestFile
<1>2. CASE Positions # {}
  <2>1. PICK i \in Positions : Latest = snaps[i]
    BY <1>2, LatestListed
  <2>2. Latest.deltas[p] = "deleted" => Latest.files[p] = Absent
    BY <2>1 DEF Tombstones, Positions
  <2> QED BY <1>2, <2>2 DEF PreviousMap, LatestFile
<1> QED BY <1>1, <1>2

\* A new snapshot, and the others as they were.
LEMMA Created ==
    ASSUME TypeOK, Tombstones, CreateSnapshot
    PROVE  /\ Tombstones'
           /\ Len(snaps') = Len(snaps) + 1
           /\ \A p \in Paths :
                Told(LatestFile(p), Last(snaps').files[p], Last(snaps').deltas[p])
<1> DEFINE files == Collected(tree)
           new == [files |-> files,
                   deltas |-> [p \in Paths |-> DeltaKind(PreviousMap[p], files[p])],
                   zipped |-> FALSE]
<1>1. snaps' = Append(snaps, new)
  BY DEF CreateSnapshot
<1>2. ASSUME NEW p \in Paths
      PROVE  /\ Told(LatestFile(p), files[p], new.deltas[p])
             /\ new.deltas[p] = "deleted" => new.files[p] = Absent
  <2>1. new.deltas[p] = DeltaKind(PreviousMap[p], files[p])
    OBVIOUS
  <2>2. \/ PreviousMap[p] = LatestFile(p)
        \/ LatestFile(p) = Absent /\ PreviousMap[p] = Empty
    BY PreviousStands DEF TypeOK
  <2> HIDE DEF files
  <2> QED BY <2>1, <2>2, KindTold
<1>3. new.files = files /\ new \in Snapshot
  <2>1. files \in Files
    BY CollectedType DEF TypeOK
  <2>2. \A old, this : DeltaKind(old, this) \in Kinds
    BY DEF DeltaKind, Kinds
  <2> HIDE DEF files
  <2> QED BY <2>1, <2>2 DEF Snapshot
<1> HIDE DEF new
<1>4. /\ Len(snaps') = Len(snaps) + 1 /\ DOMAIN snaps' = 1 .. Len(snaps) + 1
      /\ snaps'[Len(snaps) + 1] = new /\ Last(snaps') = new
      /\ \A i \in 1 .. Len(snaps) : snaps'[i] = snaps[i]
      /\ DOMAIN snaps = 1 .. Len(snaps) /\ Len(snaps) \in Nat
  <2>1. Len(snaps) \in Nat /\ DOMAIN snaps = 1 .. Len(snaps)
    BY DEF TypeOK
  <2>2. /\ Len(snaps') = Len(snaps) + 1 /\ snaps' \in Seq(Snapshot)
        /\ snaps'[Len(snaps) + 1] = new
        /\ \A i \in 1 .. Len(snaps) : snaps'[i] = snaps[i]
    BY <1>1, <1>3, AppendProperties DEF TypeOK
  <2> QED BY <2>1, <2>2 DEF Last
<1>5. Tombstones'
  <2> SUFFICES ASSUME NEW i \in 1 .. Len(snaps) + 1, NEW p \in Paths
               PROVE  snaps'[i].deltas[p] = "deleted" => snaps'[i].files[p] = Absent
    BY <1>4 DEF Tombstones
  <2>1. CASE i \in 1 .. Len(snaps)
    BY <1>4, <2>1 DEF Tombstones
  <2>2. CASE i = Len(snaps) + 1
    BY <1>2, <1>4, <2>2
  <2> QED BY <1>4, <2>1, <2>2
<1> QED BY <1>2, <1>3, <1>4, <1>5

LEMMA DropTombstones ==
    ASSUME TypeOK, Tombstones, NEW S, Drop(S)
    PROVE  Tombstones' /\ Len(snaps') <= Len(snaps)
<1>1. PICK pick \in [DOMAIN snaps' -> DOMAIN snaps \ S] :
        /\ Len(snaps') <= Len(snaps)
        /\ \A k \in DOMAIN snaps' : snaps'[k] = snaps[pick[k]]
  BY DropPicks DEF TypeOK
<1> QED BY <1>1 DEF Tombstones

\* What every step does to the snapshots.
LEMMA NextTold ==
    ASSUME TypeOK, Tombstones, [Next]_vars
    PROVE  /\ Tombstones'
           /\ Len(snaps') > Len(snaps) =>
                \A p \in Paths :
                  Told(LatestFile(p), Last(snaps').files[p], Last(snaps').deltas[p])
<1>1. Len(snaps) \in Nat
  BY DEF TypeOK
<1>2. CASE UNCHANGED snaps
  BY <1>1, <1>2 DEF Tombstones
<1>3. CASE CreateSnapshot
  BY <1>3, Created
<1>4. ASSUME NEW S, Drop(S), Len(snaps') \in Int
      PROVE  Tombstones' /\ ~(Len(snaps') > Len(snaps))
  BY <1>1, <1>4, DropTombstones
<1>5. ASSUME NEW S, Drop(S) PROVE Len(snaps') \in Int
  <2>1. snaps' \in Seq(Snapshot)
    BY <1>5, DropType DEF TypeOK
  <2> QED BY <2>1
<1>6. CASE DeleteSnapshot
  BY <1>4, <1>5, <1>6 DEF DeleteSnapshot
<1>7. CASE AutoCleanup
  BY <1>4, <1>5, <1>7 DEF AutoCleanup
<1>8. CASE CompressSnapshot
  <2>1. PICK i \in Positions : snaps' = [snaps EXCEPT ![i].zipped = TRUE]
    BY <1>8 DEF CompressSnapshot
  <2>2. snaps \in Seq(Snapshot) /\ i \in DOMAIN snaps
    BY DEF Positions, TypeOK
  <2>3. DOMAIN snaps' = DOMAIN snaps /\ Len(snaps') = Len(snaps)
    BY <2>1, <2>2
  <2>4. \A k \in DOMAIN snaps : /\ snaps'[k].files = snaps[k].files
                                /\ snaps'[k].deltas = snaps[k].deltas
    <3> SUFFICES ASSUME NEW k \in DOMAIN snaps
                 PROVE  /\ snaps'[k].files = snaps[k].files
                        /\ snaps'[k].deltas = snaps[k].deltas
      OBVIOUS
    <3>1. snaps[k] \in Snapshot
      BY <2>2
    <3> QED BY <2>1, <2>2, <3>1 DEF Snapshot
  <2> QED BY <1>1, <2>3, <2>4 DEF Tombstones
<1> QED
  BY <1>2, <1>3, <1>6, <1>7, <1>8
  DEF Next, vars, RestoreSnapshot, Rewind, Begin, DeleteFile, WriteFile, Restored, RollBack,
      GiveUp, RolledBack, RollbackFails, Crash, Edit

-----------------------------------------------------------------------------
(* The clean-up *)

LEMMA Least ==
    ASSUME NEW S \in SUBSET Nat, S # {}
    PROVE  \E i \in S : \A j \in S : i <= j
<1> DEFINE Less == {pair \in Nat \X Nat : pair[1] < pair[2]}
<1>1. IsWellFoundedOn(Less, Nat)
  BY NatLessThanWellFounded, Zenon DEF OpToRel
<1> HIDE DEF Less
<1>2. PICK i \in S : \A j \in S : <<j, i>> \notin Less
  BY <1>1, WFMin
<1>3. \A j \in S : ~(j < i)
  BY <1>2 DEF Less
<1> QED BY <1>3

\* pick takes the positions S to those in T, in order, and to all of T that
\* follows the image of i.
Renumbers(pick, S, T, i) ==
    /\ i \in S
    /\ \E n \in Nat : S \in SUBSET (1 .. n)
    /\ \E n \in Nat : T \in SUBSET (1 .. n)
    /\ \A j \in S : pick[j] \in T
    /\ \A j, k \in S : j < k => pick[j] < pick[k]
    /\ \A t \in T : t > pick[i] => \E j \in S : pick[j] = t

\* Then what follows i in S and what follows its image in T is equally many.
LEMMA SameNumberAfter ==
    ASSUME NEW pick, NEW S, NEW T, NEW i, Renumbers(pick, S, T, i)
    PROVE  Cardinality(After(S, i)) = Cardinality(After(T, pick[i]))
<1> DEFINE f == [j \in After(S, i) |-> pick[j]]
           A == After(S, i)
           B == After(T, pick[i])
<1> USE DEF Renumbers
<1>n. PICK n \in Nat : S \in SUBSET (1 .. n)
  OBVIOUS
<1>m. PICK m \in Nat : T \in SUBSET (1 .. m)
  OBVIOUS
<1>1. /\ \A j \in S : j \in Int /\ pick[j] \in Int
      /\ A \subseteq S
      /\ \A j \in A : j > i
  <2>1. S \subseteq Int /\ T \subseteq Int /\ i \in S
    BY <1>n, <1>m
  <2>2. A \subseteq S /\ \A j \in A : j > i
    BY DEF After
  <2> QED BY <2>1, <2>2
<1>2. f \in [A -> B]
  <2>1. ASSUME NEW j \in A PROVE pick[j] \in B
    BY <1>1 DEF After
  <2> QED BY <2>1
<1>3. f \in Injection(A, B)
  <2>1. ASSUME NEW j \in A, NEW k \in A, f[j] = f[k] PROVE j = k
    <3>1. pick[j] = pick[k] /\ j \in S /\ k \in S
      BY <1>1, <2>1
    <3> HIDE DEF A
    <3>2. ~(j < k) /\ ~(k < j)
      BY <1>1, <3>1
    <3> QED BY <1>1, <3>1, <3>2
  <2> QED BY <1>2, <2>1 DEF Injection, IsInjective
<1>4. f \in Surjection(A, B)
  <2>1. ASSUME NEW t \in B PROVE \E j \in A : f[j] = t
    <3>1. t \in T /\ t > pick[i]
      BY DEF After
    <3>2. PICK j \in S : pick[j] = t
      BY <3>1
    <3>3. ~(j < i) /\ j # i
      BY <1>1, <3>1, <3>2
    <3>4. j \in A
      BY <1>1, <3>3 DEF After
    <3> QED BY <3>2, <3>4
  <2> QED BY <1>2, <2>1 DEF Surjection
<1>5. ExistsBijection(A, B)
  BY <1>3, <1>4 DEF ExistsBijection, Bijection
<1>6. IsFiniteSet(A)
  BY <1>1, <1>n, AfterFinite
<1> QED BY <1>5, <1>6, FS_Bijection

\* A set of positions has one more than those after its first.
LEMMA OneAndThoseAfter ==
    ASSUME NEW n \in Nat, NEW S \in SUBSET (1 .. n), NEW i \in S, \A j \in S : i <= j
    PROVE  Cardinality(S) = Cardinality(After(S, i)) + 1
<1>1. i \in Int /\ S \subseteq Int
  OBVIOUS
<1>3. IsFiniteSet(S) /\ IsFiniteSet(After(S, i))
  BY <1>1, AfterFinite
<1>2. S = After(S, i) \cup {i} /\ i \notin After(S, i)
  <2>1. \A j \in S : j > i \/ j = i
    BY <1>1
  <2>2. ~(i > i)
    BY <1>1
  <2> QED BY <2>1, <2>2 DEF After
<1> QED BY <1>2, <1>3, FS_AddElement

\* A later position has no more after it.
LEMMA FewerAfter ==
    ASSUME NEW n \in Nat, NEW S \in SUBSET (1 .. n), NEW i \in S, NEW j \in S, i < j
    PROVE  Cardinality(After(S, j)) <= Cardinality(After(S, i))
<1>1. S \subseteq Int
  OBVIOUS
<1>2. IsFiniteSet(After(S, i))
  BY <1>1, AfterFinite
<1>3. \A t \in S : t > j => t > i
  BY <1>1
<1>4. After(S, j) \subseteq After(S, i)
  BY <1>3 DEF After
<1> QED BY <1>2, <1>4, FS_Subset

\* Which snapshots go is closed towards the older ones, and so the n-th newest
\* that is left is the n-th newest there was.
LEMMA CleanedUp ==
    ASSUME TypeOK, AutoCleanup
    PROVE  /\ \A j \in Positions' : \E i \in Positions :
                Younger(i) = Younger(j)' /\ snaps'[j] = snaps[i]
           /\ Cardinality(Positions') <= Keep
<1> USE KeepAssumption
<1> DEFINE P == Positions
           Q == {j \in DOMAIN snaps' : ~snaps'[j].zipped}
           m == Len(snaps)
           n == Len(snaps')
           Late(i) == Cardinality(After(P, i))
<1>1. PICK k \in 1 .. m + 1 : Drop({i \in P : i < k} \cup {i \in P : Younger(i) >= Keep})
  BY DEF AutoCleanup
<1> DEFINE S == {i \in P : i < k} \cup {i \in P : Younger(i) >= Keep}
<1>2. PICK pick \in [DOMAIN snaps' -> DOMAIN snaps \ S] :
        /\ DOMAIN snaps' = 1 .. n /\ n \in Nat
        /\ \A i, j \in DOMAIN snaps' : i < j => pick[i] < pick[j]
        /\ \A j \in DOMAIN snaps' : snaps'[j] = snaps[pick[j]]
        /\ \A i \in DOMAIN snaps \ S : \E j \in DOMAIN snaps' : pick[j] = i
  <2>1. snaps \in Seq(Snapshot) /\ Drop(S)
    BY <1>1 DEF TypeOK
  <2> HIDE DEF S
  <2> QED BY <2>1, DropPicks
<1>3. m \in Nat /\ DOMAIN snaps = 1 .. m /\ P \in SUBSET (1 .. m)
  BY DEF TypeOK, Positions
<1>4. Q \in SUBSET (1 .. n) /\ n \in Nat
  BY <1>2
<1>5. \A i \in P : Younger(i) = Late(i) /\ Late(i) \in Nat
  <2> SUFFICES ASSUME NEW i \in P PROVE Younger(i) = Late(i) /\ Late(i) \in Nat
    OBVIOUS
  <2>1. Younger(i) = Late(i)
    BY DEF Younger, After
  <2>2. i \in Int
    BY <1>3
  <2> QED BY <1>3, <2>1, <2>2, AfterFinite
<1>6. \A j \in Q : pick[j] \in P /\ pick[j] \notin S /\ snaps'[j] = snaps[pick[j]]
  BY <1>2 DEF Positions
<1>7. ASSUME NEW i \in P, i \notin S, NEW t \in P, t > i
      PROVE  t \notin S
  <2>1. ~(i < k) /\ ~(Late(i) >= Keep)
    BY <1>5, <1>7
  <2>2. Late(t) <= Late(i)
    BY <1>3, <1>7, FewerAfter
  <2>3. Late(t) \in Nat /\ Late(i) \in Nat /\ Younger(t) = Late(t) /\ t \in Int /\ i \in Int
    BY <1>3, <1>5
  <2> HIDE DEF Late
  <2>4. ~(t < k) /\ ~(Younger(t) >= Keep)
    BY <1>7, <2>1, <2>2, <2>3
  <2> QED BY <2>4
<1>8. ASSUME NEW t \in P, t \notin S PROVE \E j \in Q : pick[j] = t
  <2>1. t \in DOMAIN snaps \ S /\ ~snaps[t].zipped
    BY <1>8 DEF Positions
  <2>2. PICK j \in DOMAIN snaps' : pick[j] = t
    BY <1>2, <2>1
  <2>3. ~snaps'[j].zipped
    BY <1>2, <2>1, <2>2
  <2> QED BY <2>2, <2>3
<1>9. \A i, j \in Q : i < j => pick[i] < pick[j]
  BY <1>2
<1> HIDE DEF S
<1>10. ASSUME NEW j \in Q PROVE Cardinality(After(Q, j)) = Late(pick[j])
  <2>1. \A t \in P : t > pick[j] => \E i \in Q : pick[i] = t
    BY <1>6, <1>7, <1>8
  <2>2. \A i \in Q : pick[i] \in P
    BY <1>6
  <2> HIDE DEF P, Q, m, n
  <2>3. Renumbers(pick, Q, P, j)
    BY <1>3, <1>4, <1>9, <2>1, <2>2 DEF Renumbers
  <2> QED BY <2>3, SameNumberAfter
<1>11. Positions' = Q
  BY DEF Positions
<1>12. ASSUME NEW j \in Positions'
       PROVE  \E i \in Positions : Younger(i) = Younger(j)' /\ snaps'[j] = snaps[i]
  <2>1. Younger(j)' = Cardinality({i \in Positions' : i > j})
    BY DEF Younger
  <2>2. {i \in Positions' : i > j} = After(Q, j)
    BY <1>11 DEF After
  <2>3. Younger(j)' = Late(pick[j])
    BY <1>10, <1>11, <2>1, <2>2
  <2> QED BY <1>5, <1>6, <1>11, <2>3
<1>13. Cardinality(Q) <= Keep
  <2>1. CASE Q = {}
    BY <2>1, FS_EmptySet
  <2>2. CASE Q # {}
    <3>1. PICK j \in Q : \A i \in Q : j <= i
      <4>1. Q \in SUBSET Nat
        BY <1>4
      <4> QED BY <2>2, <4>1, Least
    <3>2. Cardinality(Q) = Late(pick[j]) + 1
      BY <1>4, <1>10, <3>1, OneAndThoseAfter
    <3>3. Late(pick[j]) < Keep /\ Late(pick[j]) \in Nat
      BY <1>5, <1>6 DEF S
    <3> HIDE DEF Q, Late
    <3> QED BY <3>2, <3>3
  <2> QED BY <2>1, <2>2
<1> QED BY <1>11, <1>12, <1>13

-----------------------------------------------------------------------------
(* Theorems about the steps *)

\* The deltas of a new snapshot tell what changed since the latest listed one,
\* whatever was created, removed and compressed before (snapshot/manager.py:121).
THEOREM DeltasTell == Spec => DeltasFaithful
<1>1. Init => TypeOK /\ Tombstones
  BY InitInv, InvariantSays DEF Init, Tombstones
<1>2. TypeOK /\ Tombstones /\ [Next]_vars => Tombstones'
  BY NextTold
<1>3. TypeOK /\ Tombstones /\ [Next]_vars
        => [Len(snaps') > Len(snaps) =>
              \A p \in Paths :
                LET old == IF Positions = {} THEN Absent ELSE Latest.files[p]
                    new == Last(snaps').files[p]
                    kind == Last(snaps').deltas[p]
                IN /\ (old = new /\ new # Absent) => kind = "none"
                   /\ (new = Absent /\ old # Absent) => kind = "deleted"
                   /\ (new \notin {Absent, Empty, old}) => kind \in {"new", "changed"}]_vars
  BY NextTold DEF Told, LatestFile
<1> QED BY TypeCorrect, <1>1, <1>2, <1>3, PTL DEF Spec, DeltasFaithful

\* auto_cleanup leaves the newest of the listed snapshots and no more of them than
\* it was told, however many are too old or compressed (snapshot/manager.py:351).
THEOREM CleanupKeeps == Spec => CleanupKeepsNewest
<1>1. TypeOK => [AutoCleanup =>
        /\ \A j \in Positions' : \E i \in Positions :
              Younger(i) = Younger(j)' /\ snaps'[j] = snaps[i]
        /\ Cardinality(Positions') <= Keep]_vars
  BY CleanedUp
<1> QED BY TypeCorrect, <1>1, PTL DEF Spec, CleanupKeepsNewest
=============================================================================
