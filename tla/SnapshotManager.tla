-------------------------- MODULE SnapshotManager --------------------------
(***************************************************************************)
(* fusion_code_modelization/snapshot: SnapshotManager over one project     *)
(* directory.  create, delete, auto_cleanup and compress are one step;     *)
(* restore_snapshot is a step per file it touches, any of which may fail   *)
(* or be the last before a crash, so that what a failure leaves on disk    *)
(* can be seen.  Between operations the user edits the project.            *)
(*                                                                         *)
(* Abstractions: a file is one of a few texts, or Opaque (one that         *)
(* _collect_files skips: not UTF-8, or over _MAX_SCAN_FILE_BYTES); of its  *)
(* line ends there is what reading makes of them; links and directories    *)
(* are left out; a delta is its kind; created_at is the position in the    *)
(* sequence of snapshots.                                                  *)
(***************************************************************************)
EXTENDS Integers, Sequences, SequencesExt

CONSTANTS Paths,         \* the project's files
          Texts,         \* what a readable file may hold
          Newlines,      \* of each text what read_text gives: CRLF and CR are LF
          Empty,         \* the empty one
          Absent,        \* no such file
          Opaque,        \* a file the scan skips
          Broken,        \* the text a failed write leaves behind
          Edits,         \* what the user may make of a file
          MaxSnapshots,  \* bound on the snapshots on disk (not in the code)
          MaxRollbacks,  \* bound on the rollback files on disk (not in the code)
          Keep,          \* the max_snapshots given to auto_cleanup
          None           \* no restore in progress, no answer, no saved copy

ASSUME NewlinesAssumption == Newlines \in [Texts -> Texts]
ASSUME EditsAssumption == Edits \subseteq Texts \cup {Absent, Opaque}
ASSUME KeepAssumption == Keep \in Nat
ASSUME DistinctAssumption ==
    /\ Empty \in Texts
    /\ Absent \notin Texts /\ Opaque \notin Texts /\ Broken \notin Texts
    /\ Absent # Opaque /\ Broken # Absent /\ Broken # Opaque

VARIABLES tree,       \* the project directory
          snaps,      \* the snap_* files, oldest first
          rollbacks,  \* the rollback_* files, oldest first
          restoring,  \* the restore in progress
          answer      \* what the last restore returned, until the next step

vars == <<tree, snaps, rollbacks, restoring, answer>>

Readable == Texts \cup {Broken}
Tree == [Paths -> Readable \cup {Absent, Opaque}]
Files == [Paths -> Readable \cup {Absent}]    \* a dict: Absent is not in it
Kinds == {"none", "new", "changed", "deleted"}
Snapshot == [files : Files, deltas : [Paths -> Kinds], zipped : BOOLEAN]

\* A restore in progress, and what one has returned; before is history.
Restorings == [phase : {"restore", "rollback"}, want : Files,
               delete : SUBSET Paths, write : SUBSET Paths,
               saved : Files \cup {None}, before : Tree]
Answers == [ok : BOOLEAN, want : Files, twice : BOOLEAN,
            saved : Files \cup {None}, before : Tree]

Init ==
    /\ tree \in [Paths -> Edits]
    /\ snaps = <<>>
    /\ rollbacks = <<>>
    /\ restoring = None
    /\ answer = None

\* read_text.  What a write has left was read before.
Read(content) == IF content \in Texts THEN Newlines[content] ELSE content

\* _collect_files: the readable files, as they are read.
Collected(t) == [p \in Paths |-> IF t[p] \in Readable THEN Read(t[p]) ELSE Absent]
In(files) == {p \in Paths : files[p] # Absent}

\* snap_*.json: a compressed snapshot is neither listed nor loaded, and stays
\* where it is.
Positions == {i \in DOMAIN snaps : ~snaps[i].zipped}

Younger(i) == Cardinality({j \in Positions : j > i})

\* The latest one listed.
Latest == snaps[CHOOSE i \in Positions : Younger(i) = 0]

Idle == restoring = None

-----------------------------------------------------------------------------
(* create_snapshot *)

\* Mutant: the latest snapshot's files are not taken, its tombstones are.
PreviousNoFiles ==
    [p \in Paths |-> IF Positions # {} /\ Latest.deltas[p] = "deleted" THEN Empty
                    ELSE Absent]

\* previous_map: the latest listed snapshot's files, and a tombstone (the empty
\* text) for each path its deltas call deleted.
PreviousMap ==
    IF Positions = {} THEN [p \in Paths |-> Absent]
    ELSE [p \in Paths |-> IF Latest.deltas[p] = "deleted" THEN Empty ELSE Latest.files[p]]

DeltaKind(old, new) ==
    IF new = Absent THEN (IF old = Absent THEN "none" ELSE "deleted")
    ELSE IF old = Absent THEN "new"
    ELSE IF old # new THEN "changed" ELSE "none"

CreateSnapshot ==
    /\ Idle
    /\ Len(snaps) < MaxSnapshots
    /\ LET files == Collected(tree) IN
       snaps' = Append(snaps,
           [files  |-> files,
            deltas |-> [p \in Paths |-> DeltaKind(PreviousMap[p], files[p])],
            zipped |-> FALSE])
    /\ answer' = None
    /\ UNCHANGED <<tree, rollbacks, restoring>>

-----------------------------------------------------------------------------
(* restore_snapshot *)

\* Mutant: files that the snapshot does not have are left.
ToDeleteNothing(files) == {}

\* What is still to be deleted and to be written to turn the tree into files.
ToDelete(files) == In(Collected(tree)) \ In(files)

Begin(files) ==
    /\ Idle
    /\ Len(rollbacks) < MaxRollbacks
    /\ \E saved \in {Collected(tree), None} :
         \* saving the rollback may fail: the restore goes on without it
         /\ rollbacks' = IF saved = None THEN rollbacks
                                         ELSE Append(rollbacks, saved)
         /\ restoring' = [phase |-> "restore", want |-> files,
                          delete |-> ToDelete(files), write |-> In(files),
                          saved |-> saved, before |-> tree]
    /\ answer' = None
    /\ UNCHANGED <<tree, snaps>>

RestoreSnapshot == \E i \in Positions : Begin(snaps[i].files)

\* rewind(steps): the listed snapshot that many before the latest.
Rewind(steps) == \E i \in Positions : Younger(i) = steps /\ Begin(snaps[i].files)

\* All deletions come before the first write.
DeleteFile(p) ==
    /\ ~Idle
    /\ p \in restoring.delete
    /\ tree' = [tree EXCEPT ![p] = Absent]
    /\ restoring' = [restoring EXCEPT !.delete = @ \ {p}]
    /\ UNCHANGED <<snaps, rollbacks, answer>>

WriteFile(p) ==
    /\ ~Idle
    /\ restoring.delete = {}
    /\ p \in restoring.write
    /\ tree' = [tree EXCEPT ![p] = restoring.want[p]]
    /\ restoring' = [restoring EXCEPT !.write = @ \ {p}]
    /\ UNCHANGED <<snaps, rollbacks, answer>>

Remaining == restoring.delete \cup restoring.write

Answer(ok, twice) == [ok |-> ok, want |-> restoring.want, twice |-> twice,
                      saved |-> restoring.saved, before |-> restoring.before]

\* Everything is in place: the rollback file is deleted and True returned.
Restored ==
    /\ ~Idle
    /\ restoring.phase = "restore"
    /\ Remaining = {}
    /\ rollbacks' = IF restoring.saved = None THEN rollbacks
                                              ELSE Front(rollbacks)
    /\ answer' = Answer(TRUE, FALSE)
    /\ restoring' = None
    /\ UNCHANGED <<tree, snaps>>

\* An unlink or a write raises: the file is as it was, or cut short, perhaps
\* within a character.
Spoilt ==
    \/ tree' = tree
    \/ /\ restoring.delete = {}
       /\ \E p \in restoring.write, cut \in {Broken, Opaque} : tree' = [tree EXCEPT ![p] = cut]

\* _rollback_from looks for a rollback snapshot with a non-empty files dict.
UsableRollback == restoring.saved # None /\ In(restoring.saved) # {}

\* Mutants of RollBack: only writes, so what the restore added stays; the rollback
\* file is deleted once it is loaded.
RollBackWritesOnly ==
    /\ ~Idle
    /\ restoring.phase = "restore"
    /\ UsableRollback
    /\ Spoilt
    /\ restoring' = [restoring EXCEPT
           !.phase = "rollback", !.want = restoring.saved,
           !.write = In(restoring.saved), !.delete = {}]
    /\ UNCHANGED <<snaps, rollbacks, answer>>
RollBackDropsFile ==
    /\ ~Idle
    /\ restoring.phase = "restore"
    /\ UsableRollback
    /\ Spoilt
    /\ LET back == restoring.saved IN
       restoring' = [restoring EXCEPT
           !.phase = "rollback", !.want = back, !.write = In(back),
           !.delete = In(Collected(tree')) \ In(back)]
    /\ rollbacks' = Front(rollbacks)
    /\ UNCHANGED <<snaps, answer>>

\* The failure of a restore that has a usable rollback turns it into one that
\* puts the saved files back.  When nothing remains it is the deletion of the
\* rollback file that raised.
RollBack ==
    /\ ~Idle
    /\ restoring.phase = "restore"
    /\ UsableRollback
    /\ Spoilt
    /\ LET back == restoring.saved IN
       restoring' = [restoring EXCEPT
           !.phase = "rollback", !.want = back, !.write = In(back),
           !.delete = In(Collected(tree')) \ In(back)]
    /\ UNCHANGED <<snaps, rollbacks, answer>>

\* No usable rollback ("manual recovery needed"): False is returned.
GiveUp ==
    /\ ~Idle
    /\ restoring.phase = "restore"
    /\ ~UsableRollback
    /\ Spoilt
    /\ answer' = Answer(FALSE, FALSE)
    /\ restoring' = None
    /\ UNCHANGED <<snaps, rollbacks>>

\* The rollback is done; its file is kept.
RolledBack ==
    /\ ~Idle
    /\ restoring.phase = "rollback"
    /\ Remaining = {}
    /\ answer' = Answer(FALSE, FALSE)
    /\ restoring' = None
    /\ UNCHANGED <<tree, snaps, rollbacks>>

\* "rollback itself failed": a second failure is only logged.
RollbackFails ==
    /\ ~Idle
    /\ restoring.phase = "rollback"
    /\ Remaining # {}
    /\ Spoilt
    /\ answer' = Answer(FALSE, TRUE)
    /\ restoring' = None
    /\ UNCHANGED <<snaps, rollbacks>>

\* The process dies in the middle of a restore or of its rollback.
Crash ==
    /\ ~Idle
    /\ Spoilt
    /\ answer' = Answer(FALSE, TRUE)
    /\ restoring' = None
    /\ UNCHANGED <<snaps, rollbacks>>

-----------------------------------------------------------------------------
(* The rest of the manager, and the user *)

\* The files at the positions S are removed: pick numbers the others in order.
Drop(S) ==
    LET kept == DOMAIN snaps \ S
    IN  \E pick \in [1 .. Cardinality(kept) -> kept] :
          /\ \A j, k \in DOMAIN pick : j < k => pick[j] < pick[k]
          /\ snaps' = [k \in DOMAIN pick |-> snaps[pick[k]]]

DeleteSnapshot ==
    /\ Idle
    /\ \E i \in Positions : Drop({i})
    /\ answer' = None
    /\ UNCHANGED <<tree, rollbacks, restoring>>

\* Mutant: the limit counts from the wrong end of the list.
AutoCleanupOldest ==
    /\ Idle
    /\ \E aged \in {{i \in Positions : i < k} : k \in 1 .. Len(snaps) + 1} :
         Drop(aged \cup
             {i \in Positions : Cardinality({j \in Positions : j < i}) >= Keep})
    /\ answer' = None
    /\ UNCHANGED <<tree, rollbacks, restoring>>

\* auto_cleanup: the snapshots older than max_age_days are a prefix of the
\* list; of the others, the oldest go until max_snapshots are left.
AutoCleanup ==
    /\ Idle
    /\ \E aged \in {{i \in Positions : i < k} : k \in 1 .. Len(snaps) + 1} :
         Drop(aged \cup {i \in Positions : Younger(i) >= Keep})
    /\ answer' = None
    /\ UNCHANGED <<tree, rollbacks, restoring>>

CompressSnapshot ==
    /\ Idle
    /\ \E i \in Positions : snaps' = [snaps EXCEPT ![i].zipped = TRUE]
    /\ answer' = None
    /\ UNCHANGED <<tree, rollbacks, restoring>>

Edit(p) ==
    /\ Idle
    /\ \E e \in Edits \ {tree[p]} : tree' = [tree EXCEPT ![p] = e]
    /\ answer' = None
    /\ UNCHANGED <<snaps, rollbacks, restoring>>

Next ==
    \/ CreateSnapshot
    \/ RestoreSnapshot
    \/ \E steps \in 1 .. MaxSnapshots : Rewind(steps)
    \/ \E p \in Paths : DeleteFile(p) \/ WriteFile(p)
    \/ Restored \/ RollBack \/ GiveUp \/ RolledBack \/ RollbackFails
    \/ Crash
    \/ DeleteSnapshot \/ AutoCleanup \/ CompressSnapshot
    \/ \E p \in Paths : Edit(p)

Spec == Init /\ [][Next]_vars

-----------------------------------------------------------------------------
(* Properties *)

\* Types of the manager's state (Snapshot and FileDelta in delta.py).
TypeOK ==
    /\ tree \in Tree
    /\ snaps \in Seq(Snapshot)
    /\ rollbacks \in Seq(Files)
    /\ restoring \in Restorings \cup {None}
    /\ answer \in Answers \cup {None}

\* The tree has these files, with these very texts, and no other that the scan reads.
Holds(files) ==
    \A p \in Paths : IF files[p] = Absent THEN tree[p] \notin Readable ELSE tree[p] = files[p]

\* When restore_snapshot returns True the readable files of the project are
\* those of the snapshot: every one of them with the text that the snapshot
\* has, and no other ("restore each historical state exactly").
RestoreExact == answer # None /\ answer.ok => Holds(answer.want)

\* When it returns False after one failure, with a rollback that was saved and
\* is not empty, the files that could be read before are there again as the
\* scan read them, which need not be with their own line ends, and no other
\* can be read (manager.py:47,229,261).
FailureUndone ==
    ( /\ answer # None
      /\ ~answer.ok /\ ~answer.twice
      /\ answer.saved # None /\ In(answer.saved) # {} )
    => Holds(Collected(answer.before))

\* From the moment a rollback is saved until the restore has returned True,
\* through failures of the restore, of its rollback and crashes, the readable
\* files of the project before the restore are on disk in the newest rollback.
BeforeRecoverable ==
    \A r \in {restoring, answer} \ {None} :
        (r.saved # None /\ (r = answer => ~r.ok))
        => rollbacks # <<>> /\ Last(rollbacks) = Collected(r.before)

\* The deltas of a new snapshot tell what changed since the latest listed one:
\* none for a file that is the same, one for each that differs (a deleted
\* file that is created again empty is the exception: it gets no delta).
DeltasFaithful ==
    [][Len(snaps') > Len(snaps) =>
        \A p \in Paths :
          LET old == IF Positions = {} THEN Absent ELSE Latest.files[p]
              new == Last(snaps').files[p]
              kind == Last(snaps').deltas[p]
          IN /\ (old = new /\ new # Absent) => kind = "none"
             /\ (new = Absent /\ old # Absent) => kind = "deleted"
             /\ (new \notin {Absent, Empty, old}) => kind \in {"new", "changed"}
      ]_vars

\* auto_cleanup leaves the newest snapshots, at most as many as it was told: the
\* listed ones that are left are, counted from the newest, those that were listed.
CleanupKeepsNewest ==
    [][AutoCleanup =>
        /\ \A j \in Positions' : \E i \in Positions :
              Younger(i) = Younger(j)' /\ snaps'[j] = snaps[i]
        /\ Cardinality(Positions') <= Keep]_vars

=============================================================================
