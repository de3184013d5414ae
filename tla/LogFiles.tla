------------------------------ MODULE LogFiles ------------------------------
(***************************************************************************)
(* A log of JSON lines with its rotated files, as audit and trace keep it: *)
(* a function from the numbers of the files that exist to their lines.     *)
(* File 0 is the current one, file k was rotated k times.                  *)
(*                                                                         *)
(* A rotation is the directories that it goes through, one more for each   *)
(* file that it removes or renames, and the one that it ends with: it may  *)
(* stop in any of them.                                                    *)
(***************************************************************************)
EXTENDS JsonLines, Functions

Exists(dir, k) == k \in DOMAIN dir

Unlink(dir, k) == Restrict(dir, DOMAIN dir \ {k})

\* size lines make a file that is full; the code counts bytes.
Full(dir, size) == Exists(dir, 0) /\ Len(dir[0]) >= size

\* The directory once the files from .. n - 1 have been renamed, the last of them
\* first; file n is replaced if file n - 1 exists.
MovedUp(dir, from, n) ==
    LET moved == {k \in DOMAIN dir : from <= k /\ k < n}
    IN  [k \in (DOMAIN dir \ moved) \cup {j + 1 : j \in moved} |->
            IF k - 1 \in moved THEN dir[k - 1] ELSE dir[k]]

Rotation(through, end) == [through |-> through, end |-> end]

\* Mutant: the loop begins one file too early.
RotateTooFew(dir, n) == Rotation({dir}, MovedUp(dir, 0, n - 1))

\* AuditStore._rotate_if_needed: when there is a file to replace it, the oldest
\* one goes; then the others move up, and the current file last.
Rotate(dir, n) ==
    LET freed == IF Exists(dir, n - 1) /\ n > 1 THEN {Unlink(dir, n)} ELSE {}
    IN  Rotation({MovedUp(dir, k, n) : k \in 1 .. n} \cup freed, MovedUp(dir, 0, n))

\* TraceStore._maybe_rotate: when the last file goes, the one before it stays
\* in its place and is replaced.
RotateTrace(dir, n) ==
    LET freed == Unlink(dir, n)
        top == IF Exists(dir, n) THEN n - 1 ELSE n
    IN  Rotation({dir} \cup {MovedUp(freed, k, top) : k \in 0 .. top},
                 MovedUp(freed, 0, top))

NoRotation(dir) == Rotation({}, dir)

\* The current file as it is opened for appending.
Current(dir) == IF Exists(dir, 0) THEN dir[0] ELSE <<>>

WithCurrent(dir, lines) ==
    [k \in DOMAIN dir \cup {0} |-> IF k = 0 THEN lines ELSE dir[k]]

\* An entry is appended behind a rotation ...
Appended(rotation, entry) ==
    WithCurrent(rotation.end, AppendLine(Current(rotation.end), entry))

\* ... or the rotation stops, or the write is cut short.
Interrupted(rotation, entry) ==
    rotation.through \cup {rotation.end} \cup
    {WithCurrent(rotation.end, lines) : lines \in CutShort(Current(rotation.end), entry)}

EntriesIn(dir) == UNION {Found(dir[k]) : k \in DOMAIN dir}
=============================================================================
