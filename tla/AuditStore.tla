------------------------------ MODULE AuditStore ------------------------------
(***************************************************************************)
(* fusion_code_modelization/audit: AuditStore and the AuditLogger over it, *)
(* as the processes of a machine use it in turn.  An operation may stop    *)
(* after any of the changes it makes to the directory: its process dies,   *)
(* or an OSError ends it.                                                  *)
(*                                                                         *)
(* Abstractions: an entry is its number in the order of logging, which     *)
(* stands for its timestamp; files are compared by their numbers of lines; *)
(* texts are ASCII; searches and reports only read.                        *)
(***************************************************************************)
EXTENDS LogFiles, FiniteSets

CONSTANTS MaxFiles,   \* _max_files
          FileLines,  \* the lines that make a file full
          MaxEntries, \* bound on the entries logged (the code has none)
          MaxStops    \* bound on the operations that stop halfway

ASSUME AuditAssumption == /\ MaxFiles \in 1 .. 10 /\ FileLines \in Nat \ {0}
                          /\ MaxEntries \in Nat /\ MaxStops \in Nat

VARIABLES audit,     \* audit.jsonl and its rotated files
          clock,     \* how many entries have been made
          logged,    \* those whose append came to its end
          cutoff,    \* entries below it may have been cleaned up
          stops,     \* how many appends have stopped halfway
          cleanups   \* how many cleanups have stopped halfway

auditVars == <<audit, clock, logged, cutoff, stops, cleanups>>

AuditInit == /\ audit = [k \in {} |-> <<>>]
             /\ clock = 0
             /\ logged = {}
             /\ cutoff = 1
             /\ stops = 0
             /\ cleanups = 0

MayStop == stops + cleanups < MaxStops
RoomForEntry == clock < MaxEntries

\* log_operation: append, with the rotation before it.
LogOperation ==
    LET entry == clock + 1
        rotation == IF Full(audit, FileLines) THEN Rotate(audit, MaxFiles)
                                             ELSE NoRotation(audit)
    IN  /\ clock' = entry
        /\ \/ /\ audit' = Appended(rotation, entry)
              /\ logged' = logged \cup {entry}
              /\ UNCHANGED stops
           \/ /\ MayStop
              /\ audit' \in Interrupted(rotation, entry)
              /\ stops' = stops + 1
              /\ UNCHANGED logged
        /\ UNCHANGED <<cutoff, cleanups>>

\* The rotated files in the reverse order of their names.
ByName == <<9, 8, 7, 6, 5, 4, 3, 2, 10, 1>>

\* read_all: the current file, and the rotated ones that there are.
ReadAll ==
    LET Read(k) == IF Exists(audit, k) THEN Entries(audit[k]) ELSE <<>>
        upto[n \in 0 .. Len(ByName)] ==
            IF n = 0 THEN Read(0) ELSE upto[n - 1] \o Read(ByName[n])
    IN  upto[Len(ByName)]

\* Those that are to be kept.
KeptFrom(entries, from) == Picked(entries, {n \in DOMAIN entries : entries[n] >= from})

Rewritten(entries) == [k \in DOMAIN entries |-> Line(<<entries[k]>>, TRUE)]

\* Mutant: the rotated files stay.
CleanupKeepsFiles(from) ==
    LET read == ReadAll
        kept == KeptFrom(read, from)
    IN  /\ Len(kept) < Len(read)
        /\ audit' = WithCurrent(audit, Rewritten(kept))
        /\ cutoff' = (IF from > cutoff THEN from ELSE cutoff)
        /\ UNCHANGED <<clock, logged, stops, cleanups>>

\* cleanup and _rewrite: the current file is replaced by what is kept, then
\* the rotated files go, in the order of the directory.
Cleanup(from) ==
    LET read == ReadAll
        kept == KeptFrom(read, from)
        replaced == WithCurrent(audit, Rewritten(kept))
    IN  /\ Len(kept) < Len(read)
        /\ cutoff' = (IF from > cutoff THEN from ELSE cutoff)
        /\ \/ /\ audit' = Restrict(replaced, {0})
              /\ UNCHANGED cleanups
           \/ /\ MayStop
              /\ audit' \in {Restrict(replaced, {0} \cup left) :
                               left \in SUBSET (DOMAIN audit \ {0})}
              /\ cleanups' = cleanups + 1
        /\ UNCHANGED <<clock, logged, stops>>
=============================================================================
