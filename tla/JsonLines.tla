------------------------------ MODULE JsonLines ------------------------------
(***************************************************************************)
(* A file of JSON lines as agent_comm, audit and trace keep it: opened for *)
(* appending, one entry and a newline at a time, read line by line with    *)
(* the lines that do not parse left out.                                   *)
(*                                                                         *)
(* A line has at most one entry.  The last line may lack its newline: then *)
(* the next entry ends up on the same line, and neither of them parses.    *)
(***************************************************************************)
EXTENDS Selection, Sequences, SequencesExt

Line(entries, ended) == [entries |-> entries, ended |-> ended]

Unended(file) == file # <<>> /\ ~Last(file).ended

\* Mutant: the file is opened for writing.
AppendLineAnew(file, entry) == <<Line(<<entry>>, TRUE)>>

\* f.write(json.dumps(entry) + "\n")
AppendLine(file, entry) ==
    IF Unended(file) THEN Append(Front(file), Line(<<>>, TRUE))
                     ELSE Append(file, Line(<<entry>>, TRUE))

\* The same, cut short by a crash or a full disk: nothing is there, part of
\* the entry is, or all of it but the newline.
CutShort(file, entry) ==
    {file} \cup
    IF Unended(file) THEN {Append(Front(file), Line(<<>>, FALSE))}
                     ELSE {Append(file, Line(<<>>, FALSE)),
                           Append(file, Line(<<entry>>, FALSE))}

\* The lines that parse, and what a reader finds on such lines, in order.
Parsed(file) == {k \in DOMAIN file : file[k].entries # <<>>}
EntriesAt(file, S) == [i \in DOMAIN InOrder(S) |-> Head(file[InOrder(S)[i]].entries)]

\* The entries that a reader of the file finds.
Entries(file) == EntriesAt(file, Parsed(file))
Found(file) == {Head(file[k].entries) : k \in Parsed(file)}
=============================================================================
