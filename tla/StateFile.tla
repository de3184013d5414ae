------------------------------ MODULE StateFile ------------------------------
(***************************************************************************)
(* A JSON file that a component reads whole when it is made and writes     *)
(* whole with Path.write_text, which truncates the file before it writes:  *)
(* a crash in between leaves a file that does not parse.                   *)
(***************************************************************************)

Absent == [form |-> "absent", data |-> <<>>]
Torn == [form |-> "torn", data |-> <<>>]
Whole(data) == [form |-> "whole", data |-> data]

Files(Data) == {Absent, Torn} \cup {Whole(data) : data \in Data}

\* A file that is missing or does not parse is taken for an empty one.
Contents(file) == file.data
=============================================================================
