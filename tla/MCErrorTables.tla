--------------------------- MODULE MCErrorTables ---------------------------
(***************************************************************************)
(* A small instance of ErrorTables and ErrorReport: two bins, three        *)
(* addresses (two of them in one bin), one register of each of two         *)
(* functions in the other table, no line and line 7, a file whose name     *)
(* JSON takes and one whose name would need escapes, errors with finite    *)
(* numbers and without, and a cache whose slots the pointers share or not. *)
(***************************************************************************)
EXTENDS ErrorReport

\* Two function-name pointers and two file names, the second with a quote.
MCContent == [p \in Ptr |-> CASE p = "pf" -> "f" [] p = "pg" -> "g"
                              [] p = "pfile" -> "file.c" [] p = "podd" -> "odd.c"]

\* File names and function names never share a slot; the two functions do,
\* and so do the two file names.
MCSlotsApart == [p \in Ptr |-> IF p \in {"pf", "pg"} THEN 1 ELSE 2]

\* One file name falls on the slot of a function name.
MCSlotsShared == [p \in Ptr |-> IF p \in {"pf", "pfile"} THEN 1 ELSE 2]

\* Every name fits in 511 characters.
MCShort == [t \in Text |-> t]

\* The name of g does not.
MCLong == [t \in Text |-> IF t = "g" THEN "g511" ELSE t]

\* The registers of both functions share bin 1.
MCRegHash == [k \in RegKey |-> IF k \in {<<"r", "f">>, <<"r", "g">>} THEN 1 ELSE 0]
=============================================================================
