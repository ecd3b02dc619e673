---------------------------- MODULE ErrorReport ----------------------------
(***************************************************************************)
(* The report of the error-tracking runtime,                               *)
(* _FPC_WRITE_AND_PRINT_TO_JSON_ in FPC_Hashtable_Error.h: both tables are *)
(* walked bin by bin into a log with one row per (file, line) that keeps   *)
(* the errors of the highest clock, and the rows with a file and a line    *)
(* are written as a JSON array; and how fpc_create_report.py loads it.     *)
(*                                                                         *)
(* The report is a function of the tables, so the module adds no variable  *)
(* to ErrorTables: its properties are checked in every state in which the  *)
(* program could end.  The commas, the brackets and the line ends of the   *)
(* output are tokens of one character, since the writer removes its last   *)
(* two characters.  A printed row is one token, with what "%.17e" makes of *)
(* its numbers: digits, from which the double is read back exactly, or the *)
(* bare inf or nan, which is not JSON.  (The clock of a row is kept along, *)
(* though not printed; a name with the word inf or nan between blanks,     *)
(* which the generator would replace too, is left out.)                    *)
(***************************************************************************)
EXTENDS ErrorTables, SequencesExt

CONSTANTS
    NotFinite,  \* errors of which one of the two is an infinity or no number
    Escaped,    \* texts with a quote, a backslash or a control character
    NoLine,     \* line 0: the PHI and parameter hooks have none
    Open, Close, Comma, LineEnd   \* the characters [ ] , and newline

Mark == {Open, Close, Comma, LineEnd}
LogRow == [file: Text, line: Line, err: Err, clock: Nat]
PrintedRow == [row: LogRow, numbers: {"digits", "bare", "words"}]

\* The characters differ, and none is a row.
ASSUME ReportAssumption ==
    /\ Open \notin {Close, Comma, LineEnd} /\ Close \notin {Comma, LineEnd} /\ Comma # LineEnd
    /\ \A c \in Mark : c \notin PrintedRow
    /\ NotFinite \subseteq Err /\ Escaped \subseteq Text

\* Both tables in the order the writer walks them.
BinsInOrder(tab) == FlattenSeq([i \in 1..Size |-> tab[i - 1]])
Entries == BinsInOrder(addrTab) \o BinsInOrder(regTab)

\* A row of the log.
SameRow(row, e) == row.file = e.file /\ row.line = e.line
Row(e) == [file |-> e.file, line |-> e.line, err |-> e.err, clock |-> e.clock]

\* One entry enters the log: an older row of its line is overwritten, a line
\* without a row gets one.
\* NewerAlways is a faulty variant: the entry met last wins.
NewerAlways(row, e) == TRUE
Newer(row, e) == e.clock > row.clock
Enter(log, e) ==
    IF \E i \in DOMAIN log : SameRow(log[i], e)
    THEN [i \in DOMAIN log |->
             IF SameRow(log[i], e) /\ Newer(log[i], e) THEN Row(e) ELSE log[i]]
    ELSE Append(log, Row(e))

ErrorsLog == FoldLeft(Enter, <<>>, Entries)

\* Rows without a file or a line are not written.
Shown(row) == row.file # EmptyText /\ row.line # NoLine
AddShown(rows, row) == IF Shown(row) THEN Append(rows, row) ELSE rows
Written == FoldLeft(AddShown, <<>>, ErrorsLog)

\* The output: "[\n", each row followed by ",\n", then two characters back and
\* "\n]\n" over them.
Printed(row) ==
    [row |-> row, numbers |-> IF row.err \in NotFinite THEN "bare" ELSE "digits"]
PrintRow(out, row) == out \o <<Printed(row), Comma, LineEnd>>
RawJson == FoldLeft(PrintRow, <<Open, LineEnd>>, Written)
Json == SubSeq(RawJson, 1, Len(RawJson) - 2) \o <<LineEnd, Close, LineEnd>>

-----------------------------------------------------------------------------
(* Loading the report.                                                     *)

\* json.loads of an array of rows: where the parser is, and the rows it has
\* read.  A line end is white space.  The names are printed as they are: one
\* that JSON would escape ends the parse or is read as another name.
ParserAt(where, rows) == [at |-> where, rows |-> rows]
Readable(t) == t.numbers # "bare" /\ t.row.file \notin Escaped
Parse(p, t) ==
    CASE t = LineEnd -> p
      [] p.at = "start" /\ t = Open -> ParserAt("first", <<>>)
      [] p.at \in {"first", "item"} /\ t \in PrintedRow /\ Readable(t) ->
             ParserAt("row", Append(p.rows, t.row))
      [] p.at = "row" /\ t = Comma -> ParserAt("item", p.rows)
      [] p.at \in {"first", "row"} /\ t = Close -> ParserAt("end", p.rows)
      [] OTHER -> ParserAt("error", p.rows)
Loads(tokens) == FoldLeft(Parse, ParserAt("start", <<>>), tokens)
Parsed == Loads(Json)

\* sanitizeNonStandardJsonNumbers: inf and nan become the words Infinity and
\* NaN, which json.loads takes.
Sanitize(t) ==
    IF t \in PrintedRow /\ t.numbers = "bare" THEN [t EXCEPT !.numbers = "words"] ELSE t
Sanitized == [i \in DOMAIN Json |-> Sanitize(Json[i])]

\* loadReport: what does not parse is sanitized and parsed again, unless there
\* was nothing to replace.  LoadOnce is a faulty variant without the fallback.
LoadOnce == Parsed
LoadReport == IF Parsed.at = "end" \/ Sanitized = Json THEN Parsed ELSE Loads(Sanitized)

-----------------------------------------------------------------------------
(* Properties.                                                             *)

AllEntries == UNION ({ToSet(addrTab[b]) : b \in Bin} \cup {ToSet(regTab[b]) : b \in Bin})

\* Reference: of each line, the row of its latest entry.
LatestRows ==
    {Row(e) : e \in {x \in AllEntries :
                        /\ x.file # EmptyText /\ x.line # NoLine
                        /\ \A y \in AllEntries : SameRow(y, x) => y.clock <= x.clock}}

\* The report has exactly one row per source line some entry carries, with
\* the errors recorded last for it, in whatever order the bins hold them.
ReportIsLatest == /\ ToSet(Written) = LatestRows
                  /\ Len(Written) = Cardinality(LatestRows)

\* assert(currentEntry < max_entries): the log, allocated from the item counts
\* of the tables, has a free row whenever a line needs one.
LogHasRoom == Len(ErrorsLog) <= addrN + regN

\* The report is JSON, with exactly the rows written and in their order, if and
\* only if there is a row (otherwise the opening bracket is taken back), every
\* number is finite, and every name can stand as it is.  The generator gets the
\* same rows from its trace also if numbers are not finite; if it has no row,
\* or a name that needs escapes, it does not.
NumbersFinite == \A row \in ToSet(Written) : row.err \notin NotFinite
NamesPlain == \A row \in ToSet(Written) : row.file \notin Escaped
RowsParse ==
    /\ Parsed = ParserAt("end", Written) <=> Written # <<>> /\ NamesPlain /\ NumbersFinite
    /\ LoadReport = ParserAt("end", Written) <=> Written # <<>> /\ NamesPlain
=============================================================================
