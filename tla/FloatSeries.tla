---------------------------- MODULE FloatSeries ----------------------------
(***************************************************************************)
(* The series of relative errors of the lines in FPC_SAVE_LINE_ERRORS: the *)
(* filter of Runtime_error.h and the hash table with linear probing of     *)
(* FPC_FloatSeries_List.h.  A slot is empty while its list is; an empty    *)
(* slot has key 0 (calloc), which is also a legal key.  Nothing is ever    *)
(* removed.                                                                *)
(***************************************************************************)
EXTENDS Integers, Sequences, FiniteSets

CONSTANTS
    Line,       \* the lines hooks run on
    Keep,       \* _FPC_LINES_TO_KEEP_, up to its end mark
    Val,        \* relative errors
    Size,       \* HASH_TABLE_SIZE
    MaxValues   \* bound: values recorded

ASSUME SeriesAssumption ==
    /\ Line \subseteq Nat /\ Keep \subseteq Int
    /\ Size \in Nat \ {0} /\ MaxValues \in Nat

VARIABLES table, count  \* the slots; hooks that have run

vars == <<table, count>>

Index == 0..(Size - 1)
Empty(i) == table[i].vals = <<>>

Init == table = [i \in Index |-> [key |-> 0, vals |-> <<>>]] /\ count = 0

\* The slot a line's probe visits after d others.
Probe(l, d) == (l + d) % Size

\* Where the probe stops: at the key, or at an empty slot.
\* StopsEmpty is a faulty variant: it walks past the key.
StopsEmpty(l) == {d \in Index : Empty(Probe(l, d))}
Stops(l) == {d \in Index : table[Probe(l, d)].key = l \/ Empty(Probe(l, d))}
First(S) == CHOOSE d \in S : \A e \in S : d <= e
SlotOf(l) == Probe(l, First(Stops(l)))

\* FPC_append_value: a line that finds no slot is dropped, and the caller does
\* not look at the result.
\* AppendAtHead is a faulty variant: the list is built backwards.
AppendAtHead(l, v) ==
    table' = IF Stops(l) = {} THEN table
             ELSE [table EXCEPT ![SlotOf(l)] = [key |-> l, vals |-> <<v>> \o @.vals]]
AppendValue(l, v) ==
    table' = IF Stops(l) = {} THEN table
             ELSE [table EXCEPT ![SlotOf(l)] = [key |-> l, vals |-> Append(@.vals, v)]]

\* FPC_APPEND_ERROR_LOG_ENTRY.
LogEntry(l, v) ==
    /\ count < MaxValues /\ count' = count + 1
    /\ IF l \in Keep THEN AppendValue(l, v) ELSE UNCHANGED table

Next == \E l \in Line, v \in Val : LogEntry(l, v)

Spec == Init /\ [][Next]_vars
-----------------------------------------------------------------------------
\* FPC_series_to_json: a row for every slot that has values.
Rows == {table[i] : i \in {j \in Index : ~Empty(j)}}

\* FPC_print_series: the values of a line.
Series(l) == IF Stops(l) = {} THEN <<>> ELSE table[SlotOf(l)].vals
-----------------------------------------------------------------------------
(* Properties.                                                             *)

\* Types; only lines of the list get a row.
TypeOK == /\ table \in [Index -> [key: Int, vals: Seq(Val)]]
          /\ count \in 0..MaxValues
          /\ \A row \in Rows : row.key \in Keep \cap Line

\* Every slot in use is the one its line's probe stops at, so that a line has
\* at most one row in the JSON file and a lookup finds it, however collisions
\* have displaced the lines.
EachLineOneSlot == \A i \in Index : ~Empty(i) => SlotOf(table[i].key) = i

\* The table implements SeriesLog: the values of every line are there, in the
\* order they were recorded, while no more lines than slots are in use.
Log == INSTANCE SeriesLog WITH Room <- Size, log <- [l \in Line |-> Series(l)]
ImplementsLog == Log!Spec
=============================================================================
