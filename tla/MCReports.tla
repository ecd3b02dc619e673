----------------------------- MODULE MCReports -----------------------------
(***************************************************************************)
(* What becomes of a result: a check of every operation of small formats;  *)
(* and the reports of two processes that end in any order while the        *)
(* generator is given a command or two.                                    *)
(***************************************************************************)
EXTENDS EventChecks, ReportGenerator

MCSpecial == [fp32 |-> 5, fp64 |-> 7]
MCEvents == <<"infinity_pos", "nan">>
MCIdOwn == [p1 |-> "host_1", p2 |-> "host_2"]
MCIdReused == [p1 |-> "host_1", p2 |-> "host_1"]

Item(file, line, inf, nan, e32, e64) ==
    [input |-> "none", file |-> file, line |-> line,
     counts |-> [infinity_pos |-> inf, nan |-> nan],
     exponents |-> [fp32 |-> e32, fp64 |-> e64]]
Exceptions(input, exps, items) ==
    [runtime |-> "exceptions", input |-> input, usage |-> exps,
     items |-> [n \in DOMAIN items |-> [items[n] EXCEPT !.input = input]]]
ErrorJob(rows, series_) == [runtime |-> "errors", errors |-> rows, series |-> series_]
Row(line, error, relative) == [file |-> "a.c", line |-> line, error |-> error, relative |-> relative]

\* Items of one line in two processes, of two files, and without an event, with
\* the least and the largest exponents; rows with errors of both signs and none
\* that is a number; and runs that have recorded nothing.
MCJob ==
    {Exceptions("./a 1", FALSE, <<Item("a.c", 1, 1, 0, <<>>, <<>>), Item("a.c", 3, 0, 2, <<>>, <<>>)>>),
     Exceptions("./a 2", TRUE, <<Item("a.c", 1, 1, 1, 0 :> 2 @@ 1 :> 1 @@ 128 :> 1, <<>>),
                                 Item("b.c", 2, 0, 0, 127 :> 1, 0 :> 1 @@ 2046 :> 1)>>),
     Exceptions("./a 3", FALSE, <<Item("b.c", 4, 0, 1, <<>>, <<>>)>>),
     Exceptions("./a 4", FALSE, <<Item("r.c", 1, 1, 0, <<>>, <<>>)>>),
     ErrorJob(<<Row(1, -5, 1), Row(3, Nan, 2)>>, <<[line |-> 1, values |-> <<1, 2>>]>>),
     ErrorJob(<<Row(1, 3, 2)>>, <<[line |-> 0, values |-> <<4>>], [line |-> 1, values |-> <<3>>]>>),
     ErrorJob(<<>>, <<>>)}

\* One part of the model stands still while the other runs.
MCInit ==
    \/ /\ EInit /\ NothingYet /\ command = "off"
       /\ job = [p \in Proc |-> ErrorJob(<<>>, <<>>)] /\ done = [p \in Proc |-> 4]
    \/ RInit /\ fast = FALSE /\ usage = FALSE /\ call = NoCall /\ saved = NotSaved
MCNext ==
    \/ command = "off" /\ ENext /\ UNCHANGED rvars
    \/ command # "off" /\ RNext /\ UNCHANGED <<fast, usage, call, saved>>
MCSpec == MCInit /\ [][MCNext]_<<rvars, fast, usage, call, saved>>
=============================================================================
