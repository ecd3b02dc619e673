-------------------------- MODULE ReportGenerator --------------------------
(***************************************************************************)
(* From the processes of a run to its report.  A process writes its traces *)
(* when it ends (FPC_Hashtable.h, FPC_Hashtable_Error.h and                *)
(* FPC_FloatSeries_List.h); fpc_create_report.py finds the traces of each  *)
(* group, loads them one by one into its tables, and replaces the report.  *)
(* Nothing keeps processes from writing meanwhile.                         *)
(***************************************************************************)
EXTENDS SequencesExt

CONSTANTS
    Proc,           \* processes, which run side by side
    Id,             \* [Proc -> host and pid], the names of their traces
    Job,            \* what a process may have recorded when it ends
    Events,         \* kinds of events, in the order of the report's template
    File,           \* source files
    Relative,       \* those with a relative name
    Lengths,        \* lines a source may have when the report is made; 0: gone
    MaxReports,     \* bound on reports asked for
    MaxOthers       \* bound on queries and removals

Nan == -99          \* an error that is not a number
Width == {"fp32", "fp64"}

\* What a run records: items of its own input with the counts of events and of
\* exponents, which are there because they have been seen; or rows and series.
IsCounts(c) ==
    IsFiniteSet(DOMAIN c) /\ DOMAIN c \subseteq Nat /\ \A e \in DOMAIN c : c[e] \in Nat \ {0}
IsItem(i) ==
    /\ DOMAIN i = {"input", "file", "line", "counts", "exponents"}
    /\ i.file \in File /\ i.line \in Int /\ i.counts \in [ToSet(Events) -> Nat]
    /\ \A w \in Width : IsCounts(i.exponents[w])
IsJob(j) ==
    \/ /\ j.runtime = "exceptions" /\ j.usage \in BOOLEAN
       /\ j.items \in Seq(ToSet(j.items))
       /\ \A i \in ToSet(j.items) : IsItem(i) /\ i.input = j.input
    \/ /\ j.runtime = "errors"
       /\ j.errors \in Seq([file : File, line : Int, error : Int, relative : Int])
       /\ j.series \in Seq([line : Int, values : Seq(Int)])

ASSUME ReportAssumption ==
    IsFiniteSet(Proc) /\ IsFiniteSet(File) /\ \A j \in Job : IsJob(j)

VARIABLES
    job,            \* [Proc -> Job]
    done,           \* [Proc -> Nat], file operations it has done
    trace,          \* [group -> [id -> rows]], the trace files
    command,        \* what the generator is making
    given,          \* commands given: reports and others
    walks,          \* groups it has still to look for
    found,          \* [group -> ids of traces], those it has still to load
    events,         \* [kind -> [File -> sequence of <<line, count>>]]
    inputs,         \* [kind -> program inputs]
    bins,           \* [width -> [decimal exponent -> Nat]], those not 0
    usedBy,         \* [width -> [File -> Nat]], exponents counted in a file
    errors,         \* [File -> [lines -> <<error, relative error>>]]
    series,         \* [lines -> errors of that line]
    report,         \* the report directory
    screen,         \* what the last command has printed
    before          \* [group -> processes that had written theirs when the command was given]

procs == <<job, done, trace>>
data == <<events, inputs, bins, usedBy, errors, series>>
rvars == <<procs, data, command, given, walks, found, report, screen, before>>

Group == <<"events", "usage", "errors", "series">>
Absent == [status |-> "absent", rows |-> <<>>]
Partial == [status |-> "partial", rows |-> <<>>]
Complete(rows) == [status |-> "complete", rows |-> rows]
Garbled == [status |-> "garbled", rows |-> <<>>]    \* closed, but not JSON
NoPage == [status |-> "none"]
Put(f, key, value) == [k \in DOMAIN f \cup {key} |-> IF k = key THEN value ELSE f[k]]
Lookup(f, key, default) == IF key \in DOMAIN f THEN f[key] ELSE default
-----------------------------------------------------------------------------
(* Loops over items and rows.                                              *)

IsEmpty(item) == \A k \in ToSet(Events) : item.counts[k] = 0

AddEvents(t, r) ==
    [k \in DOMAIN t |-> IF r.counts[k] = 0 THEN t[k]
                        ELSE [t[k] EXCEPT ![r.file] = Append(@, <<r.line, r.counts[k]>>)]]
AddInput(t, r) ==
    [k \in DOMAIN t |-> IF r.counts[k] = 0 THEN t[k] ELSE t[k] \cup {r.input}]

\* floor(log10(2) * e)
Decimal(e) == (30103 * e) \div 100000

AddExponents(t, r) ==
    [w \in Width |->
        LET c == r.exponents[w]
            Of10(d) == {e \in DOMAIN c : Decimal(e) = d}
        IN  [d \in DOMAIN t[w] \cup {Decimal(e) : e \in DOMAIN c} |->
                Lookup(t[w], d, 0) + SumFunction([e \in Of10(d) |-> c[e]])]]
AddUse(t, r) ==
    [w \in Width |-> [t[w] EXCEPT ![r.file] = @ + SumFunction(r.exponents[w])]]

Abs(e) == IF e < 0 THEN -e ELSE e
Exceeds(a, b) == a # Nan /\ b # Nan /\ a > b

\* The rows of a line are merged: the error of the row whose magnitude exceeds
\* the stored error, which has a sign, and the largest relative error.
MergeError(old, r) ==
    <<IF r.error # Nan /\ Abs(r.error) > old[1] THEN r.error ELSE old[1],
      IF Exceeds(r.relative, old[2]) THEN r.relative ELSE old[2]>>
AddError(t, r) ==
    [t EXCEPT ![r.file] = Put(@, r.line, MergeError(Lookup(@, r.line, <<0, 0>>), r))]

AddSeries(t, r) == Put(t, r.line, Lookup(t, r.line, <<>>) \o r.values)

\* What a loop over items or rows makes of one more: the writer skips items
\* without an event; the loaders add to their tables.
Step(loop, t, r) ==
    CASE loop = "write" -> IF IsEmpty(r) THEN t ELSE Append(t, r)
      [] loop = "events" -> AddEvents(t, r)
      [] loop = "inputs" -> AddInput(t, r)
      [] loop = "bins" -> AddExponents(t, r)
      [] loop = "usedBy" -> AddUse(t, r)
      [] loop = "errors" -> AddError(t, r)
      [] loop = "series" -> AddSeries(t, r)
Loop(loop, t, rows) == FoldLeft(LAMBDA s, r : Step(loop, s, r), t, rows)
-----------------------------------------------------------------------------
(* The traces of a process.                                                *)

Bias == [fp32 |-> 127, fp64 |-> 1023]
\* Counts by exponent; exponents in an item have their bias.
Unbiased(counts) ==
    [w \in Width |-> [e \in {b - Bias[w] : b \in DOMAIN counts[w] \ {0}} |-> counts[w][e + Bias[w]]]]

\* Rows of events for the items that have one, of exponents for all of them,
\* without the exponent 0; a job of the error runtime has its rows as they are.
TraceRows(j, group) ==
    CASE group = "events" -> Loop("write", <<>>, j.items)
      [] group = "usage" ->
            [n \in DOMAIN j.items |-> [j.items[n] EXCEPT !.exponents = Unbiased(@)]]
      [] OTHER -> j[group]

\* The files a process opens and closes: both traces of the exception runtime
\* at once, those of the error runtime one after the other.
Operations(j) ==
    IF j.runtime = "exceptions"
    THEN IF j.usage
         THEN <<<<"open", "events">>, <<"open", "usage">>, <<"close", "events">>, <<"close", "usage">>>>
         ELSE <<<<"open", "events">>, <<"close", "events">>>>
    ELSE <<<<"open", "errors">>, <<"close", "errors">>, <<"open", "series">>, <<"close", "series">>>>

\* Closing takes the comma back behind the last row of an error trace, and the
\* opening bracket if there is no row.  A file removed meanwhile stays removed.
AfterStep(p, step, old) ==
    IF step[1] = "open" THEN Partial
    ELSE IF old = Absent THEN Absent
    ELSE IF step[2] = "errors" /\ job[p].errors = <<>> THEN Garbled
    ELSE Complete(TraceRows(job[p], step[2]))

\* A process that stops here for ever has been killed.  Its name is in use
\* until then: no other process of that name writes at the same time.
Write(p) ==
    /\ done[p] < Len(Operations(job[p]))
    /\ LET step == Operations(job[p])[done[p] + 1]
       IN  trace' = [trace EXCEPT ![step[2]][Id[p]] = AfterStep(p, step, @)]
    /\ done' = [done EXCEPT ![p] = @ + 1]
    /\ UNCHANGED <<job, data, command, given, walks, found, report, screen, before>>
-----------------------------------------------------------------------------
(* Loading.                                                                *)

\* LoadEventsOfLast is a faulty variant: a trace's events of a file replace those
\* of the traces before it.
LoadEventsOfLast(rows) ==
    /\ events' = Loop("events", [k \in DOMAIN events |-> [f \in File |->
                                   IF \E r \in ToSet(rows) : r.file = f /\ r.counts[k] # 0
                                   THEN <<>> ELSE events[k][f]]], rows)
    /\ inputs' = Loop("inputs", inputs, rows)
    /\ UNCHANGED <<bins, usedBy, errors, series>>

LoadEvents(rows) ==
    /\ events' = Loop("events", events, rows) /\ inputs' = Loop("inputs", inputs, rows)
    /\ UNCHANGED <<bins, usedBy, errors, series>>

LoadExponentUsageTraces(rows) ==
    /\ bins' = Loop("bins", bins, rows) /\ usedBy' = Loop("usedBy", usedBy, rows)
    /\ UNCHANGED <<events, inputs, errors, series>>

LoadRoundingErrorTraces(rows) ==
    /\ errors' = Loop("errors", errors, rows)
    /\ UNCHANGED <<events, inputs, bins, usedBy, series>>

LoadErrorsPerLineTraces(rows) ==
    /\ series' = Loop("series", series, rows)
    /\ UNCHANGED <<events, inputs, bins, usedBy, errors>>
-----------------------------------------------------------------------------
(* What is reported.                                                       *)

SumOf(s) == SumFunction([n \in DOMAIN s |-> s[n][2]])
GetEvents(k) == SumFunction([f \in File |-> SumOf(events[k][f])])
LinesOf(k, f) == {events[k][f][n][1] : n \in DOMAIN events[k][f]}
Affected == {f \in File : \E k \in DOMAIN events : events[k][f] # <<>>}
GetLinesAffected == Cardinality(UNION {{f} \X UNION {LinesOf(k, f) : k \in DOMAIN events} : f \in File})
Instructions(w) == SumFunction(usedBy[w])

\* How the lines of a source are shown: highlighted, plain next to them, and as
\* dots next to those.
LinesToHighlight(length, lines) ==
    LET near(n) == {m \in 1..length : \E l \in lines : m = l - n \/ m = l + n}
    IN  [l \in near(0) \cup near(1) \cup near(2) |->
            IF l \in lines THEN "H" ELSE IF l \in near(1) THEN "P" ELSE "D"]

\* The pages of one kind: one per file; reading a source that is gone fails.
EventReport(k, length) ==
    [f \in {f \in File : events[k][f] # <<>>} |-> LinesToHighlight(length[f], LinesOf(k, f))]
Fails(k, length) == \E f \in File : events[k][f] # <<>> /\ length[f] = 0
\* A common directory of relative and absolute names fails.
CodePathsFail == Affected \cap Relative # {} /\ Affected \ Relative # {}

\* The tables of rounding errors, without lines if the source is gone.
ErrorTable(f, length) ==
    [marks |-> LinesToHighlight(length[f], DOMAIN errors[f]),
     errors |-> [l \in DOMAIN errors[f] |-> errors[f][l]]]

MaxError(n) ==
    LET all == UNION {{Abs(errors[f][l][n]) : l \in DOMAIN errors[f]} : f \in File}
    IN  CHOOSE m \in all \cup {0} : \A o \in all : o <= m

Totals == [k \in DOMAIN events |-> GetEvents(k)]

\* The page is written in the order of its template, the pages of the events
\* on the way; an exception leaves what has been written until then (of the
\* kind it fails in, no page is counted here).
CreateRootReport ==
    /\ command = "report" /\ walks = <<>> /\ \A g \in DOMAIN found : found[g] = {}
    /\ \E length \in [File -> Lengths] :
           LET failing == {n \in DOMAIN Events : Fails(Events[n], length)}
               written == {n \in DOMAIN Events : \A m \in failing : n < m}
               pages == [k \in {Events[n] : n \in {m \in written : GetEvents(Events[m]) # 0}} |->
                            EventReport(k, length)]
           IN  report' = IF failing # {} \/ CodePathsFail
                         THEN [status |-> "partial", pages |-> pages, length |-> length]
                         ELSE [status |-> "complete", pages |-> pages, length |-> length,
                               totals |-> Totals, inputs |-> inputs,
                               files |-> Cardinality(Affected), lines |-> GetLinesAffected,
                               histograms |-> {w \in Width : bins[w] # <<>>},
                               instructions |-> [w \in Width |-> Instructions(w)],
                               errors |-> [f \in {f \in File : errors[f] # <<>>} |-> ErrorTable(f, length)],
                               plots |-> [l \in {l \in DOMAIN series : series[l] # <<>>} |-> series[l]]]
    /\ command' = "idle"
    /\ UNCHANGED <<procs, data, given, walks, found, screen, before>>

\* With -s the totals, the locations of each kind or the errors are printed.
CreateTextReport ==
    /\ command = "show" /\ walks = <<>> /\ \A g \in DOMAIN found : found[g] = {}
    /\ screen' = [totals |-> Totals, inputs |-> inputs,
                  locations |-> [k \in DOMAIN events |-> [f \in File |-> LinesOf(k, f)]],
                  errors |-> errors, maxAbs |-> MaxError(1), maxRelative |-> MaxError(2)]
    /\ command' = "idle"
    /\ UNCHANGED <<procs, data, given, walks, found, report, before>>
-----------------------------------------------------------------------------
(* Commands of the generator.                                              *)

Fresh ==
    /\ events' = [k \in ToSet(Events) |-> [f \in File |-> <<>>]]
    /\ inputs' = [k \in ToSet(Events) |-> {}]
    /\ bins' = [w \in Width |-> <<>>] /\ usedBy' = [w \in Width |-> [f \in File |-> 0]]
    /\ errors' = [f \in File |-> <<>>]
    /\ series' = <<>>

Ids == {Id[p] : p \in Proc}
Of(group, status) == {i \in Ids : trace[group][i].status = status}
Existing(group) == Ids \ Of(group, "absent")

\* A process has closed its trace of a group.
Closed(p, g) == \E n \in 1..done[p] : Operations(job[p])[n] = <<"close", g>>

Start(c) ==
    /\ command = "idle" /\ given.reports < MaxReports
    /\ command' = c /\ given' = [given EXCEPT !.reports = @ + 1]
    /\ Fresh
    /\ walks' = IF c = "report" THEN Group ELSE <<"events", "errors">>
    /\ found' = [g \in ToSet(Group) |-> {}]
    /\ screen' = NoPage
    /\ before' = [g \in ToSet(Group) |-> {p \in Proc : Closed(p, g) /\ Id[p] \notin Of(g, "absent")}]
    /\ UNCHANGED <<procs, report>>

Walk ==
    /\ walks # <<>>
    /\ found' = [found EXCEPT ![Head(walks)] = Existing(Head(walks))]
    /\ walks' = Tail(walks)
    /\ UNCHANGED <<procs, data, command, given, report, screen, before>>

\* A trace that does not parse ends the command; numbers that JSON has not are
\* replaced (LoadReport of ErrorReport).  The report is as it was.
Load(i) ==
    /\ command # "idle" /\ walks = <<>>
    /\ \E n \in DOMAIN Group :
           LET g == Group[n]
               t == trace[g][i]
           IN  /\ i \in found[g] /\ \A m \in 1..(n - 1) : found[Group[m]] = {}
               /\ IF t.status # "complete"
                  THEN /\ command' = "idle"
                       /\ found' = [o \in ToSet(Group) |-> {}]
                       /\ UNCHANGED data
                  ELSE /\ CASE g = "events" -> LoadEvents(t.rows)
                            [] g = "usage" -> LoadExponentUsageTraces(t.rows)
                            [] g = "errors" -> LoadRoundingErrorTraces(t.rows)
                            [] g = "series" -> LoadErrorsPerLineTraces(t.rows)
                       /\ found' = [found EXCEPT ![g] = @ \ {i}]
                       /\ UNCHANGED command
    /\ UNCHANGED <<procs, given, walks, report, screen, before>>

Other ==
    /\ command = "idle" /\ given.others < MaxOthers
    /\ given' = [given EXCEPT !.others = @ + 1]

\* -q prints the traces with an item of a file that has at least the events of
\* the query; a trace that does not parse ends it.
ExecuteQuery(f, least) ==
    /\ Other
    /\ LET all == Of("events", "complete")
           Matches(seen) == {i \in seen : \E r \in ToSet(trace["events"][i].rows) :
                                 r.file = f /\ \A k \in ToSet(Events) : least[k] <= r.counts[k]}
       IN  \E seen \in SUBSET all :
               /\ seen = all \/ Of("events", "partial") # {}
               /\ screen' = [matches |-> Matches(seen)]
    /\ UNCHANGED <<procs, data, command, walks, found, report, before>>

\* -r removes the report, -c the traces; what a process then closes is lost.
RemoveReportDir ==
    /\ Other /\ report' = NoPage
    /\ UNCHANGED <<procs, data, command, walks, found, screen, before>>
RemoveTraces ==
    /\ Other
    /\ trace' = [g \in ToSet(Group) |-> [i \in Ids |-> Absent]]
    /\ UNCHANGED <<job, done, data, command, walks, found, report, screen, before>>

NothingYet ==
    /\ trace = [g \in ToSet(Group) |-> [i \in Ids |-> Absent]]
    /\ walks = <<>>
    /\ found = [g \in ToSet(Group) |-> {}] /\ before = [g \in ToSet(Group) |-> {}]
    /\ events = [k \in ToSet(Events) |-> [f \in File |-> <<>>]]
    /\ inputs = [k \in ToSet(Events) |-> {}]
    /\ bins = [w \in Width |-> <<>>] /\ usedBy = [w \in Width |-> [f \in File |-> 0]]
    /\ errors = [f \in File |-> <<>>] /\ series = <<>>
    /\ given = [reports |-> 0, others |-> 0]
    /\ report = [status |-> "old"] /\ screen = NoPage

RInit ==
    /\ job \in [Proc -> Job] /\ done = [p \in Proc |-> 0]
    /\ command = "idle"
    /\ NothingYet

RNext ==
    \/ \E p \in Proc : Write(p)
    \/ \E c \in {"report", "show"} : Start(c)
    \/ Walk
    \/ \E i \in Ids : Load(i)
    \/ CreateRootReport
    \/ CreateTextReport
    \/ \E f \in File, k \in ToSet(Events) : ExecuteQuery(f, [o \in ToSet(Events) |-> IF o = k THEN 1 ELSE 0])
    \/ RemoveReportDir
    \/ RemoveTraces
RSpec == RInit /\ [][RNext]_rvars
-----------------------------------------------------------------------------
(* A report of a set of processes.                                         *)

\* The processes a group's walk may have found: all that had written their trace
\* when the command was given, and any that have by now.
Walked(g) == {S \in SUBSET {p \in Proc : Closed(p, g)} : before[g] \subseteq S}

Items(S) == UNION {{<<p, n>> : n \in DOMAIN job[p].items} : p \in {p \in S : job[p].runtime = "exceptions"}}
ItemOf(pn) == job[pn[1]].items[pn[2]]
OfErrors(S) == {p \in S : job[p].runtime = "errors"}
ErrorRows(S, f) == {r \in UNION {ToSet(job[p].errors) : p \in OfErrors(S)} : r.file = f}
RowsOfLine(S, f, l) == {r \in ErrorRows(S, f) : r.line = l}
With(S, k) == {i \in Items(S) : ItemOf(i).counts[k] # 0}
Lines(S, k, f) == {ItemOf(i).line : i \in {i \in With(S, k) : ItemOf(i).file = f}}

EventsOfRun(S, r) ==
    \A k \in ToSet(Events) :
        /\ r.totals[k] = SumFunction([i \in Items(S) |-> ItemOf(i).counts[k]])
        /\ r.inputs[k] = {job[i[1]].input : i \in With(S, k)}

PagesOfRun(S, r) ==
    /\ DOMAIN r.pages = {k \in ToSet(Events) : With(S, k) # {}}
    /\ \A k \in DOMAIN r.pages : \A f \in File :
           LET page == IF f \in DOMAIN r.pages[k] THEN r.pages[k][f] ELSE <<>>
           IN  /\ {l \in DOMAIN page : page[l] = "H"} = Lines(S, k, f) \cap 1..r.length[f]
               /\ \A l \in DOMAIN page : page[l] = "P" => {l - 1, l + 1} \cap Lines(S, k, f) # {}
    /\ LET all == UNION {With(S, k) : k \in ToSet(Events)}
       IN  /\ r.files = Cardinality({ItemOf(i).file : i \in all})
           /\ r.lines = Cardinality({<<ItemOf(i).file, ItemOf(i).line>> : i \in all})

UsageOfRun(S, r) ==
    \A w \in Width :
        /\ r.instructions[w] =
               SumFunction([i \in Items(S) |->
                   LET c == ItemOf(i).exponents[w] IN SumFunction([e \in DOMAIN c \ {0} |-> c[e]])])
        /\ w \in r.histograms <=> r.instructions[w] # 0

\* A line's series has the values of every process, those of one together.
SeriesRows(S) == UNION {{<<p, n>> : n \in DOMAIN job[p].series} : p \in OfErrors(S)}
SeriesOf(pn) == job[pn[1]].series[pn[2]]
SeriesOfRun(S, plots) ==
    LET All(l) == {r \in SeriesRows(S) : SeriesOf(r).line = l /\ SeriesOf(r).values # <<>>}
    IN  \A l \in DOMAIN plots \cup {SeriesOf(r).line : r \in SeriesRows(S)} :
            LET s == Lookup(plots, l, <<>>)
            IN  /\ Len(s) = SumFunction([r \in All(l) |-> Len(SeriesOf(r).values)])
                /\ \A r \in All(l) : SeriesOf(r).values \in SubSeqs(s)

\* The relative error of a line is the largest of the run, and its error is one
\* of the run's, or 0 for one that is not a number.
ErrorsOfRun(S, table) ==
    \A f \in File :
        /\ DOMAIN table[f] = {r.line : r \in ErrorRows(S, f)}
        /\ \A l \in DOMAIN table[f] :
               LET rows == RowsOfLine(S, f, l)
                   relative == {r.relative : r \in rows} \ {Nan}
               IN  /\ table[f][l][2] \in relative \cup {0}
                   /\ \A e \in relative : e <= table[f][l][2]
                   /\ table[f][l][1] \in {r.error : r \in rows} \cup {0}

\* A report that is created shows the traces of a set of processes, which has
\* every process that had ended before: the same set in the totals, the pages,
\* the highlighted lines and the inputs of every kind of event; no trace counts
\* twice or in part.  So do the usage of exponents, the largest relative errors,
\* the series of a line, and what is printed instead of a report.
\* (fpc_create_report.py 146-284, 343-370, 395-416, 469-824)
ReportFaithful ==
    [][/\ CreateRootReport /\ report'.status = "complete" =>
              /\ \E S \in Walked("events") : EventsOfRun(S, report') /\ PagesOfRun(S, report')
              /\ \E S \in Walked("usage") : UsageOfRun(S, report')
              /\ \E S \in Walked("errors") :
                     ErrorsOfRun(S, [f \in File |-> IF f \in DOMAIN report'.errors THEN report'.errors[f].errors ELSE <<>>])
              /\ \E S \in Walked("series") : SeriesOfRun(S, report'.plots)
       /\ CreateTextReport =>
              /\ \E S \in Walked("events") : EventsOfRun(S, screen')
              /\ \E S \in Walked("errors") : ErrorsOfRun(S, screen'.errors)]_rvars

\* The error shown for a line has the largest magnitude of the run's.  It is not
\* so: line 272 compares a magnitude with a stored error that has a sign.
MagnitudeIsMax ==
    [][CreateRootReport /\ report'.status = "complete" =>
           \E S \in Walked("errors") : \A f \in File : \A l \in DOMAIN errors[f] :
               \A r \in RowsOfLine(S, f, l) : r.error = Nan \/ Abs(r.error) <= Abs(errors[f][l][1])]_rvars
=============================================================================
