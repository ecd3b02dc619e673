-------------------------- MODULE ReportLifecycle --------------------------
(***************************************************************************)
(* When the runtime starts and when it writes its report, in a program of  *)
(* several units (Runtime_error.h, Runtime_cpu.h; the pass puts the calls  *)
(* into main).  main starts the runtime and, if it returns, writes the     *)
(* report.  A hook of the error runtime that runs before starts it itself  *)
(* and leaves the report to an atexit handler; a check of the exception    *)
(* runtime that finds no table drops its event.                            *)
(*                                                                         *)
(* The program is linked, and its process modelled from its static         *)
(* initialisers to the last exit handler.  Handlers, the runtime's and the *)
(* destructors of the program's objects, run in the reverse order of their *)
(* registration, and may register more.                                    *)
(***************************************************************************)
EXTENDS Linkage, Naturals, Sequences

CONSTANTS
    MaxRecords, \* bound: hooks that record an error
    MaxObjects, \* bound: objects with a destructor
    NoReport    \* no file has been written

ASSUME LifecycleAssumption ==
    /\ MaxRecords \in Nat /\ MaxObjects \in Nat
    /\ NoReport \notin Nat

VARIABLES
    phase,      \* what the linker or the process does
    tables,     \* the tables have been created   (in each unit's copy, as below)
    kept,       \* records in the tables
    made,       \* records made by hooks
    lost,       \* those of them that found no table
    registered, \* fpc_atexit_registered
    handlers,   \* registered exit handlers, the last one first to run
    objects,    \* objects constructed
    finalized,  \* fpc_finalized
    report      \* records in the report file

vars == <<program, phase, tables, kept, made, lost, registered, handlers,
          objects, finalized, report>>

Phase == {"linking", "not linked", "initializers", "main", "exiting", "destructor",
          "ended", "killed"}

Destructor == [does |-> "destructor"]
Report(u) == [does |-> "report", unit |-> u]

Init == /\ tool \in Tool /\ main \in Unit /\ hooked \in SUBSET Unit
        /\ marked \in SUBSET {"main", "function"}
        /\ phase = "linking"
        /\ tables = [u \in Unit |-> FALSE] /\ kept = [u \in Unit |-> 0]
        /\ made = 0 /\ lost = 0
        /\ registered = [u \in Unit |-> FALSE] /\ handlers = <<>> /\ objects = 0
        /\ finalized = [u \in Unit |-> FALSE] /\ report = NoReport

Link == /\ phase = "linking"
        /\ phase' = IF LinkFails THEN "not linked" ELSE "initializers"
        /\ UNCHANGED <<program, tables, kept, made, lost, registered, handlers,
                       objects, finalized, report>>

\* _FPC_INIT_FPCHECKER and _FPC_INIT_ARGS_FPCHECKER create the tables; those
\* of the error runtime only if there are none.
\* StartAfresh is a faulty variant: they always do.
Table(u) == Definer(u, "tables")
StartAfresh(u) == /\ tables' = [tables EXCEPT ![Table(u)] = TRUE]
                  /\ kept' = [kept EXCEPT ![Table(u)] = 0]
Start(u) ==
    IF tool = "errors" /\ tables[Table(u)] THEN UNCHANGED <<tables, kept>>
    ELSE /\ tables' = [tables EXCEPT ![Table(u)] = TRUE]
         /\ kept' = [kept EXCEPT ![Table(u)] = 0]

\* _FPC_ENSURE_RUNTIME_READY_: the hook that finds no tables registers the
\* report.
\* RegisterNot is a faulty variant: it leaves that to main.
RegisterNot(u) == UNCHANGED <<registered, handlers>>
Register(u) ==
    IF ~tables[Table(u)] /\ ~registered[u]
    THEN /\ registered' = [registered EXCEPT ![u] = TRUE]
         /\ handlers' = <<Report(Definer(u, "print"))>> \o handlers
    ELSE UNCHANGED <<registered, handlers>>

\* A hook of the error runtime makes it ready and records an error; what runs
\* is the copy of the hook the linker has kept.
ErrorHook(u) ==
    /\ tables' = [tables EXCEPT ![Table(u)] = TRUE]
    /\ kept' = [kept EXCEPT ![Table(u)] = (IF tables[Table(u)] THEN @ ELSE 0) + 1]
    /\ Register(u)
    /\ UNCHANGED lost

\* A check counts its event in the table, if there is one.
ExceptionHook(u) ==
    /\ IF tables[Table(u)]
       THEN kept' = [kept EXCEPT ![Table(u)] = @ + 1] /\ UNCHANGED lost
       ELSE lost' = lost + 1 /\ UNCHANGED kept
    /\ UNCHANGED <<tables, registered, handlers>>

Hook(u) ==
    /\ phase \in {"initializers", "main", "destructor"} /\ made < MaxRecords
    /\ \E f \in Instrumented(u) : f = "main" => phase = "main"
    /\ made' = made + 1
    /\ IF tool = "errors" THEN ErrorHook(Definer(u, "hook")) ELSE ExceptionHook(Definer(u, "hook"))
    /\ UNCHANGED <<program, phase, objects, finalized, report>>

\* An object whose destructor will run at exit.
Construct ==
    /\ phase \in {"initializers", "main"} /\ objects < MaxObjects
    /\ objects' = objects + 1
    /\ handlers' = <<Destructor>> \o handlers
    /\ UNCHANGED <<program, phase, tables, kept, made, lost, registered, finalized, report>>

\* main begins; only an instrumented main starts the runtime.
EnterMain ==
    /\ phase = "initializers" /\ phase' = "main"
    /\ IF MainHooked THEN Start(Definer(main, "start")) ELSE UNCHANGED <<tables, kept>>
    /\ UNCHANGED <<program, made, lost, registered, handlers, objects, finalized, report>>

\* _FPC_PRINT_LOCATIONS_, which writes one report in the error runtime.
\* WriteReportAgain is a faulty variant: fpc_finalized is not looked at.
WriteReportAgain(u) ==
    /\ finalized' = [finalized EXCEPT ![u] = TRUE]
    /\ report' = IF ~tables[Table(u)] THEN report ELSE kept[Table(u)]
WriteReport(u) ==
    /\ finalized' = [finalized EXCEPT ![u] = tool = "errors"]
    /\ report' = IF finalized[u] \/ ~tables[Table(u)] THEN report ELSE kept[Table(u)]

\* main returns; the pass has put the report before every return.
ReturnMain ==
    /\ phase = "main" /\ phase' = "exiting"
    /\ IF MainHooked THEN WriteReport(Definer(main, "print")) ELSE UNCHANGED <<finalized, report>>
    /\ UNCHANGED <<program, tables, kept, made, lost, registered, handlers, objects>>

\* Some function calls exit(), or _exit(), abort() and the like.
Exit == /\ phase \in {"initializers", "main"} /\ phase' = "exiting"
        /\ UNCHANGED <<program, tables, kept, made, lost, registered, handlers,
                       objects, finalized, report>>
Kill == /\ phase \in {"initializers", "main", "destructor"} /\ phase' = "killed"
        /\ UNCHANGED <<program, tables, kept, made, lost, registered, handlers,
                       objects, finalized, report>>

RunHandler ==
    /\ phase \in {"exiting", "destructor"} /\ handlers # <<>>
    /\ handlers' = Tail(handlers)
    /\ IF Head(handlers) = Destructor
       THEN phase' = "destructor" /\ UNCHANGED <<finalized, report>>
       ELSE phase' = "exiting" /\ WriteReport(Head(handlers).unit)
    /\ UNCHANGED <<program, tables, kept, made, lost, registered, objects>>

End == /\ phase \in {"exiting", "destructor"} /\ handlers = <<>>
       /\ phase' = "ended"
       /\ UNCHANGED <<program, tables, kept, made, lost, registered, handlers,
                      objects, finalized, report>>

Next == Link \/ (\E u \in Unit : Hook(u)) \/ Construct \/ EnterMain \/ ReturnMain
        \/ Exit \/ Kill \/ RunHandler \/ End

\* exit() runs the handlers one after the other, and a destructor returns.
Spec == Init /\ [][Next]_vars /\ WF_vars(RunHandler \/ End)
-----------------------------------------------------------------------------
(* Properties.                                                             *)

\* Types of the state.
TypeOK ==
    /\ tool \in Tool /\ main \in Unit /\ hooked \in SUBSET Unit
    /\ marked \in SUBSET {"main", "function"} /\ phase \in Phase
    /\ tables \in [Unit -> BOOLEAN] /\ kept \in [Unit -> Nat]
    /\ made \in Nat /\ lost \in Nat /\ objects \in Nat
    /\ registered \in [Unit -> BOOLEAN] /\ finalized \in [Unit -> BOOLEAN]
    /\ handlers \in Seq({Destructor} \cup {Report(u) : u \in hooked})
    /\ report \in Nat \cup {NoReport}

\* A program of instrumented units links, and all its hooks, those of C and of
\* C++ alike, work on one copy of the tables: whoever starts the runtime first,
\* and however often it is started again, every record is in it.  Only events
\* that found no table are missing, and none of the error runtime's.
NothingLost ==
    /\ phase # "not linked"
    /\ \A u \in hooked : kept[Table(u)] = made - lost
    /\ tool = "errors" => lost = 0

\* The return of an instrumented main reports every record so far.  In a program
\* of one language no later step, the atexit handler included, replaces the
\* report; in one of both, only a complete report does.  While an instrumented main
\* runs, no event is dropped, whichever unit it occurs in.
OneLanguage == hooked \subseteq Cxx \/ hooked \cap Cxx = {}
WrittenOnce ==
    [][/\ report # NoReport => report' \in IF OneLanguage THEN {report} ELSE {report, made - lost}
       /\ ReturnMain /\ MainHooked => report' = made - lost
       /\ phase = "main" /\ MainHooked => lost' = lost]_vars

\* If hooks of the error runtime ran before main, or main is not instrumented,
\* then the report is written whichever way the process exits, by exit() as well.
StartedByHook == tool = "errors" /\ made > 0 /\ (phase = "initializers" \/ ~MainHooked)
ExitReports == [](StartedByHook => [](phase = "exiting" =>
                      <>(report # NoReport \/ phase = "killed")))

\* "When a program is run, a JSON report is generated": a process that has
\* recorded errors does not end without a report.
RunsReport == phase = "ended" /\ made > 0 => report # NoReport
=============================================================================
