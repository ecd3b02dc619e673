------------------------------ MODULE Linkage ------------------------------
(***************************************************************************)
(* How the units of a program come to share one runtime.  The wrappers     *)
(* include the runtime, definitions and all, in every unit they compile    *)
(* with a tool; the pass gives each function and variable it knows of      *)
(* linkage linkonce_odr (the constructors of Instrumentation_error.cpp and *)
(* Instrumentation_cpu.cpp), and of several such definitions of a symbol   *)
(* the linker keeps one.  A definition the pass forgets remains a strong   *)
(* one, and two of those are an error of the linker.                       *)
(*                                                                         *)
(* C++ gives functions other symbols than C, and variables the same: a     *)
(* program of both languages has two copies of the runtime's functions,    *)
(* with their static variables, which work on one copy of its globals.     *)
(*                                                                         *)
(* The runtime's names are taken together in groups.                       *)
(***************************************************************************)

CONSTANTS
    Unit,       \* units of the program
    Cxx         \* those in C++; the others are in C

ASSUME LinkageAssumption == Cxx \subseteq Unit

VARIABLES
    tool,       \* "errors" or "exceptions"
    hooked,     \* units compiled with the pass
    main,       \* the unit of main
    marked      \* functions with checks if FPC_ANNOTATED is set, or all

program == <<tool, hooked, main, marked>>

Tool == {"exceptions", "errors"}

-----------------------------------------------------------------------------
(* What the runtime defines.  Static functions and variables are each      *)
(* unit's own: that is where fpc_atexit_registered and fpc_finalized are,  *)
(* each with the function that uses it.                                    *)

\* Starting it, its hooks, the report; creating, searching and writing tables.
Functions == {"start", "hook", "print", "create", "table", "write"}
                \cup IF tool = "errors" THEN {"line errors", "series"} ELSE {"events", "trap"}

ErrorGlobals == {"inputs", "tables", "clock", "warnings", "lines to keep", "last block",
                 "returned errors", "argument errors"}
ExceptionGlobals == {"inputs", "tables", "lock"}
Globals == IF tool = "errors" THEN ErrorGlobals ELSE ExceptionGlobals

\* Functions whose address the pass keeps, and others it only configures; the
\* variables it looks up.
ErrorFound == {"start", "print", "hook"}
ErrorMerged == {"hook", "print", "create", "table", "write", "line errors", "series"}
\* GlobalsForgotten is a faulty variant: one table's pointer is not looked up.
GlobalsForgotten == {"inputs", "warnings", "last block", "clock", "lines to keep",
                     "returned errors", "argument errors"}
ErrorGlobalsMerged == {"inputs", "tables", "warnings", "last block", "clock", "lines to keep",
                       "returned errors", "argument errors"}
ExceptionFound == {"hook", "start", "print"}
ExceptionMerged == {"events", "hook", "trap", "create", "table", "write"}
ExceptionGlobalsMerged == {"tables", "inputs", "lock"}
Merged == IF tool = "errors" THEN ErrorFound \cup ErrorMerged \cup ErrorGlobalsMerged
          ELSE ExceptionFound \cup ExceptionMerged \cup ExceptionGlobalsMerged

-----------------------------------------------------------------------------
(* The linker.                                                             *)

\* The symbol of a name in a unit.
Symbol(u, name) == <<name, name \in Functions /\ u \in Cxx>>

Strong(name) == name \in Functions \cup Globals /\ name \notin Merged
LinkFails == \E u, v \in hooked : \E name \in Functions \cup Globals :
                 u # v /\ Strong(name) /\ Symbol(u, name) = Symbol(v, name)

\* The unit whose definition of a symbol the linker keeps.  Which one it is does
\* not matter here: they are the same but for the statics they use.
Kept(symbol) == CHOOSE v \in hooked : Symbol(v, symbol[1]) = symbol
Definer(u, name) == Kept(Symbol(u, name))

-----------------------------------------------------------------------------
(* What gets hooks: analyzeProgramModule.                                  *)

\* Functions with a body in a unit.  Those of the runtime are recognised by
\* their names; one more of a program has no role of its own.
Defined(u) == {"function"} \cup (IF u = main THEN {"main"} ELSE {}) \cup Functions
IsUnwantedFunction(f) == f \in Functions
IsMainFunction(f) == f = "main"

\* The pass for errors hooks every function; the one for exceptions, if
\* FPC_ANNOTATED is set, those with an annotation.
ErrorWalk(u) == {f \in Defined(u) : ~IsUnwantedFunction(f)}
ExceptionWalk(u) == {f \in Defined(u) : ~IsUnwantedFunction(f) /\ f \in marked}
Instrumented(u) == IF u \notin hooked THEN {}
                   ELSE IF tool = "errors" THEN ErrorWalk(u) ELSE ExceptionWalk(u)

\* Main starts the runtime and writes the report, annotated or not.
MainHooked == main \in hooked /\ \E f \in Defined(main) : IsMainFunction(f)
=============================================================================
