------------------------------- MODULE Build -------------------------------
(***************************************************************************)
(* A build with the compiler wrappers (clang_fpchecker.py,                 *)
(* mpicc_fpchecker.py), called by name or by the interception tool         *)
(* (fpchecker.py, intercept.c), which redirects what a build executes.     *)
(*                                                                         *)
(* make compiles the units that changed, several at once, and links them   *)
(* when all commands have returned 0.  A command is a chain of processes:  *)
(* a program is executed, the wrapper decides, the compiler is executed.   *)
(* The environment chooses the tool.  An instrumented object contains the  *)
(* runtime, and of the copies of several objects the linker keeps one.     *)
(***************************************************************************)
EXTENDS Naturals, FiniteSets

CONSTANTS
    Unit,           \* source files
    Threaded,       \* those compiled with -fopenmp
    Fragile,        \* those that do not compile with the tool
    Mpi,            \* the compiler is mpicc or mpicxx
    Via,            \* how programs are executed
    Separate,       \* units are compiled with -c, and linked then
    Careful,        \* the build is cleaned before another tool is chosen
    MaxEdits,       \* bound: versions of the sources
    None

Tool == {"exceptions", "errors"}
Object == [version: Nat, tool: SUBSET Tool, locked: BOOLEAN]
Program == [unit: [Unit -> Object], locked: BOOLEAN]

ASSUME BuildAssumption ==
    /\ Threaded \subseteq Unit /\ Fragile \subseteq Unit
    /\ MaxEdits \in Nat /\ "link" \notin Unit
    /\ Mpi \in BOOLEAN /\ Separate \in BOOLEAN /\ Careful \in BOOLEAN
    /\ None \notin Object /\ None \notin Program

VARIABLES
    env,        \* FPC_INSTRUMENT ("exceptions"), FPC_INSTRUMENT_ERR_TRACKING ("errors")
    preload,    \* the build runs under the interception tool
    src,        \* version of each source, and whether it compiles
    obj,        \* object files
    prog,       \* the program
    job,        \* what each command of the build does
    stage       \* of the build

vars == <<env, preload, src, obj, prog, job, stage>>

Command == Unit \cup {"link"}
NotStarted == [at |-> "none", mode |-> "ask", preload |-> FALSE]
Done == [NotStarted EXCEPT !.at = "done"]

Init == /\ env = {} /\ preload = FALSE /\ stage = "idle" /\ prog = None
        /\ src = [u \in Unit |-> [version |-> 0, broken |-> FALSE]]
        /\ obj = [u \in Unit |-> None]
        /\ job = [c \in Command |-> NotStarted]

-----------------------------------------------------------------------------
(* The user and make.                                                      *)

Resting == stage \in {"idle", "finished", "stopped"}

Edit(u) ==
    /\ Resting /\ stage' = "idle" /\ src[u].version < MaxEdits
    /\ \E b \in BOOLEAN : src' = [src EXCEPT ![u] = [version |-> @.version + 1, broken |-> b]]
    /\ UNCHANGED <<env, preload, obj, prog, job>>

Clean ==
    /\ Resting /\ stage' = "idle"
    /\ obj' = [u \in Unit |-> None] /\ prog' = None
    /\ UNCHANGED <<env, preload, src, job>>

\* The interception tool sets FPC_INSTRUMENT itself.
Make ==
    /\ Resting /\ stage' = "building"
    /\ \E e \in SUBSET Tool, p \in BOOLEAN :
        /\ preload' = p
        /\ env' = e \cup (IF p THEN {"exceptions"} ELSE {})
        /\ Careful /\ env' # env => prog = None /\ \A u \in Unit : obj[u] = None
    /\ job' = [c \in Command |-> NotStarted]
    /\ UNCHANGED <<src, obj, prog>>

UpToDate(u) == obj[u] # None /\ obj[u].version = src[u].version
\* A command is started by the build, whose processes have its preload.
Start(c) ==
    /\ stage = "building" /\ job[c] = NotStarted
    /\ IF c \in Unit THEN Separate /\ ~UpToDate(c)
       ELSE Separate => \A u \in Unit : job[u] = Done \/ (job[u] = NotStarted /\ UpToDate(u))
    /\ job' = [job EXCEPT ![c] = [at |-> "exec", mode |-> "ask", preload |-> preload]]
    /\ UNCHANGED <<env, preload, src, obj, prog, stage>>

-----------------------------------------------------------------------------
(* The chain of processes of a command.                                    *)

Goto(c, at, mode) == job' = [job EXCEPT ![c].at = at, ![c].mode = mode]

\* execve, execv, execvp and execvpe of a compiler run its wrapper, without
\* the preload, if there was one; every other way to run it is left alone.
\* BlankNever is a faulty variant: the wrapper inherits the preload.
Caught == {"execve", "execv", "execvp", "execvpe"}
BlankNever(c) == job[c].preload
Blanked(c) == FALSE
Exec(c) ==
    /\ job[c].at = "exec"
    /\ \E via \in Via :
        job' = [job EXCEPT ![c] =
            IF @.preload /\ via \in Caught
            THEN [at |-> "wrapper", mode |-> "ask", preload |-> Blanked(c)]
            ELSE [@ EXCEPT !.at = IF job[c].mode = "ask" /\ ~preload THEN "wrapper" ELSE "compiler"]]
    /\ UNCHANGED <<env, preload, src, obj, prog, stage>>

\* isLinkCommand: no -c, and an output file.
\* IsLinkByOutput is a faulty variant: an output file.
Flags(c) == IF c \in Unit THEN {"-c", "-o"} ELSE {"-o"}
IsLinkByOutput(c) == "-o" \in Flags(c)
IsLink(c) == "-c" \notin Flags(c) /\ "-o" \in Flags(c)

\* Two tools are an error the build does not see: the wrapper returns 0.
Wrapper(c) ==
    /\ job[c].at = "wrapper"
    /\ IF env = Tool THEN job' = [job EXCEPT ![c] = Done]
       ELSE Goto(c, "exec", IF env = {} THEN "original"
                            ELSE IF IsLink(c) THEN (IF Mpi THEN "linkMPI" ELSE "original")
                            ELSE "tool")
    /\ UNCHANGED <<env, preload, src, obj, prog, stage>>

\* instrumentIR: the runtime is compiled in, with its lock for -fopenmp only.
\* LocksNever is a faulty variant: FPC_MULTI_THREADED is not defined.
LocksNever(u) == FALSE
Locks(u) == u \in Threaded
Compiled(u, mode) ==
    [version |-> src[u].version,
     tool |-> IF mode = "tool" THEN env ELSE {},
     locked |-> mode = "tool" /\ Locks(u)]

\* What the compiler cannot compile with the tool is compiled without; an error
\* of the original command is printed, and the wrapper returns 0.
\* CompileOnce is a faulty variant: there is no second attempt.
CompileOnce(u) ==
    /\ job[u].at = "compiler"
    /\ obj' = [obj EXCEPT ![u] =
                  IF src[u].broken \/ (job[u].mode = "tool" /\ u \in Fragile) THEN None
                  ELSE Compiled(u, job[u].mode)]
    /\ job' = [job EXCEPT ![u] = Done]
    /\ UNCHANGED <<env, preload, src, prog, stage>>

Compile(u) ==
    /\ job[u].at = "compiler"
    /\ IF job[u].mode = "tool" /\ (src[u].broken \/ u \in Fragile)
       THEN Goto(u, "exec", "original") /\ UNCHANGED obj
       ELSE /\ obj' = [obj EXCEPT ![u] = IF src[u].broken THEN None ELSE Compiled(u, job[u].mode)]
            /\ job' = [job EXCEPT ![u] = Done]
    /\ UNCHANGED <<env, preload, src, prog, stage>>

\* The linker needs every object.  Only the MPI wrapper lets the build know that
\* it failed.
Objects == IF Separate THEN obj
           ELSE [u \in Unit |-> IF src[u].broken THEN None ELSE Compiled(u, job["link"].mode)]
\* Objects with hooks carry the runtime, whose functions and globals the passes
\* make linkonce_odr: of several the linker keeps any one.
Hooked(objects) == {u \in Unit : objects[u].tool # {}}
Kept(objects) == IF Hooked(objects) = {} THEN Unit ELSE Hooked(objects)
Link ==
    /\ job["link"].at = "compiler"
    /\ IF \E u \in Unit : Objects[u] = None
       THEN /\ prog' = None
            /\ stage' = IF job["link"].mode \in {"linkMPI", "ask"} THEN "stopped" ELSE "finished"
       ELSE /\ \E kept \in Kept(Objects) :
                   prog' = [unit |-> Objects, locked |-> Objects[kept].locked]
            /\ stage' = "finished"
    /\ job' = [job EXCEPT !["link"] = Done]
    /\ UNCHANGED <<env, preload, src, obj>>

\* The link command did nothing.
LinkNothing ==
    /\ stage = "building" /\ job["link"] = Done /\ stage' = "finished"
    /\ UNCHANGED <<env, preload, src, obj, prog, job>>

Step == LinkNothing \/ Link \/ (\E c \in Command : Start(c) \/ Exec(c) \/ Wrapper(c))
            \/ \E u \in Unit : Compile(u)
Next == Make \/ Clean \/ (\E u \in Unit : Edit(u)) \/ Step

\* Processes that can run do.
Spec == Init /\ [][Next]_vars /\ WF_vars(Step)
-----------------------------------------------------------------------------
(* Properties.                                                             *)

\* What a finished build links is the latest version of every unit, and every
\* unit the tool can compile has the hooks of the one tool that was chosen.
EverythingHooked ==
    stage = "finished" /\ prog # None =>
        \A u \in Unit : /\ prog.unit[u].version = src[u].version
                       /\ prog.unit[u].tool = IF u \in Fragile THEN {} ELSE env

\* The tool never costs the user the program: a build leaves one exactly if the
\* sources compile and no two tools were chosen.
LeavesProgram ==
    stage \in {"finished", "stopped"} =>
        (prog # None <=> env # Tool /\ \A u \in Unit : ~src[u].broken)

\* A program with threads has the lock of the exception runtime.
ThreadedLocked ==
    stage = "finished" /\ prog # None =>
        ((\E u \in Threaded : prog.unit[u].tool = {"exceptions"}) => prog.locked)

\* A build comes to an end: a wrapper's own compiler is not intercepted again.
BuildEnds == stage = "building" ~> stage # "building"
=============================================================================
