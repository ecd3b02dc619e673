---------------------------- MODULE BuildProofs ----------------------------
(***************************************************************************)
(* Proofs about Build: for any units, edits and order of the commands, a   *)
(* build that compiles and links in separate commands, that executes       *)
(* programs in a way the interception tool catches, and that is cleaned    *)
(* before another tool is chosen, leaves what the user asked for.          *)
(***************************************************************************)
EXTENDS Build, TLAPS

At == {"none", "exec", "wrapper", "compiler", "done"}
Mode == {"ask", "original", "linkMPI", "tool"}

TypeOK ==
    /\ env \in SUBSET Tool /\ preload \in BOOLEAN
    /\ stage \in {"idle", "building", "finished", "stopped"}
    /\ src \in [Unit -> [version: Nat, broken: BOOLEAN]]
    /\ obj \in [Unit -> Object \cup {None}]
    /\ prog \in Program \cup {None}
    /\ job \in [Command -> [at: At, mode: Mode, preload: BOOLEAN]]

\* The hooks a unit gets from the chosen tool.
Hooks(u) == IF u \in Fragile THEN {} ELSE env

\* An object is of the chosen tool, and if it is of the latest version then
\* this compiles.
ObjectsOK == \A u \in Unit : obj[u] # None =>
    /\ env # Tool /\ obj[u].tool = Hooks(u)
    /\ obj[u].locked <=> obj[u].tool # {} /\ u \in Threaded
    /\ obj[u].version <= src[u].version
    /\ obj[u].version = src[u].version => ~src[u].broken

\* A process the wrapper starts is not intercepted again.
ChainOK == \A c \in Command :
    /\ job[c].at \in {"exec", "compiler"} =>
           job[c].preload = (preload /\ job[c].mode = "ask")
    /\ job[c].at = "wrapper" => ~job[c].preload

\* The compiler is run by the wrapper, with the tool first.
CompilerOK == \A c \in Command :
    /\ job[c].at = "compiler" => job[c].mode # "ask"
    /\ job[c].at \in {"exec", "compiler"} /\ job[c].mode # "ask" => env # Tool
    /\ c \in Unit /\ job[c].at \in {"exec", "compiler"} =>
           /\ job[c].mode # "linkMPI"
           /\ job[c].mode = "original" => env = {} \/ c \in Fragile \/ src[c].broken
           /\ job[c].mode = "tool" => env # {}

\* A finished compilation has left the latest object if there can be one.
DoneOK == \A u \in Unit : stage = "building" /\ env # Tool /\ job[u] = Done =>
    IF src[u].broken THEN obj[u] = None ELSE UpToDate(u)

\* The program is linked when the units are compiled, and rest follows.
Ready(u) == job[u] = Done \/ (job[u] = NotStarted /\ UpToDate(u))
LinkOK ==
    /\ job["link"] # NotStarted /\ stage = "building" => \A u \in Unit : Ready(u)
    /\ stage = "building" /\ job["link"] = Done => env = Tool
    /\ stage # "building" => \A c \in Command : job[c].at \in {"none", "done"}
    /\ env = Tool => prog = None

\* The linker has kept the runtime of a unit with hooks, if there is one.
RuntimeOK == prog # None /\ (\E u \in Unit : prog.unit[u].tool # {}) =>
    \E k \in Unit : prog.unit[k].tool # {} /\ (prog.locked <=> k \in Threaded)

BInv == /\ TypeOK /\ ObjectsOK /\ ChainOK /\ CompilerOK /\ DoneOK /\ LinkOK /\ RuntimeOK
        /\ EverythingHooked /\ LeavesProgram
-----------------------------------------------------------------------------
\* The builds the theorems are about.
Setting == Separate /\ Careful /\ Via \subseteq Caught

LEMMA BInit == Init => BInv
  <1> SUFFICES ASSUME Init
               PROVE  BInv
    OBVIOUS
  <1>1. TypeOK
    BY DEF Init, TypeOK, NotStarted, At, Mode, Tool
  <1>2. ObjectsOK /\ DoneOK /\ RuntimeOK /\ EverythingHooked /\ LeavesProgram
    BY DEF Init, ObjectsOK, DoneOK, RuntimeOK, EverythingHooked, LeavesProgram
  <1>3. ChainOK /\ CompilerOK
    BY DEF Init, ChainOK, CompilerOK, NotStarted
  <1>4. LinkOK
    BY DEF Init, LinkOK, NotStarted, Command
  <1> QED
    BY <1>1, <1>2, <1>3, <1>4 DEF BInv

\* While something is being executed the build is running.
LEMMA Working ==
    ASSUME BInv, NEW c \in Command, job[c].at \notin {"none", "done"}
    PROVE  stage = "building"
  BY DEF BInv, LinkOK

\* Only the program and the stage matter for the results of a build.
LEMMA SameProgram ==
    ASSUME BInv, UNCHANGED <<prog, src, env>>, stage' = stage \/ stage' \in {"idle", "building"}
    PROVE  RuntimeOK' /\ EverythingHooked' /\ LeavesProgram'
  BY DEF BInv, RuntimeOK, EverythingHooked, LeavesProgram

-----------------------------------------------------------------------------
(* The user and make.                                                      *)

LEMMA EditOK == ASSUME BInv, NEW u \in Unit, Edit(u)
                PROVE  BInv'
  <1>1. PICK b \in BOOLEAN : src' = [src EXCEPT ![u] = [version |-> @.version + 1, broken |-> b]]
    BY DEF Edit
  <1>2. /\ UNCHANGED <<env, preload, obj, prog, job>> /\ stage' = "idle"
        /\ stage # "building"
    BY DEF Edit, Resting
  <1>3. \A w \in Unit : src'[w].version \in Nat /\ src[w].version \in Nat
                        /\ (src'[w] = src[w] \/ src'[w].version = src[w].version + 1)
    BY <1>1 DEF BInv, TypeOK
  <1>4. TypeOK'
    BY <1>1, <1>2 DEF BInv, TypeOK
  <1>5. ObjectsOK'
    <2> SUFFICES ASSUME NEW w \in Unit, obj[w] # None
                 PROVE  /\ obj[w].version <= src'[w].version
                        /\ obj[w].version = src'[w].version => ~src'[w].broken
      BY <1>2 DEF BInv, ObjectsOK, Hooks
    <2>1. obj[w].version \in Nat
      BY DEF BInv, TypeOK, Object
    <2> QED
      BY <1>3, <2>1 DEF BInv, ObjectsOK
  <1>6. ChainOK'
    BY <1>2 DEF BInv, ChainOK
  <1>7. /\ \A c \in Command : job[c].at \in {"none", "done"}
        /\ env = Tool => prog = None
    BY <1>2 DEF BInv, LinkOK
  <1>8. CompilerOK'
    BY <1>2, <1>7 DEF CompilerOK
  <1>9. DoneOK' /\ LinkOK'
    BY <1>2, <1>7 DEF DoneOK, LinkOK
  <1>10. RuntimeOK' /\ EverythingHooked' /\ LeavesProgram'
    BY <1>2 DEF BInv, RuntimeOK, EverythingHooked, LeavesProgram
  <1> QED
    BY <1>4, <1>5, <1>6, <1>8, <1>9, <1>10 DEF BInv

LEMMA CleanOK == ASSUME BInv, Clean
                 PROVE  BInv'
  <1>1. /\ UNCHANGED <<env, preload, src, job>> /\ stage' = "idle" /\ prog' = None
        /\ stage # "building" /\ obj' = [u \in Unit |-> None]
    BY DEF Clean, Resting
  <1>2. TypeOK'
    BY <1>1 DEF BInv, TypeOK
  <1>3. ObjectsOK' /\ RuntimeOK' /\ EverythingHooked' /\ LeavesProgram'
    BY <1>1 DEF ObjectsOK, RuntimeOK, EverythingHooked, LeavesProgram
  <1>4. ChainOK' /\ CompilerOK'
    BY <1>1 DEF BInv, ChainOK, CompilerOK
  <1>5. DoneOK' /\ LinkOK'
    BY <1>1 DEF BInv, DoneOK, LinkOK
  <1> QED
    BY <1>2, <1>3, <1>4, <1>5 DEF BInv

LEMMA MakeOK == ASSUME BInv, Setting, Make
                PROVE  BInv'
  <1>1. /\ stage' = "building" /\ UNCHANGED <<src, obj, prog>>
        /\ job' = [c \in Command |-> NotStarted]
        /\ env' \in SUBSET Tool /\ preload' \in BOOLEAN
        /\ env' # env => prog = None /\ \A u \in Unit : obj[u] = None
    BY DEF Make, Setting, Tool
  <1>2. \A c \in Command : job'[c] = NotStarted
    BY <1>1
  <1>3. TypeOK'
    BY <1>1 DEF BInv, TypeOK, NotStarted, At, Mode
  <1>4. ObjectsOK'
    BY <1>1 DEF BInv, ObjectsOK, Hooks
  <1>5. ChainOK' /\ CompilerOK'
    BY <1>2 DEF ChainOK, CompilerOK, NotStarted
  <1>6. DoneOK'
    BY <1>2 DEF DoneOK, Done, NotStarted, Command
  <1>7. LinkOK'
    BY <1>1, <1>2 DEF BInv, LinkOK, Done, NotStarted, Command
  <1>8. RuntimeOK' /\ EverythingHooked' /\ LeavesProgram'
    BY <1>1 DEF BInv, RuntimeOK, EverythingHooked, LeavesProgram
  <1> QED
    BY <1>3, <1>4, <1>5, <1>6, <1>7, <1>8 DEF BInv
-----------------------------------------------------------------------------
(* The chain of processes of a command.                                    *)

\* A step of one command changes only what the invariant says of its process.
LEMMA OneJob ==
    ASSUME BInv, NEW c \in Command, UNCHANGED <<env, preload, src, obj, prog, stage>>,
           NEW r \in [at: At, mode: Mode, preload: BOOLEAN], job' = [job EXCEPT ![c] = r],
           r.at \in {"exec", "compiler"} => r.preload = (preload /\ r.mode = "ask"),
           r.at = "wrapper" => ~r.preload,
           r.at = "compiler" => r.mode # "ask",
           r.at \in {"exec", "compiler"} /\ r.mode # "ask" => env # Tool,
           c \in Unit /\ r.at \in {"exec", "compiler"} =>
               /\ r.mode # "linkMPI"
               /\ r.mode = "original" => env = {} \/ c \in Fragile \/ src[c].broken
               /\ r.mode = "tool" => env # {}
    PROVE  TypeOK' /\ ObjectsOK' /\ ChainOK' /\ CompilerOK' /\ RuntimeOK'
           /\ EverythingHooked' /\ LeavesProgram'
  <1>1. TypeOK'
    BY DEF BInv, TypeOK
  <1>2. \A e \in Command : job'[e] = IF e = c THEN r ELSE job[e]
    BY DEF BInv, TypeOK
  <1>3. ObjectsOK'
    BY DEF BInv, ObjectsOK, Hooks
  <1>4. ChainOK'
    BY <1>2 DEF BInv, ChainOK
  <1>5. CompilerOK'
    BY <1>2 DEF BInv, CompilerOK
  <1> QED
    BY <1>1, <1>3, <1>4, <1>5, SameProgram

LEMMA StartOK == ASSUME BInv, Setting, NEW c \in Command, Start(c)
                 PROVE  BInv'
  <1> DEFINE r == [at |-> "exec", mode |-> "ask", preload |-> preload]
  <1>1. /\ UNCHANGED <<env, preload, src, obj, prog, stage>>
        /\ job' = [job EXCEPT ![c] = r]
        /\ stage = "building" /\ job[c] = NotStarted
    BY DEF Start
  <1>2. r \in [at: At, mode: Mode, preload: BOOLEAN]
    BY DEF BInv, TypeOK, At, Mode
  <1>3. TypeOK' /\ ObjectsOK' /\ ChainOK' /\ CompilerOK' /\ RuntimeOK'
        /\ EverythingHooked' /\ LeavesProgram'
    BY <1>1, <1>2, OneJob
  <1>4. \A e \in Command : job'[e] = IF e = c THEN r ELSE job[e]
    BY <1>1 DEF BInv, TypeOK
  <1>5. r # Done /\ r # NotStarted
    BY DEF Done, NotStarted
  <1> HIDE DEF r
  <1>6. DoneOK'
    BY <1>1, <1>4, <1>5 DEF BInv, DoneOK, UpToDate, Command
  <1>7. LinkOK'
    <2>1. CASE c = "link"
      <3>1. "link" \notin Unit
        BY BuildAssumption DEF BuildAssumption
      <3>2. \A u \in Unit : Ready(u)
        BY <2>1, <3>1 DEF Start, Setting, Ready
      <3>3. \A u \in Unit : job'[u] = job[u] /\ (UpToDate(u)' <=> UpToDate(u))
        BY <2>1, <3>1, <1>1, <1>4 DEF UpToDate, Command
      <3>4. \A u \in Unit : Ready(u)'
        BY <3>2, <3>3 DEF Ready, Done, NotStarted
      <3> QED
        BY <2>1, <3>4, <1>1, <1>4, <1>5 DEF BInv, LinkOK, Command
    <2>2. CASE c # "link"
      <3>1. job["link"] = NotStarted /\ "link" \in Command
        BY <1>1, <2>2, BuildAssumption
           DEF Start, BInv, LinkOK, Ready, Command, Done, NotStarted
      <3> QED
        BY <2>2, <3>1, <1>1, <1>4 DEF BInv, LinkOK, Done, NotStarted
    <2> QED
      BY <2>1, <2>2
  <1> QED
    BY <1>3, <1>6, <1>7 DEF BInv

\* A process of a command runs, and neither starts nor ends it.
LEMMA Running ==
    ASSUME BInv, NEW c \in Command, job[c].at \notin {"none", "done"},
           UNCHANGED <<env, src, obj, prog, stage>>,
           NEW r, job' = [job EXCEPT ![c] = r], r.at \notin {"none", "done"}
    PROVE  DoneOK' /\ LinkOK'
  <1>1. \A e \in Command : job'[e] = IF e = c THEN r ELSE job[e]
    BY DEF BInv, TypeOK
  <1>2. /\ r # Done /\ r # NotStarted /\ job[c] # Done /\ job[c] # NotStarted
        /\ stage = "building"
    BY Working DEF Done, NotStarted
  <1>3. DoneOK'
    BY <1>1, <1>2 DEF BInv, DoneOK, UpToDate, Command
  <1>4. LinkOK'
    BY <1>1, <1>2 DEF BInv, LinkOK, Ready, UpToDate, Command
  <1> QED
    BY <1>3, <1>4

LEMMA ExecOK == ASSUME BInv, Setting, NEW c \in Command, Exec(c)
                PROVE  BInv'
  <1>1. PICK via \in Via :
            job' = [job EXCEPT ![c] =
                IF @.preload /\ via \in Caught
                THEN [at |-> "wrapper", mode |-> "ask", preload |-> Blanked(c)]
                ELSE [@ EXCEPT !.at = IF job[c].mode = "ask" /\ ~preload THEN "wrapper" ELSE "compiler"]]
    BY DEF Exec
  <1>2. /\ UNCHANGED <<env, preload, src, obj, prog, stage>>
        /\ job[c].at = "exec" /\ job[c] \in [at: At, mode: Mode, preload: BOOLEAN]
        /\ job[c].preload = (preload /\ job[c].mode = "ask")
        /\ via \in Caught
    BY DEF Exec, Setting, BInv, TypeOK, ChainOK
  <1>3. PICK r \in [at: At, mode: Mode, preload: BOOLEAN] :
            /\ job' = [job EXCEPT ![c] = r]
            /\ ~r.preload /\ r.mode = job[c].mode
            /\ r.at = IF r.mode = "ask" THEN "wrapper" ELSE "compiler"
    <2>1. CASE job[c].preload
      <3> DEFINE q == [at |-> "wrapper", mode |-> "ask", preload |-> FALSE]
      <3>1. q \in [at: At, mode: Mode, preload: BOOLEAN] /\ job[c].mode = "ask"
        BY <1>2, <2>1 DEF At, Mode
      <3>2. job' = [job EXCEPT ![c] = q]
        BY <1>1, <1>2, <2>1 DEF Blanked, BInv, TypeOK
      <3> QED
        BY <3>1, <3>2
    <2>2. CASE ~job[c].preload
      <3> DEFINE a == IF job[c].mode = "ask" THEN "wrapper" ELSE "compiler"
                 q == [job[c] EXCEPT !.at = a]
      <3>1. a \in At
        BY DEF At
      <3>2. job' = [job EXCEPT ![c] = q]
        BY <1>1, <1>2, <2>2 DEF BInv, TypeOK
      <3> HIDE DEF a
      <3>3. /\ q \in [at: At, mode: Mode, preload: BOOLEAN]
            /\ q.at = a /\ q.mode = job[c].mode /\ q.preload = job[c].preload
        BY <1>2, <3>1
      <3> QED
        BY <2>2, <3>2, <3>3 DEF a
    <2> QED
      BY <2>1, <2>2
  <1>4. r.at \notin {"none", "done"}
    BY <1>3
  <1>5. DoneOK' /\ LinkOK'
    BY <1>2, <1>3, <1>4, Running
  <1>6. TypeOK' /\ ObjectsOK' /\ ChainOK' /\ CompilerOK' /\ RuntimeOK'
        /\ EverythingHooked' /\ LeavesProgram'
    BY <1>2, <1>3, <1>4, OneJob DEF BInv, CompilerOK
  <1> QED
    BY <1>5, <1>6 DEF BInv

\* Goto keeps the preload of the process.
LEMMA GotoJob ==
    ASSUME TypeOK, NEW c \in Command, NEW a \in At, NEW m \in Mode, Goto(c, a, m)
    PROVE  \E r \in [at: At, mode: Mode, preload: BOOLEAN] :
               /\ job' = [job EXCEPT ![c] = r]
               /\ r.at = a /\ r.mode = m /\ r.preload = job[c].preload
  <1> DEFINE q == [[job[c] EXCEPT !.at = a] EXCEPT !.mode = m]
  <1>1. job[c] \in [at: At, mode: Mode, preload: BOOLEAN]
    BY DEF TypeOK
  <1>2. q \in [at: At, mode: Mode, preload: BOOLEAN]
    BY <1>1
  <1>3. q.at = a /\ q.mode = m /\ q.preload = job[c].preload
    BY <1>1
  <1>4. job' = [job EXCEPT ![c] = q]
    BY DEF Goto, TypeOK
  <1> QED
    BY <1>2, <1>3, <1>4

LEMMA WrapperOK == ASSUME BInv, NEW c \in Command, Wrapper(c)
                   PROVE  BInv'
  <1>1. /\ UNCHANGED <<env, preload, src, obj, prog, stage>>
        /\ job[c].at = "wrapper" /\ job[c].preload = FALSE /\ stage = "building"
    <2>1. job[c].preload \in BOOLEAN
      BY DEF BInv, TypeOK
    <2> QED
      BY <2>1, Working DEF Wrapper, BInv, ChainOK
  <1>2. CASE env = Tool
    <2>1. job' = [job EXCEPT ![c] = Done]
      BY <1>2 DEF Wrapper
    <2>2. Done \in [at: At, mode: Mode, preload: BOOLEAN] /\ Done.at = "done"
      BY DEF Done, NotStarted, At, Mode
    <2>3. TypeOK' /\ ObjectsOK' /\ ChainOK' /\ CompilerOK' /\ RuntimeOK'
          /\ EverythingHooked' /\ LeavesProgram'
      BY <1>1, <2>1, <2>2, OneJob
    <2>4. DoneOK'
      BY <1>1, <1>2 DEF DoneOK
    <2>5. \A e \in Command : job'[e] = IF e = c THEN Done ELSE job[e]
      BY <2>1 DEF BInv, TypeOK
    <2>6. job[c] # NotStarted /\ job[c] # Done
      BY <1>1 DEF Done, NotStarted
    <2>7. LinkOK'
      BY <1>1, <1>2, <2>5, <2>6 DEF BInv, LinkOK, Ready, UpToDate, Command
    <2> QED
      BY <2>3, <2>4, <2>7 DEF BInv
  <1>3. CASE env # Tool
    <2>1. PICK m \in Mode :
              /\ Goto(c, "exec", m) /\ m # "ask"
              /\ c \in Unit => m = IF env = {} THEN "original" ELSE "tool"
      <3>1. c \in Unit => ~IsLink(c)
        BY DEF IsLink, Flags
      <3> QED
        BY <1>3, <3>1 DEF Wrapper, Mode
    <2>2. PICK r \in [at: At, mode: Mode, preload: BOOLEAN] :
              /\ job' = [job EXCEPT ![c] = r]
              /\ r.at = "exec" /\ r.mode = m /\ r.preload = job[c].preload
      BY <2>1, GotoJob DEF BInv, At
    <2>3. TypeOK' /\ ObjectsOK' /\ ChainOK' /\ CompilerOK' /\ RuntimeOK'
          /\ EverythingHooked' /\ LeavesProgram'
      BY <1>1, <1>3, <2>1, <2>2, OneJob
    <2>4. DoneOK' /\ LinkOK'
      BY <1>1, <2>2, Running
    <2> QED
      BY <2>3, <2>4 DEF BInv
  <1> QED
    BY <1>2, <1>3
-----------------------------------------------------------------------------
(* The compiler and the linker.                                            *)

\* What the compiler leaves is of the chosen tool and of the latest version.
LEMMA CompiledOK ==
    ASSUME BInv, NEW u \in Unit, job[u].at = "compiler", ~src[u].broken,
           ~(job[u].mode = "tool" /\ u \in Fragile)
    PROVE  /\ Compiled(u, job[u].mode) \in Object
           /\ Compiled(u, job[u].mode).version = src[u].version
           /\ Compiled(u, job[u].mode).tool = Hooks(u)
           /\ Compiled(u, job[u].mode).locked
                  <=> Compiled(u, job[u].mode).tool # {} /\ u \in Threaded
  <1>1. u \in Command /\ src[u].version \in Nat /\ env \in SUBSET Tool
    BY DEF BInv, TypeOK, Command
  <1>2. job[u].mode \in {"original", "tool"}
    BY <1>1 DEF BInv, TypeOK, CompilerOK, Mode
  <1>3. job[u].mode = "original" => env = {} \/ u \in Fragile
    BY <1>1 DEF BInv, CompilerOK
  <1>4. job[u].mode = "tool" => env # {}
    BY <1>1 DEF BInv, CompilerOK
  <1> QED
    BY <1>1, <1>2, <1>3, <1>4 DEF Compiled, Object, Hooks, Locks

LEMMA CompileOK == ASSUME BInv, NEW u \in Unit, Compile(u)
                   PROVE  BInv'
  <1>1. /\ u \in Command /\ job[u].at = "compiler" /\ stage = "building"
        /\ UNCHANGED <<env, preload, src, prog, stage>>
        /\ env # Tool /\ job[u].preload = FALSE
    <2>1. u \in Command /\ job[u].at = "compiler"
      BY DEF Compile, Command
    <2>2. job[u].preload \in BOOLEAN
      BY <2>1 DEF BInv, TypeOK
    <2>3. stage = "building"
      BY <2>1, Working
    <2> QED
      BY <2>1, <2>2, <2>3 DEF Compile, BInv, ChainOK, CompilerOK
  <1>2. CASE job[u].mode = "tool" /\ (src[u].broken \/ u \in Fragile)
    <2>1. Goto(u, "exec", "original") /\ UNCHANGED obj
      BY <1>2 DEF Compile
    <2>2. PICK r \in [at: At, mode: Mode, preload: BOOLEAN] :
              /\ job' = [job EXCEPT ![u] = r]
              /\ r.at = "exec" /\ r.mode = "original" /\ r.preload = job[u].preload
      BY <1>1, <2>1, GotoJob DEF BInv, At, Mode
    <2>3. TypeOK' /\ ObjectsOK' /\ ChainOK' /\ CompilerOK' /\ RuntimeOK'
          /\ EverythingHooked' /\ LeavesProgram'
      BY <1>1, <1>2, <2>1, <2>2, OneJob
    <2>4. DoneOK' /\ LinkOK'
      BY <1>1, <2>1, <2>2, Running
    <2> QED
      BY <2>3, <2>4 DEF BInv
  <1>3. CASE ~(job[u].mode = "tool" /\ (src[u].broken \/ u \in Fragile))
    <2> DEFINE o == IF src[u].broken THEN None ELSE Compiled(u, job[u].mode)
    <2>1. obj' = [obj EXCEPT ![u] = o] /\ job' = [job EXCEPT ![u] = Done]
      BY <1>3 DEF Compile
    <2>2. /\ o \in Object \cup {None} /\ (o = None <=> src[u].broken)
          /\ o # None => /\ o.version = src[u].version /\ o.tool = Hooks(u)
                         /\ o.locked <=> o.tool # {} /\ u \in Threaded
      <3>1. CASE src[u].broken
        BY <3>1
      <3>2. CASE ~src[u].broken
        <4>1. None \notin Object
          BY BuildAssumption DEF BuildAssumption
        <4> QED
          BY <1>1, <1>3, <3>2, <4>1, CompiledOK
      <3> QED
        BY <3>1, <3>2
    <2> HIDE DEF o
    <2>3. \A w \in Unit : obj'[w] = IF w = u THEN o ELSE obj[w]
      BY <2>1 DEF BInv, TypeOK
    <2>4. \A e \in Command : job'[e] = IF e = u THEN Done ELSE job[e]
      BY <2>1 DEF BInv, TypeOK
    <2>5. Done \in [at: At, mode: Mode, preload: BOOLEAN] /\ Done.at = "done"
      BY DEF Done, NotStarted, At, Mode
    <2>6. TypeOK'
      BY <1>1, <2>1, <2>2, <2>5 DEF BInv, TypeOK
    <2>7. ObjectsOK'
      <3> SUFFICES ASSUME NEW w \in Unit, obj'[w] # None
                   PROVE  /\ env # Tool /\ obj'[w].tool = Hooks(w)
                          /\ obj'[w].locked <=> obj'[w].tool # {} /\ w \in Threaded
                          /\ obj'[w].version <= src[w].version
                          /\ obj'[w].version = src[w].version => ~src[w].broken
        BY <1>1 DEF ObjectsOK, Hooks
      <3>1. CASE w = u
        <4>1. src[u].version \in Nat
          BY DEF BInv, TypeOK
        <4>2. obj'[w] = o
          BY <2>3, <3>1
        <4> HIDE DEF Hooks
        <4> QED
          BY <1>1, <2>2, <3>1, <4>1, <4>2
      <3>2. CASE w # u
        BY <2>3, <3>2 DEF BInv, ObjectsOK
      <3> QED
        BY <3>1, <3>2
    <2>8. ChainOK' /\ CompilerOK'
      BY <1>1, <2>4, <2>5 DEF BInv, ChainOK, CompilerOK
    <2>9. DoneOK'
      BY <1>1, <2>2, <2>3, <2>4 DEF BInv, DoneOK, UpToDate, Command
    <2>10. job[u] # NotStarted /\ job[u] # Done
      BY <1>1 DEF Done, NotStarted
    <2>11. "link" # u /\ "link" \in Command
      BY BuildAssumption DEF BuildAssumption, Command
    <2>12. job["link"] = NotStarted
      BY <1>1, <2>10 DEF BInv, LinkOK, Ready
    <2>13. LinkOK'
      BY <1>1, <2>4, <2>11, <2>12 DEF BInv, LinkOK, Done, NotStarted
    <2>14. RuntimeOK' /\ EverythingHooked' /\ LeavesProgram'
      BY <1>1, SameProgram
    <2> QED
      BY <2>6, <2>7, <2>8, <2>9, <2>13, <2>14 DEF BInv
  <1> QED
    BY <1>2, <1>3

\* The units are compiled when the linker runs.
LEMMA LinkerFinds ==
    ASSUME BInv, job["link"].at = "compiler"
    PROVE  /\ stage = "building" /\ env # Tool /\ "link" \in Command
           /\ \A u \in Unit :
                  /\ job[u].at \in {"none", "done"}
                  /\ obj[u] = None <=> src[u].broken
                  /\ obj[u] # None => obj[u].version = src[u].version
  <1>1. stage = "building" /\ env # Tool /\ "link" \in Command
    <2>1. "link" \in Command
      BY DEF Command
    <2>2. job["link"].mode # "ask"
      BY <2>1 DEF BInv, CompilerOK
    <2> QED
      BY <2>1, <2>2, Working DEF BInv, CompilerOK
  <1>2. \A u \in Unit : Ready(u)
    BY <1>1 DEF BInv, LinkOK, NotStarted
  <1>3. ASSUME NEW u \in Unit
        PROVE  /\ job[u].at \in {"none", "done"}
               /\ obj[u] = None <=> src[u].broken
               /\ obj[u] # None => obj[u].version = src[u].version
    <2>1. src[u].broken \in BOOLEAN
      BY DEF BInv, TypeOK
    <2>2. CASE job[u] = Done
      BY <1>1, <2>1, <2>2 DEF BInv, DoneOK, UpToDate, ObjectsOK, Done, NotStarted
    <2>3. CASE job[u] = NotStarted /\ UpToDate(u)
      BY <2>1, <2>3 DEF BInv, ObjectsOK, UpToDate, NotStarted
    <2> QED
      BY <1>2, <2>2, <2>3 DEF Ready
  <1> QED
    BY <1>1, <1>3

LEMMA LinkStepOK == ASSUME BInv, Setting, Link
                    PROVE  BInv'
  <1>1. /\ job["link"].at = "compiler" /\ UNCHANGED <<env, preload, src, obj>>
        /\ job' = [job EXCEPT !["link"] = Done] /\ Objects = obj
    BY DEF Link, Setting, Objects
  <1>2. /\ stage = "building" /\ env # Tool /\ "link" \in Command
        /\ \A u \in Unit :
               /\ job[u].at \in {"none", "done"}
               /\ obj[u] = None <=> src[u].broken
               /\ obj[u] # None => obj[u].version = src[u].version
    BY <1>1, LinkerFinds
  <1>3. stage' \in {"finished", "stopped"}
    BY <1>1 DEF Link
  <1>4. \A e \in Command : job'[e] = IF e = "link" THEN Done ELSE job[e]
    BY <1>1 DEF BInv, TypeOK
  <1>5. Done \in [at: At, mode: Mode, preload: BOOLEAN] /\ Done.at = "done"
    BY DEF Done, NotStarted, At, Mode
  <1>6. \A e \in Command : job'[e].at \in {"none", "done"}
    BY <1>2, <1>4, <1>5 DEF Command
  <1>7. ObjectsOK' /\ ChainOK' /\ CompilerOK' /\ DoneOK' /\ LinkOK'
    <2>1. ObjectsOK'
      BY <1>1 DEF BInv, ObjectsOK, Hooks
    <2>2. ChainOK' /\ CompilerOK' /\ DoneOK' /\ LinkOK'
      BY <1>1, <1>2, <1>3, <1>6 DEF ChainOK, CompilerOK, DoneOK, LinkOK
    <2> QED
      BY <2>1, <2>2
  <1>8. CASE \E u \in Unit : obj[u] = None
    <2>1. prog' = None
      BY <1>1, <1>8 DEF Link
    <2>2. TypeOK'
      BY <1>1, <1>3, <1>5, <2>1 DEF BInv, TypeOK
    <2>3. RuntimeOK' /\ EverythingHooked' /\ LeavesProgram'
      BY <1>1, <1>2, <1>8, <2>1 DEF RuntimeOK, EverythingHooked, LeavesProgram
    <2> QED
      BY <1>7, <2>2, <2>3 DEF BInv
  <1>9. CASE \A u \in Unit : obj[u] # None
    <2>1. PICK kept \in Kept(obj) : prog' = [unit |-> obj, locked |-> obj[kept].locked]
      BY <1>1, <1>9 DEF Link
    <2>2. stage' = "finished"
      BY <1>1, <1>9 DEF Link
    <2>3. kept \in Unit /\ obj \in [Unit -> Object]
      BY <1>9 DEF Kept, Hooked, BInv, TypeOK
    <2>4. prog' \in Program /\ prog' # None
      BY <2>1, <2>3, BuildAssumption DEF Program, Object, BuildAssumption
    <2>5. prog'.unit = obj /\ prog'.locked = obj[kept].locked
      BY <2>1
    <2>6. TypeOK'
      BY <1>1, <1>3, <1>5, <2>4 DEF BInv, TypeOK
    <2>7. EverythingHooked'
      <3> SUFFICES ASSUME NEW u \in Unit
                   PROVE  /\ obj[u].version = src[u].version
                          /\ obj[u].tool = IF u \in Fragile THEN {} ELSE env
        BY <1>1, <2>5 DEF EverythingHooked
      <3> QED
        BY <1>2, <1>9 DEF BInv, ObjectsOK, Hooks
    <2>8. LeavesProgram'
      BY <1>1, <1>2, <1>9, <2>4 DEF LeavesProgram
    <2>9. RuntimeOK'
      <3> SUFFICES ASSUME \E u \in Unit : obj[u].tool # {}
                   PROVE  obj[kept].tool # {} /\ (obj[kept].locked <=> kept \in Threaded)
        BY <2>3, <2>5 DEF RuntimeOK
      <3>1. obj[kept].tool # {}
        BY <2>1 DEF Kept, Hooked
      <3> QED
        BY <1>9, <2>3, <3>1 DEF BInv, ObjectsOK
    <2> QED
      BY <1>7, <2>6, <2>7, <2>8, <2>9 DEF BInv
  <1> QED
    BY <1>8, <1>9

LEMMA LinkNothingOK == ASSUME BInv, LinkNothing
                       PROVE  BInv'
  <1>1. /\ UNCHANGED <<env, preload, src, obj, prog, job>> /\ stage' = "finished"
        /\ stage = "building" /\ job["link"] = Done /\ "link" \in Command
    BY DEF LinkNothing, Command
  <1>2. env = Tool /\ prog = None /\ \A u \in Unit : Ready(u)
    BY <1>1 DEF BInv, LinkOK, Done, NotStarted
  <1>3. \A c \in Command : job[c].at \in {"none", "done"}
    BY <1>1, <1>2 DEF Command, Ready, Done, NotStarted
  <1>4. TypeOK' /\ ObjectsOK' /\ ChainOK' /\ CompilerOK'
    BY <1>1 DEF BInv, TypeOK, ObjectsOK, Hooks, ChainOK, CompilerOK
  <1>5. DoneOK' /\ LinkOK'
    BY <1>1, <1>2, <1>3 DEF DoneOK, LinkOK
  <1>6. RuntimeOK' /\ EverythingHooked' /\ LeavesProgram'
    BY <1>1, <1>2 DEF RuntimeOK, EverythingHooked, LeavesProgram
  <1> QED
    BY <1>4, <1>5, <1>6 DEF BInv

LEMMA Stutters == ASSUME BInv, UNCHANGED vars
                  PROVE  BInv'
  BY DEF vars, BInv, TypeOK, ObjectsOK, Hooks, ChainOK, CompilerOK, DoneOK, UpToDate,
         LinkOK, Ready, RuntimeOK, EverythingHooked, LeavesProgram

LEMMA BNext == ASSUME Setting
               PROVE  BInv /\ [Next]_vars => BInv'
  BY EditOK, CleanOK, MakeOK, StartOK, ExecOK, WrapperOK, CompileOK, LinkStepOK,
     LinkNothingOK, Stutters DEF Next, Step

LEMMA BAlways == ASSUME Setting
                 PROVE  Spec => []BInv
  BY BInit, BNext, PTL DEF Spec
-----------------------------------------------------------------------------
\* In any build with separate commands that is cleaned before another tool is
\* chosen, the program has the latest version of every unit and the hooks of the
\* chosen tool in every unit that compiles with it (instrumentIR, fpchecker.py).
THEOREM AllHooked == ASSUME Setting
                     PROVE  Spec => []EverythingHooked
  <1>1. BInv => EverythingHooked
    BY DEF BInv
  <1> QED
    BY <1>1, BAlways, PTL

\* Such a build leaves a program exactly if the sources compile and one tool or
\* none was chosen: the wrapper's second attempt is enough.
THEOREM ProgramLeft == ASSUME Setting
                       PROVE  Spec => []LeavesProgram
  <1>1. BInv => LeavesProgram
    BY DEF BInv
  <1> QED
    BY <1>1, BAlways, PTL

\* The program has the lock if every unit with hooks is compiled with -fopenmp;
\* the linker may keep the runtime of any of them.
THEOREM LockKept == ASSUME Setting, Unit \ Fragile \subseteq Threaded
                    PROVE  Spec => []ThreadedLocked
  <1>1. BInv => ThreadedLocked
    <2> SUFFICES ASSUME BInv, stage = "finished", prog # None,
                        NEW u \in Threaded, prog.unit[u].tool = {"exceptions"}
                 PROVE  prog.locked
      BY DEF ThreadedLocked
    <2>1. u \in Unit /\ prog.unit[u].tool # {}
      BY BuildAssumption DEF BuildAssumption
    <2>2. PICK k \in Unit : prog.unit[k].tool # {} /\ (prog.locked <=> k \in Threaded)
      BY <2>1 DEF BInv, RuntimeOK
    <2>3. k \notin Fragile
      BY <2>2 DEF BInv, EverythingHooked
    <2> QED
      BY <2>2, <2>3
  <1> QED
    BY <1>1, BAlways, PTL
=============================================================================
