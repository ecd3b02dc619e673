--------------------------- MODULE CheckPlacement ---------------------------
(***************************************************************************)
(* Where the exception pass puts its checks in a function, and what it     *)
(* gives them: instrumentFunction of Instrumentation_cpu.cpp.  A check     *)
(* gets its operation's result and operands, line, file and condition; the *)
(* file it loads from one global of the module, whose initialiser each     *)
(* insertion replaces.                                                     *)
(***************************************************************************)
EXTENDS LlvmIR

CONSTANTS
    CodeIsAnnotated,    \* FPC_ANNOTATED is set
    FunAnnotated,       \* the function has the annotation
    BlockAnnotated      \* blocks with a variable that has it

VARIABLE fileName       \* initialiser of _FPC_FILE_NAME_

CInit == /\ code \in Program /\ fileName = ""
         /\ todo = [i \in DOMAIN code |-> code[i].id] /\ phase = "checks"

y == ItemOf(Head(todo))
py == Place(Head(todo))

\* Arithmetic and comparisons for equality whose first operand is a float or a
\* double; comparisons' other operations and selects are not checked.
IsFPOperation == y.op \in {"arith", "fcmp"} /\ TypeOf(y.args[1]) \in FP
Skipped == CodeIsAnnotated /\ ~FunAnnotated /\ y.bb \notin BlockAnnotated

\* The condition of a check is that of the select which alone uses the result,
\* inverted unless the select takes the result when it holds.
Checked ==
    LET alone == SelectedBasedOnCondition(y.id)
        behind == IF alone THEN Place(SelectOf(y.id).id) ELSE py
        args == IF y.op = "fcmp" THEN y.args ELSE <<y.id>> \o y.args
    IN  Spliced(behind, <<>>,
            <<[Hook("check", y, args, <<>>, NoRef) EXCEPT
                  !.bb = code[behind].bb,
                  !.cond = IF alone THEN SelectOf(y.id).args[1] ELSE Literal,
                  !.neg = alone /\ Inverted(y.id)]>>)

CheckVisit ==
    /\ phase = "checks" /\ todo # <<>>
    /\ todo' = Tail(todo)
    /\ phase' = IF Len(todo) = 1 THEN "checked" ELSE phase
    /\ IF ~Skipped /\ IsFPOperation /\ LineOf(py) # 0
       THEN code' = Checked /\ fileName' = FileOf(py)
       ELSE UNCHANGED <<code, fileName>>

CNext == CheckVisit

CSpec == CInit /\ [][CNext]_<<ir, fileName>>
-----------------------------------------------------------------------------
(* Properties.                                                             *)

Checks == {p \in DOMAIN code : code[p].hook = "check"}

\* A check of a result counts exactly when the program uses the result: if the
\* result is only ever an alternative of one select, when the select takes it.
\* (A comparison may be that select's condition, and counts when it fails.)
TakenIf(u, holds) == u[2] = IF holds THEN 2 ELSE 3
ChecksFollowUse ==
    phase = "checked" =>
        \A p \in Checks : \A holds \in BOOLEAN : \A u \in ProgramUses(code[p].of) :
            ItemOf(code[p].of).op # "fcmp" =>
                IF Alternative(code[p].of)
                THEN /\ code[p].cond = code[u[1]].args[1]
                     /\ (holds # code[p].neg) <=> TakenIf(u, holds)
                ELSE code[p].cond = Literal

\* A check reports the file of its operation.
FilesMatch == phase = "checked" => \A p \in Checks : fileName = FileOf(Place(code[p].of))
=============================================================================
