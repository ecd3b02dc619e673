------------------------------- MODULE LlvmIR -------------------------------
(***************************************************************************)
(* A function in LLVM IR, as far as the two passes look at it, and the     *)
(* helpers both passes use: the debug location of an instruction           *)
(* (Utility.cpp), the names of registers, the test for a value that only a *)
(* select uses, and the insertion of calls.                                *)
(*                                                                         *)
(* A function is the sequence of its instructions in layout order, each    *)
(* with the number of its block.  Values are numbers: parameters and       *)
(* instructions with a result; 0 is a literal.  A pass inserts calls of    *)
(* the runtime (op "hook") and, where the IR builder does not name or fold *)
(* them, helper instructions (op "aux").                                   *)
(***************************************************************************)
EXTENDS Naturals, FiniteSets, SequencesExt

CONSTANTS
    Param,      \* the function's parameters, all floats, in order
    Program     \* the functions looked at

VARIABLES
    code,       \* the function, with what has been inserted
    todo,       \* instructions of the phase still to visit
    phase       \* the loop of the pass that runs

ir == <<code, todo, phase>>

Literal == 0
NoRef == [val |-> Literal, num |-> 0]

\* An instruction of the program: its operation, its result's type ("f32",
\* "f64", "other" or "void"), operands, line (0: no debug location) and file.
Inst(id, bb, op, ty, args, dbg, file) ==
    [id |-> id, bb |-> bb, op |-> op, ty |-> ty, args |-> args, dbg |-> dbg, file |-> file,
     hook |-> "", of |-> id, reads |-> <<>>, writes |-> NoRef, cond |-> Literal, neg |-> FALSE]

InstructionOp == {"store", "load", "copy", "mpi", "call", "math", "arith", "select", "ret",
                  "resume", "phi", "br", "cast", "cmp", "fcmp", "invoke"}
Instruction == [id: Nat \ {Literal}, bb: Nat \ {0}, op: InstructionOp,
                ty: {"f32", "f64", "other", "void"}, args: Seq(Nat), dbg: Nat, file: STRING,
                hook: {""}, of: Nat, reads: {<<>>}, writes: {NoRef}, cond: {Literal}, neg: {FALSE}]

\* A function the compiler may give to a pass.  Every result has one definition,
\* an operand is a literal, a parameter or a result; the condition of a select is
\* no float, arithmetic gives one, a store has a value and an address; no block
\* ends with a PHI node.
Valid(f) ==
    /\ f \in Seq(Instruction) /\ f # <<>>
    /\ \A i \in DOMAIN f :
           /\ f[i].of = f[i].id
           /\ \A k \in DOMAIN Param : f[i].id # Param[k]
           /\ \A j \in DOMAIN f : i < j => f[i].id # f[j].id /\ f[i].bb <= f[j].bb
           /\ \A k \in DOMAIN f[i].args :
                  \/ f[i].args[k] = Literal
                  \/ \E n \in DOMAIN Param : f[i].args[k] = Param[n]
                  \/ \E j \in DOMAIN f : f[i].args[k] = f[j].id /\ f[j].ty # "void"
           /\ f[i].op = "store" => Len(f[i].args) = 2
           /\ f[i].op = "arith" => f[i].ty \in {"f32", "f64"}
           /\ f[i].op = "select" =>
                  /\ Len(f[i].args) = 3 /\ \A n \in DOMAIN Param : f[i].args[1] # Param[n]
                  /\ \A j \in DOMAIN f : f[j].id = f[i].args[1] => f[j].ty \notin {"f32", "f64"}
    /\ f[1].bb = 1 /\ f[Len(f)].op # "phi"

ASSUME LlvmAssumption ==
    /\ Param \in Seq(Nat \ {Literal})
    /\ \A i, j \in DOMAIN Param : Param[i] = Param[j] => i = j
    /\ \A f \in Program : Valid(f)

Place(v) == IF v = Literal THEN 0 ELSE SelectInSeq(code, LAMBDA i : i.id = v)
ItemOf(v) == code[Place(v)]
IsParam(v) == \E i \in DOMAIN Param : Param[i] = v

\* Instructions other than PHI nodes stand behind what they use, as compilers
\* lay blocks out (IR asks only that a definition dominates its uses).
InLayoutOrder ==
    \A f \in Program : \A i \in DOMAIN f : f[i].op # "phi" =>
        \A n \in DOMAIN f[i].args :
            \/ f[i].args[n] = Literal \/ IsParam(f[i].args[n])
            \/ \E j \in DOMAIN f : j < i /\ f[i].args[n] = f[j].id

FP == {"f32", "f64"}
TypeOf(v) == IF Place(v) > 0 THEN ItemOf(v).ty ELSE "f32"

-----------------------------------------------------------------------------
\* getListOfSurroundingInstructions: the instruction, its predecessor and its
\* successor in the block.
Surrounding(p) ==
    LET In(q) == IF q \in DOMAIN code /\ code[q].bb = code[p].bb THEN <<q>> ELSE <<>>
    IN  <<p>> \o In(p - 1) \o In(p + 1)

\* findBestDebugLocation: the first of these that has a location, or whose
\* operands have one; its position, or 0.
Candidates(p) == <<p>> \o [k \in DOMAIN code[p].args |-> Place(code[p].args[k])]
BestLocation(p) ==
    LET all == FlattenSeq([i \in DOMAIN Surrounding(p) |-> Candidates(Surrounding(p)[i])])
        known == SelectSeq(all, LAMBDA q : q # 0 /\ code[q].dbg # 0)
    IN  IF known = <<>> THEN 0 ELSE Head(known)

\* getLineOfCode, getFileNameFromInstruction; 0 stands for -1, "" for "Unknown".
LineOf(p) == IF BestLocation(p) = 0 THEN 0 ELSE code[BestLocation(p)].dbg
FileOf(p) == IF BestLocation(p) = 0 THEN "" ELSE code[BestLocation(p)].file

\* setFakeDebugLocation: the location of the instruction a hook is for, or the
\* first one in the function.
FakeLocation(x) ==
    IF x.dbg # 0 THEN x ELSE code[SelectInSeq(code, LAMBDA i : i.dbg # 0)]

-----------------------------------------------------------------------------
\* printAsOperand: parameters, blocks and results without a name are counted
\* in layout order.
TakesNumber(i) == i.ty # "void"
Ref(v) ==
    IF v = Literal THEN NoRef
    ELSE IF IsParam(v) THEN [val |-> v, num |-> CHOOSE i \in DOMAIN Param : Param[i] = v]
    ELSE [val |-> v,
          num |-> Len(Param) + ItemOf(v).bb
                  + Cardinality({q \in 1..Place(v) : TakesNumber(code[q])})]

\* selectedBasedOnCondition: the value's one use is by a select.
Uses(v) == UNION {{<<q, k>> : k \in {a \in DOMAIN code[q].args : code[q].args[a] = v}} :
                   q \in DOMAIN code}
SelectedBasedOnCondition(v) ==
    \E u \in Uses(v) : Uses(v) = {u} /\ code[u[1]].op = "select"
SelectOf(v) == code[(CHOOSE u \in Uses(v) : TRUE)[1]]
\* InvertedNever is a faulty variant: the first alternative is assumed.
InvertedNever(v) == FALSE
Inverted(v) == SelectOf(v).args[2] # v

-----------------------------------------------------------------------------
\* The same of the program alone, whatever has been inserted.
ProgramUses(v) == {u \in Uses(v) : code[u[1]].op # "hook"}
Alternative(v) == \E u \in ProgramUses(v) : ProgramUses(v) = {u} /\ code[u[1]].op = "select"

\* A call of the runtime for instruction x, which uses the values args.
Hook(h, x, args, reads, writes) ==
    [id |-> Literal, bb |-> x.bb, op |-> "hook", ty |-> "void", args |-> args,
     dbg |-> FakeLocation(x).dbg, file |-> FakeLocation(x).file,
     hook |-> h, of |-> x.id, reads |-> reads, writes |-> writes,
     cond |-> Literal, neg |-> FALSE]

\* A helper instruction for x that takes a number, inserted in front of y.
Aux(x, y) == [Hook("", x, <<>>, <<>>, NoRef) EXCEPT
                 !.op = "aux", !.ty = "other", !.dbg = y.dbg, !.file = y.file]

\* code with before in front of position p and after behind it
Spliced(p, before, after) ==
    SubSeq(code, 1, p - 1) \o before \o <<code[p]>> \o after
        \o SubSeq(code, p + 1, Len(code))

\* The elements of a set of positions, in order.
Ordered(K) == [n \in 1..Cardinality(K) |->
                  CHOOSE k \in K : Cardinality({j \in K : j <= k}) = n]

Following(p) == IF p < Len(code) THEN code[p + 1] ELSE code[p]
=============================================================================
