-------------------------- MODULE ErrorPropagation --------------------------
(***************************************************************************)
(* How the error-tracking runtime (Runtime_error.h) follows errors through *)
(* registers, memory and calls of an instrumented program                  *)
(* (Instrumentation_error.cpp decides which instruction gets which hook).  *)
(*                                                                         *)
(* Every floating-point value of the program is a pair: the value the      *)
(* program computes in FP32, and its shadow, what it would have computed   *)
(* in FP64 from the same inputs.  The runtime keeps neither: it keeps      *)
(* errors, by register and function name and by address, hands the errors  *)
(* of arguments over in one buffer and those of results on one stack.      *)
(* The tool is right about a value when value + recorded error = shadow.   *)
(*                                                                         *)
(* The error tables are the maps of ErrorMap (ErrorTables implements       *)
(* them); a key without a record reads as error 0, so an absent record is  *)
(* the record 0.  One thread runs; a step is an instruction with the hooks *)
(* around it, between which nothing else can run.  FP64 arithmetic, which   *)
(* gets no hooks, is not part of the program.                              *)
(***************************************************************************)
EXTENDS Operations, Sequences, FiniteSets

CONSTANTS
    Fn,             \* instrumented functions, named apart
    Main,           \* the one that runs first
    None,           \* no function: an unused frame
    Opaque,         \* functions without hooks (libraries, files compiled without)
    Reg,            \* floating-point registers
    Params,         \* the registers of a function's floating-point parameters
    Cell,           \* memory cells that hold a floating-point value
    Num,            \* numbers
    Value,          \* values a program can hold exactly: constants, inputs
    Opcodes,        \* arithmetic operations of the program
    MathCalls,      \* math functions it calls: names of math.h, or of intrinsics
    Round(_),       \* rounding to FP32
    ArgMax,         \* _FPC_ARG_BUF_MAX_
    RetMax,         \* _FPC_RET_STACK_MAX_
    MaxDepth,       \* bound: frames of the call stack
    Features        \* what the program does besides direct and indirect calls

FeatureNames == {"recursion", "callback", "invoke", "constStore",
                 "zeroDivide", "nestedSelect", "noHook"}

ASSUME PropagationAssumption ==
    /\ Main \in Fn /\ Fn \cap Opaque = {} /\ None \notin Fn \cup Opaque
    /\ Params \in [Fn \cup Opaque -> Seq(Reg)]
    /\ \A f \in Fn \cup Opaque : \A i, j \in DOMAIN Params[f] :
           Params[f][i] = Params[f][j] => i = j
    /\ Opcodes \subseteq Arithmetic
    /\ \A call \in MathCalls : call.libm \in BOOLEAN /\ (call.libm => IsSupportedMathCall(call))
    /\ Num \subseteq Int /\ Value \subseteq Num /\ Value # {} /\ 0 \in Num
    /\ \A op \in Opcodes \cup {call.name : call \in MathCalls} :
           \A nums \in [1..3 -> Num] : Exact(op, nums) \in Num
    /\ \A a \in Num : Round(a) \in Num
    /\ ArgMax \in Nat /\ RetMax \in Nat \ {0} /\ MaxDepth \in Nat \ {0}
    /\ Features \subseteq FeatureNames

VARIABLES
    depth,      \* frames in use; the last one runs
    frame,      \* the call stack
    mem,        \* what each cell holds
    regErr,     \* register table: recorded error of a function's register
    addrErr,    \* address table: recorded error of a cell
    argBuf, argCount,   \* _FPC_ARG_ERR_BUF_, _FPC_ARG_BUF_COUNT_
    retStack    \* _FPC_RET_ERR_STACK_ with _FPC_RET_FUNC_STACK_

vars == <<depth, frame, mem, regErr, addrErr, argBuf, argCount, retStack>>

Undef == [def |-> FALSE]
Pair(v, s) == [def |-> TRUE, val |-> v, shadow |-> s]
Pairs == [def: {TRUE}, val: Num, shadow: Num]
Exactly == {Pair(v, v) : v \in Value}

Via == {"direct", "indirect", "invoke", "callback"}
Frame == [fn: Fn \cup Opaque, via: Via, held: [Reg -> Pairs \cup {Undef}]]
MainFrame == [fn |-> Main, via |-> "direct", held |-> [r \in Reg |-> Undef]]
NoFrame == [fn |-> None]

IsParam(f, r) == \E i \in DOMAIN Params[f] : Params[f][i] = r
ParamIndex(f, r) == CHOOSE i \in DOMAIN Params[f] : Params[f][i] = r

Top == frame[depth]
Hooked == Top.fn \in Fn         \* the running function has hooks
Defined == {r \in Reg : Top.held[r].def}

-----------------------------------------------------------------------------
(* Operands: registers the function has written, and literals, which the   *)
(* tables know nothing about.                                              *)

RegOperand == [reg: Reg]
Literal == [lit: Exactly]
IsReg(o) == "reg" \in DOMAIN o
Usable == {o \in RegOperand : o.reg \in Defined} \cup Literal

\* The operands of an operation; those it lacks are 0.
Zero == [lit |-> Pair(0, 0)]
Operands(n) == {[k \in 1..3 |-> IF k \in DOMAIN s THEN s[k] ELSE Zero] : s \in [1..n -> Usable]}

Held(o) == IF IsReg(o) THEN Top.held[o.reg] ELSE o.lit

\* _FPC_FIND_ERRORS_BY_REGISTER by the running function.
Recorded(o) == IF IsReg(o) THEN regErr[<<Top.fn, o.reg>>] ELSE 0

\* A parameter is never assigned.
WriteReg(r, p) == /\ ~IsParam(Top.fn, r)
                  /\ frame' = [frame EXCEPT ![depth].held[r] = p]
RecordReg(f, r, e) == regErr' = [regErr EXCEPT ![<<f, r>>] = e]

-----------------------------------------------------------------------------
Init == /\ depth = 1
        /\ frame = [d \in 1..MaxDepth |-> IF d = 1 THEN MainFrame ELSE NoFrame]
        /\ mem \in [Cell -> Exactly]
        /\ regErr = [k \in Fn \X Reg |-> 0]
        /\ addrErr = [c \in Cell |-> 0]
        /\ argBuf = [i \in 1..ArgMax |-> 0] /\ argCount = 0
        /\ retStack = <<>>

\* The hooks of operations redo them in FP64 on value + error of the operands
\* and subtract what the program got.
\* HighOfValue is a faulty variant: the operands' errors are left out.
HighOfValue(o) == Held(o).val
High(o) == Held(o).val + Recorded(o)
Highs(args) == [k \in 1..3 |-> High(args[k])]
Low(op, args) == Round(Exact(op, [k \in 1..3 |-> Held(args[k]).val]))
Shadow(op, args) == Exact(op, [k \in 1..3 |-> Held(args[k]).shadow])

Operate(r, p, redone) ==
    /\ Hooked /\ UNCHANGED <<depth, mem, addrErr, argBuf, argCount, retStack>>
    /\ WriteReg(r, p)
    /\ RecordReg(Top.fn, r, redone - p.val)

\* An arithmetic operation and _FPC_FP32_CALCULATE_ERROR_.
DividesByZero(op, args) == op = "FDiv" /\ Held(args[2]).shadow = 0
Compute(op, r, args) ==
    /\ DividesByZero(op, args) => "zeroDivide" \in Features
    /\ Operate(r, Pair(Low(op, args), Shadow(op, args)), Redone(OperationType(op), Highs(args)))

\* A select and the same hook, whose condition is that of another select if this
\* one has no other use.
Chosen(holds, a, b) == IF holds THEN a ELSE b
Select(r, a, b, holds, cond) ==
    /\ cond # holds => "nestedSelect" \in Features
    /\ Operate(r, Held(Chosen(holds, a, b)), RedoneSelect(cond, Highs(<<Zero, a, b>>)))

\* A math function and _FPC_FP32_MATH_ERROR_.
Math(call, r, args) ==
    /\ IsSupportedMathCall(call)
    /\ LET low == Low(call.name, args)
       IN  Operate(r, Pair(low, Shadow(call.name, args)), RedoneMath(call.name, Highs(args), low))

\* Intrinsics and conversions without a hook: here one that returns an operand.
Unhooked(r, o) ==
    /\ Hooked /\ "noHook" \in Features
    /\ WriteReg(r, Held(o))
    /\ UNCHANGED <<depth, mem, regErr, addrErr, argBuf, argCount, retStack>>

\* Faulty variants of the next two: an error of zero is not recorded.
StoreSkipsZero(r, c) ==
    /\ Hooked /\ r \in Defined
    /\ mem' = [mem EXCEPT ![c] = Top.held[r]]
    /\ addrErr' = IF regErr[<<Top.fn, r>>] = 0 THEN addrErr
                  ELSE [addrErr EXCEPT ![c] = regErr[<<Top.fn, r>>]]
    /\ UNCHANGED <<depth, frame, regErr, argBuf, argCount, retStack>>
LoadSkipsZero(r, c) ==
    /\ Hooked
    /\ WriteReg(r, mem[c])
    /\ IF addrErr[c] = 0 THEN UNCHANGED regErr ELSE RecordReg(Top.fn, r, addrErr[c])
    /\ UNCHANGED <<depth, mem, addrErr, argBuf, argCount, retStack>>

\* A store of a register and _FPC_FP32_STORE_INST_.
Store(r, c) ==
    /\ Hooked /\ r \in Defined
    /\ mem' = [mem EXCEPT ![c] = Top.held[r]]
    /\ addrErr' = [addrErr EXCEPT ![c] = regErr[<<Top.fn, r>>]]
    /\ UNCHANGED <<depth, frame, regErr, argBuf, argCount, retStack>>

\* A store of a literal, a store by an opaque function: no hook.
StoreUnhooked(p, c) ==
    /\ "constStore" \in Features
    /\ mem' = [mem EXCEPT ![c] = p]
    /\ UNCHANGED <<depth, frame, regErr, addrErr, argBuf, argCount, retStack>>

\* A load and _FPC_FP32_LOAD_INST_.
Load(r, c) ==
    /\ Hooked
    /\ WriteReg(r, mem[c])
    /\ RecordReg(Top.fn, r, addrErr[c])
    /\ UNCHANGED <<depth, mem, addrErr, argBuf, argCount, retStack>>

\* memcpy of a cell and _FPC_FP32_MEMCPY_INST_.
Copy(dst, src) ==
    /\ Hooked
    /\ mem' = [mem EXCEPT ![dst] = mem[src]]
    /\ addrErr' = [addrErr EXCEPT ![dst] = addrErr[src]]
    /\ UNCHANGED <<depth, frame, regErr, argBuf, argCount, retStack>>

-----------------------------------------------------------------------------
(* Calls.  A CallInst pushes the errors of its arguments; an invoke does   *)
(* not, nor does an opaque caller.  An instrumented callee pops one error  *)
(* per parameter, whoever called it.                                       *)

Lesser(a, b) == IF a < b THEN a ELSE b
Greater(a, b) == IF a < b THEN b ELSE a

\* _FPC_FP32_PUSH_ARG_ERROR_ for every argument: indices beyond the buffer are
\* dropped, the count only grows.
PushedBuf(args) == [i \in 1..ArgMax |-> IF i \in DOMAIN args THEN Recorded(args[i])
                                                             ELSE argBuf[i]]
\* PushedCountAdds is a faulty variant: every push counts.
PushedCountAdds(f) == argCount + Len(Params[f])
PushedCount(f) == Greater(argCount, Lesser(Len(Params[f]), ArgMax))

\* _FPC_FP32_POP_ARG_ERROR_ for every parameter of f, from the buffer as the
\* caller left it.
\* PoppedBelow is a faulty variant: off by one.
PoppedBelow(buf, count, i) == IF i < count THEN buf[i] ELSE 0
Popped(buf, count, i) == IF i <= count THEN buf[i] ELSE 0
PopArgs(f, buf, count) ==
    regErr' = [k \in Fn \X Reg |->
                 IF k[1] = f /\ IsParam(f, k[2])
                 THEN Popped(buf, count, ParamIndex(f, k[2]))
                 ELSE regErr[k]]

\* A new frame, whose parameters hold the values of the arguments.
Active == {frame[d].fn : d \in 1..depth}
Enter(f, via, vals) ==
    /\ depth < MaxDepth
    /\ f \in Active \cap Fn => "recursion" \in Features
    /\ depth' = depth + 1
    /\ frame' = [frame EXCEPT ![depth + 1] =
          [fn |-> f, via |-> via,
           held |-> [r \in Reg |-> IF IsParam(f, r) THEN vals[ParamIndex(f, r)]
                                                   ELSE Undef]]]

Args(f) == [DOMAIN Params[f] -> Usable]
Values(args) == [i \in DOMAIN args |-> Held(args[i])]

Call(f, via, args) ==
    /\ via \in {"direct", "indirect"} /\ Hooked
    /\ Enter(f, via, Values(args))
    /\ argBuf' = PushedBuf(args) /\ argCount' = PushedCount(f)
    /\ IF f \in Fn THEN PopArgs(f, PushedBuf(args), PushedCount(f))
                   ELSE UNCHANGED regErr
    /\ UNCHANGED <<mem, addrErr, retStack>>

Invoke(f, args) ==
    /\ Hooked /\ "invoke" \in Features
    /\ Enter(f, "invoke", Values(args))
    /\ IF f \in Fn THEN PopArgs(f, argBuf, argCount) ELSE UNCHANGED regErr
    /\ UNCHANGED <<mem, addrErr, argBuf, argCount, retStack>>

\* An opaque function calls back, with values of its own.
Callback(f, vals) ==
    /\ ~Hooked /\ "callback" \in Features /\ f \in Fn
    /\ Enter(f, "callback", vals)
    /\ PopArgs(f, argBuf, argCount)
    /\ UNCHANGED <<mem, addrErr, argBuf, argCount, retStack>>

-----------------------------------------------------------------------------
(* Returns.                                                                *)

\* _FPC_FP32_PUSH_RET_ERROR_: dropped when the stack is full.
PushRet(e) == IF Len(retStack) < RetMax
              THEN Append(retStack, [fn |-> Top.fn, err |-> e])
              ELSE retStack

\* _FPC_FP32_POP_RET_ERROR_: the top, if it is the callee's or the call site
\* does not know its callee.
Matches(stack, f, via) ==
    stack # <<>> /\ (via = "indirect" \/ stack[Len(stack)].fn = f)
\* PoppedOldest is a faulty variant: the bottom of the stack is read.
PoppedOldest(stack, f, via) == IF Matches(stack, f, via) THEN stack[1].err ELSE 0
PoppedError(stack, f, via) ==
    IF Matches(stack, f, via) THEN stack[Len(stack)].err ELSE 0
\* PoppedNothing is a faulty variant: the entry is read and left.
PoppedNothing(stack, f, via) == stack
PoppedStack(stack, f, via) ==
    IF Matches(stack, f, via) THEN SubSeq(stack, 1, Len(stack) - 1) ELSE stack

\* The caller goes on with the result in r.
Resume(r, p) ==
    /\ depth' = depth - 1
    /\ frame' = [d \in 1..MaxDepth |->
          IF d >= depth THEN NoFrame
          ELSE IF d = depth - 1 /\ frame[d].fn \in Fn THEN [frame[d] EXCEPT !.held[r] = p]
          ELSE frame[d]]

\* The caller's hook runs after a CallInst of an instrumented function.
PopsResult == Top.via \in {"direct", "indirect"}

Finish(stack, r, p) ==
    /\ depth > 1 /\ ~IsParam(frame[depth - 1].fn, r)
    /\ Resume(r, p)
    /\ IF PopsResult
       THEN /\ RecordReg(frame[depth - 1].fn, r, PoppedError(stack, Top.fn, Top.via))
            /\ retStack' = PoppedStack(stack, Top.fn, Top.via)
       ELSE /\ retStack' = stack
            /\ UNCHANGED regErr
    /\ UNCHANGED <<mem, addrErr, argBuf, argCount>>

Return(o, r) == Hooked /\ Finish(PushRet(Recorded(o)), r, Held(o))

\* An opaque function returns a value that is taken as exact.
ReturnOpaque(p, r) == ~Hooked /\ Finish(retStack, r, p)

\* An exception: frames down to a landing pad or an opaque function go without
\* running a hook.
Unwind(d) ==
    /\ d \in 1..(depth - 1) /\ frame[d + 1].via \in {"invoke", "callback"}
    /\ depth' = d
    /\ frame' = [e \in 1..MaxDepth |-> IF e > d THEN NoFrame ELSE frame[e]]
    /\ UNCHANGED <<mem, regErr, addrErr, argBuf, argCount, retStack>>

-----------------------------------------------------------------------------
Operation == \E r \in Reg :
    \/ \E op \in Opcodes : \E args \in Operands(Arity(op)) : Compute(op, r, args)
    \/ \E a, b \in Usable, holds, cond \in BOOLEAN : Select(r, a, b, holds, cond)
    \/ \E call \in MathCalls : \E args \in Operands(Arity(call.name)) : Math(call, r, args)
    \/ \E o \in Usable : Unhooked(r, o)
Instruction == \/ Operation
               \/ \E r \in Reg, c \in Cell : Store(r, c) \/ Load(r, c)
               \/ \E p \in Exactly, c \in Cell : StoreUnhooked(p, c)
               \/ \E dst, src \in Cell : Copy(dst, src)

\* Nobody calls main.
Entering == \E f \in (Fn \cup Opaque) \ {Main} :
               \/ \E args \in Args(f), via \in Via : Call(f, via, args)
               \/ \E args \in Args(f) : Invoke(f, args)
               \/ \E vals \in [DOMAIN Params[f] -> Exactly] : Callback(f, vals)

Leaving == \/ \E r \in Reg, o \in Usable : Return(o, r)
           \/ \E r \in Reg, p \in Exactly : ReturnOpaque(p, r)
           \/ \E d \in 1..(MaxDepth - 1) : Unwind(d)

Next == Instruction \/ Entering \/ Leaving

Spec == Init /\ [][Next]_vars
-----------------------------------------------------------------------------
(* Properties.                                                             *)

\* Types; the buffers stay within their sizes and the frames within the stack.
TypeOK ==
    /\ depth \in 1..MaxDepth
    /\ frame \in [1..MaxDepth -> Frame \cup {NoFrame}]
    /\ \A d \in 1..MaxDepth : frame[d] \in Frame <=> d <= depth
    /\ mem \in [Cell -> Pairs]
    /\ regErr \in [Fn \X Reg -> Int] /\ addrErr \in [Cell -> Int]
    /\ argBuf \in [1..ArgMax -> Int] /\ argCount \in 0..ArgMax
    /\ retStack \in Seq([fn: Fn, err: Int]) /\ Len(retStack) <= RetMax

True(p, e) == p.val + e = p.shadow

\* In every active function, at every depth, the error recorded for a register
\* is what separates its value from its FP64 shadow.
RecordsAreTrue ==
    \A d \in 1..depth : frame[d].fn \in Fn =>
        \A r \in Reg : frame[d].held[r].def =>
            True(frame[d].held[r], regErr[<<frame[d].fn, r>>])

\* The same of memory.
MemoryIsTrue == \A c \in Cell : True(mem[c], addrErr[c])

\* No result error is left on the return stack once its call is over, however
\* calls, opaque functions and exceptions nest.
ReturnStackDrained == retStack = <<>>

ParamsRecord(f, args) ==
    \A i \in DOMAIN args : regErr'[<<f, Params[f][i]>>] = Recorded(args[i])

\* Whatever is left in the argument buffer, a parameter of a function called by
\* a CallInst of an instrumented function starts with its argument's error.
ArgsDelivered == [][\A f \in Fn, via \in Via : \A args \in Args(f) :
    Call(f, via, args) /\ Len(Params[f]) <= ArgMax => ParamsRecord(f, args)]_vars

ResultRecorded(o, r) == regErr'[<<frame[depth - 1].fn, r>>] = Recorded(o)

\* Whatever is left on the return stack, unless it is full, a CallInst of an
\* instrumented function finds the error of the value it was returned, and
\* leaves the stack as it was before the callee returned.
ResultsDelivered == [][\A o \in Usable, r \in Reg :
    Return(o, r) /\ PopsResult /\ Len(retStack) < RetMax =>
        ResultRecorded(o, r) /\ retStack' = retStack]_vars

TrueOperand(o) == True(Held(o), Recorded(o))
TrueOperands(args) == \A k \in 1..3 : TrueOperand(args[k])
TrueNow(r) == True(Top.held[r], regErr[<<Top.fn, r>>])
TrueCell(c) == True(mem[c], addrErr[c])
WrongNow(r) == Hooked /\ r \in Defined /\ ~TrueNow(r)

\* A register, a cell gets a value from operands with true records.
MadeFromTruth(r) == Hooked /\
    \/ \E op \in Opcodes : \E args \in Operands(Arity(op)) :
           TrueOperands(args) /\ ~DividesByZero(op, args) /\ Compute(op, r, args)
    \/ \E a, b \in Usable, holds \in BOOLEAN :
           TrueOperand(Chosen(holds, a, b)) /\ Select(r, a, b, holds, holds)
    \/ \E call \in MathCalls : \E args \in Operands(Arity(call.name)) :
           TrueOperands(args) /\ Math(call, r, args)
    \/ \E c \in Cell : TrueCell(c) /\ Load(r, c)
StoredFromTruth(c) == \/ \E r \in Reg : Store(r, c) /\ TrueNow(r)
                      \/ \E src \in Cell : TrueCell(src) /\ Copy(c, src)

\* A wrong record does no harm beyond the values computed from it: what is wrong
\* after a step has not been made, in this step, from operands whose records were
\* true, whatever the other records say.
TruthIsLocal == [][/\ \A r \in Reg : WrongNow(r)' => ~MadeFromTruth(r)
                   /\ \A c \in Cell : ~TrueCell(c)' => ~StoredFromTruth(c)]_vars

\* "before each user function call": every call of an instrumented function
\* hands the errors of its arguments over.
EveryCallDelivers == [][\A f \in Fn : \A args \in Args(f) :
    Invoke(f, args) => ParamsRecord(f, args)]_vars
=============================================================================
