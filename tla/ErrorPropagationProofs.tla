----------------------- MODULE ErrorPropagationProofs -----------------------
(***************************************************************************)
(* When is the error-tracking runtime right?  In a program whose functions *)
(* all have hooks or never call back, that does not recurse, has no        *)
(* invoke, no store without a hook and no operation without one, nests no  *)
(* select in another, divides by no number that is 0 in FP64, and whose    *)
(* functions take no more floating-point parameters than the argument      *)
(* buffer holds: then every record it keeps is the difference between the  *)
(* FP64 shadow and the FP32 value, whatever the operations and math        *)
(* functions compute and however values are rounded.                       *)
(* In any other program some records are wrong; but calls from a hooked    *)
(* CallInst still hand the right errors over, and the harm stays local.    *)
(***************************************************************************)
EXTENDS ErrorPropagation, SequenceTheorems, TLAPS

ClosedWorld == /\ Features = {}
               /\ \A f \in Fn : Len(Params[f]) <= ArgMax

Stacked(fr, n) ==
    /\ fr \in [1..MaxDepth -> Frame \cup {NoFrame}]
    /\ \A d \in 1..n : /\ fr[d] \in Frame
                       /\ fr[d].via \in {"direct", "indirect"}
                       /\ d < n => fr[d].fn \in Fn
    /\ \A d, e \in 1..n : fr[d].fn \in Fn /\ fr[d].fn = fr[e].fn => d = e

TrueFrames(fr, n, rec) ==
    \A d \in 1..n : fr[d].fn \in Fn =>
        \A r \in Reg : fr[d].held[r].def => True(fr[d].held[r], rec[<<fr[d].fn, r>>])

\* The inductive invariant: no function is active twice, only the running one
\* may be opaque, the return stack is empty between steps, and every record of
\* an active function and of memory is true.
CInv == /\ depth \in 1..MaxDepth
        /\ Stacked(frame, depth)
        /\ mem \in [Cell -> Pairs]
        /\ regErr \in [Fn \X Reg -> Int] /\ addrErr \in [Cell -> Int]
        /\ argBuf \in [1..ArgMax -> Int] /\ argCount \in 0..ArgMax
        /\ retStack = <<>>
        /\ TrueFrames(frame, depth, regErr)
        /\ MemoryIsTrue

\* The operations of the program.
Used == Opcodes \cup {call.name : call \in MathCalls}

\* Numbers are integers; operations and rounding stay among them.
LEMMA Numbers ==
    /\ Num \subseteq Int /\ Value \subseteq Num /\ 0 \in Num
    /\ \A op \in Used : \A nums \in [1..3 -> Num] : Exact(op, nums) \in Num
    /\ \A a \in Num : Round(a) \in Num
    /\ Opcodes \subseteq Used /\ \A call \in MathCalls : call.name \in Used
  BY PropagationAssumption DEF Used

\* The error of a value: what its shadow has more.
LEMMA PairNumbers ==
    ASSUME NEW p \in Pairs
    PROVE  /\ p.val \in Int /\ p.shadow \in Int
           /\ p.shadow - p.val \in Int /\ True(p, p.shadow - p.val)
<1>1. p.val \in Num /\ p.shadow \in Num
  BY DEF Pairs
<1>2. p.val \in Int /\ p.shadow \in Int
  BY <1>1, Numbers
<1> QED
  BY <1>2 DEF True

\* The pass and the hook agree on the code of every arithmetic operation
\* (getOperationType, _FPC_FP32_CALCULATE_ERROR_).
THEOREM ArithmeticRedone ==
    ASSUME NEW op \in Arithmetic, NEW high
    PROVE  /\ ~(op = "FDiv" /\ high[2] = 0) => Redone(OperationType(op), high) = Exact(op, high)
           /\ op = "FDiv" /\ high[2] = 0 => Redone(OperationType(op), high) = 0
<1>1. CASE op = "FAdd"
  BY <1>1 DEF Redone, OperationType
<1>2. CASE op = "FSub"
  BY <1>2 DEF Redone, OperationType
<1>3. CASE op = "FMul"
  BY <1>3 DEF Redone, OperationType
<1>4. CASE op = "FDiv"
  BY <1>4 DEF Redone, OperationType
<1>5. CASE op = "FRem"
  BY <1>5 DEF Redone, OperationType
<1>6. CASE op = "FMA"
  BY <1>6 DEF Redone, OperationType
<1>7. CASE op = "FNeg"
  BY <1>7 DEF Redone, OperationType
<1> QED
  BY <1>1, <1>2, <1>3, <1>4, <1>5, <1>6, <1>7 DEF Arithmetic

\* The hook knows every math function the pass lets through
\* (isSupportedMathCall, _FPC_FP32_MATH_ERROR_).
THEOREM MathRedone ==
    ASSUME NEW call, IsSupportedMathCall(call), NEW high, NEW low
    PROVE  /\ RedoneMath(call.name, high, low) = Exact(call.name, high)
           /\ call.name # "FDiv"
<1>1. call.name \in LibmTable \cup Intrinsic
  BY DEF IsSupportedMathCall
<1>2. call.name \in Unary \cup Binary \cup Ternary
  BY <1>1 DEF LibmTable, Intrinsic, Unary, Binary, Ternary
<1>3. call.name # "FDiv"
  BY <1>1 DEF LibmTable, Intrinsic
<1> QED
  BY <1>2, <1>3 DEF RedoneMath

\* An operation has three operands, some of them 0.
LEMMA OperandsUsable ==
    ASSUME NEW n, NEW args \in Operands(n)
    PROVE  \A k \in 1..3 : args[k] \in Usable \cup {Zero}
  BY DEF Operands

LEMMA ZeroExact == /\ ~IsReg(Zero) /\ Zero.lit \in Pairs
                   /\ Zero.lit.val = 0 /\ Zero.lit.shadow = 0
<1>1. ~IsReg(Zero) /\ Zero.lit = Pair(0, 0)
  BY DEF IsReg, Zero
<1> QED
  BY <1>1, Numbers DEF Pair, Pairs

\* What the program computes, and what it would have in FP64.
LEMMA LowShadow ==
    ASSUME NEW op \in Used, NEW args, \A k \in 1..3 : Held(args[k]) \in Pairs
    PROVE  /\ Pair(Low(op, args), Shadow(op, args)) \in Pairs
           /\ Low(op, args) \in Int /\ Shadow(op, args) \in Int
<1> DEFINE vals == [k \in 1..3 |-> Held(args[k]).val]
           shadows == [k \in 1..3 |-> Held(args[k]).shadow]
<1>1. vals \in [1..3 -> Num] /\ shadows \in [1..3 -> Num]
  BY DEF Pairs
<1>2. Low(op, args) = Round(Exact(op, vals)) /\ Shadow(op, args) = Exact(op, shadows)
  BY DEF Low, Shadow
<1> HIDE DEF vals, shadows
<1>3. Low(op, args) \in Num /\ Shadow(op, args) \in Num
  BY <1>1, <1>2, Numbers
<1> QED
  BY <1>3, Numbers DEF Pair, Pairs

\* A value the program holds exactly has error 0.
LEMMA ExactlyTrue ==
    ASSUME NEW p \in Exactly
    PROVE  p \in Pairs /\ p.val = p.shadow /\ p.val \in Int /\ True(p, 0)
<1>1. PICK v \in Value : p = Pair(v, v)
  BY DEF Exactly
<1>2. v \in Num /\ v \in Int
  BY Numbers
<1> QED
  BY <1>1, <1>2 DEF Pair, Pairs, True

\* The program starts with no register written and exact memory.
LEMMA InitTrue == Init => CInv
<1> SUFFICES ASSUME Init PROVE CInv
  OBVIOUS
<1>0. MaxDepth \in Nat \ {0} /\ Main \in Fn /\ ArgMax \in Nat
  BY PropagationAssumption
<1>1. MainFrame \in Frame /\ MainFrame.fn = Main /\ MainFrame.via = "direct"
      /\ \A r \in Reg : ~MainFrame.held[r].def
  BY <1>0 DEF MainFrame, Frame, Via, Undef
<1>2. /\ depth = 1 /\ frame[1] = MainFrame
      /\ frame \in [1..MaxDepth -> Frame \cup {NoFrame}]
  BY <1>0, <1>1 DEF Init
<1>3. Stacked(frame, depth)
  BY <1>0, <1>1, <1>2 DEF Stacked
<1>4. TrueFrames(frame, depth, regErr)
  <2>1. \A d \in 1..depth : frame[d] = MainFrame
    BY <1>2
  <2> QED
    BY <1>1, <2>1 DEF TrueFrames
<1>5. \A c \in Cell : mem[c] \in Exactly /\ addrErr[c] = 0
  BY DEF Init
<1>6. mem \in [Cell -> Pairs] /\ MemoryIsTrue
  BY <1>5, ExactlyTrue DEF Init, MemoryIsTrue
<1> QED
  BY <1>0, <1>2, <1>3, <1>4, <1>6 DEF CInv, Init

\* The hooks of the running function read true errors of its operands.
LEMMA OperandTrue ==
    ASSUME CInv, Hooked, NEW o \in Usable \cup {Zero}
    PROVE  /\ Held(o) \in Pairs /\ Recorded(o) \in Int
           /\ High(o) = Held(o).shadow
<1>1. Top \in Frame /\ Top = frame[depth] /\ depth \in 1..depth
  BY DEF CInv, Stacked, Top
<1>2. CASE o \in Literal
  <2>1. ~IsReg(o) /\ o.lit \in Exactly
    BY <1>2 DEF IsReg, Literal
  <2>2. o.lit \in Pairs /\ o.lit.val = o.lit.shadow /\ o.lit.val \in Int
    BY <2>1, ExactlyTrue
  <2> QED
    BY <2>1, <2>2 DEF Held, Recorded, High
<1>3. CASE o \in RegOperand /\ o.reg \in Defined
  <2>1. IsReg(o) /\ o.reg \in Reg
    BY <1>3 DEF IsReg, RegOperand
  <2>2. Top.held[o.reg].def /\ Top.held[o.reg] \in Pairs
    BY <1>1, <1>3, <2>1 DEF Defined, Frame, Undef
  <2>3. True(Top.held[o.reg], regErr[<<Top.fn, o.reg>>])
    BY <1>1, <2>1, <2>2 DEF CInv, TrueFrames, Hooked
  <2>4. regErr[<<Top.fn, o.reg>>] \in Int
    BY <2>1 DEF CInv, Hooked
  <2> QED
    BY <2>1, <2>2, <2>3, <2>4 DEF Held, Recorded, High, True
<1>4. CASE o = Zero
  BY <1>4, ZeroExact DEF Held, Recorded, High
<1> QED
  BY <1>2, <1>3, <1>4 DEF Usable

\* fr and rec are the first n frames and the register table after p with error
\* e has been written to register r of frame k.
Written(fr, rec, n, k, r, p, e) ==
    /\ n \in 1..depth /\ k \in 1..n /\ frame[k].fn \in Fn
    /\ r \in Reg /\ p \in Pairs /\ e \in Int /\ True(p, e)
    /\ fr \in [1..MaxDepth -> Frame \cup {NoFrame}]
    /\ \A d \in 1..n : d # k => fr[d] = frame[d]
    /\ fr[k] = [frame[k] EXCEPT !.held[r] = p]
    /\ rec = [regErr EXCEPT ![<<frame[k].fn, r>>] = e]

\* Writing a register and recording its true error, in any active function,
\* leaves every record true: no other active function has the same name.
LEMMA WriteTrue ==
    ASSUME CInv, NEW fr, NEW rec, NEW n, NEW k, NEW r, NEW p, NEW e,
           Written(fr, rec, n, k, r, p, e)
    PROVE  /\ Stacked(fr, n)
           /\ TrueFrames(fr, n, rec)
           /\ rec \in [Fn \X Reg -> Int]
<1> USE DEF Written
<1>1. \A d \in 1..n : d \in 1..depth /\ frame[d] \in Frame
  BY DEF CInv, Stacked
<1>2. /\ fr[k] \in Frame /\ fr[k].fn = frame[k].fn /\ fr[k].via = frame[k].via
      /\ fr[k].held[r] = p
      /\ \A q \in Reg : q # r => fr[k].held[q] = frame[k].held[q]
  BY <1>1 DEF Frame
<1>3. \A d \in 1..n : fr[d] \in Frame /\ fr[d].fn = frame[d].fn /\ fr[d].via = frame[d].via
  BY <1>1, <1>2
<1>4. Stacked(fr, n)
  <2>1. \A d \in 1..n : /\ frame[d].via \in {"direct", "indirect"}
                        /\ d < n => frame[d].fn \in Fn
    <3>1. n <= depth /\ n \in Nat /\ depth \in Nat
      BY DEF CInv
    <3> QED
      BY <1>1, <3>1 DEF CInv, Stacked
  <2>2. \A d, e2 \in 1..n : frame[d].fn \in Fn /\ frame[d].fn = frame[e2].fn => d = e2
    BY <1>1 DEF CInv, Stacked
  <2> QED
    BY <1>3, <2>1, <2>2 DEF Stacked
<1>5. /\ rec \in [Fn \X Reg -> Int]
      /\ rec[<<frame[k].fn, r>>] = e
      /\ \A f \in Fn, q \in Reg : <<f, q>> # <<frame[k].fn, r>> => rec[<<f, q>>] = regErr[<<f, q>>]
  BY DEF CInv
<1>6. ASSUME NEW d \in 1..n, fr[d].fn \in Fn, NEW q \in Reg, fr[d].held[q].def
      PROVE  True(fr[d].held[q], rec[<<fr[d].fn, q>>])
  <2>1. CASE d = k /\ q = r
    BY <1>2, <1>5, <2>1
  <2>2. CASE d = k /\ q # r
    <3>1. frame[k].held[q].def /\ fr[k].held[q] = frame[k].held[q]
      BY <1>2, <1>6, <2>2
    <3>2. True(frame[k].held[q], regErr[<<frame[k].fn, q>>])
      BY <1>1, <3>1 DEF CInv, TrueFrames
    <3>3. rec[<<frame[k].fn, q>>] = regErr[<<frame[k].fn, q>>]
      BY <1>5, <2>2
    <3> QED
      BY <1>2, <2>2, <3>1, <3>2, <3>3
  <2>3. CASE d # k
    <3>1. fr[d].fn # frame[k].fn
      BY <1>1, <1>3, <1>6, <2>3 DEF CInv, Stacked
    <3>2. fr[d] = frame[d]
      BY <2>3
    <3>3. True(frame[d].held[q], regErr[<<frame[d].fn, q>>])
      BY <1>1, <1>6, <3>2 DEF CInv, TrueFrames
    <3> QED
      BY <1>5, <1>6, <3>1, <3>2, <3>3
  <2> QED
    BY <2>1, <2>2, <2>3
<1> QED
  BY <1>4, <1>5, <1>6 DEF TrueFrames

\* An instruction of the running function preserves the invariant.
LEMMA InstructionTrue ==
    ASSUME ClosedWorld, CInv, Instruction
    PROVE  CInv'
<1>0. depth \in 1..depth /\ depth \in 1..MaxDepth /\ Top = frame[depth] /\ Top \in Frame
      /\ frame \in [1..MaxDepth -> Frame \cup {NoFrame}]
  BY DEF CInv, Stacked, Top
<1>a. ASSUME NEW r \in Reg, NEW p \in Pairs, NEW e \in Int, Hooked, True(p, e),
             WriteReg(r, p), RecordReg(Top.fn, r, e), UNCHANGED depth
      PROVE  Stacked(frame, depth)' /\ TrueFrames(frame, depth, regErr)'
             /\ regErr' \in [Fn \X Reg -> Int]
  <2>1. [Top EXCEPT !.held[r] = p] \in Frame
    BY <1>0 DEF Frame
  <2>2. frame' = [frame EXCEPT ![depth] = [Top EXCEPT !.held[r] = p]]
    BY <1>0, <1>a DEF WriteReg
  <2>3. frame' \in [1..MaxDepth -> Frame \cup {NoFrame}]
        /\ frame'[depth] = [Top EXCEPT !.held[r] = p]
        /\ \A d \in 1..depth : d # depth => frame'[d] = frame[d]
    BY <1>0, <2>1, <2>2 DEF CInv
  <2>4. regErr' = [regErr EXCEPT ![<<Top.fn, r>>] = e]
    BY <1>a DEF RecordReg
  <2> DEFINE fr == frame'
             rec == regErr'
  <2>a. fr[depth] = [frame[depth] EXCEPT !.held[r] = p] /\ frame[depth].fn \in Fn
        /\ rec = [regErr EXCEPT ![<<frame[depth].fn, r>>] = e]
    BY <1>0, <1>a, <2>3, <2>4 DEF Hooked
  <2>b. fr \in [1..MaxDepth -> Frame \cup {NoFrame}]
        /\ \A d \in 1..depth : d # depth => fr[d] = frame[d]
    BY <2>3
  <2> HIDE DEF fr, rec
  <2>c. Written(fr, rec, depth, depth, r, p, e)
    BY <1>0, <1>a, <2>a, <2>b DEF Written
  <2>5. Stacked(fr, depth) /\ TrueFrames(fr, depth, rec)
        /\ rec \in [Fn \X Reg -> Int]
    BY <2>c, WriteTrue
  <2> QED
    BY <1>a, <2>5 DEF Stacked, TrueFrames, fr, rec
<1>c. ASSUME NEW r \in Reg, NEW p \in Pairs, Operate(r, p, p.shadow)
      PROVE  CInv'
  <2>1. p.shadow - p.val \in Int /\ True(p, p.shadow - p.val)
    BY PairNumbers
  <2>2. Stacked(frame, depth)' /\ TrueFrames(frame, depth, regErr)'
        /\ regErr' \in [Fn \X Reg -> Int]
    BY <1>c, <1>a, <2>1 DEF Operate
  <2> QED
    BY <1>c, <2>2 DEF Operate, CInv, MemoryIsTrue
<1>d. ASSUME Hooked, NEW n, NEW args \in Operands(n)
      PROVE  /\ \A k \in 1..3 : Held(args[k]) \in Pairs
             /\ Highs(args) = [k \in 1..3 |-> Held(args[k]).shadow]
  <2>1. \A k \in 1..3 : Held(args[k]) \in Pairs /\ High(args[k]) = Held(args[k]).shadow
    BY <1>d, OperandsUsable, OperandTrue
  <2> QED
    BY <2>1 DEF Highs
<1>1. ASSUME NEW r \in Reg, NEW op \in Opcodes, NEW args \in Operands(Arity(op)),
             Compute(op, r, args)
      PROVE  CInv'
  <2>1. /\ Hooked /\ ~DividesByZero(op, args)
        /\ Operate(r, Pair(Low(op, args), Shadow(op, args)),
                   Redone(OperationType(op), Highs(args)))
    BY <1>1 DEF Compute, Operate, ClosedWorld
  <2>2. /\ \A k \in 1..3 : Held(args[k]) \in Pairs
        /\ Highs(args) = [k \in 1..3 |-> Held(args[k]).shadow]
    BY <1>d, <2>1
  <2>3. op \in Used /\ op \in Arithmetic
    BY PropagationAssumption, Numbers
  <2>4. Pair(Low(op, args), Shadow(op, args)) \in Pairs
    BY <2>2, <2>3, LowShadow
  <2>5. ~(op = "FDiv" /\ Highs(args)[2] = 0)
    BY <2>1, <2>2 DEF DividesByZero
  <2>6. Redone(OperationType(op), Highs(args)) = Shadow(op, args)
    BY <2>2, <2>3, <2>5, ArithmeticRedone DEF Shadow
  <2>7. Pair(Low(op, args), Shadow(op, args)).shadow = Shadow(op, args)
    BY DEF Pair
  <2> QED
    BY <1>c, <2>1, <2>4, <2>6, <2>7
<1>5. ASSUME NEW r \in Reg, NEW a \in Usable, NEW b \in Usable,
             NEW holds \in BOOLEAN, NEW cond \in BOOLEAN, Select(r, a, b, holds, cond)
      PROVE  CInv'
  <2>1. /\ Hooked /\ cond = holds
        /\ Operate(r, Held(Chosen(holds, a, b)), RedoneSelect(cond, Highs(<<Zero, a, b>>)))
    BY <1>5 DEF Select, Operate, ClosedWorld
  <2>2. /\ Held(a) \in Pairs /\ High(a) = Held(a).shadow
        /\ Held(b) \in Pairs /\ High(b) = Held(b).shadow
    BY <2>1, OperandTrue
  <2>3. Highs(<<Zero, a, b>>)[2] = High(a) /\ Highs(<<Zero, a, b>>)[3] = High(b)
    BY DEF Highs
  <2>4. /\ Held(Chosen(holds, a, b)) \in Pairs
        /\ RedoneSelect(cond, Highs(<<Zero, a, b>>)) = Held(Chosen(holds, a, b)).shadow
    BY <2>1, <2>2, <2>3 DEF Chosen, RedoneSelect
  <2> QED
    BY <1>c, <2>1, <2>4
<1>6. ASSUME NEW r \in Reg, NEW call \in MathCalls, NEW args \in Operands(Arity(call.name)),
             Math(call, r, args)
      PROVE  CInv'
  <2> DEFINE op == call.name
  <2>1. /\ Hooked /\ IsSupportedMathCall(call)
        /\ Operate(r, Pair(Low(op, args), Shadow(op, args)),
                   RedoneMath(op, Highs(args), Low(op, args)))
    BY <1>6 DEF Math, Operate
  <2>2. /\ \A k \in 1..3 : Held(args[k]) \in Pairs
        /\ Highs(args) = [k \in 1..3 |-> Held(args[k]).shadow]
    BY <1>d, <2>1
  <2>3. Pair(Low(op, args), Shadow(op, args)) \in Pairs
    BY <2>2, Numbers, LowShadow
  <2>4. RedoneMath(op, Highs(args), Low(op, args)) = Shadow(op, args)
    BY <2>1, <2>2, MathRedone DEF Shadow
  <2>5. Pair(Low(op, args), Shadow(op, args)).shadow = Shadow(op, args)
    BY DEF Pair
  <2> QED
    BY <1>c, <2>1, <2>3, <2>4, <2>5
<1>2. ASSUME NEW r \in Reg, NEW c \in Cell, Load(r, c)
      PROVE  CInv'
  <2>1. mem[c] \in Pairs /\ addrErr[c] \in Int /\ True(mem[c], addrErr[c])
    BY DEF CInv, MemoryIsTrue
  <2>2. Stacked(frame, depth)' /\ TrueFrames(frame, depth, regErr)'
        /\ regErr' \in [Fn \X Reg -> Int]
    BY <1>2, <1>a, <2>1 DEF Load
  <2> QED
    BY <1>2, <2>2 DEF CInv, MemoryIsTrue, Load
<1>b. ASSUME UNCHANGED <<depth, frame, regErr, argBuf, argCount, retStack>>,
             mem' \in [Cell -> Pairs], addrErr' \in [Cell -> Int], MemoryIsTrue'
      PROVE  CInv'
  BY <1>b DEF CInv, Stacked, TrueFrames
<1>3. ASSUME NEW r \in Reg, NEW c \in Cell, Store(r, c)
      PROVE  CInv'
  <2>0. r \in Defined
    BY <1>3 DEF Store
  <2>1. Top.held[r] \in Pairs /\ Top.held[r].def
    BY <1>0, <2>0 DEF Defined, Frame, Undef
  <2>2. regErr[<<Top.fn, r>>] \in Int /\ True(Top.held[r], regErr[<<Top.fn, r>>])
    BY <1>0, <1>3, <2>1 DEF Store, Hooked, CInv, TrueFrames
  <2>3. mem' \in [Cell -> Pairs] /\ addrErr' \in [Cell -> Int] /\ MemoryIsTrue'
    BY <1>3, <2>1, <2>2 DEF Store, CInv, MemoryIsTrue
  <2> QED
    BY <1>3, <1>b, <2>3 DEF Store
<1>4. ASSUME NEW dst \in Cell, NEW src \in Cell, Copy(dst, src)
      PROVE  CInv'
  <2>1. mem' \in [Cell -> Pairs] /\ addrErr' \in [Cell -> Int] /\ MemoryIsTrue'
    BY <1>4 DEF Copy, CInv, MemoryIsTrue
  <2> QED
    BY <1>4, <1>b, <2>1 DEF Copy
<1> QED
  BY <1>1, <1>2, <1>3, <1>4, <1>5, <1>6
     DEF Instruction, Operation, StoreUnhooked, Unhooked, ClosedWorld

\* A call hands every parameter the error of its argument: the invariant holds
\* in the callee's frame, and the callee was not active before.
LEMMA CallTrue ==
    ASSUME ClosedWorld, CInv,
           NEW f \in Fn \cup Opaque, NEW via \in Via, NEW args \in Args(f),
           Call(f, via, args)
    PROVE  CInv'
<1> DEFINE n == Len(Params[f])
           new == [fn |-> f, via |-> via,
                   held |-> [r \in Reg |-> IF IsParam(f, r)
                                          THEN Values(args)[ParamIndex(f, r)]
                                          ELSE Undef]]
<1>0. /\ Hooked /\ via \in {"direct", "indirect"} /\ via \in Via
      /\ depth < MaxDepth /\ depth + 1 \in 1..MaxDepth /\ depth \in Nat
      /\ f \notin Active \cap Fn
      /\ depth' = depth + 1
      /\ frame' = [frame EXCEPT ![depth + 1] = new]
      /\ UNCHANGED <<mem, addrErr, retStack>>
  BY PropagationAssumption DEF Call, Enter, ClosedWorld, CInv
<1>1. Params[f] \in Seq(Reg) /\ DOMAIN Params[f] = 1..n /\ n \in Nat /\ ArgMax \in Nat
      /\ DOMAIN args = 1..n
  <2>1. Params[f] \in Seq(Reg) /\ ArgMax \in Nat
    BY PropagationAssumption
  <2> QED
    BY <2>1 DEF Args
<1>2. \A i \in 1..n : /\ args[i] \in Usable
                      /\ Values(args)[i] \in Pairs /\ Recorded(args[i]) \in Int
                      /\ True(Values(args)[i], Recorded(args[i]))
  <2> SUFFICES ASSUME NEW i \in 1..n
               PROVE  /\ args[i] \in Usable
                      /\ Values(args)[i] \in Pairs /\ Recorded(args[i]) \in Int
                      /\ True(Values(args)[i], Recorded(args[i]))
    OBVIOUS
  <2>1. args[i] \in Usable /\ Values(args)[i] = Held(args[i])
    BY <1>1 DEF Args, Values
  <2> QED
    BY <1>0, <2>1, OperandTrue DEF High, True
<1>3. \A r \in Reg : IsParam(f, r) => /\ ParamIndex(f, r) \in 1..n
                                      /\ Params[f][ParamIndex(f, r)] = r
  BY <1>1 DEF IsParam, ParamIndex
<1>4. /\ new \in Frame
      /\ \A r \in Reg : new.held[r].def => /\ IsParam(f, r)
                                           /\ new.held[r] = Values(args)[ParamIndex(f, r)]
  <2>1. \A r \in Reg : IsParam(f, r) => Values(args)[ParamIndex(f, r)] \in Pairs
    BY <1>2, <1>3
  <2>2. new.held \in [Reg -> Pairs \cup {Undef}]
    BY <2>1
  <2>3. \A r \in Reg : ~IsParam(f, r) => new.held[r] = Undef /\ ~new.held[r].def
    BY DEF Undef
  <2>4. \A r \in Reg : IsParam(f, r) => new.held[r] = Values(args)[ParamIndex(f, r)]
    OBVIOUS
  <2> QED
    BY <1>0, <2>2, <2>3, <2>4 DEF Frame
<1>a. new.fn = f /\ new.via = via
  OBVIOUS
<1> HIDE DEF new
<1>5. /\ frame' \in [1..MaxDepth -> Frame \cup {NoFrame}]
      /\ frame'[depth + 1] = new
      /\ \A d \in 1..depth : frame'[d] = frame[d]
  BY <1>0, <1>4 DEF CInv, Stacked
<1>6. \A d \in 1..depth : frame[d].fn \in Fn /\ frame[d].fn # f
  <2>1. \A d \in 1..depth : frame[d].fn \in Fn
    BY <1>0 DEF CInv, Stacked, Hooked, Top
  <2> QED
    BY <1>0, <2>1 DEF Active
<1>7. Stacked(frame', depth + 1)
  <2>1. \A d \in 1..(depth + 1) : d \in 1..depth \/ d = depth + 1
    BY <1>0
  <2>2. \A d \in 1..(depth + 1) : /\ frame'[d] \in Frame
                                  /\ frame'[d].via \in {"direct", "indirect"}
                                  /\ d < depth + 1 => frame'[d].fn \in Fn
    BY <1>0, <1>4, <1>a, <1>5, <1>6, <2>1 DEF CInv, Stacked
  <2>3. \A d, e \in 1..(depth + 1) :
            frame'[d].fn \in Fn /\ frame'[d].fn = frame'[e].fn => d = e
    BY <1>a, <1>5, <1>6, <2>1 DEF CInv, Stacked
  <2> QED
    BY <1>5, <2>2, <2>3 DEF Stacked
<1>8. /\ argBuf' \in [1..ArgMax -> Int] /\ argCount' \in 0..ArgMax
      /\ n <= ArgMax => \A i \in 1..n : /\ argBuf'[i] = Recorded(args[i])
                                        /\ i <= argCount'
  <2>1. argBuf' = PushedBuf(args) /\ argCount' = PushedCount(f)
    BY DEF Call
  <2>2. argCount \in 0..ArgMax /\ argBuf \in [1..ArgMax -> Int]
    BY DEF CInv
  <2>3. argBuf' \in [1..ArgMax -> Int]
    BY <1>1, <1>2, <2>1, <2>2 DEF PushedBuf
  <2>4. argCount' \in 0..ArgMax /\ (n <= ArgMax => n <= argCount')
    BY <1>1, <2>1, <2>2 DEF PushedCount, Greater, Lesser
  <2>5. n <= ArgMax => \A i \in 1..n : argBuf'[i] = Recorded(args[i])
    BY <1>1, <2>1 DEF PushedBuf
  <2> QED
    BY <1>1, <2>3, <2>4, <2>5
<1>9. regErr \in [Fn \X Reg -> Int]
  BY DEF CInv
<1>10. CASE f \notin Fn
  <2>1. regErr' = regErr
    BY <1>10 DEF Call
  <2>2. TrueFrames(frame', depth + 1, regErr)
    <3>1. \A d \in 1..(depth + 1) : frame'[d].fn \in Fn => d \in 1..depth
      BY <1>0, <1>5, <1>a, <1>10
    <3> QED
      BY <1>5, <3>1 DEF CInv, TrueFrames
  <2> QED
    BY <1>0, <1>7, <1>8, <2>1, <2>2 DEF CInv, MemoryIsTrue, Stacked, TrueFrames
<1>11. CASE f \in Fn
  <2>1. regErr' = [k \in Fn \X Reg |->
                     IF k[1] = f /\ IsParam(f, k[2])
                     THEN Popped(argBuf', argCount', ParamIndex(f, k[2]))
                     ELSE regErr[k]]
    BY <1>11 DEF Call, PopArgs
  <2>2. \A r \in Reg : IsParam(f, r) =>
            /\ Popped(argBuf', argCount', ParamIndex(f, r)) = Recorded(args[ParamIndex(f, r)])
            /\ Recorded(args[ParamIndex(f, r)]) \in Int
    BY <1>2, <1>3, <1>8, <1>11 DEF ClosedWorld, Popped
  <2>3. /\ regErr' \in [Fn \X Reg -> Int]
        /\ \A r \in Reg : IsParam(f, r) =>
               regErr'[<<f, r>>] = Recorded(args[ParamIndex(f, r)])
        /\ \A g \in Fn, r \in Reg : g # f => regErr'[<<g, r>>] = regErr[<<g, r>>]
    BY <1>9, <1>11, <2>1, <2>2
  <2>4. ASSUME NEW d \in 1..(depth + 1), frame'[d].fn \in Fn,
               NEW r \in Reg, frame'[d].held[r].def
        PROVE  True(frame'[d].held[r], regErr'[<<frame'[d].fn, r>>])
    <3>1. CASE d = depth + 1
      <4>1. new.held[r].def
        BY <1>5, <2>4, <3>1
      <4>2. IsParam(f, r) /\ new.held[r] = Values(args)[ParamIndex(f, r)]
        BY <1>4, <4>1
      <4>3. True(new.held[r], Recorded(args[ParamIndex(f, r)]))
        BY <1>2, <1>3, <4>2
      <4> QED
        BY <1>5, <1>a, <2>3, <3>1, <4>2, <4>3
    <3>2. CASE d \in 1..depth
      <4>1. frame'[d] = frame[d] /\ frame[d].fn \in Fn /\ frame[d].fn # f
        BY <1>5, <1>6, <3>2
      <4>2. True(frame[d].held[r], regErr[<<frame[d].fn, r>>])
        BY <2>4, <3>2, <4>1 DEF CInv, TrueFrames
      <4> QED
        BY <2>3, <4>1, <4>2
    <3> QED
      BY <1>0, <3>1, <3>2
  <2>5. TrueFrames(frame', depth + 1, regErr')
    BY <2>4 DEF TrueFrames
  <2> QED
    BY <1>0, <1>7, <1>8, <2>3, <2>5 DEF CInv, MemoryIsTrue, Stacked, TrueFrames
<1> QED
  BY <1>10, <1>11

\* The caller resumes with a result p whose true error e its hook recorded, and
\* nothing stays on the return stack.
LEMMA ResumeTrue ==
    ASSUME CInv, depth > 1, NEW r \in Reg, NEW p \in Pairs, NEW e \in Int, True(p, e),
           Resume(r, p), RecordReg(frame[depth - 1].fn, r, e),
           retStack' = <<>>, UNCHANGED <<mem, addrErr, argBuf, argCount>>
    PROVE  CInv'
<1> DEFINE k == depth - 1
           fr == frame'
           rec == regErr'
<1>1. k \in 1..depth /\ k \in 1..MaxDepth /\ k \in 1..k /\ k < depth /\ depth \in Nat
      /\ depth \in 1..MaxDepth /\ MaxDepth \in Nat
  BY PropagationAssumption DEF CInv
<1>2. frame[k] \in Frame /\ frame[k].fn \in Fn
  BY <1>1 DEF CInv, Stacked
<1>3. [frame[k] EXCEPT !.held[r] = p] \in Frame
  BY <1>2 DEF Frame
<1>4. /\ fr = [d \in 1..MaxDepth |->
              IF d >= depth THEN NoFrame
              ELSE IF d = k THEN [frame[d] EXCEPT !.held[r] = p] ELSE frame[d]]
      /\ depth' = k
  BY <1>2 DEF Resume
<1>5. /\ fr \in [1..MaxDepth -> Frame \cup {NoFrame}]
      /\ fr[k] = [frame[k] EXCEPT !.held[r] = p]
      /\ \A d \in 1..k : d # k => fr[d] = frame[d]
  <2>1. \A d \in 1..MaxDepth : frame[d] \in Frame \cup {NoFrame}
    BY DEF CInv, Stacked
  <2> HIDE DEF fr
  <2>2. fr \in [1..MaxDepth -> Frame \cup {NoFrame}]
    BY <1>3, <1>4, <2>1
  <2>3. ~(k >= depth) /\ \A d \in 1..k : ~(d >= depth) /\ d \in 1..MaxDepth
    BY <1>1
  <2> HIDE DEF k
  <2>4. fr[k] = [frame[k] EXCEPT !.held[r] = p]
    BY <1>1, <1>4, <2>3
  <2>5. \A d \in 1..k : d # k => fr[d] = frame[d]
    BY <1>4, <2>3
  <2> QED
    BY <2>2, <2>4, <2>5
<1>6. rec = [regErr EXCEPT ![<<frame[k].fn, r>>] = e]
  BY DEF RecordReg
<1> HIDE DEF fr, rec
<1>7. Written(fr, rec, k, k, r, p, e)
  BY <1>1, <1>2, <1>5, <1>6 DEF Written
<1>8. Stacked(fr, k) /\ TrueFrames(fr, k, rec) /\ rec \in [Fn \X Reg -> Int]
  BY <1>7, WriteTrue
<1>9. k \in 1..MaxDepth
  BY <1>1
<1> QED
  BY <1>4, <1>8, <1>9 DEF CInv, MemoryIsTrue, Stacked, TrueFrames, fr, rec

\* A return delivers the error of the returned value and drains the stack.
LEMMA LeavingTrue ==
    ASSUME ClosedWorld, CInv, Leaving
    PROVE  CInv'
<1>0. depth \in 1..depth /\ Top = frame[depth] /\ Top \in Frame
      /\ Top.via \in {"direct", "indirect"} /\ PopsResult /\ retStack = <<>>
  BY DEF CInv, Stacked, Top, PopsResult
<1>1. ASSUME NEW r \in Reg, NEW o \in Usable, Return(o, r)
      PROVE  CInv'
  <2> DEFINE e == Recorded(o)
             s == <<[fn |-> Top.fn, err |-> e]>>
  <2>1. Hooked /\ Finish(PushRet(e), r, Held(o))
    BY <1>1 DEF Return
  <2>2. PushRet(e) = s
    BY <1>0, PropagationAssumption DEF PushRet
  <2>3. Len(s) = 1 /\ s # <<>> /\ s[1] = [fn |-> Top.fn, err |-> e]
    OBVIOUS
  <2>4. PoppedError(s, Top.fn, Top.via) = e
    BY <2>3 DEF PoppedError, Matches
  <2>5. PoppedStack(s, Top.fn, Top.via) = <<>>
    BY <2>3 DEF PoppedStack, Matches
  <2>6. Held(o) \in Pairs /\ e \in Int /\ True(Held(o), e)
    BY <2>1, OperandTrue DEF True, High
  <2> HIDE DEF e, s
  <2>7. /\ depth > 1 /\ Resume(r, Held(o)) /\ RecordReg(frame[depth - 1].fn, r, e)
        /\ retStack' = <<>> /\ UNCHANGED <<mem, addrErr, argBuf, argCount>>
    BY <1>0, <2>1, <2>2, <2>4, <2>5 DEF Finish
  <2> QED
    BY <2>6, <2>7, ResumeTrue
<1>2. ASSUME NEW r \in Reg, NEW p \in Exactly, ReturnOpaque(p, r)
      PROVE  CInv'
  <2>1. Finish(<<>>, r, p)
    BY <1>0, <1>2 DEF ReturnOpaque
  <2>2. PoppedError(<<>>, Top.fn, Top.via) = 0 /\ PoppedStack(<<>>, Top.fn, Top.via) = <<>>
    BY DEF PoppedError, PoppedStack, Matches
  <2>3. /\ depth > 1 /\ Resume(r, p) /\ RecordReg(frame[depth - 1].fn, r, 0)
        /\ retStack' = <<>> /\ UNCHANGED <<mem, addrErr, argBuf, argCount>>
    BY <1>0, <2>1, <2>2 DEF Finish
  <2>4. p \in Pairs /\ True(p, 0) /\ 0 \in Int
    BY ExactlyTrue
  <2> QED
    BY <2>3, <2>4, ResumeTrue
<1>3. ASSUME NEW d \in 1..(MaxDepth - 1), Unwind(d)
      PROVE  CInv'
  <2>1. d + 1 \in 1..depth /\ frame[d + 1].via \in {"invoke", "callback"}
    BY <1>3, PropagationAssumption DEF Unwind, CInv
  <2> QED
    BY <2>1 DEF CInv, Stacked
<1> QED
  BY <1>1, <1>2, <1>3 DEF Leaving

\* A step of the program, or none, preserves the invariant.
LEMMA StepTrue ==
    ASSUME ClosedWorld, CInv, [Next]_vars
    PROVE  CInv'
<1>1. CASE Instruction
  BY <1>1, InstructionTrue
<1>2. CASE Entering
  <2>1. PICK f \in Fn \cup Opaque :
            \E args \in Args(f) : \E via \in Via : Call(f, via, args)
    BY <1>2 DEF Entering, Invoke, Callback, ClosedWorld
  <2>2. PICK args \in Args(f) : \E via \in Via : Call(f, via, args)
    BY <2>1
  <2> QED
    BY <2>2, CallTrue
<1>3. CASE Leaving
  BY <1>3, LeavingTrue
<1>4. CASE UNCHANGED vars
  BY <1>4 DEF vars, CInv, Stacked, TrueFrames, MemoryIsTrue
<1> QED
  BY <1>1, <1>2, <1>3, <1>4 DEF Next

-----------------------------------------------------------------------------
(* The theorems.                                                           *)

\* In a closed world the invariant holds in every reachable state.
THEOREM ClosedWorldInv == ClosedWorld => (Spec => []CInv)
<1> SUFFICES ASSUME ClosedWorld PROVE Spec => []CInv
  OBVIOUS
<1>1. Init => CInv
  BY InitTrue
<1>2. CInv /\ [Next]_vars => CInv'
  BY StepTrue
<1> QED
  BY <1>1, <1>2, PTL DEF Spec

\* In a closed world every record of every active function is true.
THEOREM ErrorsAreTrue == ClosedWorld => (Spec => []RecordsAreTrue)
<1>1. CInv => RecordsAreTrue
  BY DEF CInv, TrueFrames, RecordsAreTrue
<1> QED
  BY <1>1, ClosedWorldInv, PTL

\* In a closed world every record of memory is true.
THEOREM MemoryErrorsAreTrue == ClosedWorld => (Spec => []MemoryIsTrue)
<1>1. CInv => MemoryIsTrue
  BY DEF CInv
<1> QED
  BY <1>1, ClosedWorldInv, PTL

\* In a closed world no call leaves an error on the return stack.
THEOREM NoLeftovers == ClosedWorld => (Spec => []ReturnStackDrained)
<1>1. CInv => ReturnStackDrained
  BY DEF CInv, ReturnStackDrained
<1> QED
  BY <1>1, ClosedWorldInv, PTL
-----------------------------------------------------------------------------
(* Any program: with recursion, invokes, callbacks and unhooked stores a   *)
(* record may be wrong, but every call hook still does its part.           *)

\* The hooks may apply an operation to any integers: only a division has to
\* give no result, by zero.
Total == \A op \in Used : \A nums \in [1..3 -> Int] :
             ~(op = "FDiv" /\ nums[2] = 0) => Exact(op, nums) \in Int

\* The frames in use are the first n, and a call that passes its errors on is
\* one of a function with hooks.
FramesOK(fr, n) ==
    /\ fr \in [1..MaxDepth -> Frame \cup {NoFrame}]
    /\ \A d \in 1..MaxDepth : fr[d] \in Frame <=> d <= n
    /\ \A d \in 1..n : fr[d].via \in {"direct", "indirect"} /\ d > 1 => fr[d - 1].fn \in Fn

PInv == TypeOK /\ FramesOK(frame, depth)

LEMMA NotAFrame == NoFrame \notin Frame
  BY PropagationAssumption DEF NoFrame, Frame

LEMMA PInit == Init => PInv
<1> SUFFICES ASSUME Init PROVE PInv
  OBVIOUS
<1>0. /\ MaxDepth \in Nat \ {0} /\ Main \in Fn /\ ArgMax \in Nat /\ RetMax \in Nat
      /\ depth = 1
  BY PropagationAssumption DEF Init
<1>1. MainFrame \in Frame
  BY <1>0 DEF MainFrame, Frame, Via, Undef
<1>2. FramesOK(frame, depth)
  <2>1. frame = [d \in 1..MaxDepth |-> IF d = 1 THEN MainFrame ELSE NoFrame]
    BY DEF Init
  <2>2. \A d \in 1..MaxDepth : frame[d] \in Frame <=> d <= 1
    BY <1>0, <1>1, <2>1, NotAFrame
  <2> QED
    BY <1>0, <1>1, <2>1, <2>2 DEF FramesOK
<1>3. mem \in [Cell -> Pairs]
  BY ExactlyTrue DEF Init
<1>4. retStack \in Seq([fn: Fn, err: Int]) /\ Len(retStack) <= RetMax
  BY <1>0 DEF Init
<1> QED
  BY <1>0, <1>2, <1>3, <1>4 DEF PInv, TypeOK, FramesOK, Init

\* What the hooks of the running function read.
LEMMA OperandTyped ==
    ASSUME PInv, NEW o \in Usable \cup {Zero}
    PROVE  /\ Held(o) \in Pairs
           /\ Hooked => Recorded(o) \in Int /\ High(o) \in Int
<1>1. Top \in Frame
  BY DEF PInv, TypeOK, Top
<1>2. CASE o \in Literal
  <2>1. ~IsReg(o) /\ o.lit \in Exactly
    BY <1>2 DEF IsReg, Literal
  <2> QED
    BY <2>1, ExactlyTrue DEF Held, Recorded, High
<1>3. CASE o \in RegOperand /\ o.reg \in Defined
  <2>1. IsReg(o) /\ o.reg \in Reg
    BY <1>3 DEF IsReg, RegOperand
  <2>2. Top.held[o.reg] \in Pairs
    BY <1>1, <1>3, <2>1 DEF Defined, Frame, Undef
  <2>3. Hooked => regErr[<<Top.fn, o.reg>>] \in Int
    BY <2>1 DEF PInv, TypeOK, Hooked
  <2>4. Top.held[o.reg].val \in Int
    BY <2>2, Numbers DEF Pairs
  <2> QED
    BY <2>1, <2>2, <2>3, <2>4 DEF Held, Recorded, High
<1>4. CASE o = Zero
  BY <1>4, ZeroExact DEF Held, Recorded, High
<1> QED
  BY <1>2, <1>3, <1>4 DEF Usable

\* A register of the running function is written.
LEMMA TopWritten ==
    ASSUME PInv, NEW r \in Reg, NEW p \in Pairs, WriteReg(r, p)
    PROVE  /\ FramesOK(frame', depth)
           /\ frame'[depth].fn = Top.fn /\ frame'[depth].held[r] = p
<1>1. /\ depth \in 1..MaxDepth /\ frame[depth] \in Frame
      /\ frame' = [frame EXCEPT ![depth].held[r] = p]
  BY DEF PInv, TypeOK, WriteReg
<1>2. /\ frame[depth].held \in [Reg -> Pairs \cup {Undef}]
      /\ frame[depth].fn \in Fn \cup Opaque /\ frame[depth].via \in Via
      /\ DOMAIN frame = 1..MaxDepth
  BY <1>1 DEF Frame, PInv, TypeOK
<1>3. /\ frame'[depth] \in Frame /\ frame'[depth].fn = Top.fn
      /\ frame'[depth].via = frame[depth].via /\ frame'[depth].held[r] = p
      /\ \A d \in 1..MaxDepth : d # depth => frame'[d] = frame[d]
      /\ DOMAIN frame' = 1..MaxDepth
  BY <1>1, <1>2 DEF Frame, Top
<1>4. \A d \in 1..MaxDepth : /\ frame'[d] \in Frame <=> frame[d] \in Frame
                             /\ frame'[d] \in Frame \cup {NoFrame}
                             /\ frame'[d].via = frame[d].via /\ frame'[d].fn = frame[d].fn
  BY <1>1, <1>3 DEF Top, PInv, TypeOK
<1>5. frame' \in [1..MaxDepth -> Frame \cup {NoFrame}]
  BY <1>1, <1>3, <1>4
<1>6. depth \in 1..MaxDepth /\ \A d \in 1..depth : d \in 1..MaxDepth /\ d - 1 \in 0..MaxDepth
  BY PropagationAssumption, <1>1
<1>7. ASSUME NEW d \in 1..depth, frame'[d].via \in {"direct", "indirect"}, d > 1
      PROVE  frame'[d - 1].fn \in Fn
  <2>1. d \in 1..MaxDepth /\ d - 1 \in 1..MaxDepth
    BY <1>6, <1>7
  <2> QED
    BY <1>4, <1>7, <2>1 DEF PInv, FramesOK
<1> QED
  BY <1>3, <1>4, <1>5, <1>7 DEF PInv, TypeOK, FramesOK

\* A function is entered.
LEMMA EnterFrames ==
    ASSUME PInv, NEW f \in Fn \cup Opaque, NEW via \in Via,
           NEW vals \in [DOMAIN Params[f] -> Pairs], Enter(f, via, vals),
           via \in {"direct", "indirect"} => Hooked
    PROVE  depth' \in 1..MaxDepth /\ FramesOK(frame', depth')
<1> DEFINE new == [fn |-> f, via |-> via,
                   held |-> [r \in Reg |-> IF IsParam(f, r) THEN vals[ParamIndex(f, r)]
                                                           ELSE Undef]]
<1>1. /\ depth \in 1..MaxDepth /\ MaxDepth \in Nat /\ depth' = depth + 1 /\ depth < MaxDepth
      /\ frame' = [frame EXCEPT ![depth + 1] = new]
  BY PropagationAssumption DEF PInv, TypeOK, Enter
<1>2. \A r \in Reg : IsParam(f, r) => ParamIndex(f, r) \in DOMAIN Params[f]
  BY DEF IsParam, ParamIndex
<1>3. new \in Frame
  BY <1>2 DEF Frame
<1> HIDE DEF new
<1>4. new.via = via
  BY DEF new
<1>5. /\ frame'[depth + 1] = new
      /\ \A d \in 1..MaxDepth : d # depth + 1 => frame'[d] = frame[d]
      /\ frame' \in [1..MaxDepth -> Frame \cup {NoFrame}]
  BY <1>1, <1>3 DEF PInv, TypeOK
<1>6. \A d \in 1..MaxDepth : frame'[d] \in Frame <=> d <= depth + 1
  BY <1>1, <1>3, <1>5 DEF PInv, TypeOK
<1>7. ASSUME NEW d \in 1..(depth + 1), frame'[d].via \in {"direct", "indirect"}, d > 1
      PROVE  frame'[d - 1].fn \in Fn
  <2>1. d - 1 \in 1..MaxDepth /\ frame'[d - 1] = frame[d - 1]
    BY <1>1, <1>5, <1>7
  <2>2. CASE d = depth + 1
    BY <1>1, <1>4, <1>5, <1>7, <2>1, <2>2 DEF Hooked, Top
  <2>3. CASE d # depth + 1
    BY <1>1, <1>5, <1>7, <2>1, <2>3 DEF PInv, FramesOK
  <2> QED
    BY <2>2, <2>3
<1> QED
  BY <1>1, <1>5, <1>6, <1>7 DEF FramesOK

\* Frames are left, down to d; registers of frame d may change.
LEMMA LeaveFrames ==
    ASSUME PInv, NEW n \in 1..depth, NEW fr,
           DOMAIN fr = 1..MaxDepth,
           \A d \in 1..MaxDepth : d > n => fr[d] = NoFrame,
           \A d \in 1..n : fr[d] \in Frame /\ fr[d].fn = frame[d].fn /\ fr[d].via = frame[d].via,
           fr = [d \in 1..MaxDepth |-> fr[d]]
    PROVE  n \in 1..MaxDepth /\ FramesOK(fr, n)
<1>1. /\ depth \in 1..MaxDepth /\ MaxDepth \in Nat
      /\ \A d \in 1..n : d \in 1..depth /\ d \in 1..MaxDepth
  BY PropagationAssumption DEF PInv, TypeOK
<1>2. \A d \in 1..MaxDepth : fr[d] \in Frame <=> d <= n
  BY <1>1, NotAFrame
<1>3. fr \in [1..MaxDepth -> Frame \cup {NoFrame}]
  <2>1. \A d \in 1..MaxDepth : d > n \/ d \in 1..n
    BY <1>1
  <2>2. \A d \in 1..MaxDepth : fr[d] \in Frame \cup {NoFrame}
    BY <2>1
  <2> QED
    BY <2>2
<1>4. ASSUME NEW d \in 1..n, fr[d].via \in {"direct", "indirect"}, d > 1
      PROVE  fr[d - 1].fn \in Fn
  <2>1. d - 1 \in 1..n /\ d \in 1..depth
    BY <1>1, <1>4
  <2> QED
    BY <1>4, <2>1 DEF PInv, FramesOK
<1> QED
  BY <1>1, <1>2, <1>3, <1>4 DEF FramesOK

LEMMA ResumeFrames ==
    ASSUME PInv, depth > 1, NEW r \in Reg, NEW p \in Pairs, Resume(r, p)
    PROVE  depth' \in 1..MaxDepth /\ FramesOK(frame', depth')
<1>1. /\ depth \in 1..MaxDepth /\ MaxDepth \in Nat
      /\ depth' = depth - 1 /\ depth - 1 \in 1..depth /\ depth - 1 \in 1..MaxDepth
  BY PropagationAssumption DEF PInv, TypeOK, Resume
<1>2. frame' = [d \in 1..MaxDepth |->
          IF d >= depth THEN NoFrame
          ELSE IF d = depth - 1 /\ frame[d].fn \in Fn THEN [frame[d] EXCEPT !.held[r] = p]
          ELSE frame[d]]
  BY DEF Resume
<1>3. \A d \in 1..MaxDepth : d > depth - 1 => frame'[d] = NoFrame
  BY <1>1, <1>2
<1>4. ASSUME NEW d \in 1..(depth - 1)
      PROVE  frame'[d] \in Frame /\ frame'[d].fn = frame[d].fn /\ frame'[d].via = frame[d].via
  <2>1. d \in 1..MaxDepth /\ frame[d] \in Frame
    BY <1>1 DEF PInv, TypeOK
  <2>2. CASE d = depth - 1 /\ frame[d].fn \in Fn
    <3>1. frame'[d] = [frame[d] EXCEPT !.held[r] = p]
      BY <1>1, <1>2, <2>1, <2>2
    <3> QED
      BY <2>1, <3>1 DEF Frame
  <2>3. CASE ~(d = depth - 1 /\ frame[d].fn \in Fn)
    BY <1>1, <1>2, <2>1, <2>3
  <2> QED
    BY <2>2, <2>3
<1>5. DOMAIN frame' = 1..MaxDepth /\ frame' = [d \in 1..MaxDepth |-> frame'[d]]
  BY <1>2
<1> QED
  BY <1>1, <1>3, <1>4, <1>5, LeaveFrames

\* What a call leaves in the argument buffer, and what its callee pops.
LEMMA PushTyped ==
    ASSUME PInv, Hooked, NEW f \in Fn \cup Opaque, NEW args \in Args(f)
    PROVE  /\ PushedBuf(args) \in [1..ArgMax -> Int]
           /\ PushedCount(f) \in 0..ArgMax
<1>1. \A i \in DOMAIN args : Recorded(args[i]) \in Int
  BY OperandTyped DEF Args
<1>2. PushedBuf(args) \in [1..ArgMax -> Int]
  BY <1>1 DEF PushedBuf, PInv, TypeOK
<1>3. Len(Params[f]) \in Nat /\ ArgMax \in Nat /\ argCount \in 0..ArgMax
  BY PropagationAssumption DEF PInv, TypeOK
<1> QED
  BY <1>2, <1>3 DEF PushedCount, Greater, Lesser

LEMMA PopTyped ==
    ASSUME PInv, NEW f \in Fn, NEW buf \in [1..ArgMax -> Int], NEW count \in 0..ArgMax,
           PopArgs(f, buf, count)
    PROVE  regErr' \in [Fn \X Reg -> Int]
<1>1. ArgMax \in Nat /\ \A r \in Reg : IsParam(f, r) => ParamIndex(f, r) \in Nat \ {0}
  <2>1. \A r \in Reg : IsParam(f, r) => ParamIndex(f, r) \in DOMAIN Params[f]
    BY DEF IsParam, ParamIndex
  <2>2. Params[f] \in Seq(Reg)
    BY PropagationAssumption
  <2> QED
    BY <2>1, <2>2, PropagationAssumption
<1>2. \A r \in Reg : IsParam(f, r) => Popped(buf, count, ParamIndex(f, r)) \in Int
  BY <1>1 DEF Popped
<1>3. \A k \in Fn \X Reg : k[2] \in Reg /\ regErr[k] \in Int
  BY DEF PInv, TypeOK
<1> QED
  BY <1>2, <1>3 DEF PopArgs

\* Values passed to a function.
LEMMA ValuesTyped ==
    ASSUME PInv, NEW f \in Fn \cup Opaque, NEW args \in Args(f)
    PROVE  Values(args) \in [DOMAIN Params[f] -> Pairs]
  BY OperandTyped DEF Args, Values

\* A stack without its top, and with another.
LEMMA PopStack ==
    ASSUME NEW S, NEW s \in Seq(S), s # <<>>
    PROVE  /\ Len(s) \in Nat \ {0} /\ s[Len(s)] \in S
           /\ SubSeq(s, 1, Len(s) - 1) \in Seq(S)
           /\ Len(SubSeq(s, 1, Len(s) - 1)) = Len(s) - 1
<1>1. Len(s) \in Nat \ {0}
  BY EmptySeq, LenProperties
<1>2. s[Len(s)] \in S
  BY <1>1, ElementOfSeq
<1>3. \A i \in 1..(Len(s) - 1) : s[i] \in S
  BY <1>1, ElementOfSeq
<1>4. ASSUME NEW n \in Nat, n = Len(s) - 1
      PROVE  SubSeq(s, 1, n) \in Seq(S) /\ Len(SubSeq(s, 1, n)) = n
  <2>1. \A i \in 1..n : s[i] \in S
    BY <1>3, <1>4
  <2>2. /\ SubSeq(s, 1, n) \in Seq(S)
        /\ Len(SubSeq(s, 1, n)) = IF 1 <= n THEN n - 1 + 1 ELSE 0
    BY <2>1, SubSeqProperties
  <2> QED
    BY <1>4, <2>2
<1>5. Len(s) - 1 \in Nat
  BY <1>1
<1> QED
  BY <1>1, <1>2, <1>4, <1>5

LEMMA PushStack ==
    ASSUME NEW S, NEW s \in Seq(S), NEW x \in S
    PROVE  /\ Append(s, x) \in Seq(S) /\ Append(s, x) # <<>>
           /\ Len(Append(s, x)) = Len(s) + 1
           /\ Append(s, x)[Len(s) + 1] = x
           /\ SubSeq(Append(s, x), 1, Len(s)) = s
  BY AppendProperties, LenProperties

\* What a return leaves on the return stack.
LEMMA FinishTyped ==
    ASSUME PInv, NEW r \in Reg, NEW p \in Pairs,
           NEW stack \in Seq([fn: Fn, err: Int]), Len(stack) <= RetMax, Finish(stack, r, p)
    PROVE  PInv'
<1>1. depth' \in 1..MaxDepth /\ FramesOK(frame', depth')
  BY ResumeFrames DEF Finish
<1>2. /\ PoppedStack(stack, Top.fn, Top.via) \in Seq([fn: Fn, err: Int])
      /\ Len(PoppedStack(stack, Top.fn, Top.via)) <= RetMax
      /\ PoppedError(stack, Top.fn, Top.via) \in Int
  <2>1. RetMax \in Nat /\ Len(stack) \in Nat
    BY PropagationAssumption
  <2>2. CASE stack = <<>>
    BY <2>2 DEF PoppedStack, PoppedError, Matches
  <2>3. CASE stack # <<>>
    <3> DEFINE S == [fn: Fn, err: Int]
    <3>0. stack \in Seq(S) /\ \A x \in S : x.err \in Int
      OBVIOUS
    <3> HIDE DEF S
    <3>a. /\ stack[Len(stack)] \in S /\ Len(stack) \in Nat
          /\ SubSeq(stack, 1, Len(stack) - 1) \in Seq(S)
          /\ Len(SubSeq(stack, 1, Len(stack) - 1)) = Len(stack) - 1
      BY <2>3, <3>0, PopStack
    <3>1. /\ stack[Len(stack)].err \in Int
          /\ SubSeq(stack, 1, Len(stack) - 1) \in Seq([fn: Fn, err: Int])
          /\ Len(SubSeq(stack, 1, Len(stack) - 1)) <= RetMax
      BY <2>1, <3>0, <3>a DEF S
    <3> QED
      BY <3>1 DEF PoppedStack, PoppedError
  <2> QED
    BY <2>2, <2>3
<1>3. regErr' \in [Fn \X Reg -> Int]
  BY <1>2 DEF Finish, RecordReg, PInv, TypeOK
<1>4. retStack' \in Seq([fn: Fn, err: Int]) /\ Len(retStack') <= RetMax
  BY <1>2 DEF Finish
<1>5. UNCHANGED <<mem, addrErr, argBuf, argCount>>
  BY DEF Finish
<1> QED
  BY <1>1, <1>3, <1>4, <1>5 DEF PInv, TypeOK, FramesOK

\* The operands of an operation and what the hook makes of them.
LEMMA HighsTyped ==
    ASSUME PInv, Hooked, NEW n, NEW args \in Operands(n)
    PROVE  /\ \A k \in 1..3 : Held(args[k]) \in Pairs
           /\ Highs(args) \in [1..3 -> Int]
<1>1. \A k \in 1..3 : Held(args[k]) \in Pairs /\ High(args[k]) \in Int
  BY OperandsUsable, OperandTyped
<1> QED
  BY <1>1 DEF Highs

\* An operation with its hook.
LEMMA OperateTyped ==
    ASSUME PInv, NEW r \in Reg, NEW p \in Pairs, NEW redone \in Int, Operate(r, p, redone)
    PROVE  PInv'
<1> USE DEF PInv
<1>1. /\ Hooked /\ WriteReg(r, p) /\ RecordReg(Top.fn, r, redone - p.val)
      /\ UNCHANGED <<depth, mem, addrErr, argBuf, argCount, retStack>>
  BY DEF Operate
<1>2. redone - p.val \in Int
  BY PairNumbers
<1>3. FramesOK(frame', depth)
  BY <1>1, TopWritten
<1>4. regErr' \in [Fn \X Reg -> Int]
  BY <1>1, <1>2 DEF RecordReg, TypeOK
<1> QED
  BY <1>1, <1>3, <1>4 DEF TypeOK, FramesOK

\* Operations, with a hook or without one.
LEMMA OperationTyped ==
    ASSUME Total, PInv, Operation
    PROVE  PInv'
<1>1. ASSUME NEW r \in Reg, NEW op \in Opcodes, NEW args \in Operands(Arity(op)),
             Compute(op, r, args)
      PROVE  PInv'
  <2>1. /\ Hooked
        /\ Operate(r, Pair(Low(op, args), Shadow(op, args)),
                   Redone(OperationType(op), Highs(args)))
    BY <1>1 DEF Compute, Operate
  <2>2. (\A k \in 1..3 : Held(args[k]) \in Pairs) /\ Highs(args) \in [1..3 -> Int]
    BY <2>1, HighsTyped
  <2>3. op \in Used /\ op \in Arithmetic
    BY PropagationAssumption, Numbers
  <2>4. Redone(OperationType(op), Highs(args)) \in Int
    BY <2>2, <2>3, ArithmeticRedone DEF Total
  <2> QED
    BY <2>1, <2>2, <2>3, <2>4, LowShadow, OperateTyped
<1>2. ASSUME NEW r \in Reg, NEW a \in Usable, NEW b \in Usable,
             NEW holds \in BOOLEAN, NEW cond \in BOOLEAN, Select(r, a, b, holds, cond)
      PROVE  PInv'
  <2>1. /\ Hooked
        /\ Operate(r, Held(Chosen(holds, a, b)), RedoneSelect(cond, Highs(<<Zero, a, b>>)))
    BY <1>2 DEF Select, Operate
  <2>2. /\ Held(a) \in Pairs /\ Held(b) \in Pairs
        /\ High(a) \in Int /\ High(b) \in Int
    BY <2>1, OperandTyped
  <2>3. /\ Held(Chosen(holds, a, b)) \in Pairs
        /\ RedoneSelect(cond, Highs(<<Zero, a, b>>)) \in Int
    BY <2>2 DEF Chosen, RedoneSelect, Highs
  <2> QED
    BY <2>1, <2>3, OperateTyped
<1>3. ASSUME NEW r \in Reg, NEW call \in MathCalls, NEW args \in Operands(Arity(call.name)),
             Math(call, r, args)
      PROVE  PInv'
  <2> DEFINE op == call.name
  <2>1. /\ Hooked /\ IsSupportedMathCall(call)
        /\ Operate(r, Pair(Low(op, args), Shadow(op, args)),
                   RedoneMath(op, Highs(args), Low(op, args)))
    BY <1>3 DEF Math, Operate
  <2>2. (\A k \in 1..3 : Held(args[k]) \in Pairs) /\ Highs(args) \in [1..3 -> Int]
    BY <2>1, HighsTyped
  <2>3. op \in Used
    BY Numbers
  <2>4. RedoneMath(op, Highs(args), Low(op, args)) \in Int
    BY <2>1, <2>2, <2>3, MathRedone DEF Total
  <2> QED
    BY <2>1, <2>2, <2>3, <2>4, LowShadow, OperateTyped
<1>4. ASSUME NEW r \in Reg, NEW o \in Usable, Unhooked(r, o)
      PROVE  PInv'
  <2>1. FramesOK(frame', depth)
    BY <1>4, OperandTyped, TopWritten DEF Unhooked
  <2> QED
    BY <1>4, <2>1 DEF Unhooked, PInv, TypeOK, FramesOK
<1> QED
  BY <1>1, <1>2, <1>3, <1>4 DEF Operation

LEMMA PStep == ASSUME Total, PInv, [Next]_vars
               PROVE  PInv'
<1>1. CASE Operation
  BY <1>1, OperationTyped
<1> USE DEF PInv
<1>2. ASSUME NEW r \in Reg, NEW c \in Cell, Store(r, c)
      PROVE  PInv'
  <2>1. Top.held[r] \in Pairs
    BY <1>2 DEF Store, TypeOK, Top, Frame, Defined, Undef
  <2>2. regErr[<<Top.fn, r>>] \in Int
    BY <1>2 DEF Store, TypeOK, Hooked
  <2>3. mem' \in [Cell -> Pairs] /\ addrErr' \in [Cell -> Int]
    BY <1>2, <2>1, <2>2 DEF Store, TypeOK
  <2> QED
    BY <1>2, <2>3 DEF Store, TypeOK, FramesOK
<1>3. ASSUME NEW r \in Reg, NEW c \in Cell, Load(r, c)
      PROVE  PInv'
  <2>1. mem[c] \in Pairs /\ addrErr[c] \in Int
    BY DEF TypeOK
  <2>2. FramesOK(frame', depth)
    BY <1>3, <2>1, TopWritten DEF Load
  <2>3. regErr' \in [Fn \X Reg -> Int]
    BY <1>3, <2>1 DEF Load, RecordReg, TypeOK
  <2>4. UNCHANGED <<depth, mem, addrErr, argBuf, argCount, retStack>>
    BY <1>3 DEF Load
  <2> QED
    BY <2>2, <2>3, <2>4 DEF TypeOK, FramesOK
<1>4. ASSUME NEW p \in Exactly, NEW c \in Cell, StoreUnhooked(p, c)
      PROVE  PInv'
  <2>1. mem' \in [Cell -> Pairs]
    BY <1>4, ExactlyTrue DEF StoreUnhooked, TypeOK
  <2> QED
    BY <1>4, <2>1 DEF StoreUnhooked, TypeOK, FramesOK
<1>5. ASSUME NEW dst \in Cell, NEW src \in Cell, Copy(dst, src)
      PROVE  PInv'
  <2>1. mem' \in [Cell -> Pairs] /\ addrErr' \in [Cell -> Int]
    BY <1>5 DEF Copy, TypeOK
  <2> QED
    BY <1>5, <2>1 DEF Copy, TypeOK, FramesOK
<1>6. ASSUME NEW f \in Fn \cup Opaque, NEW via \in Via, NEW args \in Args(f), Call(f, via, args)
      PROVE  PInv'
  <2>1. Hooked /\ Enter(f, via, Values(args)) /\ UNCHANGED <<mem, addrErr, retStack>>
    BY <1>6 DEF Call
  <2>2. depth' \in 1..MaxDepth /\ FramesOK(frame', depth')
    BY <2>1, ValuesTyped, EnterFrames
  <2>3. argBuf' \in [1..ArgMax -> Int] /\ argCount' \in 0..ArgMax
    BY <1>6, <2>1, PushTyped DEF Call
  <2>4. regErr' \in [Fn \X Reg -> Int]
    BY <1>6, <2>1, PushTyped, PopTyped DEF Call, TypeOK
  <2> QED
    BY <2>1, <2>2, <2>3, <2>4 DEF TypeOK, FramesOK
<1>7. ASSUME NEW f \in Fn \cup Opaque, NEW args \in Args(f), Invoke(f, args)
      PROVE  PInv'
  <2>1. /\ Enter(f, "invoke", Values(args))
        /\ UNCHANGED <<mem, addrErr, argBuf, argCount, retStack>>
    BY <1>7 DEF Invoke
  <2>2. depth' \in 1..MaxDepth /\ FramesOK(frame', depth')
    <3>1. "invoke" \in Via /\ "invoke" \notin {"direct", "indirect"}
      BY DEF Via
    <3> QED
      BY <2>1, <3>1, ValuesTyped, EnterFrames
  <2>3. regErr' \in [Fn \X Reg -> Int]
    BY <1>7, PopTyped DEF Invoke, TypeOK
  <2> QED
    BY <2>1, <2>2, <2>3 DEF TypeOK, FramesOK
<1>8. ASSUME NEW f \in Fn \cup Opaque, NEW vals \in [DOMAIN Params[f] -> Exactly], Callback(f, vals)
      PROVE  PInv'
  <2>1. /\ f \in Fn /\ Enter(f, "callback", vals) /\ PopArgs(f, argBuf, argCount)
        /\ UNCHANGED <<mem, addrErr, argBuf, argCount, retStack>>
    BY <1>8 DEF Callback
  <2>2. depth' \in 1..MaxDepth /\ FramesOK(frame', depth')
    <3>1. "callback" \in Via /\ "callback" \notin {"direct", "indirect"}
      BY DEF Via
    <3>2. vals \in [DOMAIN Params[f] -> Pairs]
      BY ExactlyTrue
    <3> QED
      BY <2>1, <3>1, <3>2, EnterFrames
  <2>3. regErr' \in [Fn \X Reg -> Int]
    BY <2>1, PopTyped DEF TypeOK
  <2> QED
    BY <2>1, <2>2, <2>3 DEF TypeOK, FramesOK
<1>9. ASSUME NEW r \in Reg, NEW o \in Usable, Return(o, r)
      PROVE  PInv'
  <2>1. Held(o) \in Pairs /\ Recorded(o) \in Int
    BY <1>9, OperandTyped DEF Return
  <2>2. PushRet(Recorded(o)) \in Seq([fn: Fn, err: Int]) /\ Len(PushRet(Recorded(o))) <= RetMax
    <3>1. [fn |-> Top.fn, err |-> Recorded(o)] \in [fn: Fn, err: Int]
      BY <1>9, <2>1 DEF Return, Hooked
    <3> DEFINE S == [fn: Fn, err: Int]
               x == [fn |-> Top.fn, err |-> Recorded(o)]
    <3>2. Len(retStack) \in Nat /\ RetMax \in Nat /\ retStack \in Seq(S) /\ x \in S
      BY <3>1, PropagationAssumption DEF TypeOK
    <3>3. PushRet(Recorded(o)) = IF Len(retStack) < RetMax THEN Append(retStack, x) ELSE retStack
      BY DEF PushRet
    <3>4. Len(retStack) <= RetMax
      BY DEF TypeOK
    <3> SUFFICES PushRet(Recorded(o)) \in Seq(S) /\ Len(PushRet(Recorded(o))) <= RetMax
      OBVIOUS
    <3> HIDE DEF S, x
    <3>5. Append(retStack, x) \in Seq(S) /\ Len(Append(retStack, x)) = Len(retStack) + 1
      BY <3>2, PushStack
    <3> QED
      BY <3>2, <3>3, <3>4, <3>5
  <2> QED
    BY <1>9, <2>1, <2>2, FinishTyped DEF Return
<1>10. ASSUME NEW r \in Reg, NEW p \in Exactly, ReturnOpaque(p, r)
       PROVE  PInv'
  BY <1>10, ExactlyTrue, FinishTyped DEF ReturnOpaque, TypeOK
<1>11. ASSUME NEW d \in 1..(MaxDepth - 1), Unwind(d)
       PROVE  PInv'
  <2>1. /\ d \in 1..depth /\ depth' = d
        /\ frame' = [e \in 1..MaxDepth |-> IF e > d THEN NoFrame ELSE frame[e]]
        /\ UNCHANGED <<mem, regErr, addrErr, argBuf, argCount, retStack>>
    BY <1>11 DEF Unwind, TypeOK
  <2>2. /\ DOMAIN frame' = 1..MaxDepth /\ frame' = [e \in 1..MaxDepth |-> frame'[e]]
        /\ \A e \in 1..MaxDepth : e > d => frame'[e] = NoFrame
    BY <2>1
  <2>3. \A e \in 1..d : frame'[e] \in Frame /\ frame'[e] = frame[e]
    <3>1. \A e \in 1..d : e \in 1..MaxDepth /\ e <= depth /\ ~(e > d)
      BY <2>1, PropagationAssumption DEF TypeOK
    <3> QED
      BY <2>1, <3>1 DEF TypeOK
  <2>4. d \in 1..MaxDepth /\ FramesOK(frame', d)
    BY <2>1, <2>2, <2>3, LeaveFrames
  <2> QED
    BY <2>1, <2>4 DEF TypeOK, FramesOK
<1>12. CASE UNCHANGED vars
  BY <1>12 DEF vars, TypeOK, FramesOK
<1> QED
  BY <1>1, <1>2, <1>3, <1>4, <1>5, <1>6, <1>7, <1>8, <1>9, <1>10, <1>11, <1>12
     DEF Next, Instruction, Entering, Leaving

LEMMA PAlways == ASSUME Total
                 PROVE  Spec => []PInv
  BY PInit, PStep, PTL DEF Spec

\* Whatever a program does, the buffers stay within their sizes and the frames
\* within the stack.
THEOREM PropagationTypes == ASSUME Total
                            PROVE  Spec => []TypeOK
<1>1. PInv => TypeOK
  BY DEF PInv
<1> QED
  BY <1>1, PAlways, PTL
-----------------------------------------------------------------------------
(* The hooks of calls.                                                     *)

LEMMA CallDelivers ==
    ASSUME PInv, NEW f \in Fn, NEW via \in Via, NEW args \in Args(f),
           Call(f, via, args), Len(Params[f]) <= ArgMax
    PROVE  ParamsRecord(f, args)
<1>1. /\ Params[f] \in Seq(Reg) /\ ArgMax \in Nat /\ Len(Params[f]) \in Nat
      /\ DOMAIN Params[f] = 1..Len(Params[f]) /\ argCount \in 0..ArgMax
      /\ \A i, j \in DOMAIN Params[f] : Params[f][i] = Params[f][j] => i = j
  BY PropagationAssumption DEF PInv, TypeOK
<1>2. PushedCount(f) >= Len(Params[f])
  BY <1>1 DEF PushedCount, Greater, Lesser
<1>3. DOMAIN args = DOMAIN Params[f]
  BY DEF Args
<1>4. ASSUME NEW i \in DOMAIN args
      PROVE  regErr'[<<f, Params[f][i]>>] = Recorded(args[i])
  <2>1. /\ i \in DOMAIN Params[f] /\ i \in 1..Len(Params[f]) /\ i \in 1..ArgMax
        /\ Params[f][i] \in Reg
    BY <1>1, <1>3
  <2>2. IsParam(f, Params[f][i]) /\ ParamIndex(f, Params[f][i]) = i
    BY <1>1, <2>1 DEF IsParam, ParamIndex
  <2>3. regErr' = [k \in Fn \X Reg |->
                     IF k[1] = f /\ IsParam(f, k[2])
                     THEN Popped(PushedBuf(args), PushedCount(f), ParamIndex(f, k[2]))
                     ELSE regErr[k]]
    BY DEF Call, PopArgs
  <2>4. regErr'[<<f, Params[f][i]>>] = Popped(PushedBuf(args), PushedCount(f), i)
    BY <2>1, <2>2, <2>3
  <2>5. PushedBuf(args)[i] = Recorded(args[i])
    BY <2>1 DEF PushedBuf
  <2>6. PushedCount(f) \in Int /\ i <= PushedCount(f)
    BY <1>1, <1>2, <2>1 DEF PushedCount, Greater, Lesser
  <2> QED
    BY <2>4, <2>5, <2>6 DEF Popped
<1> QED
  BY <1>4 DEF ParamsRecord

\* Whatever callbacks, invokes and exceptions have left in the argument buffer,
\* a call from a CallInst with hooks passes the errors of its arguments on, if
\* they fit the buffer (_FPC_FP32_PUSH_ARG_ERROR_, _FPC_FP32_POP_ARG_ERROR_).
THEOREM ArgumentsArrive == ASSUME Total
                           PROVE  Spec => ArgsDelivered
<1> DEFINE A == \A f \in Fn, via \in Via : \A args \in Args(f) :
                    Call(f, via, args) /\ Len(Params[f]) <= ArgMax => ParamsRecord(f, args)
<1>1. PInv /\ [Next]_vars => [A]_vars
  BY CallDelivers
<1> QED
  BY <1>1, PAlways, PTL DEF Spec, ArgsDelivered

LEMMA ReturnDelivers ==
    ASSUME PInv, NEW o \in Usable, NEW r \in Reg, Return(o, r), PopsResult,
           Len(retStack) < RetMax
    PROVE  ResultRecorded(o, r) /\ retStack' = retStack
<1> DEFINE S == [fn: Fn, err: Int]
           x == [fn |-> Top.fn, err |-> Recorded(o)]
           stack == Append(retStack, x)
<1>1. /\ x \in S /\ retStack \in Seq(S) /\ x.fn = Top.fn /\ x.err = Recorded(o)
  BY OperandTyped DEF Return, Hooked, PInv, TypeOK
<1>2. PushRet(Recorded(o)) = stack /\ depth > 1 /\ Finish(stack, r, Held(o))
  BY DEF PushRet, Return, Finish
<1>3. frame[depth - 1].fn \in Fn
  <2>1. depth \in 1..depth
    BY DEF PInv, TypeOK
  <2> QED
    BY <1>2, <2>1 DEF PInv, FramesOK, PopsResult, Top
<1> HIDE DEF S, x
<1>4. /\ stack # <<>> /\ Len(stack) = Len(retStack) + 1 /\ stack[Len(retStack) + 1] = x
      /\ SubSeq(stack, 1, Len(retStack)) = retStack /\ Len(retStack) \in Nat
  BY <1>1, PushStack, LenProperties
<1> HIDE DEF stack
<1>5. Len(stack) - 1 = Len(retStack) /\ stack[Len(stack)] = x
  BY <1>4
<1>6. Matches(stack, Top.fn, Top.via)
  BY <1>1, <1>4, <1>5 DEF Matches
<1>7. PoppedError(stack, Top.fn, Top.via) = Recorded(o) /\ PoppedStack(stack, Top.fn, Top.via) = retStack
  BY <1>1, <1>4, <1>5, <1>6 DEF PoppedError, PoppedStack
<1>8. /\ RecordReg(frame[depth - 1].fn, r, Recorded(o))
      /\ retStack' = retStack
  BY <1>2, <1>7 DEF Finish
<1>9. regErr' = [regErr EXCEPT ![<<frame[depth - 1].fn, r>>] = Recorded(o)]
  BY <1>8 DEF RecordReg
<1>10. regErr'[<<frame[depth - 1].fn, r>>] = Recorded(o)
  BY <1>3, <1>9 DEF PInv, TypeOK
<1> QED
  BY <1>8, <1>10 DEF ResultRecorded

\* Whatever callbacks, invokes and exceptions have left on the return stack, a
\* call from a CallInst with hooks gets the error of its result, if there is
\* room (_FPC_FP32_PUSH_RET_ERROR_, _FPC_FP32_POP_RET_ERROR_).
THEOREM ResultsArrive == ASSUME Total
                         PROVE  Spec => ResultsDelivered
<1> DEFINE A == \A o \in Usable, r \in Reg :
                    Return(o, r) /\ PopsResult /\ Len(retStack) < RetMax =>
                        ResultRecorded(o, r) /\ retStack' = retStack
<1>1. PInv /\ [Next]_vars => [A]_vars
  BY ReturnDelivers
<1> QED
  BY <1>1, PAlways, PTL DEF Spec, ResultsDelivered
-----------------------------------------------------------------------------
(* Wrong records stay where they are.                                      *)

LEMMA WriteTruth ==
    ASSUME PInv, Hooked, NEW r \in Reg, NEW p \in Pairs, NEW e \in Int, True(p, e),
           WriteReg(r, p), RecordReg(Top.fn, r, e), UNCHANGED depth
    PROVE  TrueNow(r)'
<1>1. frame'[depth'].fn = Top.fn /\ frame'[depth'].held[r] = p
  BY TopWritten
<1>2. regErr'[<<Top.fn, r>>] = e
  BY DEF RecordReg, Hooked, PInv, TypeOK
<1> QED
  BY <1>1, <1>2 DEF TrueNow, Top

LEMMA OperateTruth ==
    ASSUME PInv, NEW r \in Reg, NEW p \in Pairs, Operate(r, p, p.shadow)
    PROVE  TrueNow(r)'
<1>1. p.shadow - p.val \in Int /\ True(p, p.shadow - p.val)
  BY PairNumbers
<1> QED
  BY <1>1, WriteTruth DEF Operate

LEMMA TrueHighs ==
    ASSUME PInv, Hooked, NEW n, NEW args \in Operands(n), TrueOperands(args)
    PROVE  /\ \A k \in 1..3 : Held(args[k]) \in Pairs
           /\ Highs(args) = [k \in 1..3 |-> Held(args[k]).shadow]
<1>1. \A k \in 1..3 : High(args[k]) = Held(args[k]).shadow
  BY DEF TrueOperands, TrueOperand, True, High
<1> QED
  BY <1>1, HighsTyped DEF Highs

LEMMA MadeTrue ==
    ASSUME PInv, NEW r \in Reg, MadeFromTruth(r)
    PROVE  TrueNow(r)'
<1>0. Hooked
  BY DEF MadeFromTruth
<1>1. ASSUME NEW op \in Opcodes, NEW args \in Operands(Arity(op)),
             TrueOperands(args), ~DividesByZero(op, args), Compute(op, r, args)
      PROVE  TrueNow(r)'
  <2>1. /\ \A k \in 1..3 : Held(args[k]) \in Pairs
        /\ Highs(args) = [k \in 1..3 |-> Held(args[k]).shadow]
    BY <1>0, <1>1, TrueHighs
  <2>2. op \in Used /\ op \in Arithmetic
    BY PropagationAssumption, Numbers
  <2>3. ~(op = "FDiv" /\ Highs(args)[2] = 0)
    BY <1>1, <2>1 DEF DividesByZero
  <2>4. Redone(OperationType(op), Highs(args)) = Shadow(op, args)
    BY <2>1, <2>2, <2>3, ArithmeticRedone DEF Shadow
  <2>5. Operate(r, Pair(Low(op, args), Shadow(op, args)), Shadow(op, args))
    BY <1>1, <2>4 DEF Compute
  <2>6. Pair(Low(op, args), Shadow(op, args)).shadow = Shadow(op, args)
    BY DEF Pair
  <2> QED
    BY <2>1, <2>2, <2>5, <2>6, LowShadow, OperateTruth
<1>2. ASSUME NEW a \in Usable, NEW b \in Usable, NEW holds \in BOOLEAN,
             TrueOperand(Chosen(holds, a, b)), Select(r, a, b, holds, holds)
      PROVE  TrueNow(r)'
  <2> DEFINE o == Chosen(holds, a, b)
  <2>1. o \in Usable
    BY DEF Chosen
  <2>2. Held(o) \in Pairs /\ High(o) = Held(o).shadow
    BY <1>2, <2>1, OperandTyped DEF TrueOperand, True, High
  <2>3. RedoneSelect(holds, Highs(<<Zero, a, b>>)) = High(o)
    BY DEF RedoneSelect, Highs, Chosen
  <2>4. Operate(r, Held(o), Held(o).shadow)
    BY <1>2, <2>2, <2>3 DEF Select
  <2> QED
    BY <2>2, <2>4, OperateTruth
<1>3. ASSUME NEW call \in MathCalls, NEW args \in Operands(Arity(call.name)),
             TrueOperands(args), Math(call, r, args)
      PROVE  TrueNow(r)'
  <2> DEFINE op == call.name
  <2>1. /\ \A k \in 1..3 : Held(args[k]) \in Pairs
        /\ Highs(args) = [k \in 1..3 |-> Held(args[k]).shadow]
    BY <1>0, <1>3, TrueHighs
  <2>2. IsSupportedMathCall(call) /\ op \in Used
    BY <1>3, Numbers DEF Math
  <2>3. RedoneMath(op, Highs(args), Low(op, args)) = Shadow(op, args)
    BY <2>1, <2>2, MathRedone DEF Shadow
  <2>4. Operate(r, Pair(Low(op, args), Shadow(op, args)), Shadow(op, args))
    BY <1>3, <2>3 DEF Math
  <2>5. Pair(Low(op, args), Shadow(op, args)).shadow = Shadow(op, args)
    BY DEF Pair
  <2> QED
    BY <2>1, <2>2, <2>4, <2>5, LowShadow, OperateTruth
<1>4. ASSUME NEW c \in Cell, TrueCell(c), Load(r, c)
      PROVE  TrueNow(r)'
  <2>1. mem[c] \in Pairs /\ addrErr[c] \in Int
    BY DEF PInv, TypeOK
  <2> QED
    BY <1>4, <2>1, WriteTruth DEF Load, TrueCell
<1> QED
  BY <1>1, <1>2, <1>3, <1>4 DEF MadeFromTruth

LEMMA StoredTrue ==
    ASSUME PInv, NEW c \in Cell, StoredFromTruth(c)
    PROVE  TrueCell(c)'
<1>1. ASSUME NEW r \in Reg, Store(r, c), TrueNow(r)
      PROVE  TrueCell(c)'
  <2>1. mem'[c] = Top.held[r] /\ addrErr'[c] = regErr[<<Top.fn, r>>]
    BY <1>1 DEF Store, PInv, TypeOK
  <2> QED
    BY <1>1, <2>1 DEF TrueNow, TrueCell
<1>2. ASSUME NEW src \in Cell, Copy(c, src), TrueCell(src)
      PROVE  TrueCell(c)'
  <2>1. mem'[c] = mem[src] /\ addrErr'[c] = addrErr[src]
    BY <1>2 DEF Copy, PInv, TypeOK
  <2> QED
    BY <1>2, <2>1 DEF TrueCell
<1> QED
  BY <1>1, <1>2 DEF StoredFromTruth

\* In any program a wrong record spoils only what is computed from it: true
\* operands give true results (_FPC_FP32_CALCULATE_ERROR_, _FPC_FP32_MATH_ERROR_
\* and the hooks of loads, stores and memcpy), unless the FP64 program divides
\* by zero or a select is given the condition of another.
THEOREM HarmIsLocal == ASSUME Total
                       PROVE  Spec => TruthIsLocal
<1> DEFINE A == /\ \A r \in Reg : WrongNow(r)' => ~MadeFromTruth(r)
                /\ \A c \in Cell : ~TrueCell(c)' => ~StoredFromTruth(c)
<1>1. PInv /\ [Next]_vars => [A]_vars
  BY MadeTrue, StoredTrue DEF WrongNow
<1> QED
  BY <1>1, PAlways, PTL DEF Spec, TruthIsLocal
=============================================================================
