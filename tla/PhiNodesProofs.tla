--------------------------- MODULE PhiNodesProofs ---------------------------
(***************************************************************************)
(* Proofs about PhiNodes.  The PHI hooks are right in every function whose *)
(* blocks with PHI nodes are entered through BranchInsts only, whose hook  *)
(* strings are not cut, and where no PHI reads a later PHI of its block.   *)
(* The run phi_switch shows that the first condition is needed.            *)
(***************************************************************************)
EXTENDS PhiNodes, TLAPS

\* No PHI of a block takes the value of a later PHI of the block.
ReadsEarlier ==
    \A b, p \in Block : b \in Succ[p] =>
        \A i, j \in DOMAIN Phis[b] : i < j => Incoming[Phis[b][i]][p] # Phis[b][j]

\* A hook's string lists every predecessor.
StringsFit ==
    \A b, p \in Block : b \in Succ[p] =>
        \A i \in DOMAIN Phis[b] : p \in InHook[Phis[b][i]]

\* Blocks with PHI nodes are entered through BranchInsts.
BranchesIn ==
    \A b, p \in Block : b \in Succ[p] /\ p \notin Branch => Phis[b] = <<>>

Tractable == ReadsEarlier /\ StringsFit /\ BranchesIn

\* While hooks run: control came from a predecessor, which is the last block.
Entered == todo > 0 => /\ block \in Succ[from]
                       /\ last = from

\* The PHIs whose hooks have run, and all other registers, are recorded right;
\* a PHI whose hook has not run holds what its operand's record says.
Settled == \A r \in Reg :
    (\A i \in DOMAIN Phis[block] : i <= todo => Phis[block][i] # r) => rec[r] = err[r]
Waiting == \A i \in DOMAIN Phis[block] :
    i <= todo => err[Phis[block][i]] = Of(rec, Incoming[Phis[block][i]][from])

PInv == TypeOK /\ Entered /\ Settled /\ Waiting
-----------------------------------------------------------------------------
\* The error of an operand is an error.
LEMMA OfTyped ==
    ASSUME NEW m \in [Reg -> Err], NEW o \in Reg \cup {Literal}
    PROVE  Of(m, o) \in Err
  BY FunctionAssumption DEF Of, FunctionAssumption

\* The i-th PHI of a block is a register, with an operand for every block.
LEMMA PhiTyped ==
    ASSUME NEW b \in Block, NEW i \in DOMAIN Phis[b], NEW p \in Block
    PROVE  /\ Phis[b][i] \in Reg
           /\ Incoming[Phis[b][i]][p] \in Reg \cup {Literal}
           /\ Len(Phis[b]) \in Nat /\ DOMAIN Phis[b] = 1..Len(Phis[b])
  BY FunctionAssumption DEF FunctionAssumption

\* The number of PHIs of a block.
LEMMA PhiCount ==
    ASSUME NEW b \in Block
    PROVE  Len(Phis[b]) \in Nat /\ DOMAIN Phis[b] = 1..Len(Phis[b])
  BY FunctionAssumption DEF FunctionAssumption

\* The invariant holds at the function's entry.
LEMMA PInit == Init => PInv
  <1> SUFFICES ASSUME Init PROVE PInv
    OBVIOUS
  <1>1. EntryBlock \in Block /\ ZeroErr \in Err
    BY FunctionAssumption DEF FunctionAssumption
  <1>2. TypeOK
    BY <1>1, PhiCount DEF Init, TypeOK
  <1>3. Entered /\ Settled
    BY <1>1 DEF Init, Entered, Settled
  <1>4. Waiting
    BY <1>1, PhiCount DEF Init, Waiting
  <1> QED
    BY <1>2, <1>3, <1>4 DEF PInv

\* An instruction of the block records what it assigns.
LEMMA WorkStep ==
    ASSUME PInv, NEW r \in Reg, NEW e \in Err, Work(r, e)
    PROVE  PInv'
  <1>1. TypeOK'
    BY DEF PInv, TypeOK, Work
  <1>2. Entered'
    BY DEF PInv, Entered, Work
  <1>3. Settled'
    <2> SUFFICES ASSUME NEW s \in Reg PROVE rec'[s] = err'[s]
      BY DEF Settled
    <2>1. rec[s] = err[s]
      BY PhiCount DEF PInv, TypeOK, Settled, Work
    <2> QED
      BY <2>1 DEF PInv, TypeOK, Work
  <1>4. Waiting'
    BY PhiCount DEF PInv, TypeOK, Waiting, Work
  <1> QED
    BY <1>1, <1>2, <1>3, <1>4 DEF PInv

\* A callee only touches the last block, which no hook is waiting to read.
LEMMA CallStep ==
    ASSUME PInv, NEW b \in BlockName, Call(b)
    PROVE  PInv'
  BY DEF PInv, TypeOK, Entered, Settled, Waiting, Of, Call

\* The PHIs of the next block take the errors that their operands' records
\* have, because every record is right when a block ends.
LEMMA JumpStep ==
    ASSUME Tractable, PInv, NEW b \in Block, Jump(b)
    PROVE  PInv'
  <1>1. \A s \in Reg : rec[s] = err[s]
    BY PhiCount DEF PInv, TypeOK, Settled, Jump
  <1>2. block \in Block /\ block' = b /\ from' = block /\ b \in Succ[block]
    BY DEF PInv, TypeOK, Jump
  <1>3. todo' = Len(Phis[b]) /\ rec' = rec /\ err' = Assigned(b, block)
    BY DEF Jump
  <1>4. TypeOK'
    <2>1. todo' \in 0..Len(Phis[b])
      BY <1>3, PhiCount
    <2>2. err' \in [Reg -> Err]
      <3>1. \A r \in Reg : IsPhi(b, r) => Incoming[r][block] \in Reg \cup {Literal}
        BY <1>2, FunctionAssumption DEF FunctionAssumption
      <3>2. err \in [Reg -> Err]
        BY DEF PInv, TypeOK
      <3>3. \A r \in Reg : IsPhi(b, r) => Of(err, Incoming[r][block]) \in Err
        BY <3>1, <3>2, OfTyped
      <3> QED
        BY <1>3, <3>2, <3>3 DEF Assigned
    <2>3. last' \in BlockName
      BY <1>2 DEF Jump, PInv, TypeOK, BlockName
    <2> QED
      BY <1>2, <1>3, <2>1, <2>2, <2>3 DEF PInv, TypeOK
  <1>5. Entered'
    <2> SUFFICES ASSUME todo' > 0 PROVE last' = block
      BY <1>2 DEF Entered
    <2>1. Phis[b] # <<>>
      BY <1>3
    <2>2. block \in Branch
      BY <1>2, <2>1 DEF Tractable, BranchesIn
    <2> QED
      BY <2>2 DEF Jump
  <1>6. Settled'
    <2> SUFFICES ASSUME NEW r \in Reg,
                        \A i \in DOMAIN Phis[b] : i <= Len(Phis[b]) => Phis[b][i] # r
                 PROVE  rec'[r] = err'[r]
      BY <1>2, <1>3 DEF Settled
    <2>1. ~IsPhi(b, r)
      BY PhiCount DEF IsPhi
    <2> QED
      BY <1>1, <1>3, <2>1 DEF Assigned
  <1>7. Waiting'
    <2> SUFFICES ASSUME NEW i \in DOMAIN Phis[b]
                 PROVE  err'[Phis[b][i]] = Of(rec, Incoming[Phis[b][i]][block])
      BY <1>2, <1>3 DEF Waiting, Of
    <2>1. Phis[b][i] \in Reg /\ Incoming[Phis[b][i]][block] \in Reg \cup {Literal}
      BY <1>2, PhiTyped
    <2>2. err'[Phis[b][i]] = Of(err, Incoming[Phis[b][i]][block])
      BY <1>3, <2>1 DEF Assigned, IsPhi
    <2> QED
      BY <1>1, <2>1, <2>2 DEF Of
  <1> QED
    BY <1>4, <1>5, <1>6, <1>7 DEF PInv

\* A PHI hook records the error of the PHI, and no waiting PHI reads it.
LEMMA HookStep ==
    ASSUME Tractable, PInv, PhiHook
    PROVE  PInv'
  <1> DEFINE r == Phis[block][todo]
             o == Incoming[r][from]
  <1>1. /\ block \in Block /\ from \in Block
        /\ todo \in 0..Len(Phis[block]) /\ todo > 0
        /\ err \in [Reg -> Err] /\ rec \in [Reg -> Err]
        /\ block \in Succ[from] /\ last = from
    BY DEF PInv, TypeOK, Entered, PhiHook
  <1>2. todo \in DOMAIN Phis[block] /\ Len(Phis[block]) \in Nat
        /\ DOMAIN Phis[block] = 1..Len(Phis[block])
    BY <1>1, PhiCount
  <1>3. r \in Reg /\ o \in Reg \cup {Literal}
    BY <1>1, <1>2, PhiTyped
  <1>4. last \in InHook[r]
    BY <1>1, <1>2 DEF Tractable, StringsFit
  <1>5. /\ rec' = [rec EXCEPT ![r] = Of(rec, o)]
        /\ todo' = todo - 1
        /\ block' = block /\ from' = from /\ err' = err /\ last' = last
    BY <1>1, <1>4 DEF PhiHook, RunHook
  <1>6. err[r] = Of(rec, o)
    BY <1>1, <1>2 DEF PInv, Waiting
  <1>7. \A i \in DOMAIN Phis[block] : i # todo => Phis[block][i] # r
    BY <1>1, <1>2, FunctionAssumption DEF FunctionAssumption
  <1>8. TypeOK'
    <2>1. Of(rec, o) \in Err
      BY <1>1, <1>3, OfTyped
    <2>2. rec' \in [Reg -> Err]
      BY <1>1, <1>5, <2>1
    <2>3. todo' \in 0..Len(Phis[block])
      BY <1>1, <1>2, <1>5
    <2> QED
      BY <1>5, <2>2, <2>3 DEF PInv, TypeOK
  <1>9. Entered'
    BY <1>1, <1>5 DEF Entered
  <1>10. Settled'
    <2> SUFFICES ASSUME NEW s \in Reg,
                        \A i \in DOMAIN Phis[block] : i <= todo - 1 => Phis[block][i] # s
                 PROVE  rec'[s] = err[s]
      BY <1>5 DEF Settled
    <2>1. CASE s = r
      BY <1>1, <1>3, <1>5, <1>6, <2>1
    <2>2. CASE s # r
      <3>1. \A i \in DOMAIN Phis[block] : i <= todo => Phis[block][i] # s
        BY <1>1, <1>2, <2>2
      <3>2. rec[s] = err[s]
        BY <3>1 DEF PInv, Settled
      <3> QED
        BY <1>1, <1>5, <2>2, <3>2
    <2> QED
      BY <2>1, <2>2
  <1>11. Waiting'
    <2> SUFFICES ASSUME NEW i \in DOMAIN Phis[block], i <= todo - 1
                 PROVE  err[Phis[block][i]] = Of(rec', Incoming[Phis[block][i]][from])
      BY <1>5 DEF Waiting, Of
    <2> DEFINE q == Incoming[Phis[block][i]][from]
    <2>1. i < todo
      BY <1>1, <1>2
    <2>2. q # r
      BY <1>1, <1>2, <2>1 DEF Tractable, ReadsEarlier
    <2>3. q \in Reg \cup {Literal}
      BY <1>1, PhiTyped
    <2>4. Of(rec', q) = Of(rec, q)
      BY <1>1, <1>3, <1>5, <2>2, <2>3 DEF Of
    <2>5. err[Phis[block][i]] = Of(rec, q)
      BY <1>1, <1>2, <2>1 DEF PInv, Waiting
    <2> QED
      BY <2>4, <2>5
  <1> QED
    BY <1>8, <1>9, <1>10, <1>11 DEF PInv

\* The strengthened invariant of a tractable function.
THEOREM PhiInvariant == Tractable => (Spec => []PInv)
  <1> SUFFICES ASSUME Tractable PROVE Spec => []PInv
    OBVIOUS
  <1>1. Init => PInv
    BY PInit
  <1>2. PInv /\ [Next]_vars => PInv'
    <2> SUFFICES ASSUME PInv, [Next]_vars PROVE PInv'
      OBVIOUS
    <2>1. ASSUME NEW r \in Reg, NEW e \in Err, Work(r, e) PROVE PInv'
      BY <2>1, WorkStep
    <2>2. ASSUME NEW b \in BlockName, Call(b) PROVE PInv'
      BY <2>2, CallStep
    <2>3. ASSUME NEW b \in Block, Jump(b) PROVE PInv'
      BY <2>3, JumpStep
    <2>4. CASE PhiHook
      BY <2>4, HookStep
    <2>5. CASE UNCHANGED vars
      BY <2>5 DEF vars, PInv, TypeOK, Entered, Settled, Waiting, Of
    <2> QED
      BY <2>1, <2>2, <2>3, <2>4, <2>5 DEF Next
  <1> QED
    BY <1>1, <1>2, PTL DEF Spec

\* In a tractable function every register's recorded error is that of its value
\* whenever the PHI hooks of its block have run.
THEOREM PhiErrors == Tractable => (Spec => []PhiErrorsFollow)
  <1>1. PInv => PhiErrorsFollow
    <2> SUFFICES ASSUME PInv, todo = 0 PROVE rec = err
      BY DEF PhiErrorsFollow
    <2>1. \A r \in Reg : rec[r] = err[r]
      BY PhiCount DEF PInv, TypeOK, Settled
    <2> QED
      BY <2>1 DEF PInv, TypeOK
  <1> QED
    BY <1>1, PhiInvariant, PTL

\* In a tractable function the PHI hooks know where control came from.
THEOREM PhiPredecessor == Tractable => (Spec => []KnowsPredecessor)
  <1>1. PInv => KnowsPredecessor
    BY DEF PInv, Entered, KnowsPredecessor
  <1> QED
    BY <1>1, PhiInvariant, PTL

\* Type correctness in a tractable function.
THEOREM PhiTypes == Tractable => (Spec => []TypeOK)
  <1>1. PInv => TypeOK
    BY DEF PInv
  <1> QED
    BY <1>1, PhiInvariant, PTL
=============================================================================
