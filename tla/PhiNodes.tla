------------------------------ MODULE PhiNodes ------------------------------
(***************************************************************************)
(* How errors follow the PHI nodes of one activation of an instrumented    *)
(* function: the branch hook, the PHI hook (Runtime_error.h) and the two   *)
(* loops of the pass that place them (Instrumentation_error.cpp).          *)
(*                                                                         *)
(* The PHI nodes of a block take their values at once, when the block is   *)
(* entered.  Their hooks come after the last of them, one by one, the last *)
(* PHI's first: every hook call is inserted in front of the earlier ones.  *)
(* A hook finds out where control came from in _FPC_LAST_BASIC_BLOCK_, one *)
(* global string that every function's branch hooks overwrite.             *)
(*                                                                         *)
(* A register is represented by the error of the value it holds (err) and  *)
(* the error the runtime has recorded for it (rec); the tool is right when *)
(* they agree.  That the other hooks record the right error is the subject *)
(* of ErrorPropagation and is taken for granted here.                      *)
(***************************************************************************)
EXTENDS Naturals, Sequences

CONSTANTS
    Block,      \* names of the function's basic blocks
    OtherBlock, \* a block name that only other functions have, or ""
    EntryBlock, \* where the function starts
    Succ,       \* successors of a block
    Branch,     \* blocks ended by a BranchInst; others end in a switch or an invoke
    Reg,        \* floating-point registers
    Literal,    \* a literal operand, which never has a record
    Defs,       \* registers a block's other instructions assign
    Phis,       \* the registers of a block's PHI nodes, in order
    Incoming,   \* Incoming[r][b]: what PHI r takes when control comes from b
    InHook,     \* predecessors whose part of the hook's string survives its copy
    Err, ZeroErr\* errors

ASSUME FunctionAssumption ==
    /\ EntryBlock \in Block /\ OtherBlock \notin Block
    /\ Succ \in [Block -> SUBSET Block]
    /\ Branch \subseteq Block
    /\ Literal \notin Reg
    /\ Defs \in [Block -> SUBSET Reg]
    /\ Phis \in [Block -> Seq(Reg)]
    /\ \A b \in Block : \A i, j \in DOMAIN Phis[b] : Phis[b][i] = Phis[b][j] => i = j
    /\ Incoming \in [Reg -> [Block -> Reg \cup {Literal}]]
    /\ InHook \in [Reg -> SUBSET Block]
    /\ ZeroErr \in Err

VARIABLES
    block,      \* the block that runs
    from,       \* the block control came from
    todo,       \* PHI hooks of the block still to run
    err,        \* the error of each register's value
    rec,        \* the error recorded for each register
    last        \* _FPC_LAST_BASIC_BLOCK_

vars == <<block, from, todo, err, rec, last>>

BlockName == Block \cup {OtherBlock}

\* An operand's error; a literal has none, and no record either.
\* OfUnset is a faulty variant: a missing record does not read as zero.
OfUnset(m, o) == IF o = Literal THEN Literal ELSE m[o]
Of(m, o) == IF o = Literal THEN ZeroErr ELSE m[o]

\* The PHI nodes of b, entered from p, take their values at once.
IsPhi(b, r) == \E i \in DOMAIN Phis[b] : Phis[b][i] = r
Assigned(b, p) == [r \in Reg |-> IF IsPhi(b, r) THEN Of(err, Incoming[r][p]) ELSE err[r]]

-----------------------------------------------------------------------------
\* The caller's hooks have left some block name; no register is assigned yet.
Init == /\ block = EntryBlock /\ from = EntryBlock /\ todo = 0
        /\ err = [r \in Reg |-> ZeroErr] /\ rec = [r \in Reg |-> ZeroErr]
        /\ last \in BlockName

\* An instruction with a hook assigns a register.
Work(r, e) ==
    /\ todo = 0 /\ r \in Defs[block]
    /\ err' = [err EXCEPT ![r] = e] /\ rec' = [rec EXCEPT ![r] = e]
    /\ UNCHANGED <<block, from, todo, last>>

\* A function is called, whose branch hooks record its own blocks; it may well
\* have one of the same name.
Call(b) == /\ todo = 0
           /\ last' = b
           /\ UNCHANGED <<block, from, todo, err, rec>>

\* _FPC_FP32_BRANCH_ before a BranchInst; another terminator has no hook.
\* JumpUnhooked is a faulty variant: no terminator has.
JumpUnhooked(b) ==
    /\ todo = 0 /\ b \in Succ[block]
    /\ block' = b /\ from' = block
    /\ err' = Assigned(b, block) /\ todo' = Len(Phis[b])
    /\ UNCHANGED <<rec, last>>
Jump(b) ==
    /\ todo = 0 /\ b \in Succ[block]
    /\ last' = IF block \in Branch THEN block ELSE last
    /\ block' = b /\ from' = block
    /\ err' = Assigned(b, block) /\ todo' = Len(Phis[b])
    /\ UNCHANGED rec

\* _FPC_FP32_PHI_: the record of the PHI becomes that of the operand listed
\* with the last block; without such an operand it is left alone.
RunHook(r) ==
    /\ todo' = todo - 1
    /\ rec' = IF last \in InHook[r]
              THEN [rec EXCEPT ![r] = Of(rec, Incoming[r][last])] ELSE rec
    /\ UNCHANGED <<block, from, err, last>>

\* PhiHookInOrder is a faulty variant: the first PHI's hook runs first.
PhiHookInOrder == todo > 0 /\ RunHook(Phis[block][Len(Phis[block]) + 1 - todo])
PhiHook == todo > 0 /\ RunHook(Phis[block][todo])

Next == \/ \E r \in Reg, e \in Err : Work(r, e)
        \/ \E b \in BlockName : Call(b)
        \/ \E b \in Block : Jump(b)
        \/ PhiHook

Spec == Init /\ [][Next]_vars
-----------------------------------------------------------------------------
(* Properties.                                                             *)

TypeOK == /\ block \in Block /\ from \in Block
          /\ todo \in 0..Len(Phis[block])
          /\ err \in [Reg -> Err] /\ rec \in [Reg -> Err]
          /\ last \in BlockName

\* Once the hooks of a block have run, every register's recorded error is that
\* of its value, PHI or not, whichever way control came.
PhiErrorsFollow == todo = 0 => rec = err

\* While PHI hooks run, the last block is the one control came from, whatever
\* the functions called on the way have recorded.
KnowsPredecessor == todo > 0 => last = from
=============================================================================
