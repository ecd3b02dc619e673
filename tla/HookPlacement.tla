---------------------------- MODULE HookPlacement ----------------------------
(***************************************************************************)
(* Where the error pass puts the calls of the runtime (hooks) in a         *)
(* function: instrumentFunctionErrorAnalysis and instrumentMainFunction of *)
(* Instrumentation_error.cpp.  The pass pops the parameters' errors, walks *)
(* the instructions and gives each the hooks of its kind, then handles PHI *)
(* nodes, then the branches, and then main's own two calls.  Its loops run *)
(* over the list they insert into; inserted calls are recognised by their  *)
(* names and get no hooks.                                                 *)
(*                                                                         *)
(* A hook reads and records errors under the names registers have when it  *)
(* is inserted.  What hooks compute is the subject of ErrorPropagation,    *)
(* which takes for granted what is checked here: that a hook runs after    *)
(* the ones that record what it reads, under the same names.               *)
(***************************************************************************)
EXTENDS LlvmIR

CONSTANTS
    InMain      \* the function is main

HInit == /\ code \in Program /\ todo = <<>> /\ phase = "pops"

Ids(Test(_)) == LET found == Ordered({q \in DOMAIN code : Test(code[q])})
                IN  [n \in DOMAIN found |-> code[found[n]].id]

\* The first instruction of the entry block with a file, or its last.
\* FirstWithFileLast is a faulty variant: the search does not stop.
FirstWithFileLast == SelectLastInSeq(code, LAMBDA i : i.bb = 1)
FirstWithFile ==
    LET known == SelectInSeq(code, LAMBDA i : i.bb = 1 /\ FileOf(Place(i.id)) # "")
    IN  IF known # 0 THEN known ELSE SelectLastInSeq(code, LAMBDA i : i.bb = 1)

\* The errors of the parameters are popped in front of it.
PopParams ==
    /\ phase = "pops"
    /\ code' = Spliced(FirstWithFile,
                  [i \in DOMAIN Param |->
                      Hook("pop_arg", code[FirstWithFile], <<>>, <<>>, Ref(Param[i]))], <<>>)
    /\ todo' = [i \in DOMAIN code |-> code[i].id] /\ phase' = "walk"

-----------------------------------------------------------------------------
(* The walk: hooks in front of the instruction and behind it.              *)

x == ItemOf(Head(todo))
px == Place(Head(todo))
Visits(op) == phase = "walk" /\ todo # <<>> /\ x.op = op
Helper == Aux(x, Following(px))

Visit(before, after) ==
    /\ code' = Spliced(px, before, after)
    /\ todo' = Tail(todo)
    /\ UNCHANGED phase

\* A store of a float that is not a literal; args are value and address.
Store ==
    /\ Visits("store")
    /\ IF x.args[1] # Literal /\ TypeOf(x.args[1]) \in FP
       THEN Visit(<<>>, <<Hook("store", x, <<>>, <<Ref(x.args[1])>>, NoRef)>>)
       ELSE Visit(<<>>, <<>>)

\* The address is converted to an integer.
Load ==
    /\ Visits("load")
    /\ IF x.ty \in FP
       THEN Visit(<<>>, <<Helper, Hook("load", x, <<>>, <<>>, Ref(x.id))>>)
       ELSE Visit(<<>>, <<>>)

\* memcpy and memmove: two addresses; MPI_Allreduce, MPI_Reduce and MPI_Bcast
\* also extend and scale a count.
Copy == Visits("copy") /\ Visit(<<>>, <<Helper, Helper, Hook("copy", x, <<>>, <<>>, NoRef)>>)
MPICall ==
    /\ Visits("mpi")
    /\ Visit(<<>>, <<Helper, Helper, Helper, Helper, Hook("copy", x, <<>>, <<>>, NoRef)>>)

\* A call of a function that is no intrinsic, no runtime function and no math
\* function: its arguments are pushed in order, its result is popped.
FPArgs == LET found == Ordered({k \in DOMAIN x.args : TypeOf(x.args[k]) \in FP})
          IN  [n \in DOMAIN found |-> x.args[found[n]]]
Call ==
    /\ Visits("call")
    /\ Visit([i \in DOMAIN FPArgs |-> Hook("push_arg", x, <<>>, <<Ref(FPArgs[i])>>, NoRef)],
             IF x.ty \in FP THEN <<Hook("pop_ret", x, <<>>, <<>>, Ref(x.id))>> ELSE <<>>)

\* A math function of type float whose line is known.
Math ==
    /\ Visits("math")
    /\ IF x.ty = "f32" /\ LineOf(px) # 0
       THEN Visit(<<>>, <<Hook("math", x, <<x.id>> \o x.args,
                               [k \in DOMAIN x.args |-> Ref(x.args[k])], Ref(x.id))>>)
       ELSE Visit(<<>>, <<>>)

\* The hook of an operation or a select.  Of a value that one select uses, and
\* nothing else, it goes behind that select and takes its condition.
OpHook == [Hook("op", x, <<x.id>> \o x.args, [k \in DOMAIN x.args |-> Ref(x.args[k])],
                Ref(x.id))
              EXCEPT !.cond = IF SelectedBasedOnCondition(x.id) THEN SelectOf(x.id).args[1]
                              ELSE IF x.op = "select" THEN x.args[1] ELSE Literal,
                     !.neg = SelectedBasedOnCondition(x.id) /\ Inverted(x.id)]
\* BehindItself is a faulty variant: it stays behind the operation.
BehindItself == px
Behind == IF SelectedBasedOnCondition(x.id) THEN Place(SelectOf(x.id).id) ELSE px
Arith ==
    /\ Visits("arith") \/ Visits("select")
    /\ code' = IF x.ty = "f32" /\ LineOf(px) # 0
               THEN Spliced(Behind, <<>>, <<[OpHook EXCEPT !.bb = code[Behind].bb]>>)
               ELSE code
    /\ todo' = Tail(todo) /\ UNCHANGED phase

Ret ==
    /\ Visits("ret")
    /\ IF x.args # <<>> /\ TypeOf(x.args[1]) \in FP
       THEN Visit(<<Hook("push_ret", x, <<>>, <<Ref(x.args[1])>>, NoRef)>>, <<>>)
       ELSE Visit(<<>>, <<>>)

\* In front of the first instruction behind the PHI that is no PHI.
FirstNonPhi(p) == CHOOSE q \in p..Len(code) :
                     code[q].op # "phi" /\ \A r \in p..(q - 1) : code[r].op = "phi"
PhiVisit ==
    /\ code' = Spliced(FirstNonPhi(px),
                  <<Hook("phi", x, <<>>, [k \in DOMAIN x.args |-> Ref(x.args[k])], Ref(x.id))>>,
                  <<>>)
    /\ todo' = Tail(todo) /\ UNCHANGED phase

\* OtherAndPhi is a faulty variant: PHI nodes have their turn in the walk.
OtherAndPhi ==
    \/ \E op \in {"br", "resume", "cast", "cmp", "fcmp", "invoke"} :
           Visits(op) /\ Visit(<<>>, <<>>)
    \/ Visits("phi") /\ PhiVisit

\* Everything else: PHI nodes and branches, whose turn comes later, casts,
\* comparisons, invokes, intrinsics.
Other ==
    /\ \E op \in {"phi", "br", "resume", "cast", "cmp", "fcmp", "invoke"} : Visits(op)
    /\ Visit(<<>>, <<>>)

-----------------------------------------------------------------------------
(* PHI nodes have a loop of their own, and so have branches.               *)

IsPhi(i) == i.op = "phi" /\ i.ty \in FP
StartPhis == /\ phase = "walk" /\ todo = <<>>
             /\ todo' = Ids(IsPhi) /\ phase' = "phis" /\ UNCHANGED code

Phi == phase = "phis" /\ todo # <<>> /\ PhiVisit

StartBranches == /\ phase = "phis" /\ todo = <<>>
                 /\ todo' = Ids(LAMBDA i : i.op = "br") /\ phase' = "branches"
                 /\ UNCHANGED code

Branch == /\ phase = "branches" /\ todo # <<>>
          /\ code' = Spliced(px, <<Hook("branch", x, <<>>, <<>>, NoRef)>>, <<>>)
          /\ todo' = Tail(todo) /\ UNCHANGED phase

\* Main is handled once its own hooks are in place: the runtime is started by
\* its first instruction, the report is written in front of every return.
Leaves(i) == i.op \in {"ret", "resume"}
StartMain == /\ phase = "branches" /\ todo = <<>>
             /\ code' = IF InMain THEN Spliced(1, <<Hook("init", code[1], <<>>, <<>>, NoRef)>>, <<>>)
                                  ELSE code
             /\ todo' = IF InMain THEN Ids(Leaves) ELSE <<>>
             /\ phase' = IF todo' = <<>> THEN "done" ELSE "main"

WriteReport == /\ phase = "main" /\ todo # <<>>
         /\ code' = Spliced(px, <<Hook("print", x, <<>>, <<>>, NoRef)>>, <<>>)
         /\ todo' = Tail(todo)
         /\ phase' = IF Len(todo) = 1 THEN "done" ELSE phase

HNext == \/ PopParams
         \/ Store \/ Load \/ Copy \/ MPICall \/ Call \/ Math \/ Arith \/ Ret \/ Other
         \/ StartPhis \/ Phi \/ StartBranches \/ Branch \/ StartMain \/ WriteReport

HSpec == HInit /\ [][HNext]_ir
-----------------------------------------------------------------------------
(* Properties.                                                             *)

Hooks == {p \in DOMAIN code : code[p].op = "hook"}
RefsOf(p) == ({code[p].reads[k] : k \in DOMAIN code[p].reads} \cup {code[p].writes}) \ {NoRef}
HooksOf(v) == {p \in Hooks : code[p].writes.val = v}

\* A hook that reads the error of a register runs after the hook that records
\* it (the PHI hooks read what the previous block left).
ReadsInOrder(p, v) == v # Literal => \A q \in HooksOf(v) : q < p
AllRecordsFirst ==
    phase = "done" => \A p \in Hooks : code[p].hook # "phi" =>
        \A k \in DOMAIN code[p].reads : ReadsInOrder(p, code[p].reads[k].val)

\* So it is for every register but those that only a select uses.
RecordsFirst ==
    phase = "done" => \A p \in Hooks : code[p].hook # "phi" =>
        \A k \in DOMAIN code[p].reads :
            ~Alternative(code[p].reads[k].val) => ReadsInOrder(p, code[p].reads[k].val)

\* All hooks agree on the name of a register, and no two registers share one,
\* although every inserted helper renames what comes after it.
NamesAgree == \A p, q \in Hooks : \A r \in RefsOf(p), s \in RefsOf(q) :
                  r.val = s.val <=> r.num = s.num

\* What a hook computes with has been computed by then: the instrumented
\* function is valid.
UsesDefined == \A p \in Hooks : \A k \in DOMAIN code[p].args :
                   Place(code[p].args[k]) < p /\ Place(code[p].cond) < p
=============================================================================
