---------------------------- MODULE MCPlacement ----------------------------
(***************************************************************************)
(* Both passes on every function of a small family: a condition, three     *)
(* instructions of any kind whose operands are parameters or earlier       *)
(* results, and a return; and a loop with a PHI node.  The first           *)
(* instructions may lack a debug location.                                 *)
(***************************************************************************)
EXTENDS HookPlacement, CheckPlacement

CONSTANTS
    Features    \* "late": no location near the first instruction;
                \* "header": instructions of two files

\* An instruction: its line is its number, unless it has no location.
Fl(id, s) == IF s = 0 THEN "" ELSE IF "header" \in Features /\ id = 12 THEN "a.h" ELSE "a.c"
I(id, bb, op, ty, args, known) ==
    Inst(id, bb, op, ty, args, IF known THEN id ELSE 0, Fl(id, IF known THEN 1 ELSE 0))

\* The instruction with number id of a kind, whose operands are the value v,
\* the latest float and the latest condition.
Make(kind, id, bb, v, last, c, known) ==
    CASE kind = "store" -> I(id, bb, kind, "void", <<v, 0>>, known)
      [] kind = "store literal" -> I(id, bb, "store", "void", <<0, 0>>, known)
      [] kind = "copy" -> I(id, bb, kind, "void", <<0, 0>>, known)
      [] kind = "mpi" -> I(id, bb, kind, "other", <<0, 0>>, known)
      [] kind = "load" -> I(id, bb, kind, "f32", <<0>>, known)
      [] kind = "load double" -> I(id, bb, "load", "f64", <<0>>, known)
      [] kind \in {"call", "math", "cast"} -> I(id, bb, kind, "f32", <<last>>, known)
      [] kind = "invoke" -> I(id, bb, kind, "void", <<last>>, known)
      [] kind = "cmp" -> I(id, bb, kind, "other", <<v, 1>>, known)
      [] kind = "arith" -> I(id, bb, kind, "f32", <<v, last>>, known)
      [] kind = "select" -> I(id, bb, kind, "f32", <<c, v, last>>, known)

Common == {"store", "copy", "load", "call", "arith", "select"}
Rare == {"store literal", "load double", "mpi", "invoke", "math", "cast", "cmp"}

Float(i) == i.ty = "f32"
Latest(i, v) == IF Float(i) THEN i.id ELSE v
LatestCond(i, v) == IF i.op = "cmp" THEN i.id ELSE v

MCParam == <<1, 2>>

\* Three instructions in a row, of which the first two may not know where they
\* are; each may use the results before it.
Straight ==
    {LET a == Make(ka, 11, 1, 1, 2, 10, unknown = 0)
         b == Make(kb, 12, 1, IF vb = 11 /\ Float(a) THEN vb ELSE 1, Latest(a, 2), LatestCond(a, 10), unknown < 2)
         d == Make(kd, 13, 1, IF (vd = 11 /\ Float(a)) \/ (vd = 12 /\ Float(b)) THEN vd ELSE 1,
                   Latest(b, Latest(a, 2)), LatestCond(b, LatestCond(a, 10)), TRUE)
     IN  <<I(10, 1, "fcmp", "other", <<1, 2>>, unknown = 0), a, b, d,
           I(19, 1, "ret", "void", <<Latest(d, 0)>>, TRUE)>> :
        ka \in Common \cup Rare, kb \in Common \cup Rare, kd \in Common,
        vb \in {1, 11}, vd \in {1, 11, 12}, unknown \in 0..2}

\* A loop over block 2, whose PHI takes 11 first and then 14.
Loop ==
    {LET a == Make(ka, 13, 2, va, 12, 10, TRUE)
         b == Make(kb, 14, 2, IF vb = 13 /\ Float(a) THEN vb ELSE 12, Latest(a, 12), LatestCond(a, 10), TRUE)
     IN  <<I(10, 1, "cmp", "other", <<1, 2>>, TRUE), I(11, 1, "load", "f32", <<0>>, TRUE),
           I(18, 1, "br", "void", <<>>, TRUE),
           I(12, 2, "phi", "f32", <<11, 14>>, TRUE), a, b,
           I(20, 2, "br", "void", <<10>>, TRUE),
           I(19, 3, "ret", "void", <<14>>, TRUE)>> :
        ka \in Common \cup Rare, kb \in {"load", "call", "arith", "select"},
        va \in {1, 12}, vb \in {12, 13}}

MCProgram == Straight \cup Loop

ASSUME MCPlacementAssumption == InLayoutOrder

MCInit == \/ HInit /\ fileName = "" /\ ("late" \in Features \/ FileOf(1) # "")
          \/ CInit
Finished == phase \in {"done", "checked"} /\ UNCHANGED <<ir, fileName>>
MCNext == (HNext /\ UNCHANGED fileName) \/ CNext \/ Finished

MCSpec == MCInit /\ [][MCNext]_<<ir, fileName>>
=============================================================================
