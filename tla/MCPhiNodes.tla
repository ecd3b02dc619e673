----------------------------- MODULE MCPhiNodes -----------------------------
(***************************************************************************)
(* Small functions for PhiNodes: a loop "entry -> head -> body -> head"    *)
(* with an exit, whose head has two PHI nodes, a ("the sum") and b ("its   *)
(* previous value"), and whose body assigns n.                             *)
(***************************************************************************)
EXTENDS PhiNodes

MCSucc == [b \in Block |-> CASE b = "entry" -> {"head"} [] b = "head" -> {"body", "exit"}
                             [] b = "body" -> {"head"} [] b = "exit" -> {}]
MCDefs == [b \in Block |-> IF b = "body" THEN {"n"} ELSE {}]

\* a = phi [literal, entry], [n, body];  b = phi [literal, entry], [a, body]
MCPhis == [b \in Block |-> IF b = "head" THEN <<"a", "b">> ELSE <<>>]
\* The same two in the other order.
MCPhisSwapped == [b \in Block |-> IF b = "head" THEN <<"b", "a">> ELSE <<>>]
MCIncoming == [r \in Reg |-> [b \in Block |->
                  IF b # "body" THEN Literal ELSE IF r = "b" THEN "a" ELSE "n"]]

MCWhole == [r \in Reg |-> {"entry", "body"}]
\* The string of b is cut before its second part.
MCCut == [r \in Reg |-> IF r = "b" THEN {"entry"} ELSE {"entry", "body"}]
=============================================================================
