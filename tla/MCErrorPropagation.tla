------------------------- MODULE MCErrorPropagation -------------------------
(***************************************************************************)
(* A small instance of ErrorPropagation: main and f have hooks, lib has    *)
(* not; one parameter, one local register.  Operations in FP64 are sums    *)
(* modulo 3, that of FAdd with a carry-in, and FP32 keeps even numbers,    *)
(* so that results have errors and errors both cancel and accumulate.      *)
(***************************************************************************)
EXTENDS ErrorPropagation

MCParams == [f \in Fn \cup Opaque |-> IF f = Main THEN <<>> ELSE <<"p">>]
\* Here main works on x only.
MCParamsAll == [f \in Fn \cup Opaque |-> <<"p">>]

MCMath == {[libm |-> TRUE, name |-> "fabs"]}
Carry(op) == IF op = "FAdd" THEN 1 ELSE 0
MCExact(op, n) == (n[1] + n[2] + n[3] + Carry(op)) % 3
MCRound(a) == 2 * (a \div 2)

\* The same with one bit: FP32 keeps only 0.
MCExactBit(op, n) == (n[1] + n[2] + n[3] + Carry(op)) % 2
MCRoundBit(a) == 0
=============================================================================
