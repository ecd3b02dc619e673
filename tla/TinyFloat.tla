----------------------------- MODULE TinyFloat -----------------------------
(***************************************************************************)
(* Binary floating point with few bits, as the hardware computes it: what  *)
(* the checks of Runtime_cpu.h are given.  A float is a sign and the bits  *)
(* of its exponent and mantissa, read as one number, which orders the      *)
(* magnitudes; a format has its own number of exponents.                   *)
(***************************************************************************)
EXTENDS Integers

CONSTANTS
    Mantissa,   \* bits of the mantissa: 23 and 52
    Special     \* [format -> exponent of infinity and NaN]: 255 and 2047

ASSUME TinyFloatAssumption ==
    /\ Mantissa \in Nat \ {0}
    /\ \A f \in DOMAIN Special : Special[f] \in Nat /\ Special[f] >= 3

Pow2[n \in Nat] == IF n = 0 THEN 1 ELSE 2 * Pow2[n - 1]

Format == DOMAIN Special
One == Pow2[Mantissa]
Infinite(f) == Special[f] * One
NaN(f) == [bits |-> Infinite(f) + 1, neg |-> FALSE]
Inf(f, neg) == [bits |-> Infinite(f), neg |-> neg]
PosZero == [bits |-> 0, neg |-> FALSE]
\* Every float of a format, with one NaN for all.
Floats(f) == [bits : 0..Infinite(f), neg : BOOLEAN] \cup {NaN(f)}

isnan(f, x) == x.bits > Infinite(f)
isinf(f, x) == x.bits = Infinite(f)
isfinite(f, x) == x.bits < Infinite(f)
IsZero(x) == x.bits = 0
Positive(f, x) == ~x.neg /\ ~IsZero(x) /\ ~isnan(f, x)      \* x > 0
Negative(f, x) == x.neg /\ ~IsZero(x) /\ ~isnan(f, x)       \* x < 0

\* The magnitude of finite bits, as a multiple of the least positive number.
Mag(bits) == IF bits < One THEN bits ELSE (One + (bits % One)) * Pow2[bits \div One - 1]
Value(x) == IF x.neg THEN -Mag(x.bits) ELSE Mag(x.bits)

\* The bits of the float nearest to a quotient, ties to the even one; what is
\* nearer to the power of two behind the largest float is infinite.
Nearest(f, num, den) ==
    LET below == CHOOSE b \in 0..Infinite(f) :
                     /\ Mag(b) * den <= num
                     /\ b < Infinite(f) => num < Mag(b + 1) * den
        over == 2 * (num - Mag(below) * den)
        gap == (Mag(below + 1) - Mag(below)) * den
    IN  IF below = Infinite(f) \/ over < gap \/ (over = gap /\ below % 2 = 0)
        THEN below ELSE below + 1

\* A number's least positive number is 2^-Scale.
Scale(f) == Special[f] \div 2 + Mantissa - 1

\* The result of an operation on finite operands before rounding, as a
\* numerator and a positive denominator.
Exact(f, op, y, z) ==
    CASE op = "add" -> <<Value(y) + Value(z), 1>>
      [] op = "sub" -> <<Value(y) - Value(z), 1>>
      [] op = "mul" -> <<Value(y) * Value(z), Pow2[Scale(f)]>>
      [] op = "div" -> <<(IF z.neg THEN -Value(y) ELSE Value(y)) * Pow2[Scale(f)], Mag(z.bits)>>

Rounded(f, q) ==
    [bits |-> Nearest(f, IF q[1] < 0 THEN -q[1] ELSE q[1], q[2]), neg |-> q[1] < 0]

Flip(x) == [x EXCEPT !.neg = ~@]

\* The rounded result, with the rules for zeros, infinities and NaN.
Result(f, op, y, z) ==
    IF isnan(f, y) \/ isnan(f, z) THEN NaN(f)
    ELSE LET w == IF op = "sub" THEN Flip(z) ELSE z
             neg == y.neg # z.neg
         IN  CASE op \in {"add", "sub"} ->
                    IF isinf(f, y) THEN IF isinf(f, w) /\ y.neg # w.neg THEN NaN(f) ELSE y
                    ELSE IF isinf(f, w) THEN w ELSE Rounded(f, Exact(f, op, y, z))
               [] op = "mul" ->
                    IF isinf(f, y) \/ isinf(f, z)
                    THEN IF IsZero(y) \/ IsZero(z) THEN NaN(f) ELSE Inf(f, neg)
                    ELSE Rounded(f, Exact(f, op, y, z))
               [] op = "div" ->
                    IF isinf(f, y) THEN IF isinf(f, z) THEN NaN(f) ELSE Inf(f, neg)
                    ELSE IF isinf(f, z) THEN PosZero
                    ELSE IF IsZero(z) THEN IF IsZero(y) THEN NaN(f) ELSE Inf(f, neg)
                    ELSE Rounded(f, Exact(f, op, y, z))
=============================================================================
