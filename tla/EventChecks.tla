---------------------------- MODULE EventChecks ----------------------------
(***************************************************************************)
(* How a check of the exception runtime classifies a result, and whether   *)
(* it saves an item: the _FPC_FP32_ and _FPC_FP64_ functions of            *)
(* Runtime_cpu.h, which differ in their widths only.                       *)
(***************************************************************************)
EXTENDS TinyFloat

CONSTANTS
    Percent,    \* DANGER_ZONE_PERCENTAGE, as a percentage
    Threshold   \* cancelled bits a cancellation exceeds: 30

ASSUME EventChecksAssumption == Percent \in 0..100 /\ Threshold \in Nat

VARIABLES
    fast,       \* compiled with FPC_FAST_CHECKING
    usage,      \* FPC_EXPONENT_USAGE is set
    call,       \* the arguments of the check
    saved       \* what it saves in the table

NoCall == [op |-> "none"]
NotSaved == [events |-> {"not saved"}]

GetExponent(x) == x.bits \div One
GetMantissa(x) == x.bits % One

IsInf(f, x) == GetExponent(x) = Special[f] /\ GetMantissa(x) = 0
IsInfinityPos(f, x) == IsInf(f, x) /\ Positive(f, x)
IsInfinityNeg(f, x) == IsInf(f, x) /\ Negative(f, x)
IsNaN(f, x) == isnan(f, x)
IsDivisionZero(op, y, z) == op = "div" /\ ~IsZero(y) /\ IsZero(z)
FPCMax(a, b) == IF a > b THEN a ELSE b
IsCancellation(op, x, y, z) ==
    /\ op \in {"add", "sub"}
    /\ FPCMax(GetExponent(y), GetExponent(z)) - GetExponent(x) > Threshold
IsComparison(op) == op = "cmp"
IsSubnormal(x) == ~IsZero(x) /\ GetExponent(x) = 0

\* The exponents in danger at either end; the product is cut off, not rounded.
Danger(f) == (Percent * (Special[f] + 1)) \div 100
IsLatentInfinity(f, x) == ~IsZero(x) /\ GetExponent(x) >= Special[f] + 1 - Danger(f)
IsLatentInfinityPos(f, x) == IsLatentInfinity(f, x) /\ Positive(f, x)
IsLatentInfinityNeg(f, x) == IsLatentInfinity(f, x) /\ Negative(f, x)
IsLatentSubnormal(f, x) == ~IsZero(x) /\ GetExponent(x) <= Danger(f)

Kind == {"infinity_pos", "infinity_neg", "nan", "division_zero", "cancellation", "comparison",
         "underflow", "latent_infinity_pos", "latent_infinity_neg", "latent_underflow"}

Occurs(kind, f, op, x, y, z) ==
    \/ kind = "infinity_pos" /\ IsInfinityPos(f, x)
    \/ kind = "infinity_neg" /\ IsInfinityNeg(f, x)
    \/ kind = "nan" /\ IsNaN(f, x)
    \/ kind = "division_zero" /\ IsDivisionZero(op, y, z)
    \/ kind = "cancellation" /\ IsCancellation(op, x, y, z)
    \/ kind = "comparison" /\ IsComparison(op)
    \/ kind = "underflow" /\ IsSubnormal(x)
    \/ kind = "latent_infinity_pos" /\ IsLatentInfinityPos(f, x)
    \/ kind = "latent_infinity_neg" /\ IsLatentInfinityNeg(f, x)
    \/ kind = "latent_underflow" /\ IsLatentSubnormal(f, x)

\* EndsEarlyByExponent is a faulty variant: it looks for the special exponent only.
EndsEarlyByExponent(f, x) == fast /\ GetExponent(x) # Special[f]

\* With fast checking a check ends early unless the result's bits are those of
\* an infinity, a NaN or a subnormal number.
EndsEarly(f, x) ==
    fast /\ GetExponent(x) # Special[f] /\ (GetExponent(x) # 0 \/ IsZero(x))

\* An item is saved if an event occurred, or always if exponents are counted.
CheckResult(f, op, x, y, z, cond) ==
    LET events == {kind \in Kind : Occurs(kind, f, op, x, y, z)}
        saves == cond /\ ~EndsEarly(f, x) /\ (usage \/ events # {})
    IN  /\ call' = [f |-> f, op |-> op, x |-> x, y |-> y, z |-> z, cond |-> cond]
        /\ saved' = IF ~saves THEN NotSaved
                   ELSE IF usage THEN [events |-> events, exponent |-> GetExponent(x)]
                   ELSE [events |-> events]
        /\ UNCHANGED <<fast, usage>>

EInit == fast \in BOOLEAN /\ usage \in BOOLEAN /\ call = NoCall /\ saved = NotSaved

\* The program's operations: arithmetic gives its rounded result; a comparison
\* is checked with the result 0; a remainder or a multiply-add may give any.
CheckArithmetic ==
    /\ call = NoCall
    /\ \E f \in Format, op \in {"add", "sub", "mul", "div"} : \E y \in Floats(f), z \in Floats(f) :
           CheckResult(f, op, Result(f, op, y, z), y, z, TRUE)
CheckOther ==
    /\ call = NoCall
    /\ \E f \in Format, cond \in BOOLEAN : \E x \in Floats(f) :
           \/ CheckResult(f, "cmp", PosZero, x, x, cond)
           \/ \E op \in {"rem", "fma"} : CheckResult(f, op, x, PosZero, PosZero, cond)

\* A behaviour is one check.
ENext == CheckArithmetic \/ CheckOther
ESpec == EInit /\ [][ENext]_<<fast, usage, call, saved>>
-----------------------------------------------------------------------------
(* What the events are, by the values they are about.                      *)

AbsVal(x) == Mag(x.bits)
Largest(f) == Mag(Infinite(f) - 1)
BehindLargest(f) == Mag(Infinite(f))

\* An infinity is what rounds beyond the largest number, an underflow what
\* rounds below the least normal one, by the exact result q of finite operands.
Overflows(f, q) == 2 * q[1] >= (Largest(f) + BehindLargest(f)) * q[2]
Underflows(q) == 2 * q[1] > q[2] /\ 2 * q[1] < (2 * One - 1) * q[2]
TrueOf(kind, f, q) ==
    \/ kind = "infinity_pos" /\ Overflows(f, q)
    \/ kind = "infinity_neg" /\ Overflows(f, <<-q[1], q[2]>>)
    \/ kind = "underflow" /\ (Underflows(q) \/ Underflows(<<-q[1], q[2]>>))

\* A check counts infinities, NaN and underflows exactly if the operation has
\* one by its exact result, with fast checking too; results near either end if
\* they are within the danger zone; cancellations only if, and with operands
\* above the threshold always if, the result has lost more than Threshold bits
\* against the larger operand.  A check whose condition fails counts nothing,
\* and only an event saves an item, unless exponents are counted, once each.
\* (Runtime_cpu.h 84-376, 588-718)
EventsAreTrue ==
    call # NoCall =>
    LET f == call.f  x == call.x  y == call.y  z == call.z
        counted == saved.events \ {"not saved"}
        finite == call.op \in {"add", "sub", "mul", "div"} /\ isfinite(f, y) /\ isfinite(f, z)
        byZero == call.op = "div" /\ IsZero(z)
        big == FPCMax(AbsVal(y), AbsVal(z))
    IN  /\ ~call.cond => saved = NotSaved
        /\ ~usage => (saved = NotSaved <=> counted = {})
        /\ call.cond /\ usage /\ ~fast => saved.exponent = GetExponent(x)
        /\ call.cond => /\ "nan" \in counted <=> isnan(f, x)
                        /\ {"infinity_pos", "infinity_neg"} \cap counted # {} <=> isinf(f, x)
        /\ finite /\ byZero => counted \cap {"nan", "division_zero"} =
                                   IF IsZero(y) THEN {"nan"} ELSE {"division_zero"}
        /\ finite /\ ~byZero =>
               \A kind \in {"infinity_pos", "infinity_neg", "underflow"} :
                   kind \in counted <=> TrueOf(kind, f, Exact(f, call.op, y, z))
        /\ call.cond /\ ~fast /\ ~isnan(f, x) =>
               /\ "latent_underflow" \in counted <=> AbsVal(x) \in 1..(One * Pow2[Danger(f)] - 1)
               /\ counted \cap {"latent_infinity_pos", "latent_infinity_neg"} # {}
                      <=> /\ ~IsZero(x)
                          /\ \/ Danger(f) > Special[f]
                             \/ AbsVal(x) * Pow2[Danger(f)] >= 2 * BehindLargest(f)
        /\ finite /\ call.op \in {"add", "sub"} /\ isfinite(f, x) =>
               /\ "cancellation" \in counted => big > Pow2[Threshold] * AbsVal(x)
               /\ ~fast /\ big >= Pow2[Threshold + 1] * AbsVal(x) /\ big >= One * Pow2[Threshold] =>
                      "cancellation" \in counted
=============================================================================
