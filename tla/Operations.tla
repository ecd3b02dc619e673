----------------------------- MODULE Operations -----------------------------
(***************************************************************************)
(* The operations of a program that get a hook, and what the hook makes of *)
(* them.  The pass (Instrumentation_error.cpp) hands an arithmetic         *)
(* instruction over as a code and a math function by its name; the hook    *)
(* (Runtime_error.h) finds the operation again and applies it to FP64      *)
(* operands.  The two lists of codes and the three of names are kept apart *)
(* in the code, and must agree.                                            *)
(*                                                                         *)
(* Operations have up to three operands; those they lack are 0.            *)
(***************************************************************************)
EXTENDS Integers

CONSTANTS
    Exact(_, _)     \* Exact(op, <<y, z, w>>): the operation in FP64

\* isFPOperationWithError, with isFMAOperation; FNeg has a hook as well.
\* A select has one, too: see RedoneSelect.
Arithmetic == {"FMul", "FDiv", "FAdd", "FSub", "FRem"} \cup {"FMA"} \cup {"FNeg"}
OperationType(op) ==
    CASE op = "FAdd" -> 0 [] op = "FSub" -> 1 [] op = "FMul" -> 2 [] op = "FDiv" -> 3
      [] op = "FRem" -> 5 [] op = "FMA" -> 6 [] op = "FNeg" -> 7

\* isSupportedMathCall: names of intrinsics, and of functions of math.h with or
\* without the f of the FP32 version.
Intrinsic == {"sin", "cos", "tan", "asin", "acos", "atan", "sinh", "cosh", "tanh", "exp", "exp2",
              "log", "log2", "log10", "sqrt", "fabs", "pow", "ceil", "floor", "trunc", "round",
              "nearbyint", "rint"}
LibmTable == {"sin", "cos", "tan", "asin", "acos", "atan", "atan2", "sinh", "cosh", "tanh",
              "asinh", "acosh", "atanh", "exp", "exp2", "expm1", "log", "log2", "log10", "log1p",
              "logb", "sqrt", "cbrt", "pow", "hypot", "fabs", "ceil", "floor", "trunc", "round",
              "nearbyint", "rint", "fmod", "remainder"}
IsSupportedMathCall(call) == call.name \in IF call.libm THEN LibmTable ELSE Intrinsic

\* How many operands they have.
Arity(op) == IF op \in {"FNeg"} THEN 1
             ELSE IF op \in {"FMA", "fma"} THEN 3
             ELSE IF op \in Arithmetic \cup {"pow", "atan2", "hypot", "fmod", "remainder"} THEN 2
             ELSE 1

-----------------------------------------------------------------------------
\* _FPC_FP32_CALCULATE_ERROR_: the operation of a code; a division by zero is 0.
Redone(code, high) ==
    CASE code = 0 -> Exact("FAdd", high) [] code = 1 -> Exact("FSub", high)
      [] code = 2 -> Exact("FMul", high) [] code = 3 /\ high[2] # 0 -> Exact("FDiv", high)
      [] code = 5 -> Exact("FRem", high) [] code = 6 -> Exact("FMA", high)
      [] code = 7 -> Exact("FNeg", high) [] OTHER -> 0

\* The same of a select, by the condition the hook is given.
RedoneSelect(cond, high) == IF cond THEN high[2] ELSE high[3]

\* _FPC_FP32_MATH_ERROR_: a name it does not know is taken as exact.
Unary == {"sin", "cos", "tan", "asin", "acos", "atan", "sinh", "cosh", "tanh", "asinh", "acosh",
          "atanh", "exp", "exp2", "expm1", "log", "log2", "log10", "log1p", "logb", "sqrt",
          "cbrt", "fabs", "ceil", "floor", "trunc", "round", "nearbyint", "rint"}
Binary == {"pow", "atan2", "hypot", "fmod", "remainder"}
Ternary == {"fma"}
RedoneMath(name, high, low) == IF name \in Unary \cup Binary \cup Ternary THEN Exact(name, high) ELSE low
=============================================================================
