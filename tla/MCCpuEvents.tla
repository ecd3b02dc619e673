---------------------------- MODULE MCCpuEvents ----------------------------
(***************************************************************************)
(* A small instance of CpuEvents: the main thread and another, three       *)
(* locations of which two share a bin, and two events of which one traps.  *)
(***************************************************************************)
EXTENDS CpuEvents

CONSTANTS t0, t1

MCBinOf == [l \in Loc |-> IF l = "c" THEN 1 ELSE 0]
=============================================================================
