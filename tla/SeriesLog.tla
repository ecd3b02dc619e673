----------------------------- MODULE SeriesLog -----------------------------
(***************************************************************************)
(* What the per-line error series promise: for every source line the user  *)
(* asked for, the relative errors recorded on it, oldest first.  At most   *)
(* Room lines get a series.                                                *)
(***************************************************************************)
EXTENDS Naturals, Sequences, FiniteSets

CONSTANTS Line, Keep, Val, Room

VARIABLE log

Used == {l \in Line : log[l] # <<>>}

Init == log = [l \in Line |-> <<>>]

Record(l, v) ==
    /\ l \in Keep /\ (l \in Used \/ Cardinality(Used) < Room)
    /\ log' = [log EXCEPT ![l] = Append(@, v)]

Next == \E l \in Line, v \in Val : Record(l, v)

Spec == Init /\ [][Next]_log
=============================================================================
