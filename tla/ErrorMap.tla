------------------------------ MODULE ErrorMap ------------------------------
(***************************************************************************)
(* What the two error tables of the error-tracking runtime promise: a map  *)
(* from memory addresses and a map from registers to the last error that   *)
(* was recorded for them, each record stamped by one clock that both maps  *)
(* share.  Nothing is ever removed, and recording one key disturbs no      *)
(* other key.  ErrorTables (chained hash tables filled through a string    *)
(* cache) is shown to implement this module.                               *)
(***************************************************************************)
EXTENDS Naturals

CONSTANTS
    Addr,       \* byte addresses
    RegKey,     \* registers: pairs of register name and function name
    Err,        \* (error, relative error) values
    FileText,   \* the file names the hooks are given
    Line,       \* source lines
    Absent      \* no record for this key

VARIABLES amap, rmap, now

mapVars == <<amap, rmap, now>>

Init == /\ amap = [a \in Addr |-> Absent]
        /\ rmap = [k \in RegKey |-> Absent]
        /\ now = 0

Stamped(e, f, l) == [err |-> e, clock |-> now + 1, file |-> f, line |-> l]

RecordAddress(a, e, f, l) ==
    /\ amap' = [amap EXCEPT ![a] = Stamped(e, f, l)]
    /\ now' = now + 1
    /\ UNCHANGED rmap

RecordRegister(k, e, f, l) ==
    /\ rmap' = [rmap EXCEPT ![k] = Stamped(e, f, l)]
    /\ now' = now + 1
    /\ UNCHANGED amap

Next == \E e \in Err, f \in FileText, l \in Line :
            \/ \E a \in Addr : RecordAddress(a, e, f, l)
            \/ \E k \in RegKey : RecordRegister(k, e, f, l)

Spec == Init /\ [][Next]_mapVars
=============================================================================
