------------------------------ MODULE CpuEvents ------------------------------
(***************************************************************************)
(* The exception checks of a program with threads (Runtime_cpu.h) and the  *)
(* table of event counts they share (FPC_Hashtable.h): one entry per       *)
(* source location, in bins that are linked lists.  A check classifies the *)
(* result of an operation; if an event occurred it takes the lock (when    *)
(* the runtime was compiled with FPC_MULTI_THREADED), walks the bin, adds  *)
(* to the entry field by field or appends one, gives the lock back and     *)
(* traps if the user asked for it.  The main thread creates the table when *)
(* main begins and writes the report, without the lock, when it returns.   *)
(*                                                                         *)
(* A step is one access to shared memory.  A location is the pair of a     *)
(* file-name pointer and a line.  Exponent histograms, which are added in  *)
(* the same loop, are left out, and the table's item count, which nothing  *)
(* reads.                                                                  *)
(***************************************************************************)
EXTENDS Naturals, FiniteSets, FiniteSetsExt

CONSTANTS
    Thread, Main,   \* threads; the one that runs main
    Loc,            \* locations
    Size,           \* number of bins
    BinOf,          \* bin of a location
    Event,          \* events a check can report
    TrapOn, TrapAt, \* events and locations the user traps on
    Profile,        \* FPC_EXPONENT_USAGE is set: checks without events count
    Guarded,        \* compiled with FPC_MULTI_THREADED
    Nil,
    MaxChecks       \* bound: checks that report an event

Bin == 0..(Size - 1)
Node == 1..MaxChecks    \* an entry each, at most

ASSUME EventsAssumption ==
    /\ IsFiniteSet(Thread) /\ Main \in Thread /\ Event # {}
    /\ Nil \notin Thread \cup Loc \cup Nat /\ Size \in Nat \ {0}
    /\ BinOf \in [Loc -> Bin]
    /\ TrapOn \subseteq Event /\ TrapAt \subseteq Loc
    /\ {Guarded, Profile} \subseteq BOOLEAN /\ MaxChecks \in Nat

VARIABLES
    phase,      \* what the main thread does: see Phase
    created,    \* _FPC_HTABLE_ is not NULL
    lock,       \* owner of fpc_lock
    head,       \* first entry of each bin
    loc, cnt, next,     \* fields of an entry
    used,       \* entries allocated
    pc,         \* where each thread is in a check
    item,       \* the check's location, its events, the counts not yet updated
    at, last,   \* next and last of _FPC_HT_SET_
    val,        \* a count read and not yet written back
    checks,     \* checks begun
    made,       \* history: events of checks that found the table
    scan, rows, \* the report: what is read next, what has been written
    atReturn    \* history: counts of the entries listed when main returned

table == <<head, loc, cnt, next, used>>
cursor == <<at, last, val>>
report == <<scan, rows, atReturn>>
vars == <<phase, created, lock, table, pc, item, cursor, checks, made, report>>

Phase == {"initializers", "main", "printing", "exiting", "ended", "aborted"}
PC == {"idle", "lock", "walk", "link", "read", "write", "unlock", "trap"}
Zero == [e \in Event |-> 0]
NoItem == [loc |-> Nil, ev |-> {}, todo |-> {}]

-----------------------------------------------------------------------------
Init == /\ phase = "initializers" /\ created = FALSE
        /\ lock = Nil
        /\ head = [b \in Bin |-> Nil]
        /\ loc = [n \in Node |-> Nil] /\ cnt = [n \in Node |-> Zero]
        /\ next = [n \in Node |-> Nil] /\ used = 0
        /\ pc = [t \in Thread |-> "idle"] /\ item = [t \in Thread |-> NoItem]
        /\ at = [t \in Thread |-> Nil] /\ last = [t \in Thread |-> Nil]
        /\ val = [t \in Thread |-> 0]
        /\ checks = 0 /\ made = [l \in Loc |-> Zero]
        /\ scan = [bin |-> 0, at |-> Nil] /\ rows = {}
        /\ atReturn = [n \in Node |-> Zero]

Goto(t, place) == pc' = [pc EXCEPT ![t] = place]

\* The main thread runs checks in static initialisers, main and destructors;
\* it starts the others in main, and may end without waiting for them.
Runs(t) == IF t = Main THEN phase \in {"initializers", "main", "exiting"}
                       ELSE phase \in {"main", "printing", "exiting"}

\* _FPC_FP32_CHECK_, _FPC_FP64_CHECK_ of a result with events evs; it
\* returns at once if its condition is false or there is nothing to save.
Check(t, l, evs) ==
    /\ Runs(t) /\ pc[t] = "idle" /\ checks < MaxChecks
    /\ evs # {} \/ Profile
    /\ checks' = checks + 1
    /\ item' = [item EXCEPT ![t] = [loc |-> l, ev |-> evs, todo |-> Event]]
    /\ Goto(t, "lock")
    /\ UNCHANGED <<phase, created, lock, table, cursor, made, report>>

\* The lock, if there is one; then _FPC_HT_SET_, which returns if there is no
\* table and else begins at the head of the location's bin.
\* AcquireBusy is a faulty variant: the lock is not waited for.
AcquireBusy(t) ==
    /\ Runs(t) /\ pc[t] = "lock"
    /\ lock' = IF Guarded THEN t ELSE lock
    /\ IF created
       THEN /\ Goto(t, "walk")
            /\ at' = [at EXCEPT ![t] = head[BinOf[item[t].loc]]]
            /\ last' = [last EXCEPT ![t] = Nil]
            /\ made' = [made EXCEPT ![item[t].loc] =
                  [e \in Event |-> IF e \in item[t].ev THEN @[e] + 1 ELSE @[e]]]
       ELSE Goto(t, "unlock") /\ UNCHANGED <<at, last, made>>
    /\ UNCHANGED <<phase, created, table, item, val, checks, report>>
Acquire(t) ==
    /\ Runs(t) /\ pc[t] = "lock" /\ (Guarded => lock = Nil)
    /\ lock' = IF Guarded THEN t ELSE lock
    /\ IF created
       THEN /\ Goto(t, "walk")
            /\ at' = [at EXCEPT ![t] = head[BinOf[item[t].loc]]]
            /\ last' = [last EXCEPT ![t] = Nil]
            /\ made' = [made EXCEPT ![item[t].loc] =
                  [e \in Event |-> IF e \in item[t].ev THEN @[e] + 1 ELSE @[e]]]
       ELSE Goto(t, "unlock") /\ UNCHANGED <<at, last, made>>
    /\ UNCHANGED <<phase, created, table, item, val, checks, report>>

\* FoundFirst is a faulty variant: only the first entry of the bin is looked at.
FoundFirst(t) == at[t] = head[BinOf[item[t].loc]] /\ loc[at[t]] = item[t].loc
Found(t) == loc[at[t]] = item[t].loc

Walk(t) ==
    /\ Runs(t) /\ pc[t] = "walk" /\ at[t] # Nil
    /\ IF Found(t)
       THEN Goto(t, "read") /\ UNCHANGED <<at, last>>
       ELSE /\ last' = [last EXCEPT ![t] = at[t]]
            /\ at' = [at EXCEPT ![t] = next[at[t]]]
            /\ UNCHANGED pc
    /\ UNCHANGED <<phase, created, lock, table, item, val, checks, made, report>>

\* _FPC_HT_NEWPAIR_ at the end of the bin: a new entry, known to t only.
NewPair(t) ==
    /\ Runs(t) /\ pc[t] = "walk" /\ at[t] = Nil
    /\ used' = used + 1
    /\ loc' = [loc EXCEPT ![used + 1] = item[t].loc]
    /\ cnt' = [cnt EXCEPT ![used + 1] =
                  [e \in Event |-> IF e \in item[t].ev THEN 1 ELSE 0]]
    /\ at' = [at EXCEPT ![t] = used + 1]
    /\ Goto(t, "link")
    /\ UNCHANGED <<phase, created, lock, head, next, item, last, val, checks, made, report>>

\* The entry becomes the head of a bin that is still empty, or the successor
\* of the last entry; without the lock there may be no last entry by now.
Link(t) ==
    /\ Runs(t) /\ pc[t] = "link"
    /\ LET b == BinOf[item[t].loc]
       IN  IF head[b] = Nil
           THEN head' = [head EXCEPT ![b] = at[t]] /\ UNCHANGED <<next, phase>>
           ELSE IF last[t] # Nil
           THEN next' = [next EXCEPT ![last[t]] = at[t]] /\ UNCHANGED <<head, phase>>
           ELSE phase' = "aborted" /\ UNCHANGED <<head, next>>
    /\ item' = [item EXCEPT ![t].todo = {}]
    /\ Goto(t, "unlock")
    /\ UNCHANGED <<created, lock, loc, cnt, used, cursor, checks, made, report>>

\* Every field is added to, those of events that did not occur too.
\* LastFieldLate is a faulty variant: off by one.
Field(t) == CHOOSE e \in item[t].todo : TRUE
LastFieldLate(t) == item[t].todo = {}
LastField(t) == item[t].todo = {Field(t)}
Read(t) ==
    /\ Runs(t) /\ pc[t] = "read"
    /\ val' = [val EXCEPT ![t] = cnt[at[t]][Field(t)]]
    /\ Goto(t, "write")
    /\ UNCHANGED <<phase, created, lock, table, item, at, last, checks, made, report>>
Write(t) ==
    /\ Runs(t) /\ pc[t] = "write"
    /\ cnt' = [cnt EXCEPT ![at[t]][Field(t)] =
                  IF Field(t) \in item[t].ev THEN val[t] + 1 ELSE val[t]]
    /\ item' = [item EXCEPT ![t].todo = @ \ {Field(t)}]
    /\ Goto(t, IF LastField(t) THEN "unlock" ELSE "read")
    /\ UNCHANGED <<phase, created, lock, head, loc, next, used, cursor, checks, made, report>>

Release(t) ==
    /\ Runs(t) /\ pc[t] = "unlock"
    /\ lock' = Nil
    /\ Goto(t, "trap")
    /\ UNCHANGED <<phase, created, table, item, cursor, checks, made, report>>

\* _FPC_CHECK_AND_TRAP of the item, which is the thread's own: SIGABRT.
Trapped(t) == item[t].loc \in TrapAt /\ item[t].ev \cap TrapOn # {}
Trap(t) ==
    /\ Runs(t) /\ pc[t] = "trap"
    /\ IF Trapped(t)
       THEN phase' = "aborted" /\ UNCHANGED pc
       ELSE Goto(t, "idle") /\ UNCHANGED phase
    /\ UNCHANGED <<created, lock, table, item, cursor, checks, made, report>>

-----------------------------------------------------------------------------
(* The main thread.                                                        *)

\* Entries that are linked, and what they say of a location.
Within[k \in 0..MaxChecks] ==
    IF k = 0 THEN {head[b] : b \in Bin} \ {Nil}
    ELSE Within[k - 1] \cup ({next[n] : n \in Within[k - 1]} \ {Nil})
Listed == Within[MaxChecks]
Counted(l, e) == MapThenSumSet(LAMBDA n : cnt[n][e], {n \in Listed : loc[n] = l})

\* _FPC_INIT_HASH_TABLE_
EnterMain ==
    /\ phase = "initializers" /\ pc[Main] = "idle"
    /\ phase' = "main" /\ created' = TRUE /\ lock' = Nil
    /\ UNCHANGED <<table, pc, item, cursor, checks, made, report>>

\* main returns: _FPC_PRINT_HASH_TABLE_ begins with the first bin.
ReturnMain ==
    /\ phase = "main" /\ pc[Main] = "idle"
    /\ phase' = "printing"
    /\ scan' = [bin |-> 0, at |-> head[0]]
    /\ atReturn' = [n \in Node |-> IF n \in Listed THEN cnt[n] ELSE Zero]
    /\ UNCHANGED <<created, lock, table, pc, item, cursor, checks, made, rows>>

\* An entry with an event gets a row.
PrintRow ==
    /\ phase = "printing" /\ scan.at # Nil
    /\ rows' = IF cnt[scan.at] = Zero THEN rows
               ELSE rows \cup {[entry |-> scan.at, loc |-> loc[scan.at], cnt |-> cnt[scan.at]]}
    /\ scan' = [scan EXCEPT !.at = next[scan.at]]
    /\ UNCHANGED <<phase, created, lock, table, pc, item, cursor, checks, made, atReturn>>

\* LastBinEarly is a faulty variant: off by one.
LastBinEarly(b) == b + 2 >= Size
LastBin(b) == b + 1 = Size
PrintNextBin ==
    /\ phase = "printing" /\ scan.at = Nil
    /\ IF LastBin(scan.bin)
       THEN phase' = "exiting" /\ UNCHANGED scan
       ELSE /\ scan' = [bin |-> scan.bin + 1, at |-> head[scan.bin + 1]]
            /\ UNCHANGED phase
    /\ UNCHANGED <<created, lock, table, pc, item, cursor, checks, made, rows, atReturn>>

\* The process ends after the report, or by exit() without one.
End == /\ \/ phase = "exiting" /\ pc[Main] = "idle"
          \/ phase = "main" /\ \E t \in Thread : pc[t] = "idle"
       /\ phase' = "ended"
       /\ UNCHANGED <<created, lock, table, pc, item, cursor, checks, made, report>>
Stopped == phase \in {"ended", "aborted"} /\ UNCHANGED vars

InCheck(t) == \/ \E l \in Loc, evs \in SUBSET Event : Check(t, l, evs)
              \/ Acquire(t) \/ Walk(t) \/ NewPair(t) \/ Link(t)
              \/ Read(t) \/ Write(t) \/ Release(t) \/ Trap(t)
Next == \/ \E t \in Thread : InCheck(t)
        \/ EnterMain \/ ReturnMain \/ PrintRow \/ PrintNextBin \/ End \/ Stopped

Spec == Init /\ [][Next]_vars
-----------------------------------------------------------------------------
(* Properties.                                                             *)

TableTypes ==
    /\ lock \in Thread \cup {Nil} /\ created \in BOOLEAN
    /\ head \in [Bin -> Node \cup {Nil}] /\ used \in 0..checks
    /\ loc \in [Node -> Loc \cup {Nil}] /\ cnt \in [Node -> [Event -> Nat]]
    /\ next \in [Node -> Node \cup {Nil}]
ThreadTypes ==
    /\ pc \in [Thread -> PC]
    /\ item \in [Thread -> [loc: Loc \cup {Nil}, ev: SUBSET Event, todo: SUBSET Event]]
    /\ at \in [Thread -> Node \cup {Nil}] /\ last \in [Thread -> Node \cup {Nil}]
    /\ val \in [Thread -> Nat] /\ checks \in 0..MaxChecks
    /\ \A t \in Thread : /\ pc[t] \in {"link", "read", "write"} => at[t] # Nil
                         /\ pc[t] \in {"read", "write"} => item[t].todo # {}
ReportTypes ==
    /\ phase \in Phase
    /\ made \in [Loc -> [Event -> Nat]] /\ atReturn \in [Node -> [Event -> Nat]]
    /\ scan \in [bin: Bin, at: Node \cup {Nil}]
    /\ rows \subseteq [entry: Node, loc: Loc, cnt: [Event -> Nat]]

\* Types; a thread at a field has an entry and a field left to add.
TypeOK == TableTypes /\ ThreadTypes /\ ReportTypes

\* Every event of a check that found the table is counted, once, or is about
\* to be by a thread that is in _FPC_HT_SET_ now.
Counting == {"walk", "link", "read", "write"}
Pending(l, e) == Cardinality({t \in Thread : /\ pc[t] \in Counting /\ item[t].loc = l
                                             /\ e \in item[t].ev \cap item[t].todo})
NoEventLost == \A l \in Loc, e \in Event :
                   phase # "aborted" => Counted(l, e) + Pending(l, e) = made[l][e]

\* No location gets two entries, which would be two rows of the report.
OneEntryEach == \A m, n \in 1..used : loc[m] = loc[n] => m = n

\* A report written while other threads go on counting has, for every
\* location and event, at least what was counted when main returned and no
\* more than what has occurred.
BackThen(l, e) == MapThenSumSet(LAMBDA n : atReturn[n][e], {n \in Node : loc[n] = l})
Reported(l, e) == MapThenSumSet(LAMBDA r : r.cnt[e], {r \in rows : r.loc = l})
ReportInBounds == phase = "exiting" =>
    \A l \in Loc, e \in Event : Reported(l, e) \in BackThen(l, e)..made[l][e]

\* Only a trap the user asked for interrupts the program.
OnlyTrapsAbort == phase = "aborted" =>
    \E t \in Thread : pc[t] = "trap" /\ Trapped(t)
=============================================================================
