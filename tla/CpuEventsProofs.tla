--------------------------- MODULE CpuEventsProofs ---------------------------
(***************************************************************************)
(* Proofs about CpuEvents, for any number of threads, locations, bins and  *)
(* events.  Types need no lock; with the lock no two threads are in the    *)
(* table at once, lists grow at their end in the order of allocation, and  *)
(* so a walk that reaches the end has seen every entry of its bin.  Hence  *)
(* counts, and those still due, add up, and the report, which walks the    *)
(* lists too, has a row for every entry it has come past.  The second half *)
(* is about EventChecks: in formats of any width, what a check says of the *)
(* bits of a result is true of the values they stand for.                  *)
(***************************************************************************)
EXTENDS CpuEvents, EventChecks, FiniteSetTheorems, WellFoundedInduction, TLAPS

-----------------------------------------------------------------------------
(* Types.                                                                  *)

Entry == 1..used
EntryOrNil == Entry \cup {Nil}
Counts == [Event -> Nat]

\* Pointers point to allocated entries, which have a location.
TableOK == /\ head \in [Bin -> EntryOrNil] /\ next \in [Node -> EntryOrNil]
           /\ loc \in [Node -> Loc \cup {Nil}]
           /\ \A n \in Entry : loc[n] \in Loc
CursorsOK == at \in [Thread -> EntryOrNil] /\ last \in [Thread -> EntryOrNil]

\* A thread has what the place it is at needs.
ItemsOK ==
    /\ pc \in [Thread -> PC]
    /\ item \in [Thread -> [loc: Loc \cup {Nil}, ev: SUBSET Event, todo: SUBSET Event]]
    /\ \A t \in Thread :
        /\ pc[t] # "idle" => item[t].loc \in Loc
        /\ pc[t] \in {"lock", "walk"} => item[t].todo = Event
        /\ pc[t] \in {"link", "read", "write"} => at[t] # Nil
        /\ pc[t] \in {"read", "write"} => item[t].todo # {}
CountsOK == /\ cnt \in [Node -> Counts] /\ made \in [Loc -> Counts]
            /\ val \in [Thread -> Nat]
ReportOK == /\ scan \in [bin: Bin, at: EntryOrNil]
            /\ atReturn \in [Node -> Counts]
            /\ rows \subseteq [entry: Node, loc: Loc, cnt: Counts]
FlagsOK == phase \in Phase /\ created \in BOOLEAN /\ lock \in Thread \cup {Nil}

\* Every check allocates at most one entry: those to come fit, too.
Waiting == {t \in Thread : pc[t] \in {"lock", "walk"}}
RoomOK == /\ used \in Nat /\ checks \in 0..MaxChecks
          /\ used + Cardinality(Waiting) <= checks

TInv == TableOK /\ CursorsOK /\ ItemsOK /\ CountsOK /\ ReportOK /\ FlagsOK /\ RoomOK

LEMMA WaitingFinite == IsFiniteSet(Waiting) /\ Cardinality(Waiting) \in Nat
  BY EventsAssumption, FS_Subset, FS_CardinalityType DEF Waiting

LEMMA UsedFits == RoomOK => /\ used <= checks /\ checks <= MaxChecks
                            /\ Entry \subseteq Node
  BY WaitingFinite, EventsAssumption DEF RoomOK, Entry, Node

LEMMA TInvTypes == TInv => TypeOK
<1> SUFFICES ASSUME TInv PROVE TypeOK
  OBVIOUS
<1>1. EntryOrNil \subseteq Node \cup {Nil} /\ used \in 0..checks
  BY UsedFits DEF TInv, RoomOK, EntryOrNil
<1>2. TableTypes
  BY <1>1 DEF TInv, TableOK, FlagsOK, CountsOK, Counts, TableTypes
<1>3. ThreadTypes
  BY <1>1 DEF TInv, CursorsOK, ItemsOK, CountsOK, RoomOK, ThreadTypes
<1>4. ReportTypes
  BY <1>1 DEF TInv, ReportOK, CountsOK, FlagsOK, Counts, ReportTypes
<1> QED
  BY <1>2, <1>3, <1>4 DEF TypeOK

LEMMA TInvInit == Init => TInv
<1> SUFFICES ASSUME Init PROVE TInv
  OBVIOUS
<1>1. Zero \in Counts
  BY DEF Zero, Counts
<1>2. TableOK /\ CursorsOK /\ FlagsOK
  <2>1. Entry = {}
    BY DEF Init, Entry
  <2> QED
    BY <2>1 DEF Init, TableOK, CursorsOK, FlagsOK, Phase, EntryOrNil
<1>3. ItemsOK
  BY DEF Init, ItemsOK, PC, NoItem
<1>4. CountsOK
  BY <1>1 DEF Init, CountsOK
<1>5. ReportOK
  BY <1>1, EventsAssumption DEF Init, ReportOK, EntryOrNil, Bin
<1>6. RoomOK
  <2>1. Waiting = {}
    BY DEF Init, Waiting
  <2> QED
    BY <2>1, FS_EmptySet, EventsAssumption DEF Init, RoomOK
<1> QED
  BY <1>2, <1>3, <1>4, <1>5, <1>6 DEF TInv

\* An arriving thread needs one more entry, at most; one that has been
\* through the list needs none.
LEMMA WaitingStep ==
    ASSUME ItemsOK, NEW t \in Thread, NEW place, Goto(t, place)
    PROVE  /\ Cardinality(Waiting') \in Nat
           /\ Cardinality(Waiting') <= Cardinality(Waiting) + 1
           /\ t \in Waiting \/ place \notin {"lock", "walk"}
                => Cardinality(Waiting') <= Cardinality(Waiting)
           /\ t \in Waiting /\ place \notin {"lock", "walk"}
                => Cardinality(Waiting') = Cardinality(Waiting) - 1
<1>1. IsFiniteSet(Waiting) /\ Cardinality(Waiting) \in Nat
  BY WaitingFinite
<1>2. Waiting' = IF place \in {"lock", "walk"} THEN Waiting \cup {t} ELSE Waiting \ {t}
  BY DEF ItemsOK, Waiting, Goto
<1>3. /\ Cardinality(Waiting \cup {t}) = IF t \in Waiting THEN Cardinality(Waiting)
                                                       ELSE Cardinality(Waiting) + 1
      /\ Cardinality(Waiting \ {t}) = IF t \in Waiting THEN Cardinality(Waiting) - 1
                                                      ELSE Cardinality(Waiting)
  BY <1>1, FS_AddElement, FS_RemoveElement
<1>4. t \in Waiting => Cardinality(Waiting) # 0
  BY <1>1, FS_EmptySet
<1> QED
  BY <1>1, <1>2, <1>3, <1>4

LEMMA RoomStep ==
    ASSUME ItemsOK, RoomOK, UNCHANGED used,
           NEW t \in Thread, NEW place, Goto(t, place) \/ UNCHANGED pc,
           \/ UNCHANGED checks /\ (t \in Waiting \/ place \notin {"lock", "walk"})
           \/ checks < MaxChecks /\ checks' = checks + 1
    PROVE  RoomOK'
<1>0. Cardinality(Waiting) \in Nat
  BY WaitingFinite
<1>1. CASE UNCHANGED pc
  <2>1. Waiting' = Waiting
    BY <1>1 DEF Waiting
  <2> QED
    BY <1>0, <2>1, EventsAssumption DEF RoomOK
<1>2. CASE Goto(t, place)
  BY <1>0, <1>2, WaitingStep, EventsAssumption DEF RoomOK
<1> QED
  BY <1>1, <1>2

-----------------------------------------------------------------------------
(* Steps within a check.                                                   *)

LEMMA CheckTypes == 
    ASSUME TInv, NEW t \in Thread, NEW l \in Loc, NEW evs \in SUBSET Event, Check(t, l, evs)
    PROVE  TInv'
<1>1. UNCHANGED <<phase, created, lock, table, cursor, made, report>>
  BY DEF Check
<1>2. TableOK' /\ CursorsOK' /\ FlagsOK' /\ CountsOK' /\ ReportOK'
  BY <1>1 DEF TInv, TableOK, CursorsOK, FlagsOK, CountsOK, ReportOK, Entry, EntryOrNil,
              table, cursor, report
<1>3. ItemsOK'
  BY <1>1 DEF TInv, ItemsOK, Check, Goto, PC, cursor
<1>4. RoomOK'
  BY RoomStep DEF TInv, Check, table
<1> QED
  BY <1>2, <1>3, <1>4 DEF TInv

LEMMA AcquireTypes == ASSUME TInv, NEW t \in Thread, Acquire(t) PROVE TInv'
<1>1. UNCHANGED <<phase, created, table, item, val, checks, report>>
  BY DEF Acquire
<1>2. TableOK' /\ ReportOK'
  BY <1>1 DEF TInv, TableOK, ReportOK, Entry, EntryOrNil, table, report
<1>3. pc[t] = "lock" /\ item[t].loc \in Loc /\ BinOf[item[t].loc] \in Bin
  BY EventsAssumption DEF TInv, ItemsOK, Acquire
<1>4. CursorsOK'
  BY <1>1, <1>3 DEF TInv, CursorsOK, TableOK, Acquire, Entry, EntryOrNil, table
<1>5. FlagsOK'
  BY <1>1 DEF TInv, FlagsOK, Acquire
<1>6. ItemsOK'
  BY <1>1, <1>3 DEF TInv, ItemsOK, CursorsOK, Acquire, Goto, PC
<1>7. CountsOK'
  <2>1. [e \in Event |-> IF e \in item[t].ev THEN made[item[t].loc][e] + 1
                                             ELSE made[item[t].loc][e]] \in Counts
    BY <1>3 DEF TInv, CountsOK, Counts
  <2>2. made' \in [Loc -> Counts]
    BY <1>3, <2>1 DEF TInv, CountsOK, Acquire
  <2> QED
    BY <1>1, <2>2 DEF TInv, CountsOK, table
<1>8. RoomOK'
  <2>1. t \in Waiting
    BY <1>3 DEF Waiting
  <2>2. UNCHANGED <<used, checks>>
    BY <1>1 DEF table
  <2>3. Goto(t, "walk") \/ Goto(t, "unlock")
    BY DEF Acquire
  <2> QED
    BY <2>1, <2>2, <2>3, RoomStep DEF TInv
<1> QED
  BY <1>2, <1>4, <1>5, <1>6, <1>7, <1>8 DEF TInv

LEMMA WalkTypes == ASSUME TInv, NEW t \in Thread, Walk(t) PROVE TInv'
<1>1. UNCHANGED <<phase, created, lock, table, item, val, checks, made, report>>
  BY DEF Walk
<1>2. TableOK' /\ ReportOK' /\ FlagsOK' /\ CountsOK'
  BY <1>1 DEF TInv, TableOK, ReportOK, FlagsOK, CountsOK, Entry, EntryOrNil, table, report
<1>3. pc[t] = "walk" /\ at[t] # Nil /\ at[t] \in EntryOrNil /\ at[t] \in Node
  BY UsedFits DEF TInv, CursorsOK, EntryOrNil, Walk
<1>4. CursorsOK'
  BY <1>1, <1>3 DEF TInv, CursorsOK, TableOK, Walk, Entry, EntryOrNil, table
<1>5. ItemsOK'
  BY <1>1, <1>3, EventsAssumption DEF TInv, ItemsOK, CursorsOK, Walk, Goto, PC
<1>6. RoomOK'
  <2>1. t \in Waiting
    BY <1>3 DEF Waiting
  <2>2. UNCHANGED <<used, checks>>
    BY <1>1 DEF table
  <2>3. Goto(t, "read") \/ UNCHANGED pc
    BY DEF Walk
  <2> QED
    BY <2>1, <2>2, <2>3, RoomStep DEF TInv
<1> QED
  BY <1>2, <1>4, <1>5, <1>6 DEF TInv

\* A thread that allocates is one of those there is room for.
LEMMA RoomLeft ==
    ASSUME ItemsOK, RoomOK, NEW t \in Thread, NewPair(t)
    PROVE  RoomOK' /\ used' = used + 1 /\ used + 1 \in Node /\ used \in Nat
<1>1. t \in Waiting /\ Goto(t, "link") /\ used' = used + 1 /\ UNCHANGED checks
  BY DEF NewPair, Waiting
<1>2. Cardinality(Waiting') \in Nat /\ Cardinality(Waiting') = Cardinality(Waiting) - 1
  BY <1>1, WaitingStep
<1> QED
  BY <1>1, <1>2, WaitingFinite, EventsAssumption DEF RoomOK, Node

LEMMA NewPairTypes == ASSUME TInv, NEW t \in Thread, NewPair(t) PROVE TInv'
<1>1. UNCHANGED <<phase, created, lock, head, next, item, last, val, checks, made, report>>
  BY DEF NewPair
<1>2. RoomOK' /\ used' = used + 1 /\ used + 1 \in Node /\ used \in Nat
  BY RoomLeft DEF TInv
<1>3. EntryOrNil \subseteq EntryOrNil' /\ used + 1 \in EntryOrNil' /\ Entry' = Entry \cup {used + 1}
  BY <1>2 DEF Entry, EntryOrNil
<1>4. pc[t] = "walk" /\ item[t].loc \in Loc
  BY DEF TInv, ItemsOK, NewPair
<1>5. TableOK'
  BY <1>1, <1>2, <1>3, <1>4 DEF TInv, TableOK, NewPair
<1>6. CursorsOK'
  BY <1>1, <1>3 DEF TInv, CursorsOK, NewPair
<1>7. ItemsOK'
  <2>1. used + 1 # Nil
    BY <1>2, EventsAssumption
  <2> QED
    BY <1>1, <1>4, <2>1 DEF TInv, ItemsOK, CursorsOK, NewPair, Goto, PC
<1>8. CountsOK'
  <2>1. [e \in Event |-> IF e \in item[t].ev THEN 1 ELSE 0] \in Counts
    BY DEF Counts
  <2> QED
    BY <1>1, <1>2, <2>1 DEF TInv, CountsOK, NewPair
<1>9. ReportOK' /\ FlagsOK'
  BY <1>1, <1>3 DEF TInv, ReportOK, FlagsOK, report
<1> QED
  BY <1>2, <1>5, <1>6, <1>7, <1>8, <1>9 DEF TInv

LEMMA LinkTypes == ASSUME TInv, NEW t \in Thread, Link(t) PROVE TInv'
<1>1. UNCHANGED <<created, lock, loc, cnt, used, cursor, checks, made, report>>
  BY DEF Link
<1>2. UNCHANGED <<Entry, EntryOrNil>>
  BY <1>1 DEF Entry, EntryOrNil
<1>3. TableOK'
  BY <1>1, <1>2 DEF TInv, TableOK, CursorsOK, Link
<1>4. CursorsOK' /\ CountsOK' /\ ReportOK'
  BY <1>1, <1>2 DEF TInv, CursorsOK, CountsOK, ReportOK, cursor, report
<1>5. FlagsOK'
  BY <1>1 DEF TInv, FlagsOK, Link, Phase
<1>6. ItemsOK'
  BY <1>1 DEF TInv, ItemsOK, Link, Goto, PC, cursor
<1>7. RoomOK'
  BY <1>1, RoomStep DEF TInv, Link
<1> QED
  BY <1>3, <1>4, <1>5, <1>6, <1>7 DEF TInv

LEMMA ReadTypes == ASSUME TInv, NEW t \in Thread, Read(t) PROVE TInv'
<1>1. UNCHANGED <<phase, created, lock, table, item, at, last, checks, made, report>>
  BY DEF Read
<1>2. TableOK' /\ CursorsOK' /\ ReportOK' /\ FlagsOK'
  BY <1>1 DEF TInv, TableOK, CursorsOK, ReportOK, FlagsOK, Entry, EntryOrNil, table, report
<1>3. /\ pc[t] = "read" /\ at[t] \in Node
      /\ item[t].todo \subseteq Event /\ item[t].todo # {}
  BY UsedFits DEF TInv, ItemsOK, CursorsOK, EntryOrNil, Read
<1>4. Field(t) \in Event
  BY <1>3 DEF Field
<1>5. CountsOK'
  BY <1>1, <1>3, <1>4 DEF TInv, CountsOK, Counts, Read, table
<1>6. ItemsOK'
  BY <1>1, <1>3 DEF TInv, ItemsOK, Read, Goto, PC
<1>7. RoomOK'
  BY <1>1, RoomStep DEF TInv, Read, table
<1> QED
  BY <1>2, <1>5, <1>6, <1>7 DEF TInv

LEMMA WriteTypes == ASSUME TInv, NEW t \in Thread, Write(t) PROVE TInv'
<1>1. UNCHANGED <<phase, created, lock, head, loc, next, used, cursor, checks, made, report>>
  BY DEF Write
<1>2. TableOK' /\ CursorsOK' /\ ReportOK' /\ FlagsOK'
  BY <1>1 DEF TInv, TableOK, CursorsOK, ReportOK, FlagsOK, Entry, EntryOrNil, cursor, report
<1>3. /\ pc[t] = "write" /\ at[t] \in Node /\ at[t] # Nil
      /\ item[t].todo \subseteq Event /\ item[t].todo # {} /\ item[t].loc \in Loc
  BY UsedFits DEF TInv, ItemsOK, CursorsOK, EntryOrNil, Write
<1>4. Field(t) \in item[t].todo /\ Field(t) \in Event
  BY <1>3 DEF Field
<1>5. CountsOK'
  <2>1. \A x \in Nat : [cnt[at[t]] EXCEPT ![Field(t)] = x] \in Counts
    BY <1>3, <1>4 DEF TInv, CountsOK, Counts
  <2>2. cnt' = [cnt EXCEPT ![at[t]] = [cnt[at[t]] EXCEPT ![Field(t)] =
                   IF Field(t) \in item[t].ev THEN val[t] + 1 ELSE val[t]]]
    BY DEF Write
  <2>3. val[t] \in Nat
    BY DEF TInv, CountsOK
  <2>4. cnt' \in [Node -> Counts]
    BY <1>3, <2>1, <2>2, <2>3 DEF TInv, CountsOK
  <2> QED
    BY <1>1, <2>4 DEF TInv, CountsOK, cursor
<1>6. ItemsOK'
  <2>1. item' = [item EXCEPT ![t].todo = @ \ {Field(t)}]
    BY DEF Write
  <2>2. /\ item' \in [Thread -> [loc: Loc \cup {Nil}, ev: SUBSET Event, todo: SUBSET Event]]
        /\ item'[t].todo = item[t].todo \ {Field(t)} /\ item'[t].loc = item[t].loc
        /\ \A u \in Thread \ {t} : item'[u] = item[u]
    BY <2>1 DEF TInv, ItemsOK
  <2>3. CASE LastField(t)
    <3>1. pc' = [pc EXCEPT ![t] = "unlock"]
      BY <2>3 DEF Write, Goto
    <3> QED
      BY <1>1, <1>3, <2>2, <3>1 DEF TInv, ItemsOK, PC, cursor
  <2>4. CASE ~LastField(t)
    <3>1. pc' = [pc EXCEPT ![t] = "read"]
      BY <2>4 DEF Write, Goto
    <3>2. item[t].todo \ {Field(t)} # {}
      BY <1>4, <2>4 DEF LastField
    <3> QED
      BY <1>1, <1>3, <2>2, <3>1, <3>2 DEF TInv, ItemsOK, PC, cursor
  <2> QED
    BY <2>3, <2>4
<1>7. RoomOK'
  <2>1. Goto(t, "unlock") \/ Goto(t, "read")
    BY DEF Write
  <2> QED
    BY <1>1, <2>1, RoomStep DEF TInv
<1> QED
  BY <1>2, <1>5, <1>6, <1>7 DEF TInv

LEMMA ReleaseTypes == ASSUME TInv, NEW t \in Thread, Release(t) \/ Trap(t) PROVE TInv'
<1>1. UNCHANGED <<created, table, item, cursor, checks, made, report>>
  BY DEF Release, Trap
<1>2. TableOK' /\ CursorsOK' /\ CountsOK' /\ ReportOK'
  BY <1>1 DEF TInv, TableOK, CursorsOK, CountsOK, ReportOK, Entry, EntryOrNil,
              table, cursor, report
<1>3. FlagsOK'
  BY <1>1 DEF TInv, FlagsOK, Release, Trap, Phase
<1>4. ItemsOK'
  BY <1>1 DEF TInv, ItemsOK, Release, Trap, Goto, PC, cursor
<1>5. RoomOK'
  <2>1. Goto(t, "trap") \/ Goto(t, "idle") \/ UNCHANGED pc
    BY DEF Release, Trap
  <2>2. UNCHANGED <<used, checks>>
    BY <1>1 DEF table
  <2> QED
    BY <2>1, <2>2, RoomStep DEF TInv
<1> QED
  BY <1>2, <1>3, <1>4, <1>5 DEF TInv

\* The main thread between its checks.
MainStep == EnterMain \/ ReturnMain \/ PrintRow \/ PrintNextBin \/ End \/ UNCHANGED vars

LEMMA MainTypes == ASSUME TInv, MainStep PROVE TInv'
<1>1. UNCHANGED <<table, pc, checks, item, cursor, made>>
  BY DEF MainStep, EnterMain, ReturnMain, PrintRow, PrintNextBin, End, vars
<1>2. UNCHANGED <<Entry, EntryOrNil, Waiting>>
  BY <1>1 DEF Entry, EntryOrNil, Waiting, table
<1>3. TableOK' /\ CursorsOK' /\ CountsOK' /\ ItemsOK' /\ RoomOK'
  BY <1>1, <1>2 DEF TInv, TableOK, CursorsOK, CountsOK, ItemsOK, RoomOK, table, cursor
<1>4. FlagsOK'
  BY EventsAssumption DEF TInv, FlagsOK, Phase, MainStep,
                          EnterMain, ReturnMain, PrintRow, PrintNextBin, End, vars
<1>5. ReportOK'
  <2>1. CASE ReturnMain
    <3>1. 0 \in Bin
      BY EventsAssumption DEF Bin
    <3>2. atReturn' \in [Node -> Counts]
      BY <2>1 DEF TInv, CountsOK, ReturnMain, Zero, Counts
    <3> QED
      BY <1>2, <2>1, <3>1, <3>2 DEF TInv, TableOK, ReportOK, ReturnMain
  <2>2. CASE PrintRow
    <3>1. scan.at \in Entry /\ scan.at \in Node
      BY <2>2, UsedFits DEF TInv, ReportOK, EntryOrNil, PrintRow
    <3>2. [entry |-> scan.at, loc |-> loc[scan.at], cnt |-> cnt[scan.at]]
              \in [entry: Node, loc: Loc, cnt: Counts]
      BY <3>1 DEF TInv, TableOK, CountsOK
    <3>3. rows' \subseteq [entry: Node, loc: Loc, cnt: Counts]
      BY <2>2, <3>2 DEF TInv, ReportOK, PrintRow
    <3>4. scan' \in [bin: Bin, at: EntryOrNil]
      BY <2>2, <3>1 DEF TInv, TableOK, ReportOK, PrintRow
    <3> QED
      BY <1>2, <2>2, <3>3, <3>4 DEF TInv, ReportOK, PrintRow
  <2>3. CASE PrintNextBin
    <3>1. ~LastBin(scan.bin) => scan.bin + 1 \in Bin
      BY EventsAssumption DEF TInv, ReportOK, LastBin, Bin
    <3>2. scan' \in [bin: Bin, at: EntryOrNil]
      BY <2>3, <3>1 DEF TInv, TableOK, ReportOK, PrintNextBin
    <3> QED
      BY <1>2, <2>3, <3>2 DEF TInv, ReportOK, PrintNextBin
  <2>4. CASE UNCHANGED report
    BY <1>2, <2>4 DEF TInv, ReportOK, report
  <2> QED
    BY <2>1, <2>2, <2>3, <2>4 DEF MainStep, EnterMain, End, vars
<1> QED
  BY <1>3, <1>4, <1>5 DEF TInv

LEMMA TInvStep == TInv /\ [Next]_vars => TInv'
  BY CheckTypes, AcquireTypes, WalkTypes, NewPairTypes, LinkTypes, ReadTypes,
     WriteTypes, ReleaseTypes, MainTypes DEF Next, InCheck, Stopped, MainStep

\* Everything keeps its type, with the lock or without, and there is an
\* entry for every check that still needs one.
THEOREM EventTypes == Spec => []TypeOK
<1>1. Spec => []TInv
  BY TInvInit, TInvStep, PTL DEF Spec
<1> QED
  BY <1>1, TInvTypes, PTL
-----------------------------------------------------------------------------
(* With the lock.                                                          *)

\* Whoever is in the table has the lock; before main there is one thread.
Critical == {"walk", "link", "read", "write", "unlock"}
LockOK == /\ \A t \in Thread : pc[t] \in Critical => lock = t
          /\ phase = "initializers" => \A t \in Thread \ {Main} : pc[t] = "idle"

LEMMA LockInit == Init => LockOK
  BY DEF Init, LockOK, Critical

LEMMA LockStep == Guarded /\ TInv /\ LockOK /\ [Next]_vars => LockOK'
<1> SUFFICES ASSUME Guarded, TInv, LockOK, [Next]_vars PROVE LockOK'
  OBVIOUS
<1>0. pc \in [Thread -> PC] /\ Nil \notin Thread
  BY EventsAssumption DEF TInv, ItemsOK
<1>1. ASSUME NEW t \in Thread, InCheck(t) PROVE LockOK'
  <2>1. Runs(t)
    BY <1>1 DEF InCheck, Check, Acquire, Walk, NewPair, Link, Read, Write, Release, Trap
  <2>2. phase' = "initializers" => \A u \in Thread \ {Main} : pc'[u] = "idle"
    <3>1. phase' \in {phase, "aborted"} /\ (pc' = pc \/ \E place : Goto(t, place))
      BY <1>1 DEF InCheck, Check, Acquire, Walk, NewPair, Link, Read, Write, Release, Trap
    <3>2. phase = "initializers" => t = Main
      BY <2>1 DEF Runs
    <3> QED
      BY <1>0, <3>1, <3>2 DEF LockOK, Goto
  <2>3. \A u \in Thread : pc'[u] \in Critical => lock' = u
    <3>1. CASE \E l \in Loc, evs \in SUBSET Event : Check(t, l, evs)
      BY <1>0, <3>1 DEF LockOK, Check, Goto, Critical
    <3>2. CASE Acquire(t)
      BY <1>0, <3>2 DEF LockOK, Acquire, Goto, Critical
    <3>3. CASE Walk(t) \/ NewPair(t) \/ Link(t) \/ Read(t) \/ Write(t)
      <4>1. pc[t] \in Critical /\ UNCHANGED lock
        BY <3>3 DEF Walk, NewPair, Link, Read, Write, Critical
      <4>2. pc' = pc \/ \E place : Goto(t, place)
        BY <3>3 DEF Walk, NewPair, Link, Read, Write
      <4> QED
        BY <1>0, <4>1, <4>2 DEF LockOK, Goto
    <3>4. CASE Release(t)
      BY <1>0, <3>4 DEF LockOK, Release, Goto, Critical
    <3>5. CASE Trap(t)
      BY <1>0, <3>5 DEF LockOK, Trap, Goto, Critical
    <3> QED
      BY <1>1, <3>1, <3>2, <3>3, <3>4, <3>5 DEF InCheck
  <2> QED
    BY <2>2, <2>3 DEF LockOK
<1>2. CASE EnterMain
  BY <1>0, <1>2 DEF LockOK, EnterMain, Critical
<1>3. CASE MainStep /\ ~EnterMain
  <2>1. UNCHANGED <<pc, lock>> /\ (phase' = "initializers" => phase = "initializers")
    BY <1>3 DEF MainStep, ReturnMain, PrintRow, PrintNextBin, End, vars
  <2> QED
    BY <2>1 DEF LockOK
<1> QED
  BY <1>1, <1>2, <1>3 DEF Next, MainStep, Stopped

\* Entries that are in a list: all but the one a thread is about to link.
Linking == \E t \in Thread : pc[t] = "link"
InList == IF Linking THEN 1..(used - 1) ELSE 1..used
InBin(b) == {n \in InList : BinOf[loc[n]] = b}

\* Every list goes through its bin's entries in the order of allocation.
ListOK(b) ==
    /\ IF head[b] = Nil THEN InBin(b) = {}
       ELSE head[b] \in InBin(b) /\ \A m \in InBin(b) : m >= head[b]
    /\ \A n \in InBin(b) :
          IF next[n] = Nil THEN \A m \in InBin(b) : m <= n
          ELSE /\ next[n] \in InBin(b) /\ n < next[n]
               /\ \A m \in InBin(b) : m <= n \/ m >= next[n]
ListsOK == /\ \A b \in Bin : ListOK(b)
           /\ \A n \in Node \ InList : next[n] = Nil

\* A walk has seen the entries of its bin that come before the next one, and
\* last is one of the bin, or Nil at the head.
Target(t) == BinOf[item[t].loc]
Seen(t) == {n \in InBin(Target(t)) : at[t] = Nil \/ n < at[t]}
LastOK(t) == IF last[t] = Nil THEN at[t] = head[Target(t)]
             ELSE last[t] \in InBin(Target(t)) /\ at[t] = next[last[t]]
WalkOK == \A t \in Thread : pc[t] = "walk" =>
    /\ at[t] # Nil => at[t] \in InBin(Target(t))
    /\ \A n \in Seen(t) : loc[n] # item[t].loc
    /\ LastOK(t)
LinkOK == \A t \in Thread : pc[t] = "link" =>
    /\ at[t] = used /\ used \in Entry /\ loc[used] = item[t].loc
    /\ IF last[t] = Nil THEN head[Target(t)] = Nil
       ELSE last[t] \in InBin(Target(t)) /\ next[last[t]] = Nil
OrderInv == ListsOK /\ WalkOK /\ LinkOK /\ OneEntryEach

LEMMA OrderInit == Init => OrderInv
<1> SUFFICES ASSUME Init PROVE OrderInv
  OBVIOUS
<1>1. InList = {} /\ \A b : InBin(b) = {}
  BY DEF Init, InList, InBin, Linking
<1>2. ListsOK
  BY <1>1 DEF Init, ListsOK, ListOK
<1>3. WalkOK /\ LinkOK
  BY DEF Init, WalkOK, LinkOK
<1>4. OneEntryEach
  BY DEF Init, OneEntryEach
<1> QED
  BY <1>2, <1>3, <1>4 DEF OrderInv

\* Steps that touch no list, and leave the threads at walk and link alone.
LEMMA OrderFrame ==
    ASSUME OrderInv, UNCHANGED <<head, loc, next, used, Linking>>,
           \A t \in Thread : pc'[t] \in {"walk", "link"}
               => pc'[t] = pc[t] /\ UNCHANGED <<item[t], at[t], last[t]>>
    PROVE  OrderInv'
<1>1. InList' = InList /\ \A b : InBin(b)' = InBin(b)
  BY DEF InList, InBin
<1>2. ListsOK' /\ OneEntryEach'
  BY <1>1 DEF OrderInv, ListsOK, ListOK, OneEntryEach
<1>3. WalkOK'
  <2> SUFFICES ASSUME NEW t \in Thread, pc'[t] = "walk"
               PROVE  /\ at'[t] # Nil => at'[t] \in InBin(Target(t))'
                      /\ \A n \in Seen(t)' : loc'[n] # item'[t].loc
                      /\ LastOK(t)'
    BY DEF WalkOK
  <2>1. pc[t] = "walk" /\ UNCHANGED <<item[t], at[t], last[t]>>
    OBVIOUS
  <2>2. UNCHANGED <<Target(t), Seen(t), LastOK(t)>> /\ InBin(Target(t))' = InBin(Target(t))
    BY <1>1, <2>1 DEF Target, Seen, LastOK
  <2> QED
    BY <2>1, <2>2 DEF OrderInv, WalkOK
<1>4. LinkOK'
  <2> SUFFICES ASSUME NEW t \in Thread, pc'[t] = "link"
               PROVE  /\ at'[t] = used' /\ used' \in Entry' /\ loc'[used'] = item'[t].loc
                      /\ IF last'[t] = Nil THEN head'[Target(t)'] = Nil
                         ELSE last'[t] \in InBin(Target(t))' /\ next'[last'[t]] = Nil
    BY DEF LinkOK
  <2>1. pc[t] = "link" /\ UNCHANGED <<item[t], at[t], last[t]>>
    OBVIOUS
  <2>2. UNCHANGED <<Target(t), Entry>> /\ InBin(Target(t))' = InBin(Target(t))
    BY <1>1, <2>1 DEF Target, Entry
  <2> QED
    BY <2>1, <2>2 DEF OrderInv, LinkOK
<1> QED
  BY <1>2, <1>3, <1>4 DEF OrderInv

Locked == Guarded /\ TInv /\ LockOK /\ OrderInv

\* Nobody else is in the table.
LEMMA Alone ==
    ASSUME Locked, NEW t \in Thread, pc[t] \in Critical \/ lock = Nil
    PROVE  \A u \in Thread \ {t} : pc[u] \notin Critical
  BY EventsAssumption DEF Locked, LockOK

LEMMA OrderAcquire == ASSUME Locked, NEW t \in Thread, Acquire(t) PROVE OrderInv'
<1>1. /\ UNCHANGED <<head, loc, cnt, next, used, item>>
      /\ pc \in [Thread -> PC] /\ pc[t] = "lock" /\ lock = Nil
      /\ item[t].loc \in Loc
      /\ Target(t) \in Bin
  BY EventsAssumption DEF Locked, TInv, ItemsOK, Acquire, table, Target
<1>2. \A u \in Thread : pc[u] \notin {"walk", "link"}
  BY <1>1, Alone DEF Critical
<1>3. CASE ~created
  <2>1. Goto(t, "unlock")
    BY <1>3 DEF Acquire
  <2>2. \A u \in Thread : pc'[u] \notin {"walk", "link"}
    BY <1>1, <1>2, <2>1 DEF Goto
  <2>3. Linking' = Linking
    BY <1>2, <2>2 DEF Linking
  <2> QED
    BY <1>1, <2>2, <2>3, OrderFrame DEF Locked
<1>4. CASE created
  <2>1. /\ pc' = [pc EXCEPT ![t] = "walk"]
        /\ at'[t] = head[Target(t)] /\ last'[t] = Nil
    BY <1>4 DEF Locked, TInv, CursorsOK, Acquire, Goto, Target
  <2>2. \A u \in Thread : pc'[u] # "link" /\ (pc'[u] = "walk" => u = t)
    BY <1>1, <1>2, <2>1
  <2>3. InList' = InList /\ \A b : InBin(b)' = InBin(b)
    BY <1>1, <1>2, <2>2 DEF InList, InBin, Linking
  <2>4. ListsOK' /\ OneEntryEach'
    BY <1>1, <2>3 DEF Locked, OrderInv, ListsOK, ListOK, OneEntryEach
  <2>5. LinkOK'
    BY <2>2 DEF LinkOK
  <2>6. WalkOK'
    <3>1. Target(t)' = Target(t)
      BY <1>1 DEF Target
    <3>0. PICK b \in Bin : b = Target(t)
      BY <1>1
    <3>2. at'[t] # Nil => at'[t] \in InBin(Target(t))'
      <4>1. ListOK(b) /\ InBin(b)' = InBin(b)
        BY <2>3 DEF Locked, OrderInv, ListsOK
      <4>2. at'[t] # Nil => at'[t] \in InBin(b)'
        BY <2>1, <3>0, <4>1 DEF ListOK
      <4> QED
        BY <3>0, <3>1, <4>2 DEF InBin
    <3>3. Seen(t)' = {}
      <4> SUFFICES ASSUME NEW n \in InBin(Target(t)), at'[t] = Nil \/ n < at'[t] PROVE FALSE
        BY <2>3, <3>1 DEF Seen, InBin
      <4>1. head[Target(t)] # Nil /\ n >= head[Target(t)] /\ head[Target(t)] \in InBin(Target(t))
        BY <1>1 DEF Locked, OrderInv, ListsOK, ListOK
      <4>2. n \in Nat /\ head[Target(t)] \in Nat
        BY <4>1 DEF Locked, TInv, RoomOK, InBin, InList
      <4> QED
        BY <2>1, <4>1, <4>2
    <3>4. LastOK(t)'
      BY <1>1, <2>1, <3>1 DEF LastOK
    <3> QED
      BY <2>2, <3>2, <3>3, <3>4 DEF WalkOK
  <2> QED
    BY <2>4, <2>5, <2>6 DEF OrderInv
<1> QED
  BY <1>3, <1>4

LEMMA OrderWalk == ASSUME Locked, NEW t \in Thread, Walk(t) PROVE OrderInv'
<1>1. /\ UNCHANGED <<head, loc, cnt, next, used, item>>
      /\ pc \in [Thread -> PC] /\ pc[t] = "walk"
  BY DEF Locked, TInv, ItemsOK, Walk, table
<1>2. \A u \in Thread \ {t} : pc[u] \notin Critical
  BY <1>1, Alone DEF Critical
<1>3. CASE Found(t)
  <2>1. Goto(t, "read")
    BY <1>3 DEF Walk
  <2>2. \A u \in Thread : pc'[u] \notin {"walk", "link"}
    BY <1>1, <1>2, <2>1 DEF Goto, Critical
  <2>3. Linking' = Linking
    BY <1>1, <1>2, <2>2 DEF Linking, Critical
  <2> QED
    BY <1>1, <2>2, <2>3, OrderFrame DEF Locked
<1>4. CASE ~Found(t)
  <2>1. /\ UNCHANGED pc /\ at'[t] = next[at[t]] /\ last'[t] = at[t] /\ at[t] # Nil
        /\ loc[at[t]] # item[t].loc
    BY <1>4 DEF Locked, TInv, CursorsOK, Walk, Found
  <2>2. \A u \in Thread : pc'[u] # "link" /\ (pc'[u] = "walk" => u = t)
    BY <1>1, <1>2, <2>1 DEF Critical
  <2>3. InList' = InList /\ (\A b : InBin(b)' = InBin(b)) /\ Target(t)' = Target(t)
    BY <1>1, <2>1 DEF InList, InBin, Linking, Target
  <2>4. ListsOK' /\ OneEntryEach'
    BY <1>1, <2>3 DEF Locked, OrderInv, ListsOK, ListOK, OneEntryEach
  <2>5. LinkOK'
    BY <2>2 DEF LinkOK
  <2>6. WalkOK'
    <3>1. at[t] \in InBin(Target(t)) /\ BinOf[loc[at[t]]] = Target(t) /\ at[t] \in InList
      BY <1>1, <2>1 DEF Locked, OrderInv, WalkOK, InBin
    <3>2. IF next[at[t]] = Nil THEN \A m \in InBin(Target(t)) : m <= at[t]
          ELSE /\ next[at[t]] \in InBin(Target(t))
               /\ \A m \in InBin(Target(t)) : m <= at[t] \/ m >= next[at[t]]
      <4>1. Target(t) \in Bin
        BY <1>1, EventsAssumption DEF Locked, TInv, ItemsOK, Target
      <4> QED
        BY <3>1, <4>1 DEF Locked, OrderInv, ListsOK, ListOK
    <3>3. InBin(Target(t)) \subseteq Nat
      BY DEF Locked, TInv, RoomOK, InBin, InList
    <3>4. Seen(t)' \subseteq Seen(t) \cup {at[t]}
      BY <2>1, <2>3, <3>1, <3>2, <3>3 DEF Seen
    <3>5. \A n \in Seen(t)' : loc'[n] # item'[t].loc
      BY <1>1, <2>1, <3>4 DEF Locked, OrderInv, WalkOK
    <3>6. LastOK(t)'
      BY <1>1, <2>1, <2>3, <3>1 DEF LastOK
    <3> QED
      BY <2>1, <2>2, <2>3, <3>2, <3>5, <3>6 DEF WalkOK
  <2> QED
    BY <2>4, <2>5, <2>6 DEF OrderInv
<1> QED
  BY <1>3, <1>4

LEMMA OrderNewPair == ASSUME Locked, NEW t \in Thread, NewPair(t) PROVE OrderInv'
<1>1. /\ UNCHANGED <<head, next, item, last>>
      /\ pc \in [Thread -> PC] /\ pc[t] = "walk" /\ pc' = [pc EXCEPT ![t] = "link"]
      /\ used \in Nat /\ used' = used + 1 /\ at'[t] = used + 1 /\ at[t] = Nil
  BY DEF Locked, TInv, ItemsOK, CursorsOK, RoomOK, NewPair, Goto
<1>2. \A u \in Thread \ {t} : pc[u] \notin Critical
  BY <1>1, Alone DEF Critical
<1>3. ~Linking /\ Linking' /\ \A u \in Thread : pc'[u] # "walk" /\ (pc'[u] = "link" => u = t)
  BY <1>1, <1>2 DEF Linking, Critical
<1>4. InList = 1..used /\ InList' = InList /\ InList \subseteq Nat
  BY <1>1, <1>3 DEF InList
<1>5. used + 1 \in Node
  BY <1>1, RoomLeft DEF Locked, TInv
<1>6. /\ \A n \in InList : loc'[n] = loc[n]
      /\ loc'[used + 1] = item[t].loc
  BY <1>1, <1>4, <1>5 DEF Locked, TInv, TableOK, NewPair
<1>7. (\A b : InBin(b)' = InBin(b)) /\ Target(t)' = Target(t)
  BY <1>1, <1>4, <1>6 DEF InBin, Target
<1>8. ListsOK'
  BY <1>1, <1>4, <1>6, <1>7 DEF Locked, OrderInv, ListsOK, ListOK
<1>9. WalkOK'
  BY <1>3 DEF WalkOK
<1>10. LinkOK'
  <2>1. LastOK(t)
    BY <1>1 DEF Locked, OrderInv, WalkOK
  <2> QED
    BY <1>1, <1>3, <1>6, <1>7, <2>1 DEF LinkOK, LastOK, Entry
<1>11. OneEntryEach'
  <2>1. \A n \in InBin(Target(t)) : loc[n] # item[t].loc
    BY <1>1 DEF Locked, OrderInv, WalkOK, Seen
  <2>2. \A n \in 1..used : loc[n] # item[t].loc
    BY <1>4, <2>1 DEF InBin, Target
  <2>3. \A m, n \in 1..used : loc[m] = loc[n] => m = n
    BY DEF Locked, OrderInv, OneEntryEach
  <2>4. 1..used' = 1..used \cup {used + 1}
    BY <1>1
  <2> QED
    BY <1>4, <1>6, <2>2, <2>3, <2>4 DEF OneEntryEach
<1> QED
  BY <1>8, <1>9, <1>10, <1>11 DEF OrderInv

\* The new entry becomes the last of its list.
LEMMA OrderLink == ASSUME Locked, NEW t \in Thread, Link(t) PROVE OrderInv' /\ UNCHANGED phase
<1>1. /\ UNCHANGED <<loc, used, at, last>>
      /\ pc \in [Thread -> PC] /\ pc[t] = "link" /\ pc' = [pc EXCEPT ![t] = "unlock"]
      /\ head \in [Bin -> EntryOrNil] /\ next \in [Node -> EntryOrNil]
      /\ item[t].loc \in Loc
  BY DEF Locked, TInv, ItemsOK, TableOK, Link, Goto, cursor
<1>2. \A u \in Thread \ {t} : pc[u] \notin Critical
  BY <1>1, Alone DEF Critical
<1>3. Linking /\ \A u \in Thread : pc'[u] \notin {"walk", "link"}
  BY <1>1, <1>2 DEF Linking, Critical
<1>b. PICK b \in Bin : b = Target(t)
  BY <1>1, EventsAssumption DEF Target
<1>4. /\ at[t] = used /\ used \in Nat \ {0} /\ used \in Node /\ BinOf[loc[used]] = b
      /\ IF last[t] = Nil THEN head[b] = Nil
         ELSE last[t] \in InBin(b) /\ next[last[t]] = Nil
  BY <1>1, <1>b, UsedFits DEF Locked, TInv, RoomOK, OrderInv, LinkOK, Entry, Target
<1>5. InList = 1..(used - 1) /\ InList' = 1..used
  BY <1>1, <1>3 DEF InList, Linking
<1>6. /\ InList' = InList \cup {used} /\ used \notin InList /\ InList \subseteq Node
      /\ \A n \in InList : n \in Nat /\ n < used
      /\ Nil \notin InList /\ used # Nil
  BY <1>4, <1>5, UsedFits, EventsAssumption DEF Locked, TInv, Entry
<1>7. /\ InBin(b)' = InBin(b) \cup {used}
      /\ \A c \in Bin \ {b} : InBin(c)' = InBin(c)
      /\ \A c \in Bin : InBin(c) \subseteq InList
  BY <1>1, <1>4, <1>6 DEF InBin
<1>8. (\A c \in Bin : ListOK(c)) /\ \A n \in Node \ InList : next[n] = Nil
  BY DEF Locked, OrderInv, ListsOK
<1>9. next[used] = Nil
  BY <1>4, <1>6, <1>8
<1>10. ASSUME \A n \in Node \ (InBin(b) \cup {used}) : next'[n] = next[n],
              \A c \in Bin \ {b} : head'[c] = head[c], ListOK(b)', next'[used] = Nil
       PROVE  ListsOK'
  <2>1. ASSUME NEW c \in Bin, c # b PROVE ListOK(c)'
    <3>1. \A n \in InBin(c) : n \notin InBin(b) \cup {used}
      BY <1>6, <1>7, <2>1 DEF InBin
    <3>2. InBin(c)' = InBin(c) /\ head'[c] = head[c] /\ \A n \in InBin(c) : next'[n] = next[n]
      BY <1>6, <1>7, <1>10, <2>1, <3>1
    <3> QED
      BY <1>8, <3>2 DEF ListOK
  <2>2. \A n \in Node \ InList' : next'[n] = Nil
    BY <1>6, <1>7, <1>8, <1>10
  <2> QED
    BY <1>10, <2>1, <2>2 DEF ListsOK
<1>11. UNCHANGED phase /\ ListsOK'
  <2>1. CASE last[t] = Nil
    <3>1. head[b] = Nil /\ InBin(b) = {}
      BY <1>4, <1>8, <2>1 DEF ListOK
    <3>2. UNCHANGED <<phase, next>> /\ head' = [head EXCEPT ![b] = used]
      BY <1>b, <1>4, <3>1 DEF Link, Target
    <3>3. head'[b] = used /\ InBin(b)' = {used} /\ next'[used] = Nil
      BY <1>1, <1>7, <1>9, <3>1, <3>2
    <3>4. ListOK(b)'
      BY <1>4, <1>6, <3>3 DEF ListOK
    <3> QED
      BY <1>1, <1>9, <1>10, <3>2, <3>4
  <2>2. CASE last[t] # Nil
    <3>1. PICK z \in InBin(b) : z = last[t] /\ next[z] = Nil
      BY <1>4, <2>2
    <3>2. head[b] # Nil /\ \A m \in InBin(b) : m <= z
      BY <1>8, <3>1 DEF ListOK
    <3>3. UNCHANGED <<phase, head>> /\ next' = [next EXCEPT ![z] = used]
      BY <1>b, <1>4, <2>2, <3>1, <3>2 DEF Link, Target
    <3>4. /\ next'[z] = used /\ z # used /\ z \in Node /\ next'[used] = Nil
          /\ \A n \in Node \ {z} : next'[n] = next[n]
      BY <1>1, <1>6, <1>7, <1>9, <1>4, <3>1, <3>3
    <3>5. \A m \in InBin(b) : m \in Nat /\ m < used /\ m \in Node
      BY <1>6, <1>7
    <3>6. /\ head'[b] \in InBin(b)' /\ head'[b] # Nil
          /\ \A m \in InBin(b)' : m >= head'[b]
      <4>1. head[b] \in InBin(b) /\ \A m \in InBin(b) : m >= head[b]
        BY <1>8, <3>2 DEF ListOK
      <4> QED
        BY <1>4, <1>7, <3>2, <3>3, <3>5, <4>1
    <3>7. ASSUME NEW n \in InBin(b) \cup {used}
          PROVE  IF next'[n] = Nil THEN \A m \in InBin(b) \cup {used} : m <= n
                 ELSE /\ next'[n] \in InBin(b) \cup {used} /\ n < next'[n]
                      /\ \A m \in InBin(b) \cup {used} : m <= n \/ m >= next'[n]
      <4>1. CASE n = used
        BY <1>4, <3>4, <3>5, <4>1
      <4>2. CASE n = z
        BY <1>4, <1>6, <3>2, <3>4, <3>5, <4>2
      <4>3. CASE n \in InBin(b) /\ n # z
        <5>1. next'[n] = next[n]
          BY <3>4, <3>5, <4>3
        <5>2. ~(z <= n)
          BY <3>1, <3>2, <3>5, <4>3
        <5>3. /\ next[n] # Nil /\ next[n] \in InBin(b) /\ n < next[n]
              /\ \A m \in InBin(b) : m <= n \/ m >= next[n]
          BY <1>8, <3>1, <4>3, <5>2 DEF ListOK
        <5> QED
          BY <1>4, <3>5, <5>1, <5>3
      <4> QED
        BY <4>1, <4>2, <4>3
    <3>8. ListOK(b)'
      BY <1>7, <3>6, <3>7 DEF ListOK
    <3> QED
      BY <1>6, <1>7, <1>10, <3>1, <3>3, <3>4, <3>8
  <2> QED
    BY <2>1, <2>2
<1>12. WalkOK' /\ LinkOK'
  BY <1>3 DEF WalkOK, LinkOK
<1>13. OneEntryEach'
  BY <1>1 DEF Locked, OrderInv, OneEntryEach
<1> QED
  BY <1>11, <1>12, <1>13 DEF OrderInv

\* The other steps neither touch a list nor bring a thread into one.
LEMMA OrderElse ==
    ASSUME Locked, [Next]_vars,
           \A t \in Thread : ~(Acquire(t) \/ Walk(t) \/ NewPair(t) \/ Link(t))
    PROVE  OrderInv'
<1>1. pc \in [Thread -> PC]
  BY DEF Locked, TInv, ItemsOK
<1>2. CASE MainStep
  <2>1. UNCHANGED <<pc, head, loc, next, used, item, at, last>>
    BY <1>2 DEF MainStep, EnterMain, ReturnMain, PrintRow, PrintNextBin, End, vars, table, cursor
  <2> QED
    BY <2>1, OrderFrame DEF Locked, Linking
<1>3. ASSUME NEW t \in Thread,
             \/ \E l \in Loc, evs \in SUBSET Event : Check(t, l, evs)
             \/ Read(t) \/ Write(t) \/ Release(t) \/ Trap(t)
      PROVE  OrderInv'
  <2>1. UNCHANGED <<head, loc, next, used, at, last>>
    BY <1>3 DEF Check, Read, Write, Release, Trap, table, cursor
  <2>2. pc[t] \notin {"walk", "link"}
    BY <1>3 DEF Check, Read, Write, Release, Trap
  <2>3. pc' = pc \/ \E place \in PC \ {"walk", "link"} : pc' = [pc EXCEPT ![t] = place]
    BY <1>3 DEF Check, Read, Write, Release, Trap, Goto, PC
  <2>4. \A u \in Thread \ {t} : item'[u] = item[u]
    BY <1>3 DEF Locked, TInv, ItemsOK, Check, Read, Write, Release, Trap
  <2>5. \A u \in Thread : pc'[u] \in {"walk", "link"} \/ pc[u] \in {"walk", "link"}
                              => u # t /\ pc'[u] = pc[u]
    BY <1>1, <2>2, <2>3
  <2>6. Linking' = Linking
    BY <2>5 DEF Linking
  <2> QED
    BY <2>1, <2>4, <2>5, <2>6, OrderFrame DEF Locked
<1> QED
  BY <1>2, <1>3 DEF Next, InCheck, Stopped, MainStep

LEMMA OrderStep == Guarded /\ TInv /\ LockOK /\ OrderInv /\ [Next]_vars => OrderInv'
  BY OrderAcquire, OrderWalk, OrderNewPair, OrderLink, OrderElse DEF Locked

LEMMA GuardedInv ==
    ASSUME Guarded
    PROVE  Spec => [](TInv /\ LockOK /\ OrderInv)
<1>1. Init => TInv /\ LockOK /\ OrderInv
  BY TInvInit, LockInit, OrderInit
<1>2. TInv /\ LockOK /\ OrderInv /\ [Next]_vars => (TInv /\ LockOK /\ OrderInv)'
  BY TInvStep, LockStep, OrderStep
<1> QED
  BY <1>1, <1>2, PTL DEF Spec

\* With the lock, no two threads are in the table at once.
THEOREM OneInTable ==
    ASSUME Guarded
    PROVE  Spec => [](\A t, u \in Thread : pc[t] \in Critical /\ pc[u] \in Critical => t = u)
<1>1. LockOK => \A t, u \in Thread : pc[t] \in Critical /\ pc[u] \in Critical => t = u
  BY DEF LockOK
<1> QED
  BY <1>1, GuardedInv, PTL

\* With the lock, no location ever gets a second entry, for any number of
\* threads: whoever appends one has seen all of its bin.
THEOREM EntriesOnce == ASSUME Guarded PROVE Spec => []OneEntryEach
<1>1. OrderInv => OneEntryEach
  BY DEF OrderInv
<1> QED
  BY <1>1, GuardedInv, PTL

\* Once the process is aborted nothing runs, so the trap stays visible.
LEMMA TrapStep ==
    ASSUME Locked, OnlyTrapsAbort, [Next]_vars
    PROVE  OnlyTrapsAbort'
<1>1. CASE phase = "aborted"
  <2>1. \A t \in Thread : ~Runs(t)
    BY <1>1 DEF Runs
  <2>2. \A t \in Thread : ~InCheck(t)
    BY <2>1 DEF InCheck, Check, Acquire, Walk, NewPair, Link, Read, Write, Release, Trap
  <2>3. UNCHANGED <<pc, item, phase>>
    BY <1>1, <2>2 DEF Next, EnterMain, ReturnMain, PrintRow, PrintNextBin, End, Stopped, vars
  <2> QED
    BY <2>3 DEF OnlyTrapsAbort, Trapped
<1>2. CASE phase # "aborted"
  <2> SUFFICES ASSUME phase' = "aborted" PROVE \E t \in Thread : pc'[t] = "trap" /\ Trapped(t)'
    BY DEF OnlyTrapsAbort
  <2>1. PICK t \in Thread : Link(t) \/ Trap(t)
    BY <1>2 DEF Next, InCheck, Check, Acquire, Walk, NewPair, Read, Write, Release,
                EnterMain, ReturnMain, PrintRow, PrintNextBin, End, Stopped, vars
  <2>2. Trap(t) /\ Trapped(t) /\ UNCHANGED <<pc, item>>
    BY <1>2, <2>1, OrderLink DEF Trap
  <2> QED
    BY <2>2 DEF Trap, Trapped
<1> QED
  BY <1>1, <1>2

\* With the lock, the checks never bring the program down: an entry that does
\* not head its bin has a predecessor.  Only a trap interrupts it.
THEOREM TrapsOnly == ASSUME Guarded PROVE Spec => []OnlyTrapsAbort
<1>1. Init => OnlyTrapsAbort
  BY DEF Init, OnlyTrapsAbort
<1>2. TInv /\ LockOK /\ OrderInv /\ OnlyTrapsAbort /\ [Next]_vars => OnlyTrapsAbort'
  BY TrapStep DEF Locked
<1> QED
  BY <1>1, <1>2, GuardedInv, PTL DEF Spec
-----------------------------------------------------------------------------
(* Sums and lists: the model's recursive functions exist.                  *)

\* A set of naturals has a least element.
LEMMA Least ==
    ASSUME NEW S \in SUBSET Nat, S # {}
    PROVE  \E d \in S : \A e \in S : d <= e
  <1>1. PICK x \in S : \A y \in S : ~(<<y, x>> \in OpToRel(<, Nat))
    BY NatLessThanWellFounded, WFMin, Zenon
  <1>2. \A y \in S : ~(y < x)
    BY <1>1, Zenon DEF OpToRel
  <1> QED
    BY <1>2

\* f starts with A and goes on with G.
Iterates(f, D, A, G, N) == /\ f \in [0..N -> D] /\ f[0] = A
                           /\ \A k \in 1..N : f[k] = G[f[k - 1]]

\* A function that iterates another one exists.
LEMMA IterateExists ==
    ASSUME NEW D, NEW A \in D, NEW G \in [D -> D], NEW N \in Nat
    PROVE  \E f : Iterates(f, D, A, G, N)
<1> DEFINE Bad == {m \in Nat : ~ \E f : Iterates(f, D, A, G, m)}
<1>1. Bad = {}
  <2> SUFFICES ASSUME Bad # {} PROVE FALSE
    OBVIOUS
  <2>1. PICK m \in Bad : \A e \in Bad : m <= e
    <3>1. Bad \in SUBSET Nat
      OBVIOUS
    <3> HIDE DEF Bad
    <3> QED
      BY <3>1, Least
  <2>2. CASE m = 0
    <3> DEFINE f == [k \in 0..0 |-> A]
    <3>1. Iterates(f, D, A, G, m)
      BY <2>2 DEF Iterates
    <3> QED
      BY <2>1, <3>1
  <2>3. CASE m # 0
    <3>0. m \in Nat /\ m - 1 \in Nat
      BY <2>1, <2>3
    <3>1. m - 1 \notin Bad
      <4> HIDE DEF Bad
      <4> QED
        BY <2>1, <3>0
    <3>2. PICK f : Iterates(f, D, A, G, m - 1)
      BY <3>0, <3>1
    <3> DEFINE g == [k \in 0..m |-> IF k = m THEN G[f[m - 1]] ELSE f[k]]
    <3>3. f[m - 1] \in D
      BY <3>0, <3>2 DEF Iterates
    <3>4. g \in [0..m -> D] /\ g[0] = A /\ g[m] = G[g[m - 1]]
      BY <3>0, <3>2, <3>3, <2>3 DEF Iterates
    <3>5. \A k \in 1..(m - 1) : g[k] = f[k] /\ g[k - 1] = f[k - 1] /\ f[k] = G[f[k - 1]]
      BY <3>0, <3>2 DEF Iterates
    <3> HIDE DEF g
    <3>6. ASSUME NEW k \in 1..m PROVE g[k] = G[g[k - 1]]
      <4>1. CASE k = m
        BY <3>4, <4>1
      <4>2. CASE k # m
        <5>1. k \in 1..(m - 1)
          BY <3>0, <4>2
        <5>2. g[k] = f[k] /\ g[k - 1] = f[k - 1] /\ f[k] = G[f[k - 1]]
          BY <3>5, <5>1
        <5> QED
          BY <5>2
      <4> QED
        BY <4>1, <4>2
    <3>7. Iterates(g, D, A, G, m)
      BY <3>4, <3>6 DEF Iterates
    <3> QED
      BY <2>1, <3>7
  <2> QED
    BY <2>2, <2>3
<1> QED
  BY <1>1

Heads == {head[b] : b \in Bin} \ {Nil}
Nexts(S) == {next[n] : n \in S} \ {Nil}

\* What Within is from one link to the next.
LEMMA WithinDef ==
    ASSUME TInv
    PROVE  /\ Within[0] = Heads /\ MaxChecks \in Nat
           /\ \A k \in 1..MaxChecks : Within[k] = Within[k - 1] \cup Nexts(Within[k - 1])
           /\ \A k \in 0..MaxChecks : Within[k] \subseteq Node
<1>1. MaxChecks \in Nat
  BY EventsAssumption
<1> DEFINE D == SUBSET Node
           G == [S \in D |-> S \cup Nexts(S)]
           Is(f) == f = [k \in 0..MaxChecks |->
                            IF k = 0 THEN {head[b] : b \in Bin} \ {Nil}
                            ELSE f[k - 1] \cup ({next[n] : n \in f[k - 1]} \ {Nil})]
           W == CHOOSE f : Is(f)
<1>2. Heads \in D /\ G \in [D -> D]
  BY UsedFits DEF TInv, TableOK, EntryOrNil, Heads, Nexts
<1>a. PICK f : Iterates(f, D, Heads, G, MaxChecks)
  <2> HIDE DEF D, G
  <2> QED
    BY <1>1, <1>2, IterateExists
<1>3. f \in [0..MaxChecks -> D] /\ f[0] = Heads /\ \A k \in 1..MaxChecks : f[k] = G[f[k - 1]]
  BY <1>a DEF Iterates
<1>4. \A k \in 1..MaxChecks : f[k] = f[k - 1] \cup Nexts(f[k - 1])
  <2> SUFFICES ASSUME NEW k \in 1..MaxChecks PROVE f[k] = f[k - 1] \cup Nexts(f[k - 1])
    OBVIOUS
  <2>1. k - 1 \in 0..MaxChecks
    BY <1>1
  <2>2. f[k - 1] \in D
    BY <1>3, <2>1, Zenon
  <2> HIDE DEF D
  <2> QED
    BY <1>3, <2>2
<1>5. Is(f)
  BY <1>1, <1>3, <1>4 DEF Heads, Nexts
<1>6. Is(W)
  <2> HIDE DEF Is
  <2> QED
    BY <1>5
<1>7. Within = W
  BY DEF Within
<1> HIDE DEF W
<1>8. W[0] = Heads
  BY <1>1, <1>6 DEF Heads
<1>9. \A k \in 1..MaxChecks : W[k] = W[k - 1] \cup Nexts(W[k - 1])
  BY <1>1, <1>6 DEF Nexts
<1>10. \A k \in 0..MaxChecks : W[k] \subseteq Node
  <2> DEFINE Bad == {k \in 0..MaxChecks : ~(W[k] \subseteq Node)}
  <2> SUFFICES ASSUME Bad # {} PROVE FALSE
    OBVIOUS
  <2>1. PICK k \in Bad : \A i \in Bad : k <= i
    <3>1. Bad \in SUBSET Nat
      BY <1>1
    <3> HIDE DEF Bad
    <3> QED
      BY <3>1, Least
  <2>2. k # 0
    BY <2>1, <1>2, <1>8
  <2>3. k \in 1..MaxChecks /\ k - 1 \in 0..MaxChecks /\ k - 1 \notin Bad
    <3>1. k \in 0..MaxChecks /\ k - 1 \in Int /\ ~(k <= k - 1)
      BY <1>1, <2>1
    <3> HIDE DEF Bad
    <3> QED
      BY <1>1, <2>1, <2>2, <3>1
  <2>4. W[k - 1] \in D
    BY <2>3
  <2>5. W[k - 1] \cup Nexts(W[k - 1]) \in D
    BY <1>2, <2>4
  <2> QED
    BY <1>9, <2>1, <2>3, <2>5
<1> QED
  BY <1>1, <1>7, <1>8, <1>9, <1>10

\* Sums of one term.
LEMMA SumOne ==
    ASSUME NEW F, NEW e, NEW x, F[x][e] \in Nat
    PROVE  MapThenSumSet(LAMBDA n : F[n][e], {x}) = F[x][e]
<1> DEFINE Is(g) == g = [s \in SUBSET {x} |->
                            IF s = {} THEN 0
                            ELSE F[CHOOSE y \in s : TRUE][e] + g[s \ {CHOOSE y \in s : TRUE}]]
           Sum == CHOOSE g : Is(g)
<1>1. \E g : Is(g)
  <2> DEFINE g == [s \in SUBSET {x} |-> IF s = {} THEN 0 ELSE F[x][e]]
  <2>1. SUBSET {x} = {{}, {x}}
    OBVIOUS
  <2>2. (CHOOSE y \in {x} : TRUE) = x
    OBVIOUS
  <2>3. Is(g)
    BY <2>1, <2>2
  <2> QED
    BY <2>3
<1>2. Is(Sum)
  BY <1>1
<1>3. MapThenSumSet(LAMBDA n : F[n][e], {x}) = Sum[{x}]
  BY DEF MapThenSumSet, MapThenFoldSet
<1> HIDE DEF Sum
<1>4. Sum[{x}] = F[x][e] + Sum[{}] /\ Sum[{}] = 0
  <2>1. (CHOOSE y \in {x} : TRUE) = x /\ {x} \ {x} = {}
    OBVIOUS
  <2> QED
    BY <1>2, <2>1
<1> QED
  BY <1>3, <1>4

LEMMA SumRow ==
    ASSUME NEW e, NEW x, x.cnt[e] \in Nat
    PROVE  MapThenSumSet(LAMBDA r : r.cnt[e], {x}) = x.cnt[e]
<1> DEFINE Is(g) == g = [s \in SUBSET {x} |->
                            IF s = {} THEN 0
                            ELSE (CHOOSE y \in s : TRUE).cnt[e] + g[s \ {CHOOSE y \in s : TRUE}]]
           Sum == CHOOSE g : Is(g)
<1>1. \E g : Is(g)
  <2> DEFINE g == [s \in SUBSET {x} |-> IF s = {} THEN 0 ELSE x.cnt[e]]
  <2>1. SUBSET {x} = {{}, {x}}
    OBVIOUS
  <2>2. (CHOOSE y \in {x} : TRUE) = x
    OBVIOUS
  <2>3. Is(g)
    BY <2>1, <2>2
  <2> QED
    BY <2>3
<1>2. Is(Sum)
  BY <1>1
<1>3. MapThenSumSet(LAMBDA r : r.cnt[e], {x}) = Sum[{x}]
  BY DEF MapThenSumSet, MapThenFoldSet
<1> HIDE DEF Sum
<1>4. Sum[{x}] = x.cnt[e] + Sum[{}] /\ Sum[{}] = 0
  <2>1. (CHOOSE y \in {x} : TRUE) = x /\ {x} \ {x} = {}
    OBVIOUS
  <2> QED
    BY <1>2, <2>1
<1> QED
  BY <1>3, <1>4

\* What the report walks over: the entries of the lists, neither more nor less.
LEMMA ListedIsInList == ASSUME TInv, OrderInv PROVE Listed = InList
<1>1. /\ InList \subseteq Entry /\ Entry \subseteq Node /\ Node \subseteq Nat
      /\ Nil \notin Nat /\ MaxChecks \in Nat /\ used \in Nat /\ used <= MaxChecks
  BY UsedFits, EventsAssumption DEF TInv, RoomOK, InList, Entry, Node
<1>2. /\ \A b \in Bin : ListOK(b)
      /\ \A n \in Node \ InList : next[n] = Nil
      /\ \A b : InBin(b) \subseteq InList
  BY DEF OrderInv, ListsOK, InBin
<1>3. \A n \in InList : BinOf[loc[n]] \in Bin
  BY <1>1, EventsAssumption DEF TInv, TableOK
<1>4. Heads \subseteq InList
  BY <1>2 DEF Heads, ListOK
<1>5. \A S \in SUBSET InList : Nexts(S) \subseteq InList
  <2> SUFFICES ASSUME NEW n \in InList, next[n] # Nil PROVE next[n] \in InList
    BY DEF Nexts
  <2>1. n \in InBin(BinOf[loc[n]])
    BY DEF InBin
  <2> QED
    BY <1>2, <1>3, <2>1 DEF ListOK
<1>6. \A k \in 0..MaxChecks : Within[k] \subseteq InList
  <2> DEFINE Bad == {k \in 0..MaxChecks : ~(Within[k] \subseteq InList)}
  <2> SUFFICES ASSUME Bad # {} PROVE FALSE
    OBVIOUS
  <2>1. PICK k \in Bad : \A i \in Bad : k <= i
    <3>1. Bad \in SUBSET Nat
      BY <1>1
    <3> HIDE DEF Bad
    <3> QED
      BY <3>1, Least
  <2>2. k # 0
    BY <2>1, <1>4, WithinDef
  <2>3. k \in 1..MaxChecks /\ k - 1 \in 0..MaxChecks /\ k - 1 \notin Bad
    <3>1. k \in 0..MaxChecks /\ k - 1 \in Int /\ ~(k <= k - 1)
      BY <1>1, <2>1
    <3> HIDE DEF Bad
    <3> QED
      BY <1>1, <2>1, <2>2, <3>1
  <2>4. Within[k] = Within[k - 1] \cup Nexts(Within[k - 1])
    BY <2>3, WithinDef
  <2> QED
    BY <1>5, <2>1, <2>3, <2>4
<1>7. ASSUME NEW n \in InList, n # head[BinOf[loc[n]]]
      PROVE  \E p \in InList : p < n /\ next[p] = n
  <2>1. PICK b \in Bin : b = BinOf[loc[n]] /\ n \in InBin(b)
    BY <1>3 DEF InBin
  <2>2. ListOK(b) /\ InBin(b) \subseteq Nat /\ InBin(b) \subseteq InList
    BY <1>1, <1>2
  <2>3. head[b] \in InBin(b) /\ head[b] <= n
    BY <2>1, <2>2 DEF ListOK
  <2> DEFINE Gap == {d \in Nat : \E m \in InBin(b) : m < n /\ d = n - m}
  <2>4. n - head[b] \in Gap
    BY <1>7, <2>1, <2>2, <2>3
  <2>5. PICK d \in Gap : \A e \in Gap : d <= e
    <3>1. Gap \in SUBSET Nat
      OBVIOUS
    <3> HIDE DEF Gap
    <3> QED
      BY <2>4, <3>1, Least
  <2>6. PICK p \in InBin(b) : p < n /\ d = n - p
    BY <2>5
  <2>7. \A m \in InBin(b) : m < n => m <= p
    <3> SUFFICES ASSUME NEW m \in InBin(b), m < n PROVE m <= p
      OBVIOUS
    <3>1. n - m \in Gap
      BY <2>1, <2>2
    <3> HIDE DEF Gap
    <3>2. d <= n - m
      BY <2>5, <3>1
    <3> QED
      BY <2>1, <2>2, <2>6, <3>2
  <2>8. next[p] # Nil /\ next[p] \in InBin(b) /\ p < next[p] /\ \A m \in InBin(b) : m <= p \/ m >= next[p]
    BY <2>1, <2>2, <2>6 DEF ListOK
  <2> QED
    BY <2>1, <2>2, <2>6, <2>7, <2>8
<1>8. \A n \in InList : n \in 0..MaxChecks /\ n \in Within[n]
  <2> DEFINE Bad == {n \in InList : n \notin Within[n]}
  <2>0. \A n \in InList : n \in 1..MaxChecks
    BY <1>1 DEF Entry
  <2> SUFFICES ASSUME Bad # {} PROVE FALSE
    BY <2>0
  <2>1. PICK n \in Bad : \A i \in Bad : n <= i
    <3>1. Bad \in SUBSET Nat
      BY <1>1
    <3> HIDE DEF Bad
    <3> QED
      BY <3>1, Least
  <2>2. n \in 1..MaxChecks /\ n \in InList /\ n \notin Within[n]
    BY <2>0, <2>1
  <2>3. ASSUME NEW k \in 0..MaxChecks, k < n, n \in Within[k] \/ n \in Nexts(Within[k]) PROVE FALSE
    <3> DEFINE Late == {i \in 0..MaxChecks : i > k /\ n \notin Within[i]}
    <3>1. n \in Late
      BY <2>2, <2>3
    <3>2. PICK i \in Late : \A j \in Late : i <= j
      <4>1. Late \in SUBSET Nat
        BY <1>1
      <4> HIDE DEF Late
      <4> QED
        BY <3>1, <4>1, Least
    <3>3. i \in 1..MaxChecks /\ i - 1 \in 0..MaxChecks /\ i - 1 >= k /\ ~(i <= i - 1)
      BY <1>1, <3>2
    <3>4. n \in Within[i - 1] \cup Nexts(Within[i - 1])
      <4>1. CASE i - 1 = k
        BY <2>3, <4>1
      <4>2. CASE i - 1 # k
        BY <3>2, <3>3, <4>2
      <4> QED
        BY <4>1, <4>2
    <3> QED
      BY <3>2, <3>3, <3>4, WithinDef
  <2>4. CASE n = head[BinOf[loc[n]]]
    <3>1. n \in Heads
      BY <1>1, <1>3, <2>2, <2>4 DEF Heads
    <3> QED
      BY <1>1, <2>2, <2>3, <3>1, WithinDef
  <2>5. CASE n # head[BinOf[loc[n]]]
    <3>1. PICK p \in InList : p < n /\ next[p] = n
      BY <1>7, <2>2, <2>5
    <3>2. p \notin Bad
      BY <1>1, <2>1, <3>1
    <3>3. p \in Within[p]
      BY <3>2
    <3>4. n \in Nexts(Within[p])
      BY <1>1, <2>2, <3>1, <3>3 DEF Nexts
    <3> QED
      BY <2>0, <2>3, <3>1, <3>4
  <2> QED
    BY <2>4, <2>5
<1>9. \A n \in InList : n \in Within[MaxChecks]
  <2> SUFFICES ASSUME NEW n \in InList, n \notin Within[MaxChecks] PROVE FALSE
    OBVIOUS
  <2> DEFINE Late == {i \in 0..MaxChecks : i >= n /\ n \notin Within[i]}
  <2>1. MaxChecks \in Late /\ n \in Nat
    BY <1>1, <1>8
  <2>2. PICK i \in Late : \A j \in Late : i <= j
    <3>1. Late \in SUBSET Nat
      BY <1>1
    <3> HIDE DEF Late
    <3> QED
      BY <2>1, <3>1, Least
  <2>3. i # n
    BY <1>8, <2>2
  <2>4. i \in 1..MaxChecks /\ i - 1 \in 0..MaxChecks /\ i - 1 >= n /\ ~(i <= i - 1)
    BY <1>1, <2>1, <2>2, <2>3
  <2>5. n \in Within[i - 1]
    BY <2>2, <2>4
  <2> QED
    BY <2>2, <2>4, <2>5, WithinDef
<1>10. MaxChecks \in 0..MaxChecks
  BY <1>1
<1> QED
  BY <1>6, <1>9, <1>10, Zenon DEF Listed
-----------------------------------------------------------------------------
(* Events, with the lock.                                                  *)

\* Whether t is about to count event e at l.
Due(t, l, e) == pc[t] \in Counting /\ item[t].loc = l /\ e \in item[t].ev \cap item[t].todo
Plus(l, e) == IF \E t \in Thread : Due(t, l, e) THEN 1 ELSE 0

\* Every count of an entry, with what is due, is what has occurred; what has
\* occurred where there is no entry yet is due.
EntriesCounted == \A n \in InList, e \in Event : cnt[n][e] + Plus(loc[n], e) = made[loc[n]][e]
NewCounted == \A l \in Loc, e \in Event :
    (\A n \in InList : loc[n] # l) => made[l][e] = Plus(l, e)
\* A thread that counts does so at its location's entry, from the count there is.
AtEntry == \A t \in Thread :
    /\ pc[t] \in {"read", "write"} => at[t] \in InList /\ loc[at[t]] = item[t].loc
    /\ pc[t] = "write" => val[t] = cnt[at[t]][Field(t)]
    /\ pc[t] = "link" => \A e \in Event : cnt[at[t]][e] = Plus(item[t].loc, e)
CountInv == EntriesCounted /\ NewCounted /\ AtEntry

LEMMA InListOK ==
    ASSUME TInv
    PROVE  /\ InList \subseteq Entry /\ InList \subseteq Node /\ InList \subseteq Nat
           /\ Nil \notin InList /\ \A n \in InList : loc[n] \in Loc
  BY UsedFits, EventsAssumption DEF TInv, TableOK, RoomOK, InList, Entry, Node

LEMMA CountInit == Init => CountInv
<1> SUFFICES ASSUME Init PROVE CountInv
  OBVIOUS
<1>1. InList = {} /\ \A t \in Thread : pc[t] = "idle"
  BY DEF Init, InList, Linking
<1>2. \A l, e : Plus(l, e) = 0
  BY <1>1 DEF Plus, Due, Counting
<1> QED
  BY <1>1, <1>2 DEF Init, CountInv, EntriesCounted, NewCounted, AtEntry, Zero

\* Steps that count nothing.
LEMMA CountFrame ==
    ASSUME CountInv, UNCHANGED <<InList, made>>,
           \A n \in InList : loc'[n] = loc[n] /\ cnt'[n] = cnt[n],
           \A t \in Thread : /\ pc'[t] \in Counting <=> pc[t] \in Counting
                             /\ pc[t] \in Counting => item'[t] = item[t],
           AtEntry'
    PROVE  CountInv'
<1>1. \A l, e : Plus(l, e)' = Plus(l, e)
  BY DEF Plus, Due
<1> QED
  BY <1>1 DEF CountInv, EntriesCounted, NewCounted

LEMMA CountMain == ASSUME Locked, CountInv, MainStep PROVE CountInv'
<1>1. UNCHANGED <<table, pc, item, cursor, made>>
  BY DEF MainStep, EnterMain, ReturnMain, PrintRow, PrintNextBin, End, vars
<1>2. UNCHANGED <<InList, loc, cnt>> /\ (\A l, e : Plus(l, e)' = Plus(l, e))
  BY <1>1 DEF InList, Linking, table, Plus, Due
<1>3. AtEntry'
  BY <1>1, <1>2 DEF CountInv, AtEntry, Field, cursor
<1> QED
  BY <1>1, <1>2, <1>3, CountFrame

\* A thread that is not in the table.
LEMMA CountOutside ==
    ASSUME Locked, CountInv, NEW t \in Thread,
           \/ \E l \in Loc, evs \in SUBSET Event : Check(t, l, evs)
           \/ Acquire(t) /\ ~created
           \/ Release(t) \/ Trap(t)
    PROVE  CountInv'
<1>0. pc \in [Thread -> PC]
  BY DEF Locked, TInv, ItemsOK
<1>1. UNCHANGED <<head, loc, cnt, next, used, at, val, made>>
  BY DEF Check, Acquire, Release, Trap, table, cursor
<1>2. /\ pc[t] \notin Counting
      /\ pc' = pc \/ \E place \in PC \ Counting : pc' = [pc EXCEPT ![t] = place]
      /\ \A u \in Thread \ {t} : item'[u] = item[u]
  BY DEF Locked, TInv, ItemsOK, Check, Acquire, Release, Trap, Goto, Counting, PC
<1>3. \A u \in Thread : /\ pc'[u] \in Counting <=> pc[u] \in Counting
                        /\ pc[u] \in Counting => u # t /\ pc'[u] = pc[u] /\ item'[u] = item[u]
  BY <1>0, <1>2
<1>4. UNCHANGED InList
  BY <1>1, <1>3 DEF InList, Linking, Counting
<1>5. \A l, e : Plus(l, e)' = Plus(l, e)
  BY <1>3 DEF Plus, Due
<1>6. AtEntry'
  BY <1>1, <1>3, <1>4, <1>5 DEF CountInv, AtEntry, Field, Counting
<1> QED
  BY <1>1, <1>3, <1>4, <1>6, CountFrame

\* What a thread has counted once it has the table is due.
LEMMA CountAcquire == ASSUME Locked, CountInv, NEW t \in Thread, Acquire(t), created PROVE CountInv'
<1>1. /\ UNCHANGED <<head, loc, cnt, next, used, item, val>>
      /\ pc \in [Thread -> PC] /\ pc[t] = "lock" /\ lock = Nil
      /\ item[t].loc \in Loc /\ item[t].todo = Event /\ item[t].ev \subseteq Event
      /\ pc' = [pc EXCEPT ![t] = "walk"]
  BY DEF Locked, TInv, ItemsOK, Acquire, table, Goto
<1>2. \A u \in Thread : pc[u] \notin Critical
  BY <1>1, Alone DEF Critical
<1>3. \A u \in Thread \ {t} : pc'[u] \notin Critical
  BY <1>1, <1>2
<1>4. UNCHANGED InList
  BY <1>1, <1>2, <1>3 DEF InList, Linking, Critical
<1>5. \A l, e : Plus(l, e) = 0
  BY <1>2 DEF Plus, Due, Counting, Critical
<1>6. \A l, e : Plus(l, e)' = IF l = item[t].loc /\ e \in item[t].ev THEN 1 ELSE 0
  BY <1>1, <1>3 DEF Plus, Due, Counting, Critical
<1>7. \A l \in Loc, e \in Event : /\ made[l][e] \in Nat
                                  /\ made'[l][e] = made[l][e] + Plus(l, e)'
  BY <1>1, <1>6 DEF Locked, TInv, CountsOK, Counts, Acquire
<1>8. EntriesCounted'
  <2> SUFFICES ASSUME NEW n \in InList, NEW e \in Event
               PROVE  cnt[n][e] + Plus(loc[n], e)' = made'[loc[n]][e]
    BY <1>1, <1>4 DEF EntriesCounted, Plus, Due
  <2>1. loc[n] \in Loc /\ n \in Node
    BY InListOK DEF Locked
  <2>2. cnt[n][e] + 0 = made[loc[n]][e] /\ cnt[n][e] \in Nat
    BY <1>5, <2>1 DEF CountInv, EntriesCounted, Locked, TInv, CountsOK, Counts
  <2>3. PICK l \in Loc : l = loc[n]
    BY <2>1
  <2>4. Plus(loc[n], e)' = Plus(l, e)' /\ Plus(l, e)' \in Nat
    BY <1>1, <1>6, <2>3 DEF Plus, Due
  <2>5. made'[l][e] = made[l][e] + Plus(l, e)'
    BY <1>7
  <2> QED
    BY <2>2, <2>3, <2>4, <2>5
<1>9. NewCounted'
  <2> SUFFICES ASSUME NEW l \in Loc, NEW e \in Event, \A n \in InList : loc[n] # l
               PROVE  made'[l][e] = Plus(l, e)'
    BY <1>1, <1>4 DEF NewCounted
  <2>1. made[l][e] = 0
    BY <1>5 DEF CountInv, NewCounted
  <2>2. Plus(l, e)' \in Nat
    BY <1>6
  <2> QED
    BY <1>7, <2>1, <2>2
<1>10. AtEntry'
  BY <1>1, <1>3 DEF AtEntry, Critical
<1> QED
  BY <1>8, <1>9, <1>10 DEF CountInv

LEMMA CountWalk == ASSUME Locked, CountInv, NEW t \in Thread, Walk(t) PROVE CountInv'
<1>1. /\ UNCHANGED <<head, loc, cnt, next, used, item, val, made>>
      /\ pc \in [Thread -> PC] /\ pc[t] = "walk"
      /\ \/ UNCHANGED pc
         \/ Found(t) /\ pc' = [pc EXCEPT ![t] = "read"] /\ UNCHANGED at
  BY DEF Locked, TInv, ItemsOK, Walk, table, Goto
<1>2. \A u \in Thread \ {t} : pc[u] \notin Critical
  BY <1>1, Alone DEF Critical
<1>3. \A u \in Thread : /\ pc'[u] \in Counting <=> pc[u] \in Counting
                        /\ pc'[u] \notin {"link", "write"} /\ pc[u] # "link"
                        /\ pc'[u] = "read" => u = t /\ Found(t) /\ UNCHANGED at
  BY <1>1, <1>2 DEF Counting, Critical
<1>4. UNCHANGED InList
  BY <1>1, <1>3 DEF InList, Linking
<1>5. AtEntry'
  <2>1. ASSUME pc'[t] = "read" PROVE at[t] \in InList /\ loc[at[t]] = item[t].loc
    <3>1. at[t] # Nil /\ Found(t)
      BY <1>3, <2>1 DEF Walk
    <3> QED
      BY <1>1, <3>1 DEF Locked, OrderInv, WalkOK, InBin, Found
  <2> QED
    BY <1>1, <1>3, <1>4, <2>1 DEF AtEntry
<1> QED
  BY <1>1, <1>3, <1>4, <1>5, CountFrame

LEMMA CountNewPair == ASSUME Locked, CountInv, NEW t \in Thread, NewPair(t) PROVE CountInv'
<1>1. /\ UNCHANGED <<head, next, item, last, val, made>>
      /\ pc \in [Thread -> PC] /\ pc[t] = "walk" /\ pc' = [pc EXCEPT ![t] = "link"]
      /\ used \in Nat /\ used' = used + 1 /\ at'[t] = used + 1
      /\ item[t].todo = Event
  BY DEF Locked, TInv, ItemsOK, CursorsOK, RoomOK, NewPair, Goto
<1>2. \A u \in Thread \ {t} : pc[u] \notin Critical
  BY <1>1, Alone DEF Critical
<1>3. \A u \in Thread : pc'[u] \in Critical => u = t
  BY <1>1, <1>2
<1>4. ~Linking /\ Linking'
  BY <1>1, <1>2 DEF Linking, Critical
<1>5. InList = 1..used /\ InList' = InList /\ used + 1 \notin InList
  BY <1>1, <1>4 DEF InList
<1>6. used + 1 \in Node
  BY <1>1, RoomLeft DEF Locked, TInv
<1>7. \A n \in InList : loc'[n] = loc[n] /\ cnt'[n] = cnt[n]
  BY <1>1, <1>5, <1>6, InListOK DEF Locked, TInv, TableOK, CountsOK, NewPair
<1>8. cnt'[used + 1] = [e \in Event |-> IF e \in item[t].ev THEN 1 ELSE 0]
  BY <1>6 DEF Locked, TInv, CountsOK, NewPair
<1>9. \A e \in Event : Plus(item[t].loc, e)' = IF e \in item[t].ev THEN 1 ELSE 0
  BY <1>1, <1>3 DEF Plus, Due, Counting, Critical
<1>10. AtEntry'
  BY <1>1, <1>3, <1>8, <1>9 DEF AtEntry, Critical
<1>11. \A u \in Thread : pc'[u] \in Counting <=> pc[u] \in Counting
  BY <1>1 DEF Counting
<1> QED
  BY <1>1, <1>5, <1>7, <1>10, <1>11, CountFrame

\* The new entry is counted as it is linked.
LEMMA CountLink == ASSUME Locked, CountInv, NEW t \in Thread, Link(t) PROVE CountInv'
<1>1. /\ UNCHANGED <<loc, cnt, used, at, val, made>>
      /\ pc \in [Thread -> PC] /\ pc[t] = "link" /\ pc' = [pc EXCEPT ![t] = "unlock"]
      /\ item[t].loc \in Loc /\ used \in Nat
  BY DEF Locked, TInv, ItemsOK, RoomOK, Link, Goto, cursor
<1>2. \A u \in Thread \ {t} : pc[u] \notin Critical
  BY <1>1, Alone DEF Critical
<1>3. \A u \in Thread : pc'[u] \notin Counting
  BY <1>1, <1>2 DEF Counting, Critical
<1>4. at[t] = used /\ used \in Entry /\ loc[used] = item[t].loc
  BY <1>1 DEF Locked, OrderInv, LinkOK
<1>5. InList = 1..(used - 1) /\ InList' = 1..used
  BY <1>1, <1>3 DEF InList, Linking, Counting
<1>6. InList' = InList \cup {used} /\ used \notin InList /\ InList' \subseteq Node
  BY <1>1, <1>4, <1>5, UsedFits DEF Entry, Locked, TInv
<1>7. \A n \in InList : loc[n] # item[t].loc
  BY <1>1, <1>4, <1>5, <1>6 DEF Locked, OrderInv, OneEntryEach, Entry
<1>8. \A l, e : l # item[t].loc => Plus(l, e) = 0
  BY <1>1, <1>2 DEF Plus, Due, Counting, Critical
<1>9. \A l, e : Plus(l, e)' = 0
  BY <1>3 DEF Plus, Due
<1>10. EntriesCounted'
  <2> SUFFICES ASSUME NEW n \in InList', NEW e \in Event
               PROVE  cnt[n][e] + 0 = made[loc[n]][e]
    BY <1>1, <1>9 DEF EntriesCounted
  <2>1. CASE n = used
    <3>1. cnt[used][e] = Plus(item[t].loc, e) /\ made[item[t].loc][e] = Plus(item[t].loc, e)
      BY <1>1, <1>4, <1>7 DEF CountInv, AtEntry, NewCounted
    <3>2. Plus(item[t].loc, e) \in Nat
      BY DEF Plus
    <3> QED
      BY <1>4, <2>1, <3>1, <3>2
  <2>2. CASE n # used
    BY <1>6, <1>7, <1>8, <2>2 DEF CountInv, EntriesCounted
  <2> QED
    BY <2>1, <2>2
<1>11. NewCounted'
  <2> SUFFICES ASSUME NEW l \in Loc, NEW e \in Event, \A n \in InList' : loc[n] # l
               PROVE  made[l][e] = 0
    BY <1>1, <1>9 DEF NewCounted
  <2>1. l # item[t].loc /\ \A n \in InList : loc[n] # l
    BY <1>4, <1>6
  <2> QED
    BY <1>8, <2>1 DEF CountInv, NewCounted
<1>12. AtEntry'
  BY <1>3 DEF AtEntry, Counting
<1> QED
  BY <1>10, <1>11, <1>12 DEF CountInv

LEMMA CountRead == ASSUME Locked, CountInv, NEW t \in Thread, Read(t) PROVE CountInv'
<1>1. /\ UNCHANGED <<head, loc, cnt, next, used, item, at, made>>
      /\ pc \in [Thread -> PC] /\ pc[t] = "read" /\ pc' = [pc EXCEPT ![t] = "write"]
      /\ val'[t] = cnt[at[t]][Field(t)] /\ Field(t)' = Field(t)
  BY DEF Locked, TInv, ItemsOK, CountsOK, Read, table, Goto, Field
<1>2. \A u \in Thread \ {t} : pc[u] \notin Critical
  BY <1>1, Alone DEF Critical
<1>3. \A u \in Thread : /\ pc'[u] \in Counting <=> pc[u] \in Counting
                        /\ pc'[u] \in Critical => u = t
                        /\ pc[u] # "link" /\ pc'[u] # "link"
  BY <1>1, <1>2 DEF Counting, Critical
<1>4. UNCHANGED InList
  BY <1>1, <1>3 DEF InList, Linking
<1>5. AtEntry'
  <2>1. at[t] \in InList /\ loc[at[t]] = item[t].loc
    BY <1>1 DEF CountInv, AtEntry
  <2> QED
    BY <1>1, <1>3, <1>4, <2>1 DEF AtEntry, Critical
<1> QED
  BY <1>1, <1>3, <1>4, <1>5, CountFrame

\* A field is added to as its event stops being due.
LEMMA CountWrite == ASSUME Locked, CountInv, NEW t \in Thread, Write(t) PROVE CountInv'
<1> DEFINE n0 == at[t]
           f == Field(t)
<1>1. /\ UNCHANGED <<head, loc, next, used, at, val, made>>
      /\ pc \in [Thread -> PC] /\ pc[t] = "write"
      /\ pc' = [pc EXCEPT ![t] = "unlock"] \/ pc' = [pc EXCEPT ![t] = "read"]
      /\ item[t].todo # {} /\ item[t].todo \subseteq Event
      /\ (pc'[t] = "unlock") <=> item[t].todo = {f}
  BY DEF Locked, TInv, ItemsOK, Write, cursor, Goto, LastField
<1>2. f \in item[t].todo /\ f \in Event
  BY <1>1 DEF Field
<1>3. n0 \in InList /\ loc[n0] = item[t].loc /\ val[t] = cnt[n0][f] /\ n0 \in Node
  BY <1>1, InListOK DEF CountInv, AtEntry, Locked
<1> HIDE DEF n0, f
<1>4. /\ item'[t].loc = item[t].loc /\ item'[t].ev = item[t].ev
      /\ item'[t].todo = item[t].todo \ {f}
  BY DEF Locked, TInv, ItemsOK, Write, f
<1>5. \A u \in Thread \ {t} : pc[u] \notin Critical /\ pc'[u] \notin Critical
  BY <1>1, Alone DEF Critical
<1>6. UNCHANGED InList
  BY <1>1, <1>5 DEF InList, Linking, Critical
<1>7. \A l, e : Plus(l, e) = IF l = item[t].loc /\ e \in item[t].ev \cap item[t].todo THEN 1 ELSE 0
  BY <1>1, <1>5 DEF Plus, Due, Counting, Critical
<1>8. \A l, e : Plus(l, e)' = IF l = item[t].loc /\ e \in item[t].ev \cap (item[t].todo \ {f})
                              THEN 1 ELSE 0
  <2>1. pc'[t] \in Counting \/ item[t].todo \ {f} = {}
    BY <1>1 DEF Counting
  <2> QED
    BY <1>1, <1>4, <1>5, <2>1 DEF Plus, Due, Counting, Critical
<1>9. /\ \A n \in Node \ {n0} : cnt'[n] = cnt[n]
      /\ \A e \in Event : cnt'[n0][e] = IF e = f /\ e \in item[t].ev THEN cnt[n0][e] + 1
                                        ELSE cnt[n0][e]
  <2>1. cnt' = [cnt EXCEPT ![n0] = [cnt[n0] EXCEPT ![f] =
                   IF f \in item[t].ev THEN val[t] + 1 ELSE val[t]]]
    BY DEF Write, n0, f
  <2>2. cnt \in [Node -> [Event -> Nat]]
    BY DEF Locked, TInv, CountsOK, Counts
  <2> QED
    BY <1>2, <1>3, <2>1, <2>2
<1>10. EntriesCounted'
  <2> SUFFICES ASSUME NEW n \in InList, NEW e \in Event
               PROVE  cnt'[n][e] + Plus(loc[n], e)' = made[loc[n]][e]
    BY <1>1, <1>6 DEF EntriesCounted, Plus, Due
  <2>1. cnt[n][e] + Plus(loc[n], e) = made[loc[n]][e] /\ n \in Node /\ cnt[n][e] \in Nat
    BY InListOK DEF CountInv, EntriesCounted, Locked, TInv, CountsOK, Counts
  <2>2. CASE n = n0
    <3>1. Plus(loc[n], e) = IF e \in item[t].ev \cap item[t].todo THEN 1 ELSE 0
      BY <1>3, <1>7, <2>2
    <3>2. Plus(loc[n], e)' = IF e \in item[t].ev \cap (item[t].todo \ {f}) THEN 1 ELSE 0
      BY <1>1, <1>3, <1>8, <2>2 DEF Plus, Due
    <3> QED
      BY <1>2, <1>9, <2>1, <2>2, <3>1, <3>2
  <2>3. CASE n # n0
    <3>1. loc[n] # item[t].loc
      BY <1>3, <2>3, InListOK DEF Locked, OrderInv, OneEntryEach, Entry
    <3> QED
      BY <1>1, <1>7, <1>8, <1>9, <2>1, <2>3, <3>1 DEF Plus, Due
  <2> QED
    BY <2>2, <2>3
<1>11. NewCounted'
  <2> SUFFICES ASSUME NEW l \in Loc, NEW e \in Event, \A n \in InList : loc[n] # l
               PROVE  made[l][e] = Plus(l, e)'
    BY <1>1, <1>6 DEF NewCounted
  <2>1. l # item[t].loc
    BY <1>3
  <2> QED
    BY <1>7, <1>8, <2>1 DEF CountInv, NewCounted
<1>12. AtEntry'
  <2>1. ASSUME NEW u \in Thread, pc'[u] \in {"read", "write", "link"} PROVE u = t /\ pc'[u] = "read"
    BY <1>1, <1>5, <2>1 DEF Critical
  <2> QED
    BY <1>1, <1>3, <1>4, <1>6, <2>1 DEF AtEntry, n0
<1> QED
  BY <1>10, <1>11, <1>12 DEF CountInv

LEMMA CountStep == Locked /\ CountInv /\ [Next]_vars => CountInv'
  BY CountMain, CountOutside, CountAcquire, CountWalk, CountNewPair, CountLink, CountRead,
     CountWrite DEF Next, InCheck, Stopped, MainStep

LEMMA CountsLocked ==
    ASSUME Guarded
    PROVE  Spec => [](Locked /\ CountInv)
<1>1. TInv /\ LockOK /\ OrderInv <=> Locked
  BY DEF Locked
<1>2. Locked /\ CountInv /\ [Next]_vars => CountInv'
  BY CountStep
<1>3. Init => CountInv
  BY CountInit
<1> QED
  BY <1>1, <1>2, <1>3, GuardedInv, PTL DEF Spec

\* With one entry per location the counts of a location are those of its entry.
LEMMA CountedIs ==
    ASSUME Locked, NEW l \in Loc, NEW e \in Event
    PROVE  /\ \A n \in InList : loc[n] = l => Counted(l, e) = cnt[n][e]
           /\ (\A n \in InList : loc[n] # l) => Counted(l, e) = 0
<1> DEFINE At == {n \in Listed : loc[n] = l}
<1>1. Listed = InList
  BY ListedIsInList DEF Locked
<1>2. Counted(l, e) = MapThenSumSet(LAMBDA n : cnt[n][e], At)
  BY DEF Counted
<1>3. ASSUME NEW n \in InList, loc[n] = l PROVE Counted(l, e) = cnt[n][e]
  <2>1. At = {n}
    BY <1>1, <1>3, InListOK DEF Locked, OrderInv, OneEntryEach, Entry
  <2>2. cnt[n][e] \in Nat
    BY InListOK DEF Locked, TInv, CountsOK, Counts
  <2> HIDE DEF At
  <2> QED
    BY <1>2, <2>1, <2>2, SumOne
<1>4. ASSUME \A n \in InList : loc[n] # l PROVE Counted(l, e) = 0
  <2>1. At = {}
    BY <1>1, <1>4
  <2> HIDE DEF At
  <2>2. MapThenSumSet(LAMBDA n : cnt[n][e], {}) = 0
    BY DEF MapThenSumSet, MapThenFoldSet
  <2> QED
    BY <1>2, <2>1, <2>2
<1> QED
  BY <1>3, <1>4

\* With the lock one thread counts at a time.
LEMMA PendingIs ==
    ASSUME Locked, NEW l \in Loc, NEW e \in Event
    PROVE  Pending(l, e) = Plus(l, e)
<1> DEFINE P == {t \in Thread : /\ pc[t] \in Counting /\ item[t].loc = l
                                /\ e \in item[t].ev \cap item[t].todo}
<1>1. \A t, u \in P : t = u
  BY DEF Locked, LockOK, Counting, Critical
<1>2. Plus(l, e) = IF P = {} THEN 0 ELSE 1
  BY DEF Plus, Due
<1>3. P = {} \/ \E t : P = {t}
  BY <1>1
<1>4. Pending(l, e) = Cardinality(P)
  BY DEF Pending
<1> HIDE DEF P
<1> QED
  BY <1>2, <1>3, <1>4, FS_EmptySet, FS_Singleton

\* With the lock, no event of a check that found the table is lost, for any
\* number of threads.
THEOREM EventsCounted == ASSUME Guarded PROVE Spec => []NoEventLost
<1>1. ASSUME Locked, CountInv PROVE NoEventLost
  <2> SUFFICES ASSUME NEW l \in Loc, NEW e \in Event
               PROVE  Counted(l, e) + Pending(l, e) = made[l][e]
    BY DEF NoEventLost
  <2>1. Pending(l, e) = Plus(l, e) /\ Plus(l, e) \in Nat
    BY <1>1, PendingIs DEF Plus
  <2>2. CASE \E n \in InList : loc[n] = l
    <3>1. PICK n \in InList : loc[n] = l
      BY <2>2
    <3> QED
      BY <1>1, <2>1, <3>1, CountedIs DEF CountInv, EntriesCounted
  <2>3. CASE \A n \in InList : loc[n] # l
    BY <1>1, <2>1, <2>3, CountedIs DEF CountInv, NewCounted
  <2> QED
    BY <2>2, <2>3
<1> QED
  BY <1>1, CountsLocked, PTL

-----------------------------------------------------------------------------
(* The report, with the lock.                                              *)

\* Entries the report has been past.
Passed(n) == \/ BinOf[loc[n]] < scan.bin
             \/ BinOf[loc[n]] = scan.bin /\ (scan.at = Nil \/ n < scan.at)

LocsUsed == \A n \in Node \ Entry : loc[n] = Nil
\* What was counted when main returned is still counted.
Snapshot == \A n \in Node, e \in Event : atReturn[n][e] <= IF n \in InList THEN cnt[n][e] ELSE 0
ScanOK == /\ scan.at # Nil => scan.at \in InBin(scan.bin)
          /\ phase \in {"initializers", "main"} => rows = {}
          /\ phase = "exiting" => scan.at = Nil /\ scan.bin = Size - 1
\* A row is what its entry's counts were as the report came past.
RowsOK == \A r \in rows :
    /\ r.entry \in InList /\ loc[r.entry] = r.loc /\ Passed(r.entry)
    /\ \A e \in Event : atReturn[r.entry][e] <= r.cnt[e] /\ r.cnt[e] <= cnt[r.entry][e]
RowEach == \A r, s \in rows : r.entry = s.entry => r = s
\* An entry without a row has nothing to report.
RowsAll == phase \in {"printing", "exiting"} => \A n \in InList :
    Passed(n) => (\E r \in rows : r.entry = n) \/ \A e \in Event : atReturn[n][e] = 0
ReportInv == LocsUsed /\ Snapshot /\ ScanOK /\ RowsOK /\ RowEach /\ RowsAll

LEMMA ReportInit == Init => ReportInv
<1> SUFFICES ASSUME Init PROVE ReportInv
  OBVIOUS
<1>1. InList = {} /\ Entry = {}
  BY DEF Init, InList, Linking, Entry
<1> QED
  BY <1>1 DEF Init, ReportInv, LocsUsed, Snapshot, ScanOK, RowsOK, RowEach, RowsAll, Zero

\* A step of a check keeps entries and adds to their counts.
LEMMA ChecksGrow ==
    ASSUME Locked, CountInv, NEW t \in Thread, InCheck(t)
    PROVE  /\ UNCHANGED report /\ Entry \subseteq Entry'
           /\ InList \subseteq InList' /\ InList' \subseteq Node
           /\ \A n \in InList : /\ loc'[n] = loc[n]
                                /\ \A e \in Event : cnt[n][e] <= cnt'[n][e]
           /\ \A n \in Node \ Entry' : loc'[n] = loc[n]
           /\ phase' \in {phase, "aborted"}
<1>0. /\ pc \in [Thread -> PC] /\ used \in Nat
      /\ \A n \in InList, e \in Event : cnt[n][e] \in Nat
  BY InListOK DEF Locked, TInv, ItemsOK, RoomOK, CountsOK, Counts
<1>1. CASE NewPair(t)
  <2>1. UNCHANGED <<phase, report>> /\ used' = used + 1 /\ pc' = [pc EXCEPT ![t] = "link"] /\ pc[t] = "walk"
    BY <1>1 DEF NewPair, Goto
  <2>2. ~Linking /\ Linking'
    BY <1>0, <2>1, Alone DEF Linking, Critical
  <2>3. InList' = InList /\ used + 1 \notin InList /\ Entry' = Entry \cup {used + 1}
    BY <1>0, <2>1, <2>2 DEF InList, Entry
  <2>4. \A n \in Node \ {used + 1} : loc'[n] = loc[n] /\ cnt'[n] = cnt[n]
    BY <1>1 DEF Locked, TInv, TableOK, CountsOK, NewPair
  <2> QED
    BY <1>0, <2>1, <2>3, <2>4, InListOK DEF Locked
<1>2. CASE Link(t)
  <2>1. UNCHANGED <<phase, report, loc, cnt, used>> /\ pc' = [pc EXCEPT ![t] = "unlock"] /\ pc[t] = "link"
    BY <1>2, OrderLink DEF Link, Goto
  <2>2. InList \subseteq InList' /\ Entry' = Entry /\ InList' \subseteq Entry
    BY <1>0, <2>1, Alone DEF InList, Linking, Entry, Critical
  <2> QED
    BY <1>0, <2>1, <2>2, UsedFits DEF Locked, TInv
<1>3. CASE Write(t)
  <2>1. /\ UNCHANGED <<phase, report, loc, used>> /\ pc[t] = "write"
        /\ pc' = [pc EXCEPT ![t] = "unlock"] \/ pc' = [pc EXCEPT ![t] = "read"]
    BY <1>3 DEF Write, Goto
  <2>2. UNCHANGED <<InList, Entry>>
    BY <1>0, <2>1, Alone DEF InList, Linking, Entry, Critical
  <2>3. /\ at[t] \in Node /\ item[t].todo # {} /\ item[t].todo \subseteq Event
        /\ val[t] = cnt[at[t]][Field(t)]
    BY <2>1, InListOK DEF CountInv, AtEntry, Locked, TInv, ItemsOK
  <2>4. Field(t) \in Event
    BY <2>3 DEF Field
  <2>5. cnt' = [cnt EXCEPT ![at[t]] = [cnt[at[t]] EXCEPT ![Field(t)] =
                   IF Field(t) \in item[t].ev THEN val[t] + 1 ELSE val[t]]]
    BY <1>3 DEF Write
  <2>6. cnt \in [Node -> [Event -> Nat]]
    BY DEF Locked, TInv, CountsOK, Counts
  <2>7. \A n \in Node, e \in Event : cnt[n][e] <= cnt'[n][e]
    BY <2>3, <2>4, <2>5, <2>6
  <2> QED
    BY <2>1, <2>2, <2>7, InListOK DEF Locked
<1>4. CASE ~(NewPair(t) \/ Link(t) \/ Write(t))
  <2>1. /\ UNCHANGED <<report, loc, cnt, used>> /\ phase' \in {phase, "aborted"}
        /\ pc[t] # "link"
        /\ pc' = pc \/ \E place \in PC \ {"link"} : pc' = [pc EXCEPT ![t] = place]
    BY <1>4 DEF InCheck, Check, Acquire, Walk, Read, Release, Trap, table, Goto, PC
  <2>2. Linking' = Linking
    BY <1>0, <2>1 DEF Linking
  <2>3. UNCHANGED <<InList, Entry>>
    BY <2>1, <2>2 DEF InList, Entry
  <2> QED
    BY <1>0, <2>1, <2>3, InListOK DEF Locked
<1> QED
  BY <1>1, <1>2, <1>3, <1>4

LEMMA ReportCheck == ASSUME Locked, CountInv, ReportInv, NEW t \in Thread, InCheck(t) PROVE ReportInv'
<1>1. /\ UNCHANGED <<scan, rows, atReturn>> /\ Entry \subseteq Entry'
      /\ InList \subseteq InList' /\ InList' \subseteq Node
      /\ \A n \in InList : /\ loc'[n] = loc[n]
                           /\ \A e \in Event : cnt[n][e] <= cnt'[n][e]
      /\ \A n \in Node \ Entry' : loc'[n] = loc[n]
      /\ phase' \in {phase, "aborted"}
  BY ChecksGrow DEF report
<1>2. TInv' /\ InList' \subseteq Node /\ InList \subseteq Node
  <2>1. TInv'
    BY TInvStep DEF Locked, Next
  <2> QED
    BY <1>1, <2>1, InListOK DEF Locked
<1>3. /\ atReturn \in [Node -> [Event -> Nat]]
      /\ cnt \in [Node -> [Event -> Nat]] /\ cnt' \in [Node -> [Event -> Nat]]
      /\ rows \subseteq [entry: Node, loc: Loc, cnt: [Event -> Nat]]
  BY <1>2 DEF Locked, TInv, ReportOK, CountsOK, Counts
<1>4. LocsUsed'
  BY <1>1 DEF ReportInv, LocsUsed
<1>5. \A n \in Node, e \in Event :
          atReturn[n][e] <= IF n \in InList THEN cnt[n][e] ELSE 0
  BY DEF ReportInv, Snapshot
<1>6. Snapshot'
  <2> SUFFICES ASSUME NEW n \in Node, NEW e \in Event
               PROVE  atReturn[n][e] <= IF n \in InList' THEN cnt'[n][e] ELSE 0
    BY <1>1 DEF Snapshot
  <2>1. atReturn[n][e] \in Nat /\ cnt[n][e] \in Nat /\ cnt'[n][e] \in Nat
    BY <1>3
  <2> QED
    BY <1>1, <1>5, <2>1
<1>7. \A n \in InList : Passed(n)' <=> Passed(n)
  BY <1>1 DEF Passed
<1>8. ScanOK'
  <2>1. scan.at # Nil => scan.at \in InBin(scan.bin)'
    BY <1>1 DEF ReportInv, ScanOK, InBin
  <2> QED
    BY <1>1, <2>1 DEF ReportInv, ScanOK, InBin
<1>9. RowsOK'
  <2> SUFFICES ASSUME NEW r \in rows
               PROVE  /\ r.entry \in InList' /\ loc'[r.entry] = r.loc /\ Passed(r.entry)'
                      /\ \A e \in Event : /\ atReturn[r.entry][e] <= r.cnt[e]
                                          /\ r.cnt[e] <= cnt'[r.entry][e]
    BY <1>1 DEF RowsOK
  <2>1. /\ r.entry \in InList /\ loc[r.entry] = r.loc /\ Passed(r.entry)
        /\ \A e \in Event : atReturn[r.entry][e] <= r.cnt[e] /\ r.cnt[e] <= cnt[r.entry][e]
    BY DEF ReportInv, RowsOK
  <2>2. \A e \in Event : /\ r.cnt[e] \in Nat /\ cnt[r.entry][e] \in Nat
                         /\ cnt'[r.entry][e] \in Nat /\ cnt[r.entry][e] <= cnt'[r.entry][e]
    BY <1>1, <1>2, <1>3, <2>1
  <2> QED
    BY <1>1, <1>7, <2>1, <2>2
<1>10. RowEach'
  BY <1>1 DEF ReportInv, RowEach
<1>11. RowsAll'
  <2> SUFFICES ASSUME phase' \in {"printing", "exiting"}, NEW n \in InList', Passed(n)'
               PROVE  (\E r \in rows : r.entry = n) \/ \A e \in Event : atReturn[n][e] = 0
    BY <1>1 DEF RowsAll
  <2>1. CASE n \in InList
    BY <1>1, <1>7, <2>1 DEF ReportInv, RowsAll
  <2>2. CASE n \notin InList
    BY <1>2, <1>3, <1>5, <2>2
  <2> QED
    BY <2>1, <2>2
<1> QED
  BY <1>4, <1>6, <1>8, <1>9, <1>10, <1>11 DEF ReportInv

LEMMA ReportMain == ASSUME Locked, ReportInv, MainStep PROVE ReportInv'
<1>1. UNCHANGED <<head, loc, cnt, next, used, pc>>
  BY DEF MainStep, EnterMain, ReturnMain, PrintRow, PrintNextBin, End, vars, table
<1>2. InList' = InList /\ Entry' = Entry /\ \A b : InBin(b)' = InBin(b)
  BY <1>1 DEF InList, Linking, Entry, InBin
<1>3. /\ InList \subseteq Node /\ InList \subseteq Nat /\ Nil \notin InList
      /\ \A n \in InList : loc[n] \in Loc /\ BinOf[loc[n]] \in Bin
  BY InListOK, EventsAssumption DEF Locked
<1>4. /\ atReturn \in [Node -> [Event -> Nat]]
      /\ cnt \in [Node -> [Event -> Nat]]
      /\ rows \subseteq [entry: Node, loc: Loc, cnt: [Event -> Nat]]
      /\ scan \in [bin: Bin, at: EntryOrNil]
  BY DEF Locked, TInv, ReportOK, CountsOK, Counts
<1>5. LocsUsed' /\ \A b \in Bin : ListOK(b)
  BY <1>1, <1>2 DEF ReportInv, LocsUsed, Locked, OrderInv, ListsOK
<1>6. Bin \subseteq Nat /\ Size \in Nat \ {0}
  BY EventsAssumption DEF Bin
<1>7. CASE UNCHANGED report /\ phase' \in {phase, "ended"} \cup (IF phase = "initializers" THEN {"main"} ELSE {})
  <2>1. UNCHANGED <<scan, rows, atReturn>> /\ \A n : Passed(n)' <=> Passed(n)
    BY <1>1, <1>7 DEF report, Passed
  <2> QED
    BY <1>1, <1>2, <1>5, <1>7, <2>1 DEF ReportInv, Snapshot, ScanOK, RowsOK, RowEach, RowsAll
<1>8. CASE ReturnMain
  <2>1. /\ rows = {} /\ UNCHANGED rows /\ phase' = "printing"
        /\ scan'.bin = 0 /\ scan'.at = head[0]
        /\ atReturn' = [n \in Node |-> IF n \in InList THEN cnt[n] ELSE Zero]
    BY <1>8, ListedIsInList DEF ReturnMain, ReportInv, ScanOK, Locked
  <2>2. ListOK(0)
    BY <1>5, EventsAssumption DEF Bin
  <2>3. \A n \in InList : ~Passed(n)'
    <3> SUFFICES ASSUME NEW n \in InList, Passed(n)' PROVE FALSE
      OBVIOUS
    <3>0. Passed(n)'
      OBVIOUS
    <3>1. n \in InBin(0) /\ (head[0] = Nil \/ n < head[0])
      <4>0. BinOf[loc[n]] \in Nat
        BY <1>3, <1>6
      <4>1. ~(BinOf[loc[n]] < 0)
        BY <4>0
      <4>2. BinOf[loc[n]] < 0 \/ (BinOf[loc[n]] = 0 /\ (head[0] = Nil \/ n < head[0]))
        BY <1>1, <2>1, <3>0 DEF Passed
      <4> QED
        BY <4>1, <4>2 DEF InBin
    <3>2. head[0] \in InBin(0) /\ n >= head[0]
      BY <2>2, <3>1 DEF ListOK
    <3>3. n \in Nat /\ head[0] \in Nat /\ head[0] # Nil
      BY <1>3, <3>2 DEF InBin
    <3> QED
      BY <3>1, <3>2, <3>3
  <2>4. Snapshot'
    BY <1>1, <1>2, <1>4, <2>1 DEF Snapshot, Zero
  <2>5. ScanOK'
    BY <1>2, <2>1, <2>2 DEF ScanOK, ListOK
  <2> QED
    BY <1>2, <1>5, <2>1, <2>3, <2>4, <2>5 DEF ReportInv, RowsOK, RowEach, RowsAll
<1>9. CASE PrintRow
  <2> DEFINE m == scan.at
             b == scan.bin
             row == [entry |-> m, loc |-> loc[m], cnt |-> cnt[m]]
  <2>1. /\ phase = "printing" /\ UNCHANGED <<phase, atReturn>> /\ m # Nil /\ b \in Bin
        /\ m \in InBin(b) /\ m \in InList /\ scan'.bin = b /\ scan'.at = next[m]
        /\ rows' = IF cnt[m] = Zero THEN rows ELSE rows \cup {row}
    BY <1>4, <1>9 DEF PrintRow, ReportInv, ScanOK, InBin
  <2> HIDE DEF m, b
  <2>2. ListOK(b) /\ BinOf[loc[m]] = b
    BY <1>5, <2>1 DEF InBin
  <2>3. /\ ~Passed(m)
        /\ \A n \in InList : Passed(n)' <=> (Passed(n) \/ n = m)
    <3>1. \A n : Passed(n) <=> (BinOf[loc[n]] < b \/ (BinOf[loc[n]] = b /\ n < m))
      BY <2>1 DEF Passed, m, b
    <3>2. \A n : Passed(n)' <=> \/ BinOf[loc[n]] < b
                                \/ BinOf[loc[n]] = b /\ (next[m] = Nil \/ n < next[m])
      BY <1>1, <2>1 DEF Passed
    <3>3. ASSUME NEW n \in InBin(b)
          PROVE  (next[m] = Nil \/ n < next[m]) <=> (n < m \/ n = m)
      <4>1. n \in Nat /\ m \in Nat /\ (next[m] \in InBin(b) => next[m] \in Nat)
        BY <1>3, <2>1 DEF InBin
      <4> QED
        BY <1>3, <2>1, <2>2, <4>1 DEF ListOK, InBin
    <3>4. \A n \in InList : BinOf[loc[n]] = b <=> n \in InBin(b)
      BY DEF InBin
    <3>5. ~(m < m) /\ ~(b < b)
      BY <1>3, <1>6, <2>1
    <3> QED
      BY <2>2, <3>1, <3>2, <3>3, <3>4, <3>5
  <2>4. Snapshot' /\ \A e \in Event : atReturn[m][e] <= cnt[m][e]
    BY <1>1, <1>2, <1>3, <2>1 DEF ReportInv, Snapshot
  <2>5. ScanOK'
    BY <1>2, <2>1, <2>2 DEF ScanOK, ListOK
  <2>6. \A e \in Event : cnt[m][e] \in Nat /\ cnt[m][e] <= cnt[m][e] /\ atReturn[m][e] \in Nat
    BY <1>3, <1>4, <2>1
  <2>7. RowsOK'
    <3> SUFFICES ASSUME NEW r \in rows'
                 PROVE  /\ r.entry \in InList /\ loc[r.entry] = r.loc /\ Passed(r.entry)'
                        /\ \A e \in Event : /\ atReturn[r.entry][e] <= r.cnt[e]
                                            /\ r.cnt[e] <= cnt[r.entry][e]
      BY <1>1, <1>2, <2>1 DEF RowsOK
    <3>1. CASE r \in rows
      BY <2>3, <3>1 DEF ReportInv, RowsOK
    <3>2. CASE r = row
      BY <2>1, <2>3, <2>4, <2>6, <3>2
    <3> QED
      BY <2>1, <3>1, <3>2
  <2>8. RowEach'
    <3>1. \A r \in rows : r.entry # m
      BY <2>3 DEF ReportInv, RowsOK
    <3> QED
      BY <2>1, <3>1 DEF ReportInv, RowEach
  <2>9. RowsAll'
    <3> SUFFICES ASSUME NEW n \in InList, Passed(n)'
                 PROVE  (\E r \in rows' : r.entry = n) \/ \A e \in Event : atReturn[n][e] = 0
      BY <1>2, <2>1 DEF RowsAll
    <3>1. CASE n # m
      BY <2>1, <2>3, <3>1 DEF ReportInv, RowsAll
    <3>2. CASE n = m /\ cnt[m] = Zero
      BY <2>4, <2>6, <3>2 DEF Zero
    <3>3. CASE n = m /\ cnt[m] # Zero
      <4>1. row \in rows' /\ row.entry = n
        BY <2>1, <3>3
      <4> QED
        BY <4>1
    <3> QED
      BY <3>1, <3>2, <3>3
  <2> QED
    BY <1>5, <2>4, <2>5, <2>7, <2>8, <2>9 DEF ReportInv
<1>10. CASE PrintNextBin /\ LastBin(scan.bin)
  <2>1. UNCHANGED <<scan, rows, atReturn>> /\ phase = "printing" /\ phase' = "exiting" /\ scan.at = Nil
    BY <1>10 DEF PrintNextBin
  <2>2. scan.bin = Size - 1
    <3>1. scan.bin \in Bin /\ scan.bin + 1 = Size
      BY <1>4, <1>10 DEF LastBin
    <3>2. scan.bin \in Nat
      BY <1>6, <3>1
    <3> QED
      BY <3>1, <3>2
  <2>3. \A n : Passed(n)' <=> Passed(n)
    BY <1>1, <2>1 DEF Passed
  <2> QED
    BY <1>1, <1>2, <1>5, <2>1, <2>2, <2>3
       DEF ReportInv, Snapshot, ScanOK, RowsOK, RowEach, RowsAll
<1>11. CASE PrintNextBin /\ ~LastBin(scan.bin)
  <2> DEFINE b == scan.bin
             c == scan.bin + 1
  <2>1. /\ UNCHANGED <<phase, rows, atReturn>> /\ phase = "printing" /\ scan.at = Nil
        /\ scan'.bin = c /\ scan'.at = head[c]
    BY <1>4, <1>11 DEF PrintNextBin
  <2>2. b \in Nat /\ c \in Bin /\ c = b + 1
    BY <1>4, <1>6, <1>11 DEF LastBin, Bin
  <2> HIDE DEF b, c
  <2>3. ListOK(c)
    BY <1>5, <2>2
  <2>4. \A n \in InList : Passed(n)' <=> Passed(n)
    <3> SUFFICES ASSUME NEW n \in InList PROVE Passed(n)' <=> Passed(n)
      OBVIOUS
    <3>1. Passed(n) <=> (BinOf[loc[n]] < b \/ BinOf[loc[n]] = b)
      BY <2>1 DEF Passed, b
    <3>2. Passed(n)' <=> \/ BinOf[loc[n]] < c
                         \/ BinOf[loc[n]] = c /\ (head[c] = Nil \/ n < head[c])
      BY <1>1, <2>1 DEF Passed
    <3>3. BinOf[loc[n]] = c => ~(head[c] = Nil \/ n < head[c])
      <4> SUFFICES ASSUME BinOf[loc[n]] = c, head[c] = Nil \/ n < head[c] PROVE FALSE
        OBVIOUS
      <4>1. n \in InBin(c)
        BY DEF InBin
      <4>2. head[c] \in InBin(c) /\ n >= head[c]
        BY <2>3, <4>1 DEF ListOK
      <4>3. n \in Nat /\ head[c] \in Nat /\ head[c] # Nil
        BY <1>3, <4>2 DEF InBin
      <4> QED
        BY <4>2, <4>3
    <3>4. BinOf[loc[n]] \in Nat
      BY <1>3, <1>6
    <3> QED
      BY <2>2, <3>1, <3>2, <3>3, <3>4
  <2>5. ScanOK'
    BY <1>2, <2>1, <2>3 DEF ScanOK, ListOK
  <2> QED
    BY <1>1, <1>2, <1>5, <2>1, <2>4, <2>5 DEF ReportInv, Snapshot, RowsOK, RowEach, RowsAll
<1> QED
  BY <1>7, <1>8, <1>9, <1>10, <1>11 DEF MainStep, EnterMain, End, vars, report

LEMMA ReportStep == Locked /\ CountInv /\ ReportInv /\ [Next]_vars => ReportInv'
  BY ReportCheck, ReportMain DEF Next, Stopped, MainStep

\* The sums over the entries and the rows of a location have one term at most.
LEMMA BackThenIs ==
    ASSUME Locked, LocsUsed, NEW l \in Loc, NEW e \in Event
    PROVE  /\ \A n \in Entry : loc[n] = l => BackThen(l, e) = atReturn[n][e]
           /\ (\A n \in Entry : loc[n] # l) => BackThen(l, e) = 0
<1> DEFINE At == {n \in Node : loc[n] = l}
<1>1. Entry \subseteq Node /\ l # Nil
  BY UsedFits, EventsAssumption DEF Locked, TInv
<1>2. BackThen(l, e) = MapThenSumSet(LAMBDA n : atReturn[n][e], At)
  BY DEF BackThen
<1>3. At \subseteq Entry
  BY <1>1 DEF LocsUsed
<1>4. ASSUME NEW n \in Entry, loc[n] = l PROVE BackThen(l, e) = atReturn[n][e]
  <2>1. At = {n}
    BY <1>1, <1>3, <1>4 DEF Locked, OrderInv, OneEntryEach, Entry
  <2>2. atReturn[n][e] \in Nat
    BY <1>1 DEF Locked, TInv, ReportOK, Counts
  <2> HIDE DEF At
  <2> QED
    BY <1>2, <2>1, <2>2, SumOne
<1>5. ASSUME \A n \in Entry : loc[n] # l PROVE BackThen(l, e) = 0
  <2>1. At = {}
    BY <1>3, <1>5
  <2> HIDE DEF At
  <2>2. MapThenSumSet(LAMBDA n : atReturn[n][e], {}) = 0
    BY DEF MapThenSumSet, MapThenFoldSet
  <2> QED
    BY <1>2, <2>1, <2>2
<1> QED
  BY <1>4, <1>5

LEMMA ReportedIs ==
    ASSUME Locked, RowsOK, RowEach, NEW l \in Loc, NEW e \in Event
    PROVE  /\ \A r \in rows : r.loc = l => Reported(l, e) = r.cnt[e]
           /\ (\A r \in rows : r.loc # l) => Reported(l, e) = 0
<1> DEFINE Of == {r \in rows : r.loc = l}
<1>1. Reported(l, e) = MapThenSumSet(LAMBDA r : r.cnt[e], Of)
  BY DEF Reported
<1>2. ASSUME NEW r \in rows, r.loc = l PROVE Reported(l, e) = r.cnt[e]
  <2>1. \A s \in Of : s = r
    BY <1>2, InListOK DEF Locked, OrderInv, OneEntryEach, Entry, RowsOK, RowEach
  <2>2. Of = {r}
    BY <1>2, <2>1
  <2>3. r.cnt[e] \in Nat
    BY DEF Locked, TInv, ReportOK, Counts
  <2> HIDE DEF Of
  <2> QED
    BY <1>1, <2>2, <2>3, SumRow
<1>3. ASSUME \A r \in rows : r.loc # l PROVE Reported(l, e) = 0
  <2>1. Of = {}
    BY <1>3
  <2> HIDE DEF Of
  <2>2. MapThenSumSet(LAMBDA r : r.cnt[e], {}) = 0
    BY DEF MapThenSumSet, MapThenFoldSet
  <2> QED
    BY <1>1, <2>1, <2>2
<1> QED
  BY <1>2, <1>3

\* A report written while other threads go on counting has no less than what
\* was counted when main returned, and no more than what has occurred.
THEOREM ReportBounded == ASSUME Guarded PROVE Spec => []ReportInBounds
<1>1. Init => ReportInv
  BY ReportInit
<1>2. Locked /\ CountInv /\ ReportInv /\ [Next]_vars => ReportInv'
  BY ReportStep
<1>3. ASSUME Locked, CountInv, ReportInv PROVE ReportInBounds
  <2> SUFFICES ASSUME phase = "exiting", NEW l \in Loc, NEW e \in Event
               PROVE  Reported(l, e) \in BackThen(l, e)..made[l][e]
    BY DEF ReportInBounds
  <2>0. made[l][e] \in Nat /\ InList \subseteq Node /\ InList \subseteq Entry /\ Entry \subseteq Node
    BY <1>3, InListOK, UsedFits DEF Locked, TInv, CountsOK, Counts
  <2>1. \A n \in InList : Passed(n)
    <3> SUFFICES ASSUME NEW n \in InList PROVE Passed(n)
      OBVIOUS
    <3>1. BinOf[loc[n]] \in 0..(Size - 1) /\ Size \in Nat
      BY <1>3, InListOK, EventsAssumption DEF Locked, Bin
    <3>2. scan.at = Nil /\ scan.bin = Size - 1
      BY <1>3 DEF ReportInv, ScanOK
    <3> QED
      BY <3>1, <3>2 DEF Passed
  <2>2. CASE \E r \in rows : r.loc = l
    <3>1. PICK r \in rows : r.loc = l
      BY <2>2
    <3> DEFINE n == r.entry
    <3>2. /\ n \in InList /\ loc[n] = l
          /\ atReturn[n][e] <= r.cnt[e] /\ r.cnt[e] <= cnt[n][e]
      BY <1>3, <3>1 DEF ReportInv, RowsOK
    <3>3. r.cnt[e] \in Nat /\ cnt[n][e] \in Nat /\ atReturn[n][e] \in Nat
      BY <1>3, <2>0, <3>2 DEF Locked, TInv, ReportOK, CountsOK, Counts
    <3>4. Reported(l, e) = r.cnt[e] /\ BackThen(l, e) = atReturn[n][e]
      BY <1>3, <2>0, <3>1, <3>2, ReportedIs, BackThenIs DEF ReportInv
    <3>5. cnt[n][e] <= made[l][e]
      <4>1. cnt[n][e] + Plus(l, e) = made[l][e] /\ Plus(l, e) \in Nat
        BY <1>3, <3>2 DEF CountInv, EntriesCounted, Plus
      <4> QED
        BY <2>0, <3>3, <4>1
    <3> QED
      BY <2>0, <3>2, <3>3, <3>4, <3>5
  <2>3. CASE \A r \in rows : r.loc # l
    <3>1. Reported(l, e) = 0
      BY <1>3, <2>3, ReportedIs DEF ReportInv
    <3>2. BackThen(l, e) = 0
      <4>1. CASE \A n \in Entry : loc[n] # l
        BY <1>3, <4>1, BackThenIs DEF ReportInv
      <4>2. ASSUME NEW n \in Entry, loc[n] = l PROVE BackThen(l, e) = 0
        <5>1. BackThen(l, e) = atReturn[n][e]
          BY <1>3, <4>2, BackThenIs DEF ReportInv
        <5>2. atReturn[n][e] \in Nat
          BY <1>3, <2>0 DEF Locked, TInv, ReportOK, Counts
        <5>3. CASE n \in InList
          <6>1. ~ \E r \in rows : r.entry = n
            BY <1>3, <2>3, <4>2 DEF ReportInv, RowsOK
          <6> QED
            BY <1>3, <2>1, <5>1, <5>3, <6>1 DEF ReportInv, RowsAll
        <5>4. CASE n \notin InList
          <6>1. atReturn[n][e] <= 0
            BY <1>3, <2>0, <5>4 DEF ReportInv, Snapshot
          <6> QED
            BY <5>1, <5>2, <6>1
        <5> QED
          BY <5>3, <5>4
      <4> QED
        BY <4>1, <4>2
    <3> QED
      BY <2>0, <3>1, <3>2
  <2> QED
    BY <2>2, <2>3
<1> QED
  BY <1>1, <1>2, <1>3, CountsLocked, PTL DEF Spec

-----------------------------------------------------------------------------
(* Powers of two.                                                          *)

\* Iterates of one function agree.
LEMMA IteratesAgree ==
    ASSUME NEW D, NEW A, NEW G, NEW M \in Nat, NEW N \in Nat, M <= N,
           NEW f, NEW g, Iterates(f, D, A, G, M), Iterates(g, D, A, G, N)
    PROVE  \A k \in 0..M : f[k] = g[k]
<1> DEFINE Bad == {k \in 0..M : f[k] # g[k]}
<1> SUFFICES ASSUME Bad # {} PROVE FALSE
  OBVIOUS
<1>1. PICK k \in Bad : \A e \in Bad : k <= e
  <2>1. Bad \in SUBSET Nat
    OBVIOUS
  <2> HIDE DEF Bad
  <2> QED
    BY <2>1, Least
<1>2. k # 0
  BY <1>1 DEF Iterates
<1>3. k \in 1..M /\ k \in 1..N /\ k - 1 \in 0..M /\ ~(k <= k - 1)
  BY <1>1, <1>2
<1>4. f[k - 1] = g[k - 1]
  BY <1>1, <1>3
<1>5. f[k] = G[f[k - 1]] /\ g[k] = G[g[k - 1]]
  BY <1>3 DEF Iterates
<1> QED
  BY <1>1, <1>4, <1>5

\* Powers of two: the function exists.
LEMMA Pow2Def ==
    /\ Pow2 \in [Nat -> Nat] /\ Pow2[0] = 1
    /\ \A n \in Nat : Pow2[n + 1] = 2 * Pow2[n]
<1> DEFINE G == [v \in Nat |-> 2 * v]
           It(f, n) == Iterates(f, Nat, 1, G, n)
           H == [n \in Nat |-> CHOOSE f : It(f, n)]
           F == [n \in Nat |-> H[n][n]]
           Is(f) == f = [n \in Nat |-> IF n = 0 THEN 1 ELSE 2 * f[n - 1]]
           W == CHOOSE f : Is(f)
<1>1. \A n \in Nat : It(H[n], n)
  <2> SUFFICES ASSUME NEW n \in Nat PROVE It(H[n], n)
    OBVIOUS
  <2>1. 1 \in Nat /\ G \in [Nat -> Nat]
    OBVIOUS
  <2>2. \E f : It(f, n)
    <3> HIDE DEF G
    <3> QED
      BY <2>1, IterateExists
  <2> HIDE DEF It
  <2> QED
    BY <2>2
<1>2. \A n \in Nat : F[n] \in Nat
  <2> HIDE DEF H
  <2> QED
    BY <1>1 DEF Iterates
<1>3. F[0] = 1
  <2> HIDE DEF H
  <2> QED
    BY <1>1 DEF Iterates
<1>4. ASSUME NEW n \in Nat PROVE F[n + 1] = 2 * F[n]
  <2>1. It(H[n], n) /\ It(H[n + 1], n + 1)
    BY <1>1
  <2> HIDE DEF G, H
  <2>2. \A k \in 0..n : H[n][k] = H[n + 1][k]
    <3>1. PICK f, g : f = H[n] /\ g = H[n + 1]
      OBVIOUS
    <3>2. n + 1 \in Nat /\ n <= n + 1 /\ Iterates(f, Nat, 1, G, n) /\ Iterates(g, Nat, 1, G, n + 1)
      BY <2>1, <3>1
    <3>3. \A k \in 0..n : f[k] = g[k]
      BY <3>2, IteratesAgree
    <3> QED
      BY <3>1, <3>3
  <2>3. H[n + 1][n + 1] = G[H[n + 1][n]] /\ H[n][n] \in Nat
    BY <2>1 DEF Iterates
  <2> QED
    BY <2>2, <2>3 DEF G
<1> HIDE DEF F
<1>5. Is(F)
  <2>1. F = [n \in Nat |-> F[n]]
    BY DEF F
  <2>2. ASSUME NEW n \in Nat PROVE F[n] = IF n = 0 THEN 1 ELSE 2 * F[n - 1]
    <3>1. CASE n # 0
      <4>1. n - 1 \in Nat /\ (n - 1) + 1 = n
        BY <3>1
      <4> QED
        BY <1>4, <3>1, <4>1
    <3> QED
      BY <1>3, <3>1
  <2> QED
    BY <2>1, <2>2
<1>6. Is(W)
  <2> HIDE DEF Is
  <2> QED
    BY <1>5
<1>7. Pow2 = W
  BY DEF Pow2
<1> HIDE DEF W
<1>8. W[0] = 1
  BY <1>6
<1>9. ASSUME NEW n \in Nat PROVE W[n + 1] = 2 * W[n]
  <2>1. n + 1 \in Nat /\ n + 1 # 0 /\ (n + 1) - 1 = n
    OBVIOUS
  <2> QED
    BY <1>6, <2>1
<1>10. \A n \in Nat : W[n] \in Nat
  <2> DEFINE Bad == {n \in Nat : W[n] \notin Nat}
  <2> SUFFICES ASSUME Bad # {} PROVE FALSE
    OBVIOUS
  <2>1. PICK n \in Bad : \A e \in Bad : n <= e
    <3>1. Bad \in SUBSET Nat
      OBVIOUS
    <3> HIDE DEF Bad
    <3> QED
      BY <3>1, Least
  <2>2. n - 1 \in Nat /\ n = (n - 1) + 1 /\ ~(n <= n - 1)
    BY <1>8, <2>1
  <2>3. W[n - 1] \in Nat
    BY <2>1, <2>2
  <2> QED
    BY <1>9, <2>1, <2>2, <2>3
<1>11. W \in [Nat -> Nat]
  <2>1. W = [n \in Nat |-> IF n = 0 THEN 1 ELSE 2 * W[n - 1]]
    BY <1>6
  <2>2. W = [n \in Nat |-> W[n]]
    BY <2>1
  <2> QED
    BY <1>10, <2>2
<1> QED
  BY <1>7, <1>8, <1>9, <1>11

-----------------------------------------------------------------------------
\* Powers of two are positive, and each is twice the one before.
LEMMA TwoTimes ==
    \A n \in Nat : Pow2[n] \in Nat \ {0} /\ Pow2[n + 1] = 2 * Pow2[n] /\ Pow2[n] < Pow2[n + 1]
<1>1. \A n \in Nat : Pow2[n] # 0
  <2> DEFINE Bad == {n \in Nat : Pow2[n] = 0}
  <2> SUFFICES ASSUME Bad # {} PROVE FALSE
    OBVIOUS
  <2>1. PICK n \in Bad : \A e \in Bad : n <= e
    <3>1. Bad \in SUBSET Nat
      OBVIOUS
    <3> HIDE DEF Bad
    <3> QED
      BY <3>1, Least
  <2>2. n - 1 \in Nat /\ n = (n - 1) + 1 /\ ~(n <= n - 1)
    BY <2>1, Pow2Def
  <2>3. Pow2[n - 1] \in Nat
    BY <2>2, Pow2Def
  <2>4. Pow2[n] = 2 * Pow2[n - 1] /\ Pow2[n] = 0
    BY <2>1, <2>2, Pow2Def
  <2>5. n - 1 \in Bad
    BY <2>2, <2>3, <2>4
  <2> QED
    BY <2>1, <2>2, <2>5
<1> QED
  <2> TAKE n \in Nat
  <2>1. Pow2[n] \in Nat /\ Pow2[n] # 0 /\ Pow2[n + 1] = 2 * Pow2[n]
    BY <1>1, Pow2Def
  <2> QED
    BY <2>1

\* Powers of two multiply.
LEMMA Pow2Plus == \A a, b \in Nat : Pow2[a + b] = Pow2[a] * Pow2[b]
<1> SUFFICES ASSUME NEW a \in Nat PROVE \A b \in Nat : Pow2[a + b] = Pow2[a] * Pow2[b]
  OBVIOUS
<1> DEFINE Bad == {b \in Nat : Pow2[a + b] # Pow2[a] * Pow2[b]}
<1> SUFFICES ASSUME Bad # {} PROVE FALSE
  OBVIOUS
<1>1. PICK b \in Bad : \A e \in Bad : b <= e
  <2>1. Bad \in SUBSET Nat
    OBVIOUS
  <2> HIDE DEF Bad
  <2> QED
    BY <2>1, Least
<1>2. b # 0
  <2>1. Pow2[a] \in Nat /\ Pow2[0] = 1 /\ a + 0 = a
    BY Pow2Def
  <2> QED
    BY <1>1, <2>1
<1>3. PICK c \in Nat : b = c + 1
  <2>1. b - 1 \in Nat /\ b = (b - 1) + 1
    BY <1>1, <1>2
  <2> QED
    BY <2>1
<1>4. c \notin Bad
  BY <1>1, <1>3
<1>5. Pow2[a + c] = Pow2[a] * Pow2[c]
  BY <1>3, <1>4
<1>6. /\ Pow2[b] = 2 * Pow2[c] /\ Pow2[a + b] = 2 * Pow2[a + c]
      /\ Pow2[a] \in Nat /\ Pow2[c] \in Nat
  <2>1. a + b = (a + c) + 1 /\ a + c \in Nat
    BY <1>1, <1>3
  <2> QED
    BY <1>3, <2>1, Pow2Def
<1>7. PICK p, q \in Nat : p = Pow2[a] /\ q = Pow2[c]
  BY <1>6
<1>8. 2 * (p * q) = p * (2 * q)
  OBVIOUS
<1> QED
  BY <1>1, <1>5, <1>6, <1>7, <1>8

\* Powers of two grow.
LEMMA Pow2Grows == \A a, b \in Nat : a < b <=> Pow2[a] < Pow2[b]
<1>1. ASSUME NEW a \in Nat, NEW b \in Nat, a < b PROVE Pow2[a] < Pow2[b]
  <2>1. PICK d \in Nat : b = (a + 1) + d
    <3>1. b - (a + 1) \in Nat /\ b = (a + 1) + (b - (a + 1))
      BY <1>1
    <3> QED
      BY <3>1
  <2>2. Pow2[b] = Pow2[a + 1] * Pow2[d]
    BY <2>1, Pow2Plus
  <2>3. Pow2[a + 1] \in Nat /\ Pow2[d] \in Nat \ {0} /\ Pow2[a] \in Nat /\ Pow2[a] < Pow2[a + 1]
    BY TwoTimes
  <2>4. \A p \in Nat, q \in Nat \ {0} : p <= p * q
    OBVIOUS
  <2>5. Pow2[a + 1] <= Pow2[a + 1] * Pow2[d]
    BY <2>3, <2>4
  <2> QED
    BY <2>2, <2>3, <2>5
<1>2. \A a, b \in Nat : a < b \/ a = b \/ b < a
  OBVIOUS
<1>3. \A a \in Nat : Pow2[a] \in Nat
  BY Pow2Def
<1>4. \A a, b \in Nat : a < b => ~(b < a) /\ a # b
  OBVIOUS
<1> QED
  BY <1>1, <1>2, <1>3, <1>4

-----------------------------------------------------------------------------
(* Magnitudes.                                                             *)

\* The bits of the least normal number are an even power of two.
LEMMA OneEven ==
    /\ One \in Nat /\ One >= 2 /\ One = Pow2[Mantissa]
    /\ \E h \in Nat : One = 2 * h
<1>1. Mantissa - 1 \in Nat /\ Mantissa = (Mantissa - 1) + 1
  BY TinyFloatAssumption
<1>2. Pow2[Mantissa - 1] \in Nat \ {0} /\ Pow2[Mantissa] = 2 * Pow2[Mantissa - 1]
  BY <1>1, TwoTimes
<1> QED
  BY <1>2 DEF One

\* A quotient and a remainder.
LEMMA Divide ==
    ASSUME NEW d \in Nat \ {0}
    PROVE  \A b \in Nat : /\ b \div d \in Nat /\ b % d \in 0..(d - 1)
                          /\ b = d * (b \div d) + (b % d)
<1> TAKE b \in Nat
<1>1. b \div d \in Int /\ b % d \in 0..(d - 1) /\ b = d * (b \div d) + (b % d)
  OBVIOUS
<1>2. \A q \in Int : q < 0 => d * q <= -d
  OBVIOUS
<1>3. PICK q \in Int : q = b \div d
  BY <1>1
<1> QED
  BY <1>1, <1>2, <1>3

\* A quotient and a remainder are the only ones.
LEMMA DivideOnce ==
    ASSUME NEW d \in Nat \ {0}, NEW e \in Nat, NEW m \in 0..(d - 1)
    PROVE  (d * e + m) \div d = e /\ (d * e + m) % d = m
<1>1. PICK b \in Nat : b = d * e + m
  <2>1. d * e \in Nat
    OBVIOUS
  <2> QED
    BY <2>1
<1>2. PICK q \in Nat, r \in 0..(d - 1) : q = b \div d /\ r = b % d /\ b = d * q + r
  BY Divide
<1>3. \A i, j \in Nat : i < j => d * i + d <= d * j
  <2> TAKE i, j \in Nat
  <2> HAVE i < j
  <2>1. d * (i + 1) <= d * j
    OBVIOUS
  <2>2. d * (i + 1) = d * i + d
    OBVIOUS
  <2> QED
    BY <2>1, <2>2
<1>4. q = e
  <2>1. d * q \in Nat /\ d * e \in Nat
    OBVIOUS
  <2>2. ~(q < e)
    <3>1. SUFFICES ASSUME q < e PROVE FALSE
      OBVIOUS
    <3>2. d * q + d <= d * e
      BY <1>3, <3>1
    <3> QED
      BY <1>1, <1>2, <2>1, <3>2
  <2>3. ~(e < q)
    <3>1. SUFFICES ASSUME e < q PROVE FALSE
      OBVIOUS
    <3>2. d * e + d <= d * q
      BY <1>3, <3>1
    <3> QED
      BY <1>1, <1>2, <2>1, <3>2
  <2> QED
    BY <2>2, <2>3
<1>5. r = m
  <2>1. d * e \in Nat
    OBVIOUS
  <2> QED
    BY <1>1, <1>2, <1>4, <2>1
<1> QED
  BY <1>1, <1>2, <1>4, <1>5

\* Every number is the bits of one exponent and one mantissa.
LEMMA BitsOf ==
    \A b \in Nat : \E e \in Nat, m \in 0..(One - 1) :
        b = One * e + m /\ e = b \div One /\ m = b % One
<1> TAKE b \in Nat
<1>1. One \in Nat \ {0}
  BY OneEven
<1>2. b \div One \in Nat /\ b % One \in 0..(One - 1) /\ b = One * (b \div One) + (b % One)
  BY <1>1, Divide
<1> QED
  BY <1>2

\* The magnitude of an exponent and a mantissa.
LEMMA MagOf ==
    ASSUME NEW e \in Nat, NEW m \in 0..(One - 1)
    PROVE  /\ One * e + m \in Nat
           /\ Mag(One * e + m) = IF e = 0 THEN m ELSE (One + m) * Pow2[e - 1]
<1>1. One \in Nat \ {0}
  BY OneEven
<1>2. PICK b \in Nat : b = One * e + m
  <2>1. One * e \in Nat
    BY <1>1
  <2> QED
    BY <1>1, <2>1
<1>3. b \div One = e /\ b % One = m
  BY <1>1, <1>2, DivideOnce
<1>4. CASE e = 0
  <2>1. b = m /\ b < One
    BY <1>1, <1>2, <1>4
  <2> QED
    BY <1>2, <1>4, <2>1 DEF Mag
<1>5. CASE e # 0
  <2>1. One * e >= One
    BY <1>1, <1>5
  <2>2. ~(b < One)
    BY <1>1, <1>2, <2>1
  <2> QED
    BY <1>2, <1>3, <1>5, <2>2 DEF Mag
<1> QED
  BY <1>4, <1>5

\* Magnitudes are natural numbers.
LEMMA MagNat == \A b \in Nat : Mag(b) \in Nat
<1> TAKE b \in Nat
<1>1. PICK e \in Nat, m \in 0..(One - 1) : b = One * e + m
  BY BitsOf
<1>2. CASE e = 0
  BY <1>1, <1>2, MagOf
<1>3. CASE e # 0
  <2>1. PICK p \in Nat : p = Pow2[e - 1]
    <3>1. e - 1 \in Nat
      BY <1>3
    <3> QED
      BY <3>1, TwoTimes
  <2>2. PICK s \in Nat : s = One + m
    BY OneEven
  <2>3. s * p \in Nat
    OBVIOUS
  <2> QED
    BY <1>1, <1>3, <2>1, <2>2, <2>3, MagOf
<1> QED
  BY <1>2, <1>3

\* An exponent's least magnitude is a power of two.
LEMMA MagPow ==
    \A e \in Nat : One * (e + 1) \in Nat /\ Mag(One * (e + 1)) = One * Pow2[e]
<1> TAKE e \in Nat
<1>1. 0 \in 0..(One - 1) /\ One \in Nat /\ e + 1 \in Nat /\ e + 1 # 0 /\ (e + 1) - 1 = e
  BY OneEven
<1>2. One * (e + 1) + 0 = One * (e + 1) /\ One + 0 = One
  BY <1>1
<1>3. /\ One * (e + 1) + 0 \in Nat
      /\ Mag(One * (e + 1) + 0) = (One + 0) * Pow2[e]
  BY <1>1, MagOf
<1> QED
  BY <1>2, <1>3

\* The next number is larger.
LEMMA MagStep == \A b \in Nat : Mag(b) < Mag(b + 1)
<1> TAKE b \in Nat
<1>1. PICK e \in Nat, m \in 0..(One - 1) : b = One * e + m
  BY BitsOf
<1>2. One \in Nat /\ One >= 2
  BY OneEven
<1>3. CASE m < One - 1
  <2>1. PICK n \in 0..(One - 1) : n = m + 1
    BY <1>2, <1>3
  <2>2. b + 1 = One * e + n
    <3>1. One * e \in Nat
      BY <1>2
    <3> QED
      BY <1>1, <2>1, <3>1
  <2>3. CASE e = 0
    <3>1. Mag(b) = m /\ Mag(b + 1) = n
      BY <1>1, <2>2, <2>3, MagOf
    <3> QED
      BY <2>1, <3>1
  <2>4. CASE e # 0
    <3>1. PICK p \in Nat \ {0} : p = Pow2[e - 1]
      <4>1. e - 1 \in Nat
        BY <2>4
      <4> QED
        BY <4>1, TwoTimes
    <3>2. Mag(b) = (One + m) * p /\ Mag(b + 1) = (One + n) * p
      BY <1>1, <2>2, <2>4, <3>1, MagOf
    <3>3. PICK s \in Nat : s = One + m /\ One + n = s + 1
      BY <1>2, <2>1
    <3>4. (s + 1) * p = s * p + p /\ s * p \in Nat
      OBVIOUS
    <3> QED
      BY <3>2, <3>3, <3>4
  <2> QED
    BY <2>3, <2>4
<1>4. CASE m = One - 1
  <2>1. b + 1 = One * (e + 1)
    <3>1. One * (e + 1) = One * e + One /\ One * e \in Nat
      BY <1>2
    <3> QED
      BY <1>1, <1>2, <1>4, <3>1
  <2>2. Mag(b + 1) = One * Pow2[e]
    BY <2>1, MagPow
  <2>3. CASE e = 0
    <3>1. Mag(b) = m /\ Pow2[e] = 1
      BY <1>1, <2>3, MagOf, Pow2Def
    <3> QED
      BY <1>2, <1>4, <2>2, <3>1
  <2>4. CASE e # 0
    <3>1. PICK p \in Nat \ {0} : p = Pow2[e - 1] /\ Pow2[e] = 2 * p
      <4>1. e - 1 \in Nat /\ (e - 1) + 1 = e
        BY <2>4
      <4> QED
        BY <4>1, TwoTimes
    <3>2. Mag(b) = (One + m) * p /\ Mag(b + 1) = One * (2 * p)
      BY <1>1, <2>2, <2>4, <3>1, MagOf
    <3>3. PICK s \in Nat : s = One + m /\ 2 * One = s + 1
      BY <1>2, <1>4
    <3>4. One * (2 * p) = (2 * One) * p
      BY <1>2
    <3>5. (s + 1) * p = s * p + p /\ s * p \in Nat
      OBVIOUS
    <3> QED
      BY <3>2, <3>3, <3>4, <3>5
  <2> QED
    BY <2>3, <2>4
<1> QED
  BY <1>2, <1>3, <1>4

\* Magnitudes are in the order of their bits.
LEMMA MagOrder == \A a, b \in Nat : a < b <=> Mag(a) < Mag(b)
<1>1. ASSUME NEW a \in Nat PROVE \A d \in Nat : Mag(a) < Mag((a + 1) + d)
  <2> DEFINE Bad == {d \in Nat : ~(Mag(a) < Mag((a + 1) + d))}
  <2> SUFFICES ASSUME Bad # {} PROVE FALSE
    OBVIOUS
  <2>1. PICK d \in Bad : \A c \in Bad : d <= c
    <3>1. Bad \in SUBSET Nat
      OBVIOUS
    <3> HIDE DEF Bad
    <3> QED
      BY <3>1, Least
  <2>2. d # 0
    <3>1. (a + 1) + 0 = a + 1
      OBVIOUS
    <3> QED
      BY <2>1, <3>1, MagStep
  <2>3. d \in Nat /\ d - 1 \in Nat /\ ~(d <= d - 1)
    BY <2>1, <2>2
  <2>4. d - 1 \notin Bad
    <3> HIDE DEF Bad
    <3> QED
      BY <2>1, <2>3
  <2>5. PICK c \in Nat : c = (a + 1) + (d - 1) /\ (a + 1) + d = c + 1
    BY <2>3
  <2>6. Mag(a) < Mag(c)
    BY <2>3, <2>4, <2>5
  <2>7. Mag(c) < Mag(c + 1) /\ Mag(a) \in Nat /\ Mag(c) \in Nat /\ Mag(c + 1) \in Nat
    BY MagStep, MagNat
  <2>8. Mag(a) < Mag(c + 1)
    BY <2>6, <2>7
  <2> QED
    BY <2>1, <2>5, <2>8
<1>2. ASSUME NEW a \in Nat, NEW b \in Nat, a < b PROVE Mag(a) < Mag(b)
  <2>1. PICK d \in Nat : b = (a + 1) + d
    <3>1. b - (a + 1) \in Nat /\ b = (a + 1) + (b - (a + 1))
      BY <1>2
    <3> QED
      BY <3>1
  <2> QED
    BY <1>1, <2>1
<1>3. \A a, b \in Nat : a < b \/ a = b \/ b < a
  OBVIOUS
<1>4. \A a, b \in Nat : a < b => ~(b < a) /\ a # b
  OBVIOUS
<1> QED
  BY <1>2, <1>3, <1>4, MagNat

\* Up to the least normal number, magnitudes are the bits.
LEMMA MagSmall == \A b \in 0..One : Mag(b) = b
<1>1. One \in Nat
  BY OneEven
<1>2. ASSUME NEW b \in 0..One, b # One PROVE Mag(b) = b
  <2>1. b < One
    BY <1>1, <1>2
  <2> QED
    BY <2>1 DEF Mag
<1>3. Mag(One) = One
  <2>1. One * (0 + 1) = One /\ One * 1 = One
    BY <1>1
  <2> QED
    BY <2>1, MagPow, Pow2Def
<1> QED
  BY <1>2, <1>3

\* The magnitudes of an exponent.
LEMMA MagRange ==
    \A b \in Nat : \A e \in Nat : e = b \div One =>
        /\ Mag(b) < One * Pow2[e]
        /\ e # 0 => One * Pow2[e - 1] <= Mag(b)
<1> TAKE b \in Nat
<1>1. PICK e \in Nat, m \in 0..(One - 1) : b = One * e + m /\ e = b \div One
  BY BitsOf
<1>2. One \in Nat /\ One * e \in Nat /\ One * (e + 1) = One * e + One
  BY OneEven
<1>3. b < One * (e + 1) /\ One * (e + 1) \in Nat
  BY <1>1, <1>2
<1>4. Mag(b) < One * Pow2[e]
  <2>1. PICK c \in Nat : c = One * (e + 1) /\ b < c
    BY <1>3
  <2>2. Mag(b) < Mag(c)
    BY <2>1, MagOrder
  <2> QED
    BY <2>1, <2>2, MagPow
<1>5. CASE e # 0
  <2>1. PICK d \in Nat : e = d + 1 /\ e - 1 = d
    <3>1. e - 1 \in Nat /\ e = (e - 1) + 1
      BY <1>5
    <3> QED
      BY <3>1
  <2>2. PICK c \in Nat : c = One * (d + 1)
    BY <2>1, <1>2
  <2>3. ~(b < c)
    BY <1>1, <1>2, <2>1, <2>2
  <2>4. ~(Mag(b) < Mag(c)) /\ Mag(b) \in Nat /\ Mag(c) \in Nat
    BY <2>3, MagOrder, MagNat
  <2>5. Mag(c) <= Mag(b)
    BY <2>4
  <2> QED
    BY <1>1, <1>4, <2>1, <2>2, <2>5, MagPow
<1> QED
  BY <1>1, <1>4, <1>5

-----------------------------------------------------------------------------
(* Rounding.                                                               *)

\* A format has an even number of finite magnitudes, and more than the subnormal.
LEMMA Formats ==
    ASSUME NEW f \in Format
    PROVE  /\ Special[f] \in Nat /\ Special[f] >= 3 /\ Infinite(f) = One * Special[f]
           /\ Infinite(f) \in Nat /\ Infinite(f) >= 2 * One
           /\ \E h \in Nat : Infinite(f) = 2 * h
<1>1. Special[f] \in Nat /\ Special[f] >= 3
  BY TinyFloatAssumption DEF Format
<1>2. PICK s \in Nat : s = Special[f]
  BY <1>1
<1>3. PICK h \in Nat : One = 2 * h /\ One \in Nat /\ One >= 2
  BY OneEven
<1>4. s * One = One * s /\ One * s \in Nat /\ s * One = 2 * (h * s) /\ h * s \in Nat
  BY <1>3
<1>5. One * s >= One * 2 /\ One * 2 = 2 * One
  BY <1>1, <1>2, <1>3
<1> QED
  BY <1>1, <1>2, <1>4, <1>5 DEF Infinite

\* A bounded set of naturals has a greatest element.
LEMMA Greatest ==
    ASSUME NEW N \in Nat, NEW S \in SUBSET (0..N), S # {}
    PROVE  \E b \in S : \A c \in S : c <= b
<1> DEFINE T == {N - b : b \in S}
<1>1. T \in SUBSET Nat /\ T # {}
  <2>1. \A b \in S : N - b \in Nat
    <3>1. \A b \in 0..N : N - b \in Nat
      OBVIOUS
    <3> QED
      BY <3>1
  <2> QED
    BY <2>1
<1>2. PICK d \in T : \A e \in T : d <= e
  <2> HIDE DEF T
  <2> QED
    BY <1>1, Least
<1>3. PICK b \in S : d = N - b
  BY <1>2
<1>4. ASSUME NEW c \in S PROVE c <= b
  <2>1. N - c \in T
    OBVIOUS
  <2>2. d <= N - c
    BY <1>2, <2>1
  <2> QED
    BY <1>3, <2>2
<1> QED
  BY <1>4

\* The number of the format below a quotient, to which or to the one behind it
\* rounds.
Below(f, num, den, b) ==
    /\ Mag(b) * den <= num
    /\ b < Infinite(f) => num < Mag(b + 1) * den
    /\ Nearest(f, num, den) = IF \/ b = Infinite(f)
                                \/ 2 * num < Mag(b) * den + Mag(b + 1) * den
                                \/ /\ 2 * num = Mag(b) * den + Mag(b + 1) * den
                                   /\ b % 2 = 0
                             THEN b ELSE b + 1

\* There is one: the greatest number not above the quotient.
LEMMA NearestBelow ==
    ASSUME NEW f \in Format, NEW num \in Nat, NEW den \in Nat \ {0}
    PROVE  \E b \in 0..Infinite(f) : Below(f, num, den, b)
<1>1. Infinite(f) \in Nat
  BY Formats
<1>2. PICK N \in Nat : N = Infinite(f)
  BY <1>1
<1> DEFINE P(b) == /\ Mag(b) * den <= num
                   /\ b < Infinite(f) => num < Mag(b + 1) * den
           Fits == {b \in 0..N : Mag(b) * den <= num}
           w == CHOOSE b \in 0..Infinite(f) : P(b)
<1>3. Fits # {}
  <2>1. 0 \in 0..N /\ 0 \in 0..One
    BY OneEven
  <2>2. Mag(0) = 0
    BY <2>1, MagSmall
  <2>3. 0 * den <= num
    OBVIOUS
  <2> QED
    BY <2>1, <2>2, <2>3
<1>4. PICK m \in Fits : \A c \in Fits : c <= m
  <2>1. Fits \in SUBSET (0..N)
    OBVIOUS
  <2> HIDE DEF Fits
  <2> QED
    BY <1>3, <2>1, Greatest
<1>5. m \in 0..Infinite(f) /\ P(m)
  <2>1. m \in 0..N /\ Mag(m) * den <= num
    BY <1>4
  <2>2. ASSUME m < N PROVE num < Mag(m + 1) * den
    <3>1. m + 1 \in 0..N /\ ~(m + 1 <= m)
      BY <2>1, <2>2
    <3>2. m + 1 \notin Fits
      <4> HIDE DEF Fits
      <4> QED
        BY <1>4, <3>1
    <3>3. ~(Mag(m + 1) * den <= num)
      BY <3>1, <3>2
    <3>4. PICK v \in Nat : v = Mag(m + 1)
      BY <2>1, MagNat
    <3>5. v * den \in Nat
      OBVIOUS
    <3> QED
      BY <3>3, <3>4, <3>5
  <2> QED
    BY <1>2, <2>1, <2>2
<1>6. w \in 0..Infinite(f) /\ P(w)
  <2> HIDE DEF P
  <2> QED
    BY <1>5
<1>7. Nearest(f, num, den) =
          LET over == 2 * (num - Mag(w) * den)
              gap == (Mag(w + 1) - Mag(w)) * den
          IN  IF w = Infinite(f) \/ over < gap \/ (over = gap /\ w % 2 = 0) THEN w ELSE w + 1
  BY DEF Nearest
<1>8. PICK b \in 0..N : b = w
  BY <1>2, <1>6
<1> HIDE DEF w
<1>9. PICK lo \in Nat, hi \in Nat : lo = Mag(b) /\ hi = Mag(b + 1)
  BY MagNat
<1>10. (hi - lo) * den = hi * den - lo * den /\ hi * den \in Nat /\ lo * den \in Nat
  OBVIOUS
<1>11. PICK u \in Nat, v \in Nat : u = lo * den /\ v = hi * den
  BY <1>10
<1>12. Nearest(f, num, den) =
           IF b = N \/ 2 * (num - u) < v - u \/ (2 * (num - u) = v - u /\ b % 2 = 0)
           THEN b ELSE b + 1
  BY <1>2, <1>7, <1>8, <1>9, <1>10, <1>11
<1>13. /\ 2 * (num - u) < v - u <=> 2 * num < u + v
       /\ 2 * (num - u) = v - u <=> 2 * num = u + v
  OBVIOUS
<1>14. Nearest(f, num, den) =
           IF b = N \/ 2 * num < u + v \/ (2 * num = u + v /\ b % 2 = 0) THEN b ELSE b + 1
  BY <1>12, <1>13
<1>15. u <= num /\ (b < N => num < v)
  BY <1>2, <1>6, <1>8, <1>9, <1>11
<1> QED
  BY <1>2, <1>9, <1>11, <1>14, <1>15 DEF Below

\* Multiplication by a natural number keeps the order.
LEMMA Times ==
    ASSUME NEW d \in Nat
    PROVE  \A a, b \in Nat : a <= b => a * d \in Nat /\ b * d \in Nat /\ a * d <= b * d
<1> QED
  OBVIOUS

\* A magnitude not below another is not below it when multiplied.
LEMMA MagTimes ==
    ASSUME NEW d \in Nat, NEW a \in Nat, NEW b \in Nat, a <= b
    PROVE  Mag(a) * d \in Nat /\ Mag(b) * d \in Nat /\ Mag(a) * d <= Mag(b) * d
<1>1. ~(b < a)
  OBVIOUS
<1>2. Mag(a) \in Nat /\ Mag(b) \in Nat /\ ~(Mag(b) < Mag(a))
  BY <1>1, MagNat, MagOrder
<1>3. Mag(a) <= Mag(b)
  BY <1>2
<1> QED
  BY <1>2, <1>3, Times

\* Rounding stays in the format.
LEMMA NearestFits ==
    ASSUME NEW f \in Format, NEW num \in Nat, NEW den \in Nat \ {0}
    PROVE  Nearest(f, num, den) \in 0..Infinite(f)
<1>1. PICK N \in Nat : N = Infinite(f)
  BY Formats
<1>2. PICK b \in 0..N : Below(f, num, den, b)
  BY <1>1, NearestBelow
<1>3. Nearest(f, num, den) = b \/ (b # N /\ Nearest(f, num, den) = b + 1)
  BY <1>1, <1>2 DEF Below
<1> QED
  BY <1>1, <1>2, <1>3

\* What is not nearer to the largest number than to the power of two behind it
\* is infinite.
LEMMA NearestInfinite ==
    ASSUME NEW f \in Format, NEW num \in Nat, NEW den \in Nat \ {0}
    PROVE  Nearest(f, num, den) = Infinite(f)
               <=> 2 * num >= (Largest(f) + BehindLargest(f)) * den
<1>1. PICK N \in Nat, h \in Nat : N = Infinite(f) /\ N = 2 * h /\ N >= 2
  BY Formats, OneEven
<1>a. PICK b \in 0..N : Below(f, num, den, b)
  BY <1>1, NearestBelow
<1>2. /\ Mag(b) * den <= num
      /\ b < N => num < Mag(b + 1) * den
      /\ Nearest(f, num, den) = IF \/ b = N
                                  \/ 2 * num < Mag(b) * den + Mag(b + 1) * den
                                  \/ /\ 2 * num = Mag(b) * den + Mag(b + 1) * den
                                     /\ b % 2 = 0
                               THEN b ELSE b + 1
  BY <1>1, <1>a DEF Below
<1>3. N - 1 \in Nat /\ N - 1 <= N /\ (N - 1) + 1 = N /\ (N - 1) % 2 # 0
  BY <1>1
<1>4. PICK u \in Nat, v \in Nat : u = Mag(N - 1) * den /\ v = Mag(N) * den /\ u <= v
  BY <1>3, MagTimes
<1>5. (Largest(f) + BehindLargest(f)) * den = u + v
  <2>1. PICK l \in Nat, k \in Nat : l = Largest(f) /\ k = BehindLargest(f)
    BY <1>1, <1>3, MagNat DEF Largest, BehindLargest
  <2>2. (l + k) * den = l * den + k * den
    OBVIOUS
  <2> QED
    BY <1>1, <1>4, <2>1, <2>2 DEF Largest, BehindLargest
<1>6. CASE b = N
  <2>1. v <= num
    BY <1>2, <1>4, <1>6
  <2>2. 2 * num >= u + v
    BY <1>4, <2>1
  <2> QED
    BY <1>1, <1>2, <1>5, <1>6, <2>2
<1>7. CASE b = N - 1
  <2>1. Nearest(f, num, den) = IF 2 * num < u + v THEN N - 1 ELSE N
    BY <1>2, <1>3, <1>4, <1>7
  <2> QED
    BY <1>1, <1>3, <1>5, <2>1
<1>8. CASE b < N - 1
  <2>1. b + 1 \in Nat /\ b + 1 <= N - 1 /\ b < N /\ b \in Nat
    BY <1>3, <1>8
  <2>2. PICK w \in Nat : w = Mag(b + 1) * den /\ w <= u
    BY <1>3, <1>4, <2>1, MagTimes
  <2>3. num < w
    BY <1>2, <2>1, <2>2
  <2>4. ~(2 * num >= u + v)
    BY <1>4, <2>2, <2>3
  <2>5. Nearest(f, num, den) = b \/ Nearest(f, num, den) = b + 1
    BY <1>2
  <2> QED
    BY <1>1, <1>5, <1>8, <2>1, <2>4, <2>5
<1> QED
  BY <1>3, <1>6, <1>7, <1>8

\* What is nearer to a subnormal number than to 0 and than to the least normal
\* one is subnormal.
LEMMA NearestSubnormal ==
    ASSUME NEW f \in Format, NEW num \in Nat, NEW den \in Nat \ {0}
    PROVE  Nearest(f, num, den) \in 1..(One - 1)
               <=> 2 * num > den /\ 2 * num < (2 * One - 1) * den
<1>1. PICK N \in Nat : N = Infinite(f) /\ N >= 2 * One
  BY Formats
<1>a. PICK b \in 0..N : Below(f, num, den, b)
  BY <1>1, NearestBelow
<1>2. /\ Mag(b) * den <= num
      /\ b < N => num < Mag(b + 1) * den
      /\ Nearest(f, num, den) = IF \/ b = N
                                  \/ 2 * num < Mag(b) * den + Mag(b + 1) * den
                                  \/ /\ 2 * num = Mag(b) * den + Mag(b + 1) * den
                                     /\ b % 2 = 0
                               THEN b ELSE b + 1
  BY <1>1, <1>a DEF Below
<1>3. PICK k \in Nat, h \in Nat : One = k + 1 /\ One = 2 * h /\ k >= 1 /\ k = One - 1
  <2>1. PICK h \in Nat : One = 2 * h /\ One \in Nat /\ One >= 2
    BY OneEven
  <2>2. One - 1 \in Nat /\ One = (One - 1) + 1 /\ One - 1 >= 1
    BY <2>1
  <2> QED
    BY <2>1, <2>2
<1>4. Mag(0) = 0 /\ Mag(1) = 1 /\ Mag(k) = k /\ Mag(k + 1) = k + 1
  <2>1. 0 \in 0..One /\ 1 \in 0..One /\ k \in 0..One /\ k + 1 \in 0..One
    BY <1>3
  <2> QED
    BY <2>1, MagSmall
<1>5. PICK u \in Nat : u = k * den /\ (k + 1) * den = u + den /\ u >= den
  <2>1. k * den \in Nat /\ (k + 1) * den = k * den + den
    OBVIOUS
  <2>2. 1 * den <= k * den /\ 1 * den = den
    BY <1>3
  <2> QED
    BY <2>1, <2>2
<1>6. (2 * One - 1) * den = u + (u + den)
  <2>1. 2 * One - 1 = k + (k + 1)
    BY <1>3
  <2>2. (k + (k + 1)) * den = k * den + (k + 1) * den
    OBVIOUS
  <2> QED
    BY <1>5, <2>1, <2>2
<1>7. b \in Nat /\ b + 1 \in Nat /\ k % 2 # 0 /\ 0 % 2 = 0
  BY <1>3
<1>8. CASE b = 0
  <2>1. b # N /\ b < N
    BY <1>1, <1>3, <1>8
  <2>2. Mag(b) * den = 0 /\ Mag(b + 1) * den = den
    <3>1. 0 * den = 0 /\ 1 * den = den /\ 0 + 1 = 1
      OBVIOUS
    <3> QED
      BY <1>4, <1>8, <3>1
  <2>3. num < den /\ Nearest(f, num, den) = IF 2 * num <= den THEN 0 ELSE 1
    BY <1>2, <1>7, <1>8, <2>1, <2>2
  <2>4. 2 * num < u + (u + den)
    BY <1>5, <2>3
  <2> QED
    BY <1>3, <1>6, <2>3, <2>4
<1>9. CASE b \in 1..(k - 1)
  <2>1. b < N /\ 1 <= b /\ b + 1 <= k /\ 1 \in Nat
    BY <1>1, <1>3, <1>9
  <2>2. Mag(1) * den \in Nat /\ Mag(b) * den \in Nat /\ Mag(1) * den <= Mag(b) * den
    BY <1>7, <2>1, MagTimes
  <2>3. Mag(b + 1) * den \in Nat /\ Mag(b + 1) * den <= Mag(k) * den
    BY <1>7, <2>1, MagTimes
  <2>4. den <= num /\ num < u
    <3>1. 1 * den = den
      OBVIOUS
    <3> QED
      BY <1>2, <1>4, <1>5, <2>1, <2>2, <2>3, <3>1
  <2>5. Nearest(f, num, den) = b \/ Nearest(f, num, den) = b + 1
    BY <1>2
  <2> QED
    BY <1>3, <1>5, <1>6, <1>9, <2>1, <2>4, <2>5
<1>10. CASE b = k
  <2>1. b < N /\ b # N
    BY <1>1, <1>3, <1>10
  <2>2. Nearest(f, num, den) = IF 2 * num < u + (u + den) THEN k ELSE k + 1
    BY <1>2, <1>4, <1>5, <1>7, <1>10, <2>1
  <2>3. u <= num
    BY <1>2, <1>4, <1>5, <1>10
  <2>4. 2 * num > den
    BY <1>5, <2>3
  <2> QED
    BY <1>3, <1>6, <2>2, <2>4
<1>11. CASE b > k
  <2>1. k + 1 <= b /\ k + 1 \in Nat
    BY <1>7, <1>11
  <2>2. Mag(b) * den \in Nat /\ Mag(k + 1) * den <= Mag(b) * den
    BY <1>7, <2>1, MagTimes
  <2>3. u + den <= num
    BY <1>2, <1>4, <1>5, <2>2
  <2>4. ~(2 * num < u + (u + den))
    BY <2>3
  <2>5. Nearest(f, num, den) = b \/ Nearest(f, num, den) = b + 1
    BY <1>2
  <2> QED
    BY <1>3, <1>6, <1>11, <2>4, <2>5
<1> QED
  BY <1>3, <1>7, <1>8, <1>9, <1>10, <1>11

-----------------------------------------------------------------------------
(* Exponents and results.                                                  *)

\* An exponent is at most k if the bits are below those of the next.
LEMMA ExponentAtMost ==
    ASSUME NEW b \in Nat, NEW k \in Nat
    PROVE  b \div One \in Nat /\ (b \div One <= k <=> b < One * (k + 1))
<1>1. PICK e \in Nat, m \in 0..(One - 1) : b = One * e + m /\ e = b \div One
  BY BitsOf
<1>2. One \in Nat /\ One * e \in Nat /\ One * (k + 1) \in Nat
  BY OneEven
<1>3. CASE e <= k
  <2>1. One * (e + 1) <= One * (k + 1) /\ One * (e + 1) = One * e + One
    BY <1>2, <1>3
  <2>2. b < One * (k + 1)
    BY <1>1, <1>2, <2>1
  <2> QED
    BY <1>1, <1>3, <2>2
<1>4. CASE ~(e <= k)
  <2>1. One * (k + 1) <= One * e
    BY <1>2, <1>4
  <2>2. ~(b < One * (k + 1))
    BY <1>1, <1>2, <2>1
  <2> QED
    BY <1>1, <1>4, <2>2
<1> QED
  BY <1>3, <1>4

IsFloat(f, x) == x \in [bits : 0..(Infinite(f) + 1), neg : BOOLEAN]

\* The floats of a format have a sign and bits.
LEMMA FloatsAre == \A f \in Format : \A x \in Floats(f) : IsFloat(f, x)
<1> TAKE f \in Format
<1> TAKE x \in Floats(f)
<1>1. PICK N \in Nat : N = Infinite(f)
  BY Formats
<1>2. CASE x \in [bits : 0..N, neg : BOOLEAN]
  BY <1>1, <1>2 DEF IsFloat
<1>3. CASE x = NaN(f)
  BY <1>1, <1>3 DEF IsFloat, NaN
<1> QED
  BY <1>1, <1>2, <1>3 DEF Floats

\* What the code reads off the bits is what they stand for.
LEMMA Exponents ==
    ASSUME NEW f \in Format, NEW x, IsFloat(f, x)
    PROVE  /\ GetExponent(x) \in Nat
           /\ GetExponent(x) = 0 <=> x.bits < One
           /\ GetExponent(x) = Special[f] <=> ~isfinite(f, x)
           /\ IsInf(f, x) <=> isinf(f, x)
           /\ IsSubnormal(x) <=> x.bits \in 1..(One - 1)
<1>1. PICK N \in Nat, s \in Nat : N = Infinite(f) /\ s = Special[f] /\ s >= 3 /\ N = One * s
  BY Formats
<1>2. PICK b \in Nat : b = x.bits /\ b <= N + 1
  BY <1>1 DEF IsFloat
<1>3. PICK e \in Nat, m \in 0..(One - 1) : b = One * e + m /\ e = b \div One /\ m = b % One
  BY BitsOf
<1>4. One \in Nat /\ One >= 2 /\ One * 1 = One /\ One * e \in Nat
  BY OneEven
<1>5. s - 1 \in Nat /\ (s - 1) + 1 = s /\ One * (s + 1) = N + One
  BY <1>1, <1>4
<1>6. e <= 0 <=> b < One
  <2>1. b \div One <= 0 <=> b < One * (0 + 1)
    BY ExponentAtMost
  <2> QED
    BY <1>3, <1>4, <2>1
<1>7. e <= s - 1 <=> b < N
  <2>1. PICK k \in Nat : k = s - 1 /\ k + 1 = s
    BY <1>5
  <2>2. b \div One <= k <=> b < One * (k + 1)
    BY ExponentAtMost
  <2> QED
    BY <1>1, <1>3, <2>1, <2>2
<1>8. e <= s
  <2>1. b \div One <= s <=> b < One * (s + 1)
    BY ExponentAtMost
  <2>2. b < One * (s + 1)
    BY <1>2, <1>4, <1>5
  <2> QED
    BY <1>3, <2>1, <2>2
<1>9. e = s <=> ~(b < N)
  BY <1>7, <1>8
<1>10. e = s /\ m = 0 <=> b = N
  <2>1. CASE e = s
    <3>1. b = N + m
      BY <1>1, <1>3, <2>1
    <3> QED
      BY <2>1, <3>1
  <2>2. CASE e # s
    BY <1>9, <2>2
  <2> QED
    BY <2>1, <2>2
<1>11. GetExponent(x) = e /\ GetMantissa(x) = m
  BY <1>2, <1>3 DEF GetExponent, GetMantissa
<1>12. GetExponent(x) = 0 <=> x.bits < One
  BY <1>2, <1>6, <1>11
<1>13. GetExponent(x) = Special[f] <=> ~isfinite(f, x)
  BY <1>1, <1>2, <1>9, <1>11 DEF isfinite
<1>14. IsInf(f, x) <=> isinf(f, x)
  BY <1>1, <1>2, <1>10, <1>11 DEF IsInf, isinf
<1>15. IsSubnormal(x) <=> x.bits \in 1..(One - 1)
  BY <1>2, <1>4, <1>12 DEF IsSubnormal, IsZero
<1> QED
  BY <1>11, <1>12, <1>13, <1>14, <1>15

Arithmetic == {"add", "sub", "mul", "div"}

\* Rounding has the sign of the exact result.
LEMMA RoundedIs ==
    ASSUME NEW f \in Format, NEW num \in Int, NEW den \in Nat \ {0}
    PROVE  LET x == Rounded(f, <<num, den>>)
               abs == IF num < 0 THEN -num ELSE num
           IN  /\ abs \in Nat /\ x.bits = Nearest(f, abs, den) /\ x.neg = (num < 0)
               /\ x.bits \in 0..Infinite(f) /\ IsFloat(f, x)
<1> DEFINE abs == IF num < 0 THEN -num ELSE num
<1>1. PICK a \in Nat : a = abs
  OBVIOUS
<1>2. PICK N \in Nat : N = Infinite(f)
  BY Formats
<1>3. Nearest(f, a, den) \in 0..N
  BY <1>2, NearestFits
<1>4. Rounded(f, <<num, den>>) = [bits |-> Nearest(f, a, den), neg |-> num < 0]
  BY <1>1 DEF Rounded
<1>5. (num < 0) \in BOOLEAN
  OBVIOUS
<1>6. PICK x : x = Rounded(f, <<num, den>>)
  OBVIOUS
<1>7. x.bits = Nearest(f, a, den) /\ x.neg = (num < 0) /\ x.bits \in 0..N
  BY <1>3, <1>4, <1>6
<1>8. IsFloat(f, x)
  <2>1. PICK b \in 0..(N + 1) : b = Nearest(f, a, den)
    BY <1>3
  <2>2. PICK s \in BOOLEAN : s = (num < 0)
    BY <1>5, Zenon
  <2>3. x = [bits |-> b, neg |-> s]
    BY <1>4, <1>6, <2>1, <2>2, Zenon
  <2> QED
    BY <1>2, <2>3 DEF IsFloat
<1> QED
  BY <1>1, <1>2, <1>6, <1>7, <1>8

\* The exact result is a quotient.
LEMMA ExactTyped ==
    ASSUME NEW f \in Format, NEW y, NEW z, IsFloat(f, y), IsFloat(f, z),
           NEW op \in Arithmetic, ~(op = "div" /\ IsZero(z))
    PROVE  \E num \in Int, den \in Nat \ {0} : Exact(f, op, y, z) = <<num, den>>
<1>1. PICK N \in Nat, s \in Nat : N = Infinite(f) /\ s = Special[f] /\ s >= 3
  BY Formats
<1>2. PICK m \in Nat : m = Mag(y.bits)
  BY <1>1, MagNat DEF IsFloat
<1>3. PICK n \in Nat : n = Mag(z.bits) /\ (z.bits # 0 => n # 0)
  <2>1. PICK b \in Nat : b = z.bits
    BY <1>1 DEF IsFloat
  <2>2. 0 \in 0..One
    BY OneEven
  <2>3. b # 0 => Mag(0) < Mag(b) /\ Mag(0) = 0
    BY <2>2, MagOrder, MagSmall
  <2> QED
    BY <2>1, <2>3, MagNat
<1>4. PICK v \in Int, w \in Int : v = Value(y) /\ w = Value(z)
  BY <1>2, <1>3 DEF Value
<1>5. PICK p \in Nat \ {0} : p = Pow2[Scale(f)]
  <2>1. Scale(f) \in Nat
    BY <1>1, TinyFloatAssumption DEF Scale
  <2> QED
    BY <2>1, TwoTimes
<1>6. CASE op = "add"
  BY <1>4, <1>6 DEF Exact
<1>7. CASE op = "sub"
  BY <1>4, <1>7 DEF Exact
<1>8. CASE op = "mul"
  <2>1. Exact(f, op, y, z) = <<v * w, p>>
    BY <1>4, <1>5, <1>8 DEF Exact
  <2>2. v * w \in Int
    OBVIOUS
  <2> QED
    BY <2>1, <2>2
<1>9. CASE op = "div"
  <2>1. PICK u \in Int : u = IF z.neg THEN -v ELSE v
    OBVIOUS
  <2>2. Exact(f, op, y, z) = <<u * p, n>>
    BY <1>3, <1>4, <1>5, <1>9, <2>1 DEF Exact
  <2>3. u * p \in Int
    OBVIOUS
  <2>4. n # 0
    BY <1>3, <1>9 DEF IsZero
  <2> QED
    BY <2>2, <2>3, <2>4
<1> QED
  BY <1>6, <1>7, <1>8, <1>9 DEF Arithmetic

\* Finite operands give the exact result, rounded.
LEMMA FiniteResult ==
    ASSUME NEW f \in Format, NEW y, NEW z, IsFloat(f, y), IsFloat(f, z),
           NEW op \in Arithmetic, ~(op = "div" /\ IsZero(z)), isfinite(f, y), isfinite(f, z)
    PROVE  Result(f, op, y, z) = Rounded(f, Exact(f, op, y, z))
<1>1. PICK N \in Nat : N = Infinite(f)
  BY Formats
<1>2. ~isnan(f, y) /\ ~isnan(f, z) /\ ~isinf(f, y) /\ ~isinf(f, z)
  BY <1>1 DEF IsFloat, isfinite, isnan, isinf
<1>3. ~isinf(f, Flip(z))
  <2>1. Flip(z).bits = z.bits
    BY DEF Flip
  <2> QED
    BY <1>2, <2>1 DEF isinf
<1>4. CASE op \in {"add", "sub"}
  BY <1>2, <1>3, <1>4 DEF Result
<1>5. CASE op = "mul"
  BY <1>2, <1>5 DEF Result
<1>6. CASE op = "div"
  BY <1>2, <1>6 DEF Result
<1> QED
  BY <1>4, <1>5, <1>6 DEF Arithmetic

-----------------------------------------------------------------------------
(* What is counted.                                                        *)

\* The kinds of event a check whose condition holds counts.
CheckCounts(f, op, x, y, z) ==
    IF EndsEarly(f, x) THEN {} ELSE {kind \in Kind : Occurs(kind, f, op, x, y, z)}

\* Fast checking hides no infinity, NaN or subnormal number.
LEMMA NotHidden ==
    ASSUME NEW f \in Format, NEW op, NEW x, NEW y, NEW z, IsFloat(f, x)
    PROVE  LET c == CheckCounts(f, op, x, y, z)
           IN  /\ EndsEarly(f, x) => isfinite(f, x) /\ ~IsSubnormal(x)
               /\ "nan" \in c <=> isnan(f, x)
               /\ "infinity_pos" \in c <=> isinf(f, x) /\ ~x.neg
               /\ "infinity_neg" \in c <=> isinf(f, x) /\ x.neg
               /\ "underflow" \in c <=> x.bits \in 1..(One - 1)
<1>1. PICK N \in Nat : N = Infinite(f) /\ N >= 2 /\ N >= One /\ One \in Nat
  BY Formats, OneEven
<1>2. x.bits \in 0..(N + 1) /\ x.neg \in BOOLEAN
  BY <1>1 DEF IsFloat
<1>3. EndsEarly(f, x) => isfinite(f, x) /\ ~IsSubnormal(x)
  BY Exponents DEF EndsEarly, IsSubnormal
<1>4. EndsEarly(f, x) => ~isnan(f, x) /\ ~isinf(f, x) /\ x.bits \notin 1..(One - 1)
  BY <1>1, <1>2, <1>3, Exponents DEF isfinite, isnan, isinf
<1> DEFINE occurs(kind) == Occurs(kind, f, op, x, y, z)
<1>5. occurs("nan") <=> isnan(f, x)
  BY DEF Occurs, IsNaN
<1>6. occurs("infinity_pos") <=> isinf(f, x) /\ ~x.neg
  <2>1. occurs("infinity_pos") <=> IsInf(f, x) /\ Positive(f, x)
    BY DEF Occurs, IsInfinityPos
  <2>2. isinf(f, x) => ~IsZero(x) /\ ~isnan(f, x)
    BY <1>1 DEF isinf, IsZero, isnan
  <2> QED
    BY <2>1, <2>2, Exponents DEF Positive
<1>7. occurs("infinity_neg") <=> isinf(f, x) /\ x.neg
  <2>1. occurs("infinity_neg") <=> IsInf(f, x) /\ Negative(f, x)
    BY DEF Occurs, IsInfinityNeg
  <2>2. isinf(f, x) => ~IsZero(x) /\ ~isnan(f, x)
    BY <1>1 DEF isinf, IsZero, isnan
  <2> QED
    BY <2>1, <2>2, Exponents DEF Negative
<1>8. occurs("underflow") <=> x.bits \in 1..(One - 1)
  <2>1. occurs("underflow") <=> IsSubnormal(x)
    BY DEF Occurs
  <2> QED
    BY <2>1, Exponents
<1>9. \A kind \in Kind : kind \in CheckCounts(f, op, x, y, z) <=> ~EndsEarly(f, x) /\ occurs(kind)
  BY DEF CheckCounts
<1>10. {"nan", "infinity_pos", "infinity_neg", "underflow"} \subseteq Kind
  BY DEF Kind
<1> HIDE DEF occurs
<1> QED
  BY <1>3, <1>4, <1>5, <1>6, <1>7, <1>8, <1>9, <1>10

\* What is counted of finite operands is what the exact result says.
LEMMA FoundTrue ==
    ASSUME NEW f \in Format, NEW y, NEW z, IsFloat(f, y), IsFloat(f, z),
           NEW op \in Arithmetic, ~(op = "div" /\ IsZero(z)), isfinite(f, y), isfinite(f, z),
           NEW x, x = Result(f, op, y, z)
    PROVE  \A kind \in {"infinity_pos", "infinity_neg", "underflow"} :
               kind \in CheckCounts(f, op, x, y, z) <=> TrueOf(kind, f, Exact(f, op, y, z))
<1>1. PICK num \in Int, den \in Nat \ {0} : Exact(f, op, y, z) = <<num, den>>
  BY ExactTyped
<1>2. PICK abs \in Nat : abs = IF num < 0 THEN -num ELSE num
  OBVIOUS
<1>3. x.bits = Nearest(f, abs, den) /\ x.neg = (num < 0) /\ IsFloat(f, x)
  BY <1>1, <1>2, FiniteResult, RoundedIs
<1>4. PICK N \in Nat : N = Infinite(f) /\ N >= 2
  BY Formats, OneEven
<1>5. PICK t \in Nat : t = (Largest(f) + BehindLargest(f)) * den /\ t > 0
  <2>1. 0 < N /\ 0 \in 0..One /\ N - 1 \in Nat
    BY <1>4, OneEven
  <2>2. Mag(0) < Mag(N) /\ Mag(0) = 0 /\ Mag(N) \in Nat /\ Mag(N - 1) \in Nat
    BY <2>1, MagOrder, MagSmall, MagNat
  <2>3. PICK s \in Nat \ {0} : s = Largest(f) + BehindLargest(f)
    BY <1>4, <2>2 DEF Largest, BehindLargest
  <2>4. s * den \in Nat /\ s * den > 0
    OBVIOUS
  <2> QED
    BY <2>3, <2>4
<1>6. PICK u \in Nat : u = (2 * One - 1) * den
  <2>1. PICK k \in Nat : k = 2 * One - 1
    BY OneEven
  <2>2. k * den \in Nat
    OBVIOUS
  <2> QED
    BY <2>1, <2>2
<1>7. x.bits = N <=> 2 * abs >= t
  BY <1>3, <1>4, <1>5, NearestInfinite
<1>8. x.bits \in 1..(One - 1) <=> 2 * abs > den /\ 2 * abs < u
  BY <1>3, <1>6, NearestSubnormal
<1>9. /\ Overflows(f, <<num, den>>) <=> 2 * num >= t
      /\ Overflows(f, <<-num, den>>) <=> 2 * (-num) >= t
  BY <1>5 DEF Overflows
<1>10. /\ Underflows(<<num, den>>) <=> 2 * num > den /\ 2 * num < u
       /\ Underflows(<<-num, den>>) <=> 2 * (-num) > den /\ 2 * (-num) < u
  BY <1>6 DEF Underflows
<1> DEFINE c == CheckCounts(f, op, x, y, z)
<1>11. "infinity_pos" \in c <=> TrueOf("infinity_pos", f, <<num, den>>)
  <2>1. "infinity_pos" \in c <=> x.bits = N /\ ~(num < 0)
    BY <1>3, <1>4, NotHidden DEF isinf
  <2>2. TrueOf("infinity_pos", f, <<num, den>>) <=> 2 * num >= t
    BY <1>9 DEF TrueOf
  <2> QED
    BY <1>2, <1>5, <1>7, <2>1, <2>2
<1>12. "infinity_neg" \in c <=> TrueOf("infinity_neg", f, <<num, den>>)
  <2>1. "infinity_neg" \in c <=> x.bits = N /\ num < 0
    BY <1>3, <1>4, NotHidden DEF isinf
  <2>2. TrueOf("infinity_neg", f, <<num, den>>) <=> 2 * (-num) >= t
    BY <1>9 DEF TrueOf
  <2> QED
    BY <1>2, <1>5, <1>7, <2>1, <2>2
<1>13. "underflow" \in c <=> TrueOf("underflow", f, <<num, den>>)
  <2>1. "underflow" \in c <=> x.bits \in 1..(One - 1)
    BY <1>3, NotHidden
  <2>2. TrueOf("underflow", f, <<num, den>>)
            <=> \/ 2 * num > den /\ 2 * num < u
                \/ 2 * (-num) > den /\ 2 * (-num) < u
    BY <1>10 DEF TrueOf
  <2> QED
    BY <1>2, <1>8, <2>1, <2>2
<1> QED
  BY <1>1, <1>11, <1>12, <1>13

\* A division of finite numbers by zero.
LEMMA FoundByZero ==
    ASSUME NEW f \in Format, NEW y, NEW z, IsFloat(f, y), IsFloat(f, z),
           IsZero(z), isfinite(f, y), NEW x, x = Result(f, "div", y, z)
    PROVE  CheckCounts(f, "div", x, y, z) \cap {"nan", "division_zero"} =
               IF IsZero(y) THEN {"nan"} ELSE {"division_zero"}
<1>1. PICK N \in Nat : N = Infinite(f) /\ N >= 2
  BY Formats, OneEven
<1>2. /\ ~isnan(f, y) /\ ~isnan(f, z) /\ ~isinf(f, y) /\ ~isinf(f, z)
      /\ y.neg \in BOOLEAN /\ z.neg \in BOOLEAN
  BY <1>1 DEF IsFloat, isfinite, isnan, isinf, IsZero
<1>3. x = IF IsZero(y) THEN NaN(f) ELSE Inf(f, y.neg # z.neg)
  BY <1>2 DEF Result
<1>4. (isnan(f, x) <=> IsZero(y)) /\ ~isfinite(f, x)
  BY <1>1, <1>3 DEF NaN, Inf, isnan, isfinite
<1>5. IsFloat(f, x)
  <2>1. PICK s \in BOOLEAN : s = (y.neg # z.neg)
    BY Zenon
  <2>2. x = [bits |-> N + 1, neg |-> FALSE] \/ x = [bits |-> N, neg |-> s]
    BY <1>1, <1>3, <2>1, Zenon DEF NaN, Inf
  <2>3. PICK b \in 0..(N + 1), r \in BOOLEAN : x = [bits |-> b, neg |-> r]
    <3>1. N \in 0..(N + 1) /\ N + 1 \in 0..(N + 1) /\ FALSE \in BOOLEAN
      OBVIOUS
    <3> QED
      BY <2>2, <3>1, Zenon
  <2> QED
    BY <1>1, <2>3 DEF IsFloat
<1>6. ~EndsEarly(f, x)
  BY <1>4, <1>5, NotHidden
<1>7. "nan" \in CheckCounts(f, "div", x, y, z) <=> IsZero(y)
  BY <1>4, <1>5, NotHidden
<1>8. "division_zero" \in CheckCounts(f, "div", x, y, z) <=> ~IsZero(y)
  <2>1. Occurs("division_zero", f, "div", x, y, z) <=> ~IsZero(y)
    BY DEF Occurs, IsDivisionZero
  <2> QED
    BY <1>6, <2>1 DEF CheckCounts, Kind
<1> QED
  BY <1>7, <1>8

\* The results near either end.
LEMMA FoundLatent ==
    ASSUME NEW f \in Format, NEW op, NEW x, NEW y, NEW z, IsFloat(f, x),
           ~fast, ~isnan(f, x)
    PROVE  LET c == CheckCounts(f, op, x, y, z)
           IN  /\ "latent_underflow" \in c <=> AbsVal(x) \in 1..(One * Pow2[Danger(f)] - 1)
               /\ c \cap {"latent_infinity_pos", "latent_infinity_neg"} # {}
                      <=> /\ ~IsZero(x)
                          /\ \/ Danger(f) > Special[f]
                             \/ AbsVal(x) * Pow2[Danger(f)] >= 2 * BehindLargest(f)
<1>1. PICK N \in Nat, s \in Nat : N = Infinite(f) /\ s = Special[f] /\ s >= 3 /\ N = One * s
  BY Formats
<1>2. PICK b \in Nat : b = x.bits /\ x.neg \in BOOLEAN
  BY <1>1 DEF IsFloat
<1>3. PICK d \in Nat : d = Danger(f)
  <2>1. PICK p \in Nat : p = Percent * (s + 1)
    <3>1. PICK q \in Nat : q = Percent
      BY EventChecksAssumption
    <3>2. q * (s + 1) \in Nat
      OBVIOUS
    <3> QED
      BY <3>1, <3>2
  <2>2. p \div 100 \in Nat
    OBVIOUS
  <2> QED
    BY <1>1, <2>1, <2>2 DEF Danger
<1>4. PICK e \in Nat : e = GetExponent(x) /\ e = b \div One
  BY <1>2, Exponents DEF GetExponent
<1>5. PICK a \in Nat : a = Mag(b) /\ a = AbsVal(x) /\ (a = 0 <=> b = 0)
  <2>1. 0 \in 0..One
    BY OneEven
  <2>2. Mag(0) = 0 /\ (0 < b <=> Mag(0) < Mag(b)) /\ Mag(b) \in Nat
    BY <2>1, MagSmall, MagOrder, MagNat
  <2> QED
    BY <1>2, <2>2 DEF AbsVal
<1>6. \A k \in Nat : (e <= k <=> a < One * Pow2[k]) /\ One * Pow2[k] \in Nat
  <2> TAKE k \in Nat
  <2>1. PICK c \in Nat : c = One * (k + 1) /\ Mag(c) = One * Pow2[k]
    BY MagPow
  <2>2. e <= k <=> b < c
    BY <1>4, <2>1, ExponentAtMost
  <2>3. b < c <=> a < Mag(c)
    <3>1. b < c <=> Mag(b) < Mag(c)
      BY MagOrder
    <3> QED
      BY <1>5, <3>1
  <2> QED
    BY <2>1, <2>2, <2>3, MagNat
<1>7. ~EndsEarly(f, x)
  BY DEF EndsEarly
<1>8. IsZero(x) <=> b = 0
  BY <1>2 DEF IsZero
<1> DEFINE occurs(kind) == Occurs(kind, f, op, x, y, z)
           c == CheckCounts(f, op, x, y, z)
<1>9. \A kind \in Kind : kind \in c <=> occurs(kind)
  BY <1>7 DEF CheckCounts
<1>10. {"latent_underflow", "latent_infinity_pos", "latent_infinity_neg"} \subseteq Kind
  BY DEF Kind
<1>11. occurs("latent_underflow") <=> b # 0 /\ e <= d
  BY <1>3, <1>4, <1>8 DEF Occurs, IsLatentSubnormal
<1>12. occurs("latent_infinity_pos") \/ occurs("latent_infinity_neg") <=> b # 0 /\ e >= s + 1 - d
  <2>1. occurs("latent_infinity_pos") <=> IsLatentInfinity(f, x) /\ Positive(f, x)
    BY DEF Occurs, IsLatentInfinityPos
  <2>2. occurs("latent_infinity_neg") <=> IsLatentInfinity(f, x) /\ Negative(f, x)
    BY DEF Occurs, IsLatentInfinityNeg
  <2>3. Positive(f, x) \/ Negative(f, x) <=> ~IsZero(x)
    BY <1>2 DEF Positive, Negative
  <2>4. IsLatentInfinity(f, x) <=> b # 0 /\ e >= s + 1 - d
    BY <1>1, <1>3, <1>4, <1>8 DEF IsLatentInfinity
  <2> QED
    BY <1>8, <2>1, <2>2, <2>3, <2>4
<1>13. b # 0 /\ e <= d <=> a \in 1..(One * Pow2[d] - 1)
  <2>1. PICK g \in Nat : g = One * Pow2[d] /\ (e <= d <=> a < g)
    BY <1>6
  <2> QED
    BY <1>5, <2>1
<1>14. ASSUME d <= s
       PROVE  e >= s + 1 - d <=> a * Pow2[d] >= 2 * BehindLargest(f)
  <2>1. PICK k \in Nat : k = s - d /\ k + d = s
    <3>1. s - d \in Nat /\ (s - d) + d = s
      BY <1>14
    <3> QED
      BY <3>1
  <2>2. PICK p \in Nat, q \in Nat \ {0} : p = Pow2[k] /\ q = Pow2[d] /\ Pow2[s] = p * q
    <3>1. Pow2[k] \in Nat /\ Pow2[d] \in Nat \ {0}
      BY TwoTimes
    <3>2. Pow2[s] = Pow2[k] * Pow2[d]
      BY <2>1, Pow2Plus
    <3> QED
      BY <3>1, <3>2
  <2>3. e >= s + 1 - d <=> ~(a < One * p)
    <3>1. e >= s + 1 - d <=> ~(e <= k)
      BY <2>1
    <3> QED
      BY <1>6, <2>2, <3>1
  <2>4. 2 * BehindLargest(f) = (One * p) * q
    <3>1. PICK j \in Nat : s = j + 1
      <4>1. s - 1 \in Nat /\ s = (s - 1) + 1
        BY <1>1
      <4> QED
        BY <4>1
    <3>2. BehindLargest(f) = One * Pow2[j]
      BY <1>1, <3>1, MagPow DEF BehindLargest
    <3>3. PICK v \in Nat : v = Pow2[j] /\ 2 * v = p * q
      BY <2>2, <3>1, TwoTimes
    <3>4. One \in Nat /\ 2 * (One * v) = One * (2 * v) /\ One * (p * q) = (One * p) * q
      BY OneEven
    <3> QED
      BY <3>2, <3>3, <3>4
  <2>5. PICK g \in Nat : g = One * p
    BY <1>6, <2>2
  <2>6. a < g <=> a * q < g * q
    <3>1. a < g => a * q < g * q
      OBVIOUS
    <3>2. g <= a => g * q <= a * q
      OBVIOUS
    <3>3. a * q \in Nat /\ g * q \in Nat
      OBVIOUS
    <3> QED
      BY <3>1, <3>2, <3>3
  <2>7. a * q \in Nat /\ g * q \in Nat
    OBVIOUS
  <2> QED
    BY <2>2, <2>3, <2>4, <2>5, <2>6, <2>7
<1>15. ASSUME d > s PROVE e >= s + 1 - d
  BY <1>15
<1> HIDE DEF occurs, c
<1>16. "latent_underflow" \in c <=> a \in 1..(One * Pow2[d] - 1)
  BY <1>9, <1>10, <1>11, <1>13
<1>17. c \cap {"latent_infinity_pos", "latent_infinity_neg"} # {} <=> b # 0 /\ e >= s + 1 - d
  BY <1>9, <1>10, <1>12
<1>18. e >= s + 1 - d <=> d > s \/ a * Pow2[d] >= 2 * BehindLargest(f)
  BY <1>14, <1>15
<1> QED
  BY <1>1, <1>3, <1>5, <1>8, <1>16, <1>17, <1>18 DEF c

\* The larger of two operands has the larger exponent.
LEMMA Biggest ==
    ASSUME NEW i \in Nat, NEW j \in Nat
    PROVE  \E b \in {i, j} : /\ i <= b /\ j <= b
                             /\ FPCMax(Mag(i), Mag(j)) = Mag(b)
                             /\ FPCMax(i \div One, j \div One) = b \div One
<1>1. ASSUME NEW a \in Nat, NEW c \in Nat, a <= c
      PROVE  /\ FPCMax(Mag(a), Mag(c)) = Mag(c) /\ FPCMax(Mag(c), Mag(a)) = Mag(c)
             /\ FPCMax(a \div One, c \div One) = c \div One
             /\ FPCMax(c \div One, a \div One) = c \div One
  <2>1. Mag(a) \in Nat /\ Mag(c) \in Nat /\ Mag(a) <= Mag(c)
    <3>1. Mag(c) < Mag(a) <=> c < a
      BY MagOrder
    <3> QED
      BY <1>1, <3>1, MagNat
  <2>2. PICK e \in Nat, g \in Nat : e = a \div One /\ g = c \div One /\ e <= g
    <3>1. PICK g \in Nat : g = c \div One /\ c < One * (g + 1)
      <4>1. PICK g \in Nat : g = c \div One
        BY BitsOf
      <4>2. c \div One <= g <=> c < One * (g + 1)
        BY ExponentAtMost
      <4> QED
        BY <4>1, <4>2
    <3>2. One * (g + 1) \in Nat
      BY MagPow
    <3>3. a < One * (g + 1)
      BY <1>1, <3>1, <3>2
    <3>4. a \div One \in Nat /\ a \div One <= g
      BY <3>3, ExponentAtMost
    <3> QED
      BY <3>1, <3>4
  <2>3. \A p, q \in Nat : p <= q => FPCMax(p, q) = q /\ FPCMax(q, p) = q
    BY DEF FPCMax
  <2> QED
    BY <2>1, <2>2, <2>3
<1>2. CASE i <= j
  BY <1>1, <1>2
<1>3. CASE j <= i
  BY <1>1, <1>3
<1> QED
  BY <1>2, <1>3

\* A cancellation has lost more than Threshold bits.
LEMMA FoundCancellation ==
    ASSUME NEW f \in Format, NEW y, NEW z, NEW x,
           IsFloat(f, x), IsFloat(f, y), IsFloat(f, z), NEW op \in {"add", "sub"}
    PROVE  LET c == CheckCounts(f, op, x, y, z)
               big == FPCMax(AbsVal(y), AbsVal(z))
           IN  /\ "cancellation" \in c => big > Pow2[Threshold] * AbsVal(x)
               /\ /\ ~fast /\ big >= Pow2[Threshold + 1] * AbsVal(x)
                  /\ big >= One * Pow2[Threshold]
                  => "cancellation" \in c
<1>1. PICK N \in Nat : N = Infinite(f)
  BY Formats
<1>2. PICK k \in Nat, i \in Nat, j \in Nat : k = x.bits /\ i = y.bits /\ j = z.bits
  BY <1>1 DEF IsFloat
<1>3. PICK b \in Nat : /\ FPCMax(Mag(i), Mag(j)) = Mag(b)
                       /\ FPCMax(i \div One, j \div One) = b \div One
  BY Biggest
<1>4. PICK e \in Nat, d \in Nat, t \in Nat : e = k \div One /\ d = b \div One /\ t = Threshold
  BY BitsOf, EventChecksAssumption
<1>5. PICK a \in Nat, g \in Nat : a = Mag(k) /\ g = Mag(b)
  BY MagNat
<1>6. a = AbsVal(x) /\ g = FPCMax(AbsVal(y), AbsVal(z))
  BY <1>2, <1>3, <1>5 DEF AbsVal
<1>7. IsCancellation(op, x, y, z) <=> d - e > t
  BY <1>2, <1>3, <1>4 DEF IsCancellation, GetExponent
<1>8. Occurs("cancellation", f, op, x, y, z) <=> d - e > t
  BY <1>7 DEF Occurs
<1>9. PICK o \in Nat, p \in Nat \ {0}, q \in Nat \ {0} :
          o = One /\ o >= 2 /\ p = Pow2[t] /\ q = Pow2[e] /\ Pow2[e + t] = q * p
  <2>1. Pow2[t] \in Nat \ {0} /\ Pow2[e] \in Nat \ {0}
    BY TwoTimes
  <2>2. Pow2[e + t] = Pow2[e] * Pow2[t]
    BY Pow2Plus
  <2> QED
    BY <2>1, <2>2, OneEven
<1>10. /\ a < o * q
       /\ e # 0 => o * Pow2[e - 1] <= a
       /\ g < o * Pow2[d]
       /\ d # 0 => o * Pow2[d - 1] <= g
  BY <1>4, <1>5, <1>9, MagRange
<1>11. \A u, v \in Nat : u <= v => /\ Pow2[u] \in Nat /\ Pow2[v] \in Nat
                                   /\ Pow2[u] <= Pow2[v] /\ o * Pow2[u] <= o * Pow2[v]
  <2> TAKE u, v \in Nat
  <2> HAVE u <= v
  <2>1. Pow2[v] < Pow2[u] <=> v < u
    BY Pow2Grows
  <2>2. PICK r \in Nat, s \in Nat : r = Pow2[u] /\ s = Pow2[v]
    BY TwoTimes
  <2>3. r <= s
    BY <2>1, <2>2
  <2>4. o * r <= o * s
    BY <2>3
  <2> QED
    BY <2>2, <2>3, <2>4
<1>12. ASSUME d - e > t PROVE g > p * a
  <2>1. PICK r \in Nat : r = d - 1 /\ e + t <= r /\ d # 0
    <3>1. d - 1 \in Nat /\ e + t <= d - 1 /\ d # 0
      BY <1>12
    <3> QED
      BY <3>1
  <2>2. o * (q * p) <= o * Pow2[r] /\ Pow2[r] \in Nat
    BY <1>9, <1>11, <2>1
  <2>3. o * Pow2[r] <= g
    BY <1>10, <2>1
  <2>4. PICK w \in Nat : w = o * q /\ a < w
    <3>1. o * q \in Nat
      OBVIOUS
    <3> QED
      BY <1>10, <3>1
  <2>5. o * (q * p) = w * p
    <3>1. o * (q * p) = (o * q) * p
      OBVIOUS
    <3> QED
      BY <2>4, <3>1
  <2>6. a * p < w * p /\ a * p = p * a /\ a * p \in Nat /\ w * p \in Nat
    <3>1. (a + 1) * p <= w * p
      BY <2>4
    <3>2. (a + 1) * p = a * p + p /\ a * p \in Nat /\ w * p \in Nat
      OBVIOUS
    <3>3. a * p = p * a
      OBVIOUS
    <3> QED
      BY <3>1, <3>2, <3>3
  <2>7. PICK h \in Nat : h = o * Pow2[r]
    <3>1. PICK l \in Nat : l = Pow2[r]
      BY <2>2
    <3>2. o * l \in Nat
      OBVIOUS
    <3> QED
      BY <3>1, <3>2
  <2> QED
    BY <2>2, <2>3, <2>5, <2>6, <2>7
<1>13. ASSUME g >= Pow2[t + 1] * a, g >= o * p PROVE d - e > t
  <2>1. \A u \in Nat : g >= o * Pow2[u] => d > u
    <3> TAKE u \in Nat
    <3> HAVE g >= o * Pow2[u]
    <3> SUFFICES ASSUME d <= u PROVE FALSE
      OBVIOUS
    <3>1. PICK r \in Nat, s \in Nat : r = o * Pow2[d] /\ s = o * Pow2[u]
      <4>1. PICK l \in Nat, m \in Nat : l = Pow2[d] /\ m = Pow2[u]
        BY TwoTimes
      <4>2. o * l \in Nat /\ o * m \in Nat
        OBVIOUS
      <4> QED
        BY <4>1, <4>2
    <3>2. r <= s
      BY <1>11, <3>1
    <3> QED
      BY <1>10, <3>1, <3>2
  <2>2. CASE e = 0
    <3>1. d > t
      BY <1>9, <1>13, <2>1
    <3> QED
      BY <2>2, <3>1
  <2>3. CASE e # 0
    <3>1. PICK u \in Nat : e = u + 1 /\ u = e - 1
      <4>1. e - 1 \in Nat /\ e = (e - 1) + 1
        BY <2>3
      <4> QED
        BY <4>1
    <3>2. PICK l \in Nat, m \in Nat : l = Pow2[u] /\ m = Pow2[t + 1]
      BY TwoTimes
    <3>3. Pow2[t + e] = m * l
      <4>1. t + e = (t + 1) + u /\ t + 1 \in Nat
        BY <3>1
      <4> QED
        BY <3>2, <4>1, Pow2Plus
    <3>4. o * l <= a
      BY <1>10, <2>3, <3>1, <3>2
    <3>5. m * (o * l) <= m * a
      <4>1. PICK r \in Nat : r = o * l
        <5>1. o * l \in Nat
          OBVIOUS
        <5> QED
          BY <5>1
      <4> QED
        BY <3>4, <4>1
    <3>6. m * (o * l) = o * (m * l) /\ m * (o * l) \in Nat /\ m * a \in Nat
      <4>1. m * (o * l) = (m * o) * l /\ (m * o) * l = (o * m) * l /\ (o * m) * l = o * (m * l)
        OBVIOUS
      <4>2. o * l \in Nat
        OBVIOUS
      <4>3. m * a \in Nat
        OBVIOUS
      <4> QED
        BY <4>1, <4>2, <4>3
    <3>7. g >= o * Pow2[t + e]
      BY <1>13, <3>2, <3>3, <3>5, <3>6
    <3>8. d > t + e
      BY <2>1, <3>7
    <3> QED
      BY <3>8
  <2> QED
    BY <2>2, <2>3
<1>14. "cancellation" \in CheckCounts(f, op, x, y, z) => d - e > t
  BY <1>8 DEF CheckCounts
<1>15. ~fast /\ d - e > t => "cancellation" \in CheckCounts(f, op, x, y, z)
  BY <1>8 DEF CheckCounts, EndsEarly, Kind
<1> QED
  BY <1>4, <1>6, <1>9, <1>12, <1>13, <1>14, <1>15

\* A result is a number of its format.
LEMMA ResultFloat ==
    ASSUME NEW f \in Format, NEW y, NEW z, IsFloat(f, y), IsFloat(f, z), NEW op \in Arithmetic
    PROVE  IsFloat(f, Result(f, op, y, z))
<1>1. PICK N \in Nat : N = Infinite(f) /\ N >= 2
  BY Formats, OneEven
<1>2. \A b \in 0..(N + 1), r \in BOOLEAN : IsFloat(f, [bits |-> b, neg |-> r])
  BY <1>1 DEF IsFloat
<1>3. 0 \in 0..(N + 1) /\ N \in 0..(N + 1) /\ N + 1 \in 0..(N + 1) /\ FALSE \in BOOLEAN
  BY <1>1
<1>4. IsFloat(f, NaN(f)) /\ IsFloat(f, PosZero) /\ \A r \in BOOLEAN : IsFloat(f, Inf(f, r))
  BY <1>1, <1>2, <1>3, Zenon DEF NaN, PosZero, Inf
<1>5. IsFloat(f, Flip(z))
  <2>1. PICK b \in 0..(N + 1), r \in BOOLEAN : z = [bits |-> b, neg |-> r]
    BY <1>1 DEF IsFloat
  <2>2. Flip(z) = [bits |-> b, neg |-> ~r]
    BY <2>1 DEF Flip
  <2>3. (~r) \in BOOLEAN
    OBVIOUS
  <2> QED
    BY <1>2, <2>2, <2>3, Zenon
<1>6. PICK n \in BOOLEAN : n = (y.neg # z.neg)
  BY Zenon
<1>7. CASE /\ isfinite(f, y) /\ isfinite(f, z)
           /\ ~(op = "div" /\ IsZero(z))
  <2>1. PICK num \in Int, den \in Nat \ {0} : Exact(f, op, y, z) = <<num, den>>
    BY <1>7, ExactTyped
  <2> QED
    BY <1>7, <2>1, FiniteResult, RoundedIs
<1>8. CASE isnan(f, y) \/ isnan(f, z)
  BY <1>4, <1>8 DEF Result
<1>9. CASE /\ ~isnan(f, y) /\ ~isnan(f, z)
           /\ isinf(f, y) \/ isinf(f, z) \/ (op = "div" /\ IsZero(z))
  <2>1. CASE op \in {"add", "sub"}
    <3>1. PICK w : w = (IF op = "sub" THEN Flip(z) ELSE z) /\ IsFloat(f, w)
      BY <1>5
    <3>2. isinf(f, w) <=> isinf(f, z)
      BY <3>1 DEF isinf, Flip
    <3>3. Result(f, op, y, z) =
              IF isinf(f, y) THEN IF isinf(f, w) /\ y.neg # w.neg THEN NaN(f) ELSE y ELSE w
      BY <1>9, <2>1, <3>1, <3>2 DEF Result
    <3> QED
      BY <1>4, <3>1, <3>3
  <2>2. CASE op = "mul"
    <3>1. Result(f, op, y, z) = IF IsZero(y) \/ IsZero(z) THEN NaN(f) ELSE Inf(f, y.neg # z.neg)
      BY <1>9, <2>2 DEF Result
    <3> QED
      BY <1>4, <1>6, <3>1
  <2>3. CASE op = "div"
    <3>1. Result(f, op, y, z) \in {NaN(f), PosZero, Inf(f, y.neg # z.neg)}
      BY <1>9, <2>3 DEF Result
    <3> QED
      BY <1>4, <1>6, <3>1
  <2> QED
    BY <2>1, <2>2, <2>3 DEF Arithmetic
<1>10. \A x : IsFloat(f, x) => isnan(f, x) \/ isinf(f, x) \/ isfinite(f, x)
  BY <1>1 DEF IsFloat, isnan, isinf, isfinite
<1> QED
  BY <1>7, <1>8, <1>9, <1>10

\* The clauses of EventsAreTrue, of one check.
SavedRight(f, op, x, y, z, cond) ==
    LET c == IF cond THEN CheckCounts(f, op, x, y, z) ELSE {}
        finite == op \in Arithmetic /\ isfinite(f, y) /\ isfinite(f, z)
        byZero == op = "div" /\ IsZero(z)
        big == FPCMax(AbsVal(y), AbsVal(z))
    IN  /\ cond => /\ "nan" \in c <=> isnan(f, x)
                   /\ {"infinity_pos", "infinity_neg"} \cap c # {} <=> isinf(f, x)
        /\ finite /\ byZero => c \cap {"nan", "division_zero"} =
                                   IF IsZero(y) THEN {"nan"} ELSE {"division_zero"}
        /\ finite /\ ~byZero =>
               \A kind \in {"infinity_pos", "infinity_neg", "underflow"} :
                   kind \in c <=> TrueOf(kind, f, Exact(f, op, y, z))
        /\ cond /\ ~fast /\ ~isnan(f, x) =>
               /\ "latent_underflow" \in c <=> AbsVal(x) \in 1..(One * Pow2[Danger(f)] - 1)
               /\ c \cap {"latent_infinity_pos", "latent_infinity_neg"} # {}
                      <=> /\ ~IsZero(x)
                          /\ \/ Danger(f) > Special[f]
                             \/ AbsVal(x) * Pow2[Danger(f)] >= 2 * BehindLargest(f)
        /\ finite /\ op \in {"add", "sub"} /\ isfinite(f, x) =>
               /\ "cancellation" \in c => big > Pow2[Threshold] * AbsVal(x)
               /\ ~fast /\ big >= Pow2[Threshold + 1] * AbsVal(x) /\ big >= One * Pow2[Threshold] =>
                      "cancellation" \in c

\* What a check counts is right by all the clauses.
LEMMA ChecksRight ==
    ASSUME NEW f \in Format, NEW op, NEW x, NEW y, NEW z, NEW cond \in BOOLEAN,
           IsFloat(f, x), IsFloat(f, y), IsFloat(f, z),
           op \in Arithmetic => cond /\ x = Result(f, op, y, z)
    PROVE  SavedRight(f, op, x, y, z, cond)
<1> DEFINE c == IF cond THEN CheckCounts(f, op, x, y, z) ELSE {}
<1>1. cond => /\ "nan" \in c <=> isnan(f, x)
              /\ {"infinity_pos", "infinity_neg"} \cap c # {} <=> isinf(f, x)
  <2>1. x.neg \in BOOLEAN
    BY DEF IsFloat
  <2> QED
    BY <2>1, NotHidden
<1> DEFINE finite == op \in Arithmetic /\ isfinite(f, y) /\ isfinite(f, z)
           byZero == op = "div" /\ IsZero(z)
           big == FPCMax(AbsVal(y), AbsVal(z))
<1>2. finite /\ byZero => c \cap {"nan", "division_zero"} =
                              IF IsZero(y) THEN {"nan"} ELSE {"division_zero"}
  BY FoundByZero
<1>3. finite /\ ~byZero =>
          \A kind \in {"infinity_pos", "infinity_neg", "underflow"} :
              kind \in c <=> TrueOf(kind, f, Exact(f, op, y, z))
  BY FoundTrue
<1>4. cond /\ ~fast /\ ~isnan(f, x) =>
          /\ "latent_underflow" \in c <=> AbsVal(x) \in 1..(One * Pow2[Danger(f)] - 1)
          /\ c \cap {"latent_infinity_pos", "latent_infinity_neg"} # {}
                 <=> /\ ~IsZero(x)
                     /\ \/ Danger(f) > Special[f]
                        \/ AbsVal(x) * Pow2[Danger(f)] >= 2 * BehindLargest(f)
  BY FoundLatent
<1>5. finite /\ op \in {"add", "sub"} /\ isfinite(f, x) =>
          /\ "cancellation" \in c => big > Pow2[Threshold] * AbsVal(x)
          /\ ~fast /\ big >= Pow2[Threshold + 1] * AbsVal(x) /\ big >= One * Pow2[Threshold] =>
                 "cancellation" \in c
  BY FoundCancellation
<1> HIDE DEF c, finite, byZero, big
<1>6. QED
  BY <1>1, <1>2, <1>3, <1>4, <1>5 DEF SavedRight, c, finite, byZero, big

\* So is what it saves.
LEMMA StepRight ==
    ASSUME NEW f \in Format, NEW op, NEW x, NEW y, NEW z, NEW cond \in BOOLEAN,
           IsFloat(f, x), IsFloat(f, y), IsFloat(f, z),
           op \in Arithmetic => cond /\ x = Result(f, op, y, z),
           CheckResult(f, op, x, y, z, cond)
    PROVE  EventsAreTrue'
<1> DEFINE E == {kind \in Kind : Occurs(kind, f, op, x, y, z)}
           saves == cond /\ ~EndsEarly(f, x) /\ (usage \/ E # {})
           c == IF cond THEN CheckCounts(f, op, x, y, z) ELSE {}
<1>1. /\ call' = [f |-> f, op |-> op, x |-> x, y |-> y, z |-> z, cond |-> cond]
      /\ saved' = IF ~saves THEN NotSaved
                  ELSE IF usage THEN [events |-> E, exponent |-> GetExponent(x)]
                  ELSE [events |-> E]
      /\ fast' = fast /\ usage' = usage
  BY DEF CheckResult
<1>2. "not saved" \notin E /\ NotSaved.events = {"not saved"}
  BY DEF Kind, NotSaved
<1>3. c = IF cond /\ ~EndsEarly(f, x) THEN E ELSE {}
  BY DEF CheckCounts
<1> HIDE DEF E, c
<1>4. saved'.events \ {"not saved"} = c
  <2>1. CASE saves
    <3>1. saved'.events = E
      BY <1>1, <2>1
    <3> QED
      BY <1>2, <1>3, <2>1, <3>1
  <2>2. CASE ~saves
    <3>1. saved' = NotSaved
      BY <1>1, <2>2
    <3>2. c = {}
      BY <1>3, <2>2
    <3> QED
      BY <1>2, <3>1, <3>2
  <2> QED
    BY <2>1, <2>2
<1>5. ~cond => saved' = NotSaved
  BY <1>1
<1>6. ~usage => (saved' = NotSaved <=> c = {})
  <2>1. CASE ~usage /\ saves
    <3>1. saved' = [events |-> E] /\ E # {} /\ c = E
      BY <1>1, <1>3, <2>1
    <3>2. saved'.events = E /\ E # {"not saved"}
      BY <1>2, <3>1
    <3> QED
      BY <1>2, <3>1, <3>2
  <2>2. CASE ~usage /\ ~saves
    BY <1>1, <1>3, <2>2
  <2> QED
    BY <2>1, <2>2
<1>7. cond /\ usage /\ ~fast => saved'.exponent = GetExponent(x)
  BY <1>1 DEF EndsEarly
<1>8. SavedRight(f, op, x, y, z, cond)
  BY ChecksRight
<1>9. /\ call'.f = f /\ call'.op = op /\ call'.x = x /\ call'.y = y /\ call'.z = z
      /\ call'.cond = cond
  BY <1>1
<1> QED
  BY <1>1, <1>4, <1>5, <1>6, <1>7, <1>8, <1>9 DEF EventsAreTrue, SavedRight, Arithmetic, c

\* Every check of the exception runtime is right about its result, in formats of
\* any width: infinities, NaN and underflows are counted exactly if the exact
\* result of the operation has one, with fast checking too; latent ones within
\* the danger zone; cancellations by the bits lost; and items are saved for
\* events only, unless exponents are counted.  (Runtime_cpu.h 84-376, 588-718)
THEOREM EventsClassified == ESpec => []EventsAreTrue
<1>1. EInit => EventsAreTrue
  BY DEF EInit, EventsAreTrue
<1>2. EventsAreTrue /\ [ENext]_<<fast, usage, call, saved>> => EventsAreTrue'
  <2> SUFFICES ASSUME EventsAreTrue, [ENext]_<<fast, usage, call, saved>>
               PROVE  EventsAreTrue'
    OBVIOUS
  <2>1. CASE CheckArithmetic
    <3>1. PICK f \in Format, op \in Arithmetic : \E y \in Floats(f), z \in Floats(f) :
              CheckResult(f, op, Result(f, op, y, z), y, z, TRUE)
      BY <2>1 DEF CheckArithmetic, Arithmetic
    <3>2. PICK y \in Floats(f), z \in Floats(f) :
              CheckResult(f, op, Result(f, op, y, z), y, z, TRUE)
      BY <3>1
    <3>3. IsFloat(f, y) /\ IsFloat(f, z)
      BY FloatsAre
    <3>4. PICK x : x = Result(f, op, y, z)
      OBVIOUS
    <3>5. IsFloat(f, x)
      BY <3>3, <3>4, ResultFloat
    <3> QED
      BY <3>2, <3>3, <3>4, <3>5, StepRight
  <2>2. CASE CheckOther
    <3>1. PICK f \in Format, cond \in BOOLEAN : \E x \in Floats(f) :
              \/ CheckResult(f, "cmp", PosZero, x, x, cond)
              \/ \E op \in {"rem", "fma"} : CheckResult(f, op, x, PosZero, PosZero, cond)
      BY <2>2 DEF CheckOther
    <3>2. PICK x \in Floats(f) :
              \/ CheckResult(f, "cmp", PosZero, x, x, cond)
              \/ \E op \in {"rem", "fma"} : CheckResult(f, op, x, PosZero, PosZero, cond)
      BY <3>1
    <3>3. IsFloat(f, x)
      BY FloatsAre
    <3>4. PICK o : o = PosZero
      OBVIOUS
    <3>5. IsFloat(f, o)
      <4>1. PICK N \in Nat : N = Infinite(f)
        BY Formats
      <4> QED
        BY <3>4, <4>1 DEF IsFloat, PosZero
    <3>6. "cmp" \notin Arithmetic /\ "rem" \notin Arithmetic /\ "fma" \notin Arithmetic
      BY DEF Arithmetic
    <3>7. CASE CheckResult(f, "cmp", PosZero, x, x, cond)
      BY <3>3, <3>4, <3>5, <3>6, <3>7, StepRight
    <3>8. CASE \E op \in {"rem", "fma"} : CheckResult(f, op, x, PosZero, PosZero, cond)
      <4>1. PICK op \in {"rem", "fma"} : CheckResult(f, op, x, o, o, cond)
        BY <3>4, <3>8
      <4>2. op \notin Arithmetic
        BY <3>6
      <4> QED
        BY <3>3, <3>5, <4>1, <4>2, StepRight
    <3> QED
      BY <3>2, <3>7, <3>8
  <2>3. CASE UNCHANGED <<fast, usage, call, saved>>
    <3>1. fast' = fast /\ usage' = usage /\ call' = call /\ saved' = saved
      BY <2>3
    <3> QED
      BY <3>1 DEF EventsAreTrue
  <2> QED
    BY <2>1, <2>2, <2>3 DEF ENext
<1> QED
  BY <1>1, <1>2, PTL DEF ESpec
=============================================================================
