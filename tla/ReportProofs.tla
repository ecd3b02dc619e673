---------------------------- MODULE ReportProofs ----------------------------
(***************************************************************************)
(* Proofs about what is reported of a run.  For any lines, any table size  *)
(* and any number of values, the series of FloatSeries have one slot per   *)
(* line, and implement SeriesLog.  For any processes, jobs and events, the *)
(* report that ReportGenerator makes is that of a set of whole traces: the *)
(* loops over their rows are unwound (FoldLeft is a recursive function on  *)
(* sequences), the sums of the tables follow those of the items, and the   *)
(* invariant RInv says whose traces are in the tables at every step.       *)
(***************************************************************************)
EXTENDS FloatSeries, ReportGenerator, SequenceTheorems, FiniteSetTheorems,
        FunctionTheorems, WellFoundedInduction, TLAPS

Typed == /\ table \in [Index -> [key: Int, vals: Seq(Val)]]
         /\ \A i \in Index : ~Empty(i) => table[i].key \in Keep \cap Line

\* The probe of a line that has a slot ends.
Reached == \A i \in Index : ~Empty(i) => Stops(table[i].key) # {}

FInv == Typed /\ Reached /\ EachLineOneSlot
-----------------------------------------------------------------------------
(* Probing.                                                                *)

\* A set of naturals has a least element.
LEMMA Least ==
    ASSUME NEW S \in SUBSET Nat, S # {}
    PROVE  \E d \in S : \A e \in S : d <= e
  <1>1. PICK x \in S : \A y \in S : ~(<<y, x>> \in OpToRel(<, Nat))
    BY NatLessThanWellFounded, WFMin, Zenon
  <1>2. \A y \in S : ~(y < x)
    BY <1>1, Zenon DEF OpToRel
  <1> QED
    BY <1>2

\* First returns the least element.
LEMMA FirstIsLeast ==
    ASSUME NEW S \in SUBSET Index, S # {}
    PROVE  First(S) \in S /\ \A e \in S : First(S) <= e
  <1>1. S \in SUBSET Nat
    BY SeriesAssumption DEF SeriesAssumption, Index
  <1>2. \E d \in S : \A e \in S : d <= e
    BY <1>1, Least
  <1> QED
    BY <1>2, Zenon DEF First

\* Slots are numbered by integers.
LEMMA IndexInt == Index \subseteq Int
  BY SeriesAssumption DEF SeriesAssumption, Index

\* A least element of slots is the one First returns.
LEMMA FirstUnique ==
    ASSUME NEW S \in SUBSET Index, NEW d \in S, \A e \in S : d <= e
    PROVE  First(S) = d
  <1>1. First(S) \in S /\ First(S) <= d /\ d <= First(S)
    BY FirstIsLeast
  <1>2. First(S) \in Int /\ d \in Int
    BY <1>1, IndexInt
  <1> HIDE DEF First
  <1> QED
    BY <1>1, <1>2

\* A probe stays in the table.
LEMMA ProbeTyped ==
    ASSUME NEW l \in Int, NEW d \in Index
    PROVE  Probe(l, d) \in Index
  <1>1. l + d \in Int /\ Size \in Nat \ {0}
    BY SeriesAssumption DEF SeriesAssumption, Index
  <1> QED
    BY <1>1 DEF Probe, Index

\* Where a probe stops there is the line or nothing.
LEMMA SlotTyped ==
    ASSUME NEW l \in Int, Stops(l) # {}
    PROVE  /\ First(Stops(l)) \in Stops(l)
           /\ SlotOf(l) \in Index
           /\ table[SlotOf(l)].key = l \/ Empty(SlotOf(l))
  <1>1. Stops(l) \in SUBSET Index
    BY DEF Stops
  <1>2. First(Stops(l)) \in Stops(l)
    BY <1>1, FirstIsLeast
  <1>3. SlotOf(l) \in Index
    BY <1>1, <1>2, ProbeTyped DEF SlotOf
  <1>4. table[SlotOf(l)].key = l \/ Empty(SlotOf(l))
    BY <1>2 DEF Stops, SlotOf
  <1> QED
    BY <1>2, <1>3, <1>4
-----------------------------------------------------------------------------
(* One append.                                                             *)

\* The slot of the line has the line's key and one more value; no other slot
\* changes.
LEMMA AppendSlot ==
    ASSUME Typed, NEW l \in Line, NEW v \in Val, Stops(l) # {}, AppendValue(l, v)
    PROVE  /\ SlotOf(l) \in Index
           /\ table'[SlotOf(l)] = [key |-> l, vals |-> Append(table[SlotOf(l)].vals, v)]
           /\ table'[SlotOf(l)].vals # <<>>
           /\ \A i \in Index : i # SlotOf(l) => table'[i] = table[i]
           /\ table' \in [Index -> [key: Int, vals: Seq(Val)]]
  <1>1. l \in Int
    BY SeriesAssumption DEF SeriesAssumption
  <1> DEFINE s == SlotOf(l)
  <1>2. s \in Index
    BY <1>1, SlotTyped
  <1> HIDE DEF s
  <1>3. table' = [table EXCEPT ![s] = [key |-> l, vals |-> Append(@.vals, v)]]
    BY DEF AppendValue, s
  <1>4. table[s].vals \in Seq(Val)
    BY <1>2 DEF Typed
  <1>5. Append(table[s].vals, v) \in Seq(Val) /\ Append(table[s].vals, v) # <<>>
    BY <1>4
  <1>6. table'[s] = [key |-> l, vals |-> Append(table[s].vals, v)]
    BY <1>2, <1>3 DEF Typed
  <1>7. table'[s].vals # <<>>
    BY <1>5, <1>6
  <1>8. \A i \in Index : i # s => table'[i] = table[i]
    BY <1>2, <1>3 DEF Typed
  <1>9. table' \in [Index -> [key: Int, vals: Seq(Val)]]
    BY <1>1, <1>2, <1>3, <1>5 DEF Typed
  <1> QED
    BY <1>2, <1>6, <1>7, <1>8, <1>9 DEF s

\* The probe of the line stops where it did; the probe of another line no
\* longer stops at the line's slot, if it did while the slot was empty.
LEMMA AppendStops ==
    ASSUME Typed, NEW l \in Line, NEW v \in Val, Stops(l) # {}, AppendValue(l, v),
           NEW k \in Int
    PROVE  Stops(k)' = IF k = l THEN Stops(l)
                       ELSE {d \in Stops(k) : Probe(k, d) # SlotOf(l)}
  <1> DEFINE s == SlotOf(l)
  <1>1. /\ table'[s].key = l /\ table'[s].vals # <<>>
        /\ \A i \in Index : i # s => table'[i] = table[i]
    <2>1. /\ table'[s] = [key |-> l, vals |-> Append(table[s].vals, v)]
          /\ table'[s].vals # <<>>
          /\ \A i \in Index : i # s => table'[i] = table[i]
      BY AppendSlot
    <2>2. table'[s].key = l
      BY <2>1
    <2> QED
      BY <2>1, <2>2
  <1>2. table[s].key = l \/ table[s].vals = <<>>
    BY SlotTyped, SeriesAssumption DEF SeriesAssumption, Empty
  <1>3. \A d \in Index : Probe(k, d) \in Index
    BY ProbeTyped
  <1> HIDE DEF s
  <1>4. Stops(k)' = {d \in Index : table'[Probe(k, d)].key = k \/ table'[Probe(k, d)].vals = <<>>}
    BY DEF Stops, Probe, Index, Empty
  <1>5. CASE k = l
    <2>1. \A d \in Index : (table'[Probe(k, d)].key = k \/ table'[Probe(k, d)].vals = <<>>)
                           <=> (table[Probe(k, d)].key = k \/ table[Probe(k, d)].vals = <<>>)
      BY <1>1, <1>2, <1>3, <1>5
    <2> QED
      BY <1>4, <1>5, <2>1 DEF Stops, Empty
  <1>6. CASE k # l
    <2>1. \A d \in Index : (table'[Probe(k, d)].key = k \/ table'[Probe(k, d)].vals = <<>>)
                           <=> /\ table[Probe(k, d)].key = k \/ table[Probe(k, d)].vals = <<>>
                               /\ Probe(k, d) # s
      BY <1>1, <1>3, <1>6
    <2> QED
      BY <1>4, <1>6, <2>1 DEF Stops, Empty, s
  <1> QED
    BY <1>5, <1>6

\* A line whose slot the append does not take keeps it.
LEMMA AppendKeepsSlot ==
    ASSUME Typed, NEW l \in Line, NEW v \in Val, Stops(l) # {}, AppendValue(l, v),
           NEW k \in Int, Stops(k) # {}, k = l \/ SlotOf(k) # SlotOf(l)
    PROVE  Stops(k)' # {} /\ SlotOf(k)' = SlotOf(k)
  <1>1. CASE k = l
    <2>1. Stops(k)' = Stops(k)
      BY <1>1, AppendStops
    <2> QED
      BY <2>1 DEF SlotOf, First, Probe
  <1>2. CASE k # l
    <2> DEFINE d == First(Stops(k))
    <2>1. Stops(k)' = {e \in Stops(k) : Probe(k, e) # SlotOf(l)}
      BY <1>2, AppendStops
    <2>2. Stops(k) \in SUBSET Index
      BY DEF Stops
    <2>3. d \in Stops(k) /\ \A e \in Stops(k) : d <= e
      BY <2>2, FirstIsLeast
    <2>4. Probe(k, d) # SlotOf(l)
      BY <1>2 DEF SlotOf
    <2> HIDE DEF d
    <2>5. First({e \in Stops(k) : Probe(k, e) # SlotOf(l)}) = d
      <3> DEFINE S == {e \in Stops(k) : Probe(k, e) # SlotOf(l)}
      <3>1. S \in SUBSET Index /\ d \in S /\ \A e \in S : d <= e
        BY <2>2, <2>3, <2>4
      <3> HIDE DEF S
      <3>2. First(S) = d
        BY <3>1, FirstUnique
      <3> QED
        BY <3>2 DEF S
    <2>6. First(Stops(k))' = First(Stops(k)')
      BY DEF First
    <2> QED
      BY <2>1, <2>3, <2>4, <2>5, <2>6 DEF SlotOf, Probe, d
  <1> QED
    BY <1>1, <1>2
-----------------------------------------------------------------------------
(* The invariant.                                                          *)

\* An empty table has the invariant.
LEMMA FInit == Init => FInv
  <1> SUFFICES ASSUME Init
               PROVE  FInv
    OBVIOUS
  <1>1. \A i \in Index : Empty(i)
    BY DEF Init, Empty
  <1>2. table \in [Index -> [key: Int, vals: Seq(Val)]]
    BY DEF Init
  <1> QED
    BY <1>1, <1>2 DEF FInv, Typed, Reached, EachLineOneSlot

\* A slot the append takes when it is empty is the slot of no other line.
LEMMA AppendInv ==
    ASSUME FInv, NEW l \in Line \cap Keep, NEW v \in Val, Stops(l) # {}, AppendValue(l, v)
    PROVE  FInv'
  <1> DEFINE s == SlotOf(l)
  <1>1. /\ s \in Index
        /\ table[s].key = l \/ Empty(s)
        /\ table'[s] = [key |-> l, vals |-> Append(table[s].vals, v)]
        /\ \A i \in Index : i # s => table'[i] = table[i]
        /\ table' \in [Index -> [key: Int, vals: Seq(Val)]]
    <2>1. table[s].key = l \/ Empty(s)
      BY SlotTyped, SeriesAssumption DEF SeriesAssumption
    <2>2. /\ s \in Index
          /\ table'[s] = [key |-> l, vals |-> Append(table[s].vals, v)]
          /\ \A i \in Index : i # s => table'[i] = table[i]
          /\ table' \in [Index -> [key: Int, vals: Seq(Val)]]
      BY AppendSlot DEF FInv
    <2> QED
      BY <2>1, <2>2
  <1>2. Stops(l)' # {} /\ SlotOf(l)' = s /\ table'[s].key = l
    <2>1. table'[s].key = l
      BY <1>1
    <2>2. l \in Int
      BY SeriesAssumption DEF SeriesAssumption
    <2> QED
      BY <2>1, <2>2, AppendKeepsSlot DEF FInv
  <1>3. ASSUME NEW i \in Index, table'[i].vals # <<>>, NEW k, k = table'[i].key
        PROVE  k \in Keep \cap Line /\ Stops(k)' # {} /\ SlotOf(k)' = i
    <2>1. CASE i = s
      BY <1>2, <1>3, <2>1
    <2>2. CASE i # s
      <3>1. k = table[i].key /\ ~Empty(i)
        BY <1>1, <1>3, <2>2 DEF Empty
      <3>2. k \in Keep \cap Line /\ k \in Int
        BY <3>1, SeriesAssumption DEF FInv, Typed, SeriesAssumption
      <3>3. Stops(k) # {} /\ SlotOf(k) = i
        BY <3>1 DEF FInv, Reached, EachLineOneSlot
      <3>4. Stops(k)' # {} /\ SlotOf(k)' = i
        BY <2>2, <3>2, <3>3, AppendKeepsSlot DEF FInv
      <3> QED
        BY <3>2, <3>4
    <2> QED
      BY <2>1, <2>2
  <1> HIDE DEF s
  <1>4. Typed'
    BY <1>1, <1>3 DEF Typed, Empty, Index
  <1>5. ASSUME NEW i \in Index, table'[i].vals # <<>>
        PROVE  (Stops(table[i].key) # {})' /\ (SlotOf(table[i].key) = i)'
    <2>1. PICK k : k = table'[i].key
      OBVIOUS
    <2>2. Stops(k)' # {} /\ SlotOf(k)' = i
      BY <1>3, <1>5, <2>1 DEF Empty
    <2>3. Stops(table[i].key)' = Stops(k)'
      BY <2>1 DEF Stops, Probe, Empty
    <2>4. SlotOf(table[i].key)' = SlotOf(k)'
      BY <2>1, <2>3 DEF SlotOf, First, Probe
    <2> QED
      BY <2>2, <2>3, <2>4
  <1>6. Reached'
    BY <1>5 DEF Reached, Index, Empty
  <1>7. EachLineOneSlot'
    BY <1>5 DEF EachLineOneSlot, Index, Empty
  <1> QED
    BY <1>4, <1>6, <1>7 DEF FInv

\* What the properties say depends on the table alone.
LEMMA SameTable ==
    ASSUME FInv, table' = table
    PROVE  FInv'
  <1>1. Typed'
    BY DEF FInv, Typed, Empty, Index
  <1>2. \A i \in Index : /\ Stops(table[i].key)' = Stops(table[i].key)
                         /\ SlotOf(table[i].key)' = SlotOf(table[i].key)
                         /\ Empty(i)' = Empty(i)
    <2> TAKE i \in Index
    <2>1. Stops(table[i].key)' = Stops(table[i].key)
      BY DEF Stops, Probe, Empty, Index
    <2>2. SlotOf(table[i].key)' = SlotOf(table[i].key)
      BY <2>1 DEF SlotOf, Probe, First
    <2> QED
      BY <2>1, <2>2 DEF Empty
  <1>3. Reached' /\ EachLineOneSlot'
    BY <1>2 DEF FInv, Reached, EachLineOneSlot, Index
  <1> QED
    BY <1>1, <1>3 DEF FInv

\* A hook keeps the invariant.
LEMMA FNext == FInv /\ [Next]_vars => FInv'
  <1> SUFFICES ASSUME FInv, [Next]_vars
               PROVE  FInv'
    OBVIOUS
  <1>1. CASE table' = table
    BY <1>1, SameTable
  <1>2. CASE table' # table
    <2>1. PICK l \in Line, v \in Val : l \in Keep /\ Stops(l) # {} /\ AppendValue(l, v)
      BY <1>2 DEF Next, vars, LogEntry, AppendValue
    <2> QED
      BY <2>1, AppendInv
  <1> QED
    BY <1>1, <1>2

\* The invariant holds in every state.
LEMMA FAlways == Spec => []FInv
  BY FInit, FNext, PTL DEF Spec

\* However collisions displace the lines, every slot in use is the one its
\* line's probe stops at: no line has two rows (FPC_append_value).
THEOREM OneSlotEach == Spec => []EachLineOneSlot
  <1>1. FInv => EachLineOneSlot
    BY DEF FInv
  <1> QED
    BY <1>1, FAlways, PTL
-----------------------------------------------------------------------------
(* Refinement.                                                             *)

Values == [l \in Line |-> Series(l)]
InUse == {l \in Line : Values[l] # <<>>}

\* The values of a line are those of the slot where its probe stops, which has
\* the line's key.
LEMMA UsedHasSlot ==
    ASSUME NEW l \in Line, Series(l) # <<>>
    PROVE  /\ Stops(l) # {} /\ SlotOf(l) \in Index
           /\ ~Empty(SlotOf(l)) /\ table[SlotOf(l)].key = l
  <1>1. Stops(l) # {} /\ ~Empty(SlotOf(l))
    BY DEF Series, Empty
  <1> QED
    BY <1>1, SlotTyped, SeriesAssumption DEF SeriesAssumption

\* An append adds the value at the end of its line's values, and no other
\* line's values change.
LEMMA AppendSeries ==
    ASSUME FInv, NEW l \in Line, NEW v \in Val, Stops(l) # {}, AppendValue(l, v)
    PROVE  /\ Series(l)' = Append(Series(l), v)
           /\ \A k \in Line \ {l} : Series(k)' = Series(k)
  <1> DEFINE s == SlotOf(l)
  <1>1. /\ s \in Index
        /\ table'[s] = [key |-> l, vals |-> Append(table[s].vals, v)]
        /\ \A i \in Index : i # s => table'[i] = table[i]
    BY AppendSlot DEF FInv
  <1>2. \A k \in Line : k \in Int
    BY SeriesAssumption DEF SeriesAssumption
  <1>3. Stops(l)' # {} /\ SlotOf(l)' = s
    BY <1>2, AppendKeepsSlot DEF FInv
  <1>4. table'[s].vals = Append(table[s].vals, v)
    BY <1>1
  <1>5. Series(l)' = Append(Series(l), v)
    BY <1>3, <1>4 DEF Series
  <1>6. ASSUME NEW k \in Line \ {l}
        PROVE  Series(k)' = Series(k)
    <2>1. CASE Stops(k) # {} /\ SlotOf(k) # s
      <3>1. Stops(k)' # {} /\ SlotOf(k)' = SlotOf(k) /\ SlotOf(k) \in Index
        BY <1>2, <2>1, AppendKeepsSlot, SlotTyped DEF FInv
      <3> QED
        BY <1>1, <2>1, <3>1 DEF Series
    <2>2. CASE Stops(k) = {} \/ SlotOf(k) = s
      <3>1. Series(k) = <<>>
        <4>1. table[s].key = l \/ Empty(s)
          BY <1>2, SlotTyped
        <4> QED
          BY <2>2, <4>1, UsedHasSlot
      <3>2. Series(k)' = <<>>
        <4> SUFFICES ASSUME Series(k)' # <<>>
                     PROVE  FALSE
          OBVIOUS
        <4> DEFINE S == {d \in Stops(k) : Probe(k, d) # s}
        <4>1. Stops(k)' = S /\ S \in SUBSET Index
          BY <1>2, AppendStops DEF FInv, Stops
        <4> HIDE DEF S
        <4>2. S # {} /\ table'[Probe(k, First(S))].vals # <<>>
          BY <4>1 DEF Series, SlotOf, First, Probe
        <4>3. First(S) \in S
          BY <4>1, <4>2, FirstIsLeast
        <4> DEFINE t == Probe(k, First(S))
        <4>4. t \in Index /\ t # s /\ (table[t].key = k \/ Empty(t))
          BY <1>2, <4>1, <4>3, ProbeTyped DEF Stops, S
        <4> HIDE DEF t
        <4>5. ~Empty(t) /\ table[t].key = k
          BY <1>1, <4>2, <4>4 DEF Empty, t
        <4>6. Stops(k) # {} /\ SlotOf(k) = t
          BY <4>4, <4>5 DEF FInv, Reached, EachLineOneSlot
        <4> QED
          BY <2>2, <4>4, <4>6
      <3> QED
        BY <3>1, <3>2
    <2> QED
      BY <2>1, <2>2
  <1> QED
    BY <1>5, <1>6

\* While a probe finds an empty slot, fewer lines than slots are in use: each
\* line's slot has the line's key.
LEMMA EmptyMeansRoom ==
    ASSUME NEW s \in Index, Empty(s)
    PROVE  Cardinality(InUse) < Size
  <1> DEFINE f == [l \in InUse |-> SlotOf(l)]
  <1>1. \A l \in InUse : SlotOf(l) \in Index \ {s} /\ table[SlotOf(l)].key = l
    BY UsedHasSlot DEF InUse, Values
  <1>2. f \in Injection(InUse, Index \ {s})
    <2>1. f \in [InUse -> Index \ {s}]
      BY <1>1
    <2>2. \A a, b \in InUse : f[a] = f[b] => a = b
      BY <1>1
    <2> QED
      BY <2>1, <2>2, Fun_IsInj
  <1>3. IsFiniteSet(Index) /\ Cardinality(Index) = Size
    BY FS_Interval, SeriesAssumption DEF SeriesAssumption, Index
  <1>4. IsFiniteSet(Index \ {s}) /\ Cardinality(Index \ {s}) = Size - 1
    BY <1>3, FS_RemoveElement
  <1>5. IsFiniteSet(InUse) /\ Cardinality(InUse) <= Size - 1
    BY <1>2, <1>4, FS_Injection
  <1>6. Cardinality(InUse) \in Nat
    BY <1>5, FS_CardinalityType
  <1> QED
    BY <1>5, <1>6, SeriesAssumption DEF SeriesAssumption

\* An empty table is an empty log.
LEMMA InitMaps == Init => Log!Init
  <1> SUFFICES ASSUME Init, NEW l \in Line
               PROVE  Series(l) = <<>>
    BY DEF Log!Init
  <1> SUFFICES ASSUME Series(l) # <<>>
               PROVE  FALSE
    OBVIOUS
  <1> QED
    BY UsedHasSlot DEF Init, Empty

\* A hook is a step of the log, or changes nothing of it.
LEMMA NextMaps == FInv /\ [Next]_vars => [Log!Next]_Values
  <1> SUFFICES ASSUME FInv, [Next]_vars
               PROVE  [Log!Next]_Values
    OBVIOUS
  <1>1. CASE table' = table
    <2>1. ASSUME NEW l \in Line
          PROVE  Series(l)' = Series(l)
      BY <1>1 DEF Series, SlotOf, Stops, First, Probe, Empty, Index
    <2> QED
      BY <2>1 DEF Values
  <1>2. CASE table' # table
    <2>1. PICK l \in Line, v \in Val : l \in Keep /\ Stops(l) # {} /\ AppendValue(l, v)
      BY <1>2 DEF Next, vars, LogEntry, AppendValue
    <2>2. Values' = [Values EXCEPT ![l] = Append(@, v)]
      BY <2>1, AppendSeries DEF Values
    <2>3. l \in InUse \/ Cardinality(InUse) < Size
      <3>1. SlotOf(l) \in Index
        BY <2>1, SlotTyped, SeriesAssumption DEF SeriesAssumption
      <3> QED
        BY <2>1, <3>1, EmptyMeansRoom DEF InUse, Values, Series, Empty
    <2>4. Log!Cardinality(InUse) = Cardinality(InUse)
      BY DEF Log!Cardinality, Cardinality
    <2>5. Log!Record(l, v)
      <3>1. Log!Used = InUse
        BY DEF Log!Used, InUse, Values
      <3>2. l \in Log!Used \/ Log!Cardinality(Log!Used) < Size
        BY <2>3, <2>4, <3>1
      <3> QED
        BY <2>1, <2>2, <3>2 DEF Log!Record, Values
    <2> QED
      BY <2>5 DEF Log!Next
  <1> QED
    BY <1>1, <1>2

\* The hash table of the per-line series records what SeriesLog promises: every
\* value of every line in the list, in order, while no more lines than slots
\* are in use (FPC_append_value, FPC_APPEND_ERROR_LOG_ENTRY).
THEOREM SeriesLogged == Spec => ImplementsLog
  <1> QED
    BY InitMaps, NextMaps, FAlways, PTL DEF Spec, ImplementsLog, Log!Spec, Values
-----------------------------------------------------------------------------
(* Loops of the generator.                                                 *)

\* The largest of the indices up to n of a set that has n is n.
LEMMA LargestIndex ==
    ASSUME NEW n \in Nat, NEW u \in SUBSET (1..n), n \in u
    PROVE  Max(u) = n
<1>1. n \in u /\ \A y \in u : n >= y
  OBVIOUS
<1>2. Max(u) \in u /\ \A y \in u : Max(u) >= y
  BY <1>1 DEF Max
<1> HIDE DEF Max
<1>3. Max(u) \in 1..n
  BY <1>2
<1>4. n >= Max(u) /\ Max(u) >= n
  BY <1>1, <1>2
<1> QED
  BY <1>3, <1>4

\* What a loop over q is defined by: a function of the sets of indices, which
\* takes the largest of them last.
Unwound(g, loop, t, q, n) ==
    g = [u \in SUBSET (1..n) |->
            IF u = {} THEN t ELSE Step(loop, g[u \ {Max(u)}], q[Max(u)])]

\* A function that has the values of an unwound loop exists.
LEMMA UnwoundThere ==
    ASSUME NEW loop, NEW t, NEW q, NEW n \in Nat
    PROVE  \E g : Unwound(g, loop, t, q, n)
<1> DEFINE Bad == {m \in 0..n : ~ \E g : Unwound(g, loop, t, q, m)}
<1>1. Bad = {}
  <2> SUFFICES ASSUME Bad # {} PROVE FALSE
    OBVIOUS
  <2>1. PICK m \in Bad : \A e \in Bad : m <= e
    <3>1. Bad \in SUBSET Nat
      OBVIOUS
    <3> HIDE DEF Bad
    <3> QED BY <3>1, Least
  <2>2. m \in 0..n
    OBVIOUS
  <2>3. CASE m = 0
    <3> DEFINE g == [u \in SUBSET (1..m) |-> t]
    <3>1. \A u \in SUBSET (1..m) : u = {}
      BY <2>3
    <3>2. Unwound(g, loop, t, q, m)
      BY <3>1, Zenon DEF Unwound
    <3> QED
      BY <2>1, <3>2
  <2>4. CASE m # 0
    <3>0. m - 1 \in 0..n /\ m \in 1..n /\ ~(m <= m - 1) /\ m \in Nat
      BY <2>2, <2>4
    <3>1. m - 1 \notin Bad
      <4> HIDE DEF Bad
      <4> QED BY <2>1, <3>0
    <3>2. PICK h : Unwound(h, loop, t, q, m - 1)
      BY <3>0, <3>1
    <3> DEFINE g == [u \in SUBSET (1..m) |->
                        IF m \in u THEN Step(loop, h[u \ {m}], q[m]) ELSE h[u]]
    <3>3. \A u \in SUBSET (1..m) : m \notin u => u \in SUBSET (1..(m - 1))
      BY <3>0
    <3>6. ASSUME NEW u \in SUBSET (1..m)
          PROVE  g[u] = IF u = {} THEN t ELSE Step(loop, g[u \ {Max(u)}], q[Max(u)])
      <4>1. CASE m \in u
        <5>1. Max(u) = m /\ u # {}
          BY <3>0, <4>1, LargestIndex
        <5>2. u \ {m} \in SUBSET (1..m) /\ m \notin u \ {m}
          OBVIOUS
        <5>3. g[u \ {m}] = h[u \ {m}]
          BY <5>2
        <5>4. g[u] = Step(loop, h[u \ {m}], q[m])
          BY <4>1
        <5> HIDE DEF g
        <5> QED BY <5>1, <5>3, <5>4
      <4>2. CASE m \notin u
        <5>1. u \in SUBSET (1..(m - 1))
          BY <3>3, <4>2
        <5>2. h[u] = IF u = {} THEN t ELSE Step(loop, h[u \ {Max(u)}], q[Max(u)])
          BY <3>2, <5>1, Zenon DEF Unwound
        <5>3. u \ {Max(u)} \in SUBSET (1..m) /\ m \notin u \ {Max(u)}
          BY <4>2
        <5>4. g[u \ {Max(u)}] = h[u \ {Max(u)}]
          BY <5>3
        <5>5. g[u] = h[u]
          BY <4>2
        <5> HIDE DEF g
        <5> QED BY <5>2, <5>4, <5>5, Zenon
      <4> QED BY <4>1, <4>2
    <3>7. Unwound(g, loop, t, q, m)
      <4>1. g = [u \in SUBSET (1..m) |-> g[u]]
        OBVIOUS
      <4> HIDE DEF g
      <4> QED BY <3>6, <4>1, Zenon DEF Unwound
    <3> QED
      BY <2>1, <3>7
  <2> QED
    BY <2>3, <2>4
<1>2. n \in 0..n
  OBVIOUS
<1> QED
  BY <1>1, <1>2

\* A loop over the first elements does not depend on the others.
LEMMA UnwoundSame ==
    ASSUME NEW loop, NEW t, NEW n \in Nat, NEW m \in Nat, NEW q, NEW o, NEW g, NEW h,
           Unwound(g, loop, t, q, n), Unwound(h, loop, t, o, m),
           NEW k \in Nat, k <= n, k <= m, \A i \in 1..k : q[i] = o[i]
    PROVE  g[1..k] = h[1..k]
<1> DEFINE Bad == {i \in 0..k : g[1..i] # h[1..i]}
<1>1. Bad = {}
  <2> SUFFICES ASSUME Bad # {} PROVE FALSE
    OBVIOUS
  <2>1. PICK i \in Bad : \A e \in Bad : i <= e
    <3>1. Bad \in SUBSET Nat
      OBVIOUS
    <3> HIDE DEF Bad
    <3> QED BY <3>1, Least
  <2>2. i \in 0..k /\ 1..i \in SUBSET (1..n) /\ 1..i \in SUBSET (1..m)
    OBVIOUS
  <2>3. /\ g[1..i] = IF 1..i = {} THEN t ELSE Step(loop, g[(1..i) \ {Max(1..i)}], q[Max(1..i)])
        /\ h[1..i] = IF 1..i = {} THEN t ELSE Step(loop, h[(1..i) \ {Max(1..i)}], o[Max(1..i)])
    BY <2>2, Zenon DEF Unwound
  <2>4. CASE i = 0
    <3>1. 1..i = {}
      BY <2>4
    <3> QED BY <2>3, <3>1
  <2>5. CASE i # 0
    <3>1. i \in 1..i /\ i \in 1..k /\ 1..i # {} /\ i \in Nat /\ i - 1 \in 0..k /\ ~(i <= i - 1)
      BY <2>2, <2>5
    <3>2. Max(1..i) = i
      BY <3>1, LargestIndex
    <3>3. (1..i) \ {i} = 1..(i - 1)
      BY <3>1
    <3>4. g[1..(i - 1)] = h[1..(i - 1)]
      <4>1. i - 1 \notin Bad
        <5> HIDE DEF Bad
        <5> QED BY <2>1, <3>1
      <4> QED BY <4>1, <3>1
    <3>5. q[i] = o[i]
      BY <3>1
    <3>6. g[1..i] = h[1..i]
      BY <2>3, <3>1, <3>2, <3>3, <3>4, <3>5, Zenon
    <3> QED BY <3>6
  <2> QED BY <2>4, <2>5
<1>2. k \in 0..k
  OBVIOUS
<1> QED
  BY <1>1, <1>2

\* A loop over rows is unwound from its last row.
LEMMA LoopUnwound ==
    ASSUME NEW loop, NEW t, NEW V, NEW q \in Seq(V)
    PROVE  \E g : Unwound(g, loop, t, q, Len(q)) /\ Loop(loop, t, q) = g[1..Len(q)]
<1> DEFINE Is(g) == g = [u \in SUBSET DOMAIN q |->
                            IF u = {} THEN t ELSE Step(loop, g[u \ {Max(u)}], q[Max(u)])]
           it == CHOOSE g : Is(g)
<1>1. Len(q) \in Nat /\ DOMAIN q = 1..Len(q)
  OBVIOUS
<1>2. Loop(loop, t, q) = it[DOMAIN q]
  BY DEF Loop, FoldLeft, MapThenFoldSet
<1>3. \E g : Is(g)
  <2>1. PICK g : Unwound(g, loop, t, q, Len(q))
    BY <1>1, UnwoundThere
  <2>2. Is(g)
    BY <1>1, <2>1, Zenon DEF Unwound
  <2> QED BY <2>2
<1>4. Is(it)
  <2> HIDE DEF Is
  <2> QED BY <1>3
<1> HIDE DEF it
<1>5. Unwound(it, loop, t, q, Len(q))
  BY <1>1, <1>4, Zenon DEF Unwound
<1> QED
  BY <1>1, <1>2, <1>5

\* A loop over no rows changes nothing.
LEMMA LoopOfNone ==
    ASSUME NEW loop, NEW t
    PROVE  Loop(loop, t, <<>>) = t
<1>1. <<>> \in Seq({}) /\ Len(<<>>) = 0
  OBVIOUS
<1>2. PICK g : Unwound(g, loop, t, <<>>, Len(<<>>)) /\ Loop(loop, t, <<>>) = g[1..Len(<<>>)]
  BY <1>1, LoopUnwound
<1>3. 1..0 = {} /\ {} \in SUBSET (1..0)
  OBVIOUS
<1>4. Unwound(g, loop, t, <<>>, 0) /\ Loop(loop, t, <<>>) = g[{}]
  BY <1>1, <1>2, <1>3
<1> QED
  BY <1>3, <1>4, Zenon DEF Unwound

\* A loop does its last step last.
LEMMA LoopOfMore ==
    ASSUME NEW loop, NEW t, NEW V, NEW q \in Seq(V), NEW r \in V
    PROVE  Loop(loop, t, Append(q, r)) = Step(loop, Loop(loop, t, q), r)
<1> DEFINE o == Append(q, r)
           n == Len(q)
<1>1. n \in Nat /\ o \in Seq(V) /\ Len(o) = n + 1 /\ o[n + 1] = r /\ \A i \in 1..n : o[i] = q[i]
  OBVIOUS
<1> HIDE DEF o, n
<1>2. PICK g : Unwound(g, loop, t, o, Len(o)) /\ Loop(loop, t, o) = g[1..Len(o)]
  BY <1>1, LoopUnwound
<1>3. PICK h : Unwound(h, loop, t, q, n) /\ Loop(loop, t, q) = h[1..n]
  BY LoopUnwound DEF n
<1>4. Unwound(g, loop, t, o, n + 1) /\ Loop(loop, t, o) = g[1..(n + 1)]
  BY <1>1, <1>2
<1>5. g[1..n] = h[1..n]
  <2>1. n + 1 \in Nat /\ n <= n + 1 /\ n <= n
    BY <1>1
  <2> QED BY <1>1, <1>3, <1>4, <2>1, UnwoundSame
<1>6. /\ 1..(n + 1) \in SUBSET (1..(n + 1)) /\ 1..(n + 1) # {} /\ n + 1 \in 1..(n + 1) /\ n + 1 \in Nat
      /\ (1..(n + 1)) \ {n + 1} = 1..n
  <2>1. n + 1 \in Nat /\ n + 1 \in 1..(n + 1)
    BY <1>1
  <2>2. (1..(n + 1)) \ {n + 1} = 1..n
    BY <1>1
  <2> QED BY <2>1, <2>2
<1>7. Max(1..(n + 1)) = n + 1
  BY <1>6, LargestIndex
<1>8. g[1..(n + 1)] = Step(loop, g[(1..(n + 1)) \ {Max(1..(n + 1))}], o[Max(1..(n + 1))])
  BY <1>4, <1>6, Zenon DEF Unwound
<1>9. g[1..(n + 1)] = Step(loop, g[1..n], r)
  BY <1>1, <1>6, <1>7, <1>8, Zenon
<1> QED
  BY <1>3, <1>4, <1>5, <1>9 DEF o
-----------------------------------------------------------------------------
(* Sums of counts.                                                         *)

\* What a sum is defined by: a function of the sets of arguments, which takes
\* some of them first.
Some(u) == CHOOSE x \in u : TRUE
Added(g, f, D) == g = [u \in SUBSET D |-> IF u = {} THEN 0 ELSE f[Some(u)] + g[u \ {Some(u)}]]

\* The element of a set that a sum takes next.
LEMMA SomeIn == ASSUME NEW u, u # {} PROVE Some(u) \in u
  BY DEF Some

\* A set without one of its elements is smaller.
LEMMA Smaller ==
    ASSUME NEW D, IsFiniteSet(D), NEW u \in SUBSET D, NEW x \in u
    PROVE  /\ u \ {x} \in SUBSET D /\ Cardinality(u) \in Nat /\ Cardinality(u) # 0
           /\ Cardinality(u \ {x}) = Cardinality(u) - 1 /\ Cardinality(u) <= Cardinality(D)
           /\ Cardinality(D) \in Nat
<1>1. IsFiniteSet(u) /\ Cardinality(u) <= Cardinality(D)
  BY FS_Subset
<1>2. Cardinality(u) \in Nat /\ Cardinality(D) \in Nat
  BY <1>1, FS_CardinalityType
<1>3. Cardinality(u \ {x}) = Cardinality(u) - 1 /\ IsFiniteSet(u \ {x})
  BY <1>1, FS_RemoveElement
<1>4. Cardinality(u \ {x}) \in Nat
  BY <1>3, FS_CardinalityType
<1> QED
  BY <1>1, <1>2, <1>3, <1>4

\* A function that adds up the parts of a finite set exists.
LEMMA AddedThere ==
    ASSUME NEW D, IsFiniteSet(D), NEW f
    PROVE  \E g : Added(g, f, D)
<1> DEFINE N == Cardinality(D)
           Value(g, u) == IF u = {} THEN 0 ELSE f[Some(u)] + g[u \ {Some(u)}]
           Upto(g, n) == \A u \in SUBSET D : Cardinality(u) <= n => g[u] = Value(g, u)
           Bad == {n \in 0..N : ~ \E g : Upto(g, n)}
<1>0. N \in Nat
  BY FS_CardinalityType
<1>1. Bad = {}
  <2> SUFFICES ASSUME Bad # {} PROVE FALSE
    OBVIOUS
  <2>1. PICK n \in Bad : \A e \in Bad : n <= e
    <3>1. Bad \in SUBSET Nat
      BY <1>0
    <3> HIDE DEF Bad
    <3> QED BY <3>1, Least
  <2>2. n \in 0..N /\ ~ \E g : Upto(g, n)
    OBVIOUS
  <2>3. CASE n = 0
    <3> DEFINE g == [u \in SUBSET D |-> 0]
    <3>1. \A u \in SUBSET D : Cardinality(u) <= 0 => u = {}
      <4> TAKE u \in SUBSET D
      <4>1. u # {} => Cardinality(u) \in Nat /\ Cardinality(u) # 0
        BY Smaller
      <4> QED BY <4>1
    <3>2. \A u \in SUBSET D : Cardinality(u) <= 0 => g[u] = Value(g, u)
      BY <3>1
    <3>3. Upto(g, n)
      <4> HIDE DEF g, Value
      <4> QED BY <2>3, <3>2
    <3> HIDE DEF Upto
    <3> QED
      BY <2>2, <3>3
  <2>4. CASE n # 0
    <3>0. n - 1 \in 0..N /\ ~(n <= n - 1)
      BY <2>2, <2>4, <1>0
    <3>1. n - 1 \notin Bad
      <4> HIDE DEF Bad
      <4> QED BY <2>1, <3>0
    <3>2. PICK h : Upto(h, n - 1)
      <4> HIDE DEF Upto
      <4> QED BY <3>0, <3>1
    <3> DEFINE g == [u \in SUBSET D |-> IF Cardinality(u) <= n - 1 THEN h[u] ELSE Value(h, u)]
    <3>3. ASSUME NEW u \in SUBSET D, Cardinality(u) <= n PROVE g[u] = Value(g, u)
      <4>1. g[u] = Value(h, u)
        <5>1. Cardinality(u) <= n - 1 => h[u] = Value(h, u)
          BY <3>2
        <5> HIDE DEF Value
        <5> QED BY <5>1
      <4>2. u # {} => g[u \ {Some(u)}] = h[u \ {Some(u)}]
        <5> SUFFICES ASSUME u # {} PROVE g[u \ {Some(u)}] = h[u \ {Some(u)}]
          OBVIOUS
        <5>1. Some(u) \in u
          BY SomeIn
        <5>2. u \ {Some(u)} \in SUBSET D /\ Cardinality(u \ {Some(u)}) <= n - 1
          BY <5>1, <3>3, <2>2, Smaller
        <5> QED BY <5>2
      <4> HIDE DEF g
      <4> QED BY <4>1, <4>2
    <3>4. Upto(g, n)
      <4> HIDE DEF g, Value
      <4> QED BY <3>3
    <3> HIDE DEF Upto
    <3> QED
      BY <2>2, <3>4
  <2> QED
    BY <2>3, <2>4
<1>2. PICK h : Upto(h, N)
  <2>1. N \in 0..N
    BY <1>0
  <2> HIDE DEF Upto, N
  <2> QED BY <1>1, <2>1
<1> DEFINE g == [u \in SUBSET D |-> h[u]]
<1>3. ASSUME NEW u \in SUBSET D PROVE g[u] = Value(g, u)
  <2>1. Cardinality(u) <= N
    BY FS_Subset
  <2>2. h[u] = Value(h, u)
    <3> HIDE DEF Value
    <3> QED BY <1>2, <2>1
  <2>3. u \ {Some(u)} \in SUBSET D
    OBVIOUS
  <2> QED BY <2>2, <2>3
<1>4. Added(g, f, D)
  <2>1. g = [u \in SUBSET D |-> g[u]]
    OBVIOUS
  <2> HIDE DEF g
  <2> QED BY <1>3, <2>1, Zenon DEF Added
<1> QED
  BY <1>4

\* SumFunction adds up its domain in that way.
LEMMA SumAdded ==
    ASSUME NEW D, IsFiniteSet(D), NEW f, DOMAIN f = D
    PROVE  \E g : Added(g, f, D) /\ SumFunction(f) = g[D]
<1> DEFINE Is(g) == g = [u \in SUBSET D |->
                            IF u = {} THEN 0
                            ELSE f[CHOOSE x \in u : TRUE] + g[u \ {CHOOSE x \in u : TRUE}]]
           it == CHOOSE g : Is(g)
<1>1. SumFunction(f) = it[D]
  BY DEF SumFunction, SumFunctionOnSet, FoldFunctionOnSet, MapThenFoldSet
<1>2. \E g : Is(g)
  <2>1. PICK g : Added(g, f, D)
    BY AddedThere
  <2>2. Is(g)
    BY <2>1, Zenon DEF Added, Some
  <2> QED BY <2>2
<1>3. Is(it)
  <2> HIDE DEF Is
  <2> QED BY <1>2
<1> HIDE DEF it
<1>4. Added(it, f, D)
  BY <1>3, Zenon DEF Added, Some
<1> QED
  BY <1>1, <1>4

\* Sums of counts are counts, whatever other arguments the function has.
LEMMA AddedSame ==
    ASSUME NEW D, IsFiniteSet(D), NEW f \in [D -> Nat], NEW T \in SUBSET D,
           NEW g, Added(g, f, D), NEW h, Added(h, [x \in T |-> f[x]], T), NEW u \in SUBSET T
    PROVE  g[u] = h[u] /\ g[u] \in Nat
<1> DEFINE Bad == {n \in 0..Cardinality(D) : \E v \in SUBSET T :
                      Cardinality(v) = n /\ ~(g[v] = h[v] /\ g[v] \in Nat)}
<1>0. Cardinality(D) \in Nat
  BY FS_CardinalityType
<1>1. Bad = {}
  <2> SUFFICES ASSUME Bad # {} PROVE FALSE
    OBVIOUS
  <2>1. PICK n \in Bad : \A e \in Bad : n <= e
    <3>1. Bad \in SUBSET Nat
      BY <1>0
    <3> HIDE DEF Bad
    <3> QED BY <3>1, Least
  <2>2. PICK v \in SUBSET T : Cardinality(v) = n /\ ~(g[v] = h[v] /\ g[v] \in Nat)
    OBVIOUS
  <2>3. v \in SUBSET D
    OBVIOUS
  <2>4. /\ g[v] = IF v = {} THEN 0 ELSE f[Some(v)] + g[v \ {Some(v)}]
        /\ h[v] = IF v = {} THEN 0 ELSE [x \in T |-> f[x]][Some(v)] + h[v \ {Some(v)}]
    BY <2>2, <2>3, Zenon DEF Added
  <2>5. v # {}
    BY <2>2, <2>4
  <2>6. Some(v) \in v /\ Some(v) \in T /\ Some(v) \in D
    BY <2>5, <2>2, <2>3, SomeIn
  <2> DEFINE w == v \ {Some(v)}
  <2>7. w \in SUBSET T /\ Cardinality(w) = n - 1 /\ n - 1 \in 0..Cardinality(D) /\ ~(n <= n - 1)
    BY <2>2, <2>3, <2>6, <1>0, Smaller
  <2>8. n - 1 \notin Bad
    <3> HIDE DEF Bad
    <3> QED BY <2>1, <2>7
  <2>9. g[w] = h[w] /\ g[w] \in Nat
    BY <2>7, <2>8
  <2>10. [x \in T |-> f[x]][Some(v)] = f[Some(v)] /\ f[Some(v)] \in Nat
    BY <2>6
  <2> HIDE DEF w
  <2>11. g[v] = f[Some(v)] + g[w] /\ h[v] = f[Some(v)] + h[w]
    BY <2>4, <2>5, <2>10 DEF w
  <2> QED BY <2>2, <2>9, <2>10, <2>11
<1>2. u \in SUBSET D /\ IsFiniteSet(u) /\ Cardinality(u) \in 0..Cardinality(D)
  <2>1. u \in SUBSET D
    OBVIOUS
  <2>2. IsFiniteSet(u) /\ Cardinality(u) <= Cardinality(D)
    BY <2>1, FS_Subset
  <2> QED BY <1>0, <2>1, <2>2, FS_CardinalityType
<1> QED
  BY <1>1, <1>2

\* A sum is any of its terms and the sum of the others.
LEMMA SumSplit ==
    ASSUME NEW D, IsFiniteSet(D), NEW f \in [D -> Nat], NEW a \in D
    PROVE  /\ SumFunction(f) \in Nat /\ SumFunction([x \in D \ {a} |-> f[x]]) \in Nat
           /\ SumFunction(f) = f[a] + SumFunction([x \in D \ {a} |-> f[x]])
<1>1. PICK g : Added(g, f, D) /\ SumFunction(f) = g[D]
  BY SumAdded
<1>2. \A T \in SUBSET D : SumFunction([x \in T |-> f[x]]) = g[T] /\ g[T] \in Nat
  <2> TAKE T \in SUBSET D
  <2>1. IsFiniteSet(T) /\ DOMAIN [x \in T |-> f[x]] = T
    BY FS_Subset
  <2>2. PICK h : Added(h, [x \in T |-> f[x]], T) /\ SumFunction([x \in T |-> f[x]]) = h[T]
    BY <2>1, SumAdded
  <2>3. T \in SUBSET T
    OBVIOUS
  <2>4. g[T] = h[T] /\ g[T] \in Nat
    BY <1>1, <2>2, <2>3, AddedSame
  <2> QED BY <2>2, <2>4
<1>3. Cardinality(D) \in Nat
  BY FS_CardinalityType
<1> DEFINE Wrong(v) == \E b \in v : g[v] # f[b] + g[v \ {b}]
           Bad == {n \in 0..Cardinality(D) : \E v \in SUBSET D : Cardinality(v) = n /\ Wrong(v)}
<1>4. Bad = {}
  <2> SUFFICES ASSUME Bad # {} PROVE FALSE
    OBVIOUS
  <2>1. PICK n \in Bad : \A e \in Bad : n <= e
    <3>1. Bad \in SUBSET Nat
      BY <1>3
    <3> HIDE DEF Bad
    <3> QED BY <3>1, Least
  <2>2. PICK v \in SUBSET D : Cardinality(v) = n /\ Wrong(v)
    <3> HIDE DEF Wrong
    <3> QED OBVIOUS
  <2>3. PICK b \in v : g[v] # f[b] + g[v \ {b}]
    BY <2>2
  <2>4. PICK c : c = Some(v) /\ c \in v
    BY <2>3, SomeIn
  <2>5. g[v] = f[c] + g[v \ {c}]
    BY <1>1, <2>2, <2>4, Zenon DEF Added
  <2>6. c # b
    BY <2>3, <2>5
  <2>7. ASSUME NEW d \in v PROVE ~Wrong(v \ {d})
    <3>1. /\ v \ {d} \in SUBSET D
          /\ Cardinality(v \ {d}) = n - 1 /\ n - 1 \in 0..Cardinality(D) /\ ~(n <= n - 1)
      BY <2>2, <1>3, Smaller
    <3>2. n - 1 \notin Bad
      <4> HIDE DEF Bad
      <4> QED BY <2>1, <3>1
    <3> HIDE DEF Wrong
    <3> QED BY <3>1, <3>2
  <2>8. g[v \ {c}] = f[b] + g[(v \ {c}) \ {b}]
    <3>1. b \in v \ {c}
      BY <2>6
    <3> QED BY <2>4, <2>7, <3>1
  <2>9. g[v \ {b}] = f[c] + g[(v \ {b}) \ {c}]
    <3>1. c \in v \ {b}
      BY <2>4, <2>6
    <3> QED BY <2>7, <3>1
  <2>10. PICK w : w = (v \ {b}) \ {c} /\ w = (v \ {c}) \ {b} /\ w \in SUBSET D
    <3>1. (v \ {b}) \ {c} = (v \ {c}) \ {b} /\ (v \ {b}) \ {c} \in SUBSET D
      BY <2>2
    <3> QED BY <3>1
  <2>11. g[w] \in Nat /\ f[b] \in Nat /\ f[c] \in Nat
    BY <1>2, <2>2, <2>4, <2>10
  <2>12. g[v] = f[c] + (f[b] + g[w])
    BY <2>5, <2>8, <2>10
  <2>13. g[v \ {b}] = f[c] + g[w]
    BY <2>9, <2>10
  <2>14. g[v] = f[b] + g[v \ {b}]
    BY <2>11, <2>12, <2>13
  <2> QED
    BY <2>3, <2>14
<1>5. D \in SUBSET D /\ D \ {a} \in SUBSET D /\ Cardinality(D) \in 0..Cardinality(D)
  BY <1>3
<1>6. ~Wrong(D)
  <2> HIDE DEF Wrong
  <2> QED BY <1>4, <1>5
<1>7. g[D] = f[a] + g[D \ {a}]
  BY <1>6
<1>8. SumFunction([x \in D \ {a} |-> f[x]]) = g[D \ {a}] /\ g[D \ {a}] \in Nat /\ f[a] \in Nat
  BY <1>2, <1>5
<1> QED
  BY <1>1, <1>7, <1>8

\* A sum of nothing is 0.
LEMMA SumNone ==
    ASSUME NEW f, DOMAIN f = {}
    PROVE  SumFunction(f) = 0
<1>1. IsFiniteSet({})
  BY FS_EmptySet
<1>2. PICK g : Added(g, f, {}) /\ SumFunction(f) = g[{}]
  BY <1>1, SumAdded
<1>3. {} \in SUBSET {}
  OBVIOUS
<1> QED
  BY <1>2, <1>3, Zenon DEF Added

\* A sum of naturals is one.
LEMMA SumTyped ==
    ASSUME NEW D, IsFiniteSet(D), NEW f \in [D -> Nat]
    PROVE  SumFunction(f) \in Nat
<1>1. CASE D = {}
  BY <1>1, SumNone
<1>2. CASE D # {}
  <2>1. PICK a \in D : TRUE
    BY <1>2
  <2> QED BY SumSplit
<1> QED
  BY <1>1, <1>2

\* A sum with one more term.
LEMMA SumMore ==
    ASSUME NEW D, IsFiniteSet(D), NEW a, a \notin D, NEW f \in [D \cup {a} -> Nat]
    PROVE  SumFunction(f) = SumFunction([x \in D |-> f[x]]) + f[a]
<1>1. IsFiniteSet(D \cup {a}) /\ a \in D \cup {a} /\ (D \cup {a}) \ {a} = D
  BY FS_AddElement
<1>2. /\ SumFunction([x \in (D \cup {a}) \ {a} |-> f[x]]) \in Nat
      /\ SumFunction(f) = f[a] + SumFunction([x \in (D \cup {a}) \ {a} |-> f[x]])
  BY <1>1, SumSplit
<1>3. f[a] \in Nat
  BY <1>1
<1> QED
  BY <1>1, <1>2, <1>3

\* A sum of which one term grows.
LEMMA SumGrows ==
    ASSUME NEW D, IsFiniteSet(D), NEW f \in [D -> Nat], NEW a \in D, NEW n \in Nat,
           NEW g \in [D -> Nat], g[a] = f[a] + n, \A x \in D \ {a} : g[x] = f[x]
    PROVE  SumFunction(g) = SumFunction(f) + n
<1>1. [x \in D \ {a} |-> f[x]] = [x \in D \ {a} |-> g[x]]
  OBVIOUS
<1>2. PICK s : s = SumFunction([x \in D \ {a} |-> f[x]])
  OBVIOUS
<1>3. s \in Nat /\ SumFunction(f) = f[a] + s
  BY <1>2, SumSplit
<1>4. SumFunction(g) = g[a] + s
  BY <1>1, <1>2, SumSplit
<1>5. f[a] \in Nat
  OBVIOUS
<1> QED
  BY <1>3, <1>4, <1>5

\* A sum over some of the arguments.
LEMMA SumPart ==
    ASSUME NEW D, IsFiniteSet(D), NEW f \in [D -> Nat], NEW T \in SUBSET D, NEW a \in T
    PROVE  SumFunction([x \in T |-> f[x]]) = f[a] + SumFunction([x \in T \ {a} |-> f[x]])
<1>1. IsFiniteSet(T) /\ [x \in T |-> f[x]] \in [T -> Nat]
  BY FS_Subset
<1>2. [y \in T \ {a} |-> [x \in T |-> f[x]][y]] = [y \in T \ {a} |-> f[y]]
  OBVIOUS
<1>3. SumFunction([x \in T |-> f[x]])
         = [x \in T |-> f[x]][a] + SumFunction([y \in T \ {a} |-> [x \in T |-> f[x]][y]])
  BY <1>1, SumSplit
<1>4. [x \in T |-> f[x]][a] = f[a]
  OBVIOUS
<1> QED BY <1>2, <1>3, <1>4

\* A sum of counts is 0 if all are.
LEMMA SumZero ==
    ASSUME NEW D, IsFiniteSet(D), NEW f \in [D -> Nat]
    PROVE  SumFunction(f) = 0 <=> \A x \in D : f[x] = 0
<1>1. ASSUME SumFunction(f) = 0, NEW x \in D PROVE f[x] = 0
  <2>1. PICK s : s = SumFunction([y \in D \ {x} |-> f[y]])
    OBVIOUS
  <2>2. s \in Nat /\ SumFunction(f) = f[x] + s
    BY <2>1, SumSplit
  <2>3. f[x] \in Nat
    OBVIOUS
  <2> QED BY <1>1, <2>2, <2>3
<1>2. ASSUME \A x \in D : f[x] = 0 PROVE SumFunction(f) = 0
  <2> DEFINE S(T) == SumFunction([x \in T |-> f[x]])
             Bad == {n \in 0..Cardinality(D) : \E T \in SUBSET D : Cardinality(T) = n /\ S(T) # 0}
  <2>0. \A T \in SUBSET D : \A a \in T : S(T) = f[a] + S(T \ {a})
    <3> HIDE DEF Bad
    <3> QED BY SumPart
  <2>1. Cardinality(D) \in Nat
    BY FS_CardinalityType
  <2>2. Bad = {}
    <3> SUFFICES ASSUME Bad # {} PROVE FALSE
      OBVIOUS
    <3>1. PICK n \in Bad : \A e \in Bad : n <= e
      <4>1. Bad \in SUBSET Nat
        BY <2>1
      <4> HIDE DEF Bad
      <4> QED BY <4>1, Least
    <3>2. PICK T \in SUBSET D : Cardinality(T) = n /\ S(T) # 0
      OBVIOUS
    <3>3. T # {}
      <4>1. T = {} => S(T) = 0
        BY SumNone
      <4> QED BY <3>2, <4>1
    <3>4. PICK a \in T : TRUE
      BY <3>3
    <3>5. /\ T \ {a} \in SUBSET D /\ Cardinality(T \ {a}) = n - 1
          /\ n - 1 \in 0..Cardinality(D) /\ ~(n <= n - 1)
      BY <3>2, <2>1, Smaller
    <3>6. n - 1 \notin Bad
      <4> HIDE DEF Bad
      <4> QED BY <3>1, <3>5
    <3>7. S(T \ {a}) = 0
      <4> HIDE DEF S
      <4> QED BY <3>5, <3>6
    <3>8. S(T) = f[a] + S(T \ {a})
      BY <2>0
    <3>9. f[a] = 0
      BY <1>2
    <3> HIDE DEF S
    <3> QED BY <3>2, <3>7, <3>8, <3>9
  <2>3. D \in SUBSET D /\ Cardinality(D) \in 0..Cardinality(D)
    BY <2>1
  <2>4. S(D) = 0
    <3> HIDE DEF S
    <3> QED BY <2>2, <2>3
  <2>5. f = [x \in D |-> f[x]]
    OBVIOUS
  <2> QED BY <2>4, <2>5
<1> QED
  BY <1>1, <1>2

\* A sum is the same if its arguments are moved.
LEMMA SumMoved ==
    ASSUME NEW D, \A b \in D : b \in Int, IsFiniteSet(D), NEW f \in [D -> Nat], NEW B \in Int
    PROVE  SumFunction([e \in {b - B : b \in D} |-> f[e + B]]) = SumFunction(f)
<1> DEFINE S(T) == SumFunction([x \in T |-> f[x]])
           Moved(T) == {b - B : b \in T}
           M(T) == SumFunction([e \in Moved(T) |-> f[e + B]])
           Bad == {n \in 0..Cardinality(D) : \E T \in SUBSET D : Cardinality(T) = n /\ M(T) # S(T)}
<1>1. Cardinality(D) \in Nat
  BY FS_CardinalityType
<1>2. Bad = {}
  <2> SUFFICES ASSUME Bad # {} PROVE FALSE
    OBVIOUS
  <2>1. PICK n \in Bad : \A e \in Bad : n <= e
    <3>1. Bad \in SUBSET Nat
      BY <1>1
    <3> HIDE DEF Bad
    <3> QED BY <3>1, Least
  <2>2. PICK T \in SUBSET D : Cardinality(T) = n /\ M(T) # S(T)
    <3> HIDE DEF M, S
    <3> QED OBVIOUS
  <2>3. T # {}
    <3>1. ASSUME T = {} PROVE S(T) = 0 /\ M(T) = 0
      <4>1. Moved(T) = {}
        BY <3>1
      <4> HIDE DEF Moved
      <4> QED BY <3>1, <4>1, SumNone
    <3> HIDE DEF M, S
    <3> QED BY <2>2, <3>1
  <2>4. PICK a \in T : TRUE
    BY <2>3
  <2>5. /\ T \ {a} \in SUBSET D /\ Cardinality(T \ {a}) = n - 1
        /\ n - 1 \in 0..Cardinality(D) /\ ~(n <= n - 1)
    <3>1. n \in 0..Cardinality(D)
      OBVIOUS
    <3> HIDE DEF Bad, M, S, Moved
    <3> QED BY <3>1, <2>2, <1>1, Smaller
  <2>6. n - 1 \notin Bad
    <3> HIDE DEF Bad
    <3> QED BY <2>1, <2>5
  <2>7. M(T \ {a}) = S(T \ {a})
    <3> HIDE DEF M, S
    <3> QED BY <2>5, <2>6
  <2>8. S(T) = f[a] + S(T \ {a})
    BY SumPart
  <2>9. M(T) = f[a] + M(T \ {a})
    <3>0. a \in D /\ a \in Int /\ \A b \in T : b \in Int
      OBVIOUS
    <3>1. IsFiniteSet(Moved(T))
      <4>1. IsFiniteSet(T)
        BY FS_Subset
      <4>2. [b \in T |-> b - B] \in Surjection(T, Moved(T))
        BY DEF Surjection
      <4> HIDE DEF Moved
      <4> QED BY <4>1, <4>2, FS_Surjection
    <3>2. \A e \in Moved(T) : e + B \in T
      BY <3>0
    <3>3. PICK g : g = [e \in Moved(T) |-> f[e + B]]
      OBVIOUS
    <3>4. g \in [Moved(T) -> Nat]
      BY <3>2, <3>3
    <3>5. a - B \in Moved(T) /\ (a - B) + B = a
      BY <3>0
    <3>6. Moved(T) \ {a - B} = Moved(T \ {a})
      BY <3>0
    <3>7. [e \in Moved(T) \ {a - B} |-> g[e]] = [e \in Moved(T \ {a}) |-> f[e + B]]
      BY <3>3, <3>6
    <3>8. g[a - B] = f[a]
      BY <3>3, <3>5
    <3>9. SumFunction(g) = g[a - B] + SumFunction([e \in Moved(T) \ {a - B} |-> g[e]])
      <4> HIDE DEF Moved
      <4> QED BY <3>1, <3>4, <3>5, SumSplit
    <3> HIDE DEF Moved
    <3> QED BY <3>3, <3>7, <3>8, <3>9
  <2> HIDE DEF S, M
  <2> QED BY <2>2, <2>7, <2>8, <2>9
<1>3. D \in SUBSET D /\ Cardinality(D) \in 0..Cardinality(D)
  BY <1>1
<1>4. M(D) = S(D)
  <2> HIDE DEF S, M
  <2> QED BY <1>2, <1>3
<1>5. f = [x \in D |-> f[x]]
  OBVIOUS
<1> QED BY <1>4, <1>5
-----------------------------------------------------------------------------
(* Tables of events.                                                       *)

\* A loop over one row more.
LEMMA LoopPrefix ==
    ASSUME NEW loop, NEW t, NEW V, NEW q \in Seq(V), NEW n \in 1..Len(q)
    PROVE  /\ SubSeq(q, 1, n - 1) \in Seq(V) /\ q[n] \in V
           /\ SubSeq(q, 1, n) = Append(SubSeq(q, 1, n - 1), q[n])
           /\ Loop(loop, t, SubSeq(q, 1, n)) = Step(loop, Loop(loop, t, SubSeq(q, 1, n - 1)), q[n])
<1>1. 1 \in 1..Len(q) /\ n \in 1..Len(q) /\ 1 \in Int /\ n - 1 \in Int /\ n - 1 >= 0 /\ n - 1 < Len(q)
  OBVIOUS
<1>2. \A i \in 1..(n - 1) : q[i] \in V
  OBVIOUS
<1>3. SubSeq(q, 1, n - 1) \in Seq(V)
  BY <1>1, <1>2, SubSeqProperties
<1>4. q[n] \in V
  OBVIOUS
<1>5. SubSeq(q, 1, n) = SubSeq(q, 1, n - 1) \o <<q[n]>>
  BY <1>1, SubSeqRecursiveSecond
<1>6. SubSeq(q, 1, n) = Append(SubSeq(q, 1, n - 1), q[n])
  BY <1>3, <1>4, <1>5, AppendIsConcat
<1>7. Loop(loop, t, Append(SubSeq(q, 1, n - 1), q[n])) = Step(loop, Loop(loop, t, SubSeq(q, 1, n - 1)), q[n])
  <2>1. PICK o : o = SubSeq(q, 1, n - 1)
    OBVIOUS
  <2>2. o \in Seq(V)
    BY <1>3, <2>1
  <2>3. Loop(loop, t, Append(o, q[n])) = Step(loop, Loop(loop, t, o), q[n])
    BY <1>4, <2>2, LoopOfMore
  <2> QED BY <2>1, <2>3, Zenon
<1> QED
  BY <1>3, <1>4, <1>6, <1>7, Zenon

\* A loop over no row changes nothing.
LEMMA LoopStart ==
    ASSUME NEW loop, NEW t, NEW q
    PROVE  SubSeq(q, 1, 0) = <<>> /\ Loop(loop, t, SubSeq(q, 1, 0)) = t
<1>1. SubSeq(q, 1, 0) = <<>>
  BY SubSeqEmpty
<1> QED
  BY <1>1, LoopOfNone

\* The sum of the counts of a file with one more location.
Located == Int \X Nat

\* The count of events at locations is a natural.
LEMMA SumOfTyped ==
    ASSUME NEW s \in Seq(Located)
    PROVE  SumOf(s) \in Nat
<1>1. IsFiniteSet(DOMAIN s) /\ [n \in DOMAIN s |-> s[n][2]] \in [DOMAIN s -> Nat]
  <2>1. DOMAIN s = 1..Len(s) /\ Len(s) \in Nat
    OBVIOUS
  <2>2. \A n \in DOMAIN s : s[n] \in Located
    OBVIOUS
  <2>3. \A n \in DOMAIN s : s[n][2] \in Nat
    BY <2>2 DEF Located
  <2> QED BY <2>1, <2>3, FS_Interval
<1> QED
  BY <1>1, SumTyped DEF SumOf

\* One more location adds its count.
LEMMA SumOfAppend ==
    ASSUME NEW s \in Seq(Located), NEW x \in Located
    PROVE  SumOf(Append(s, x)) = SumOf(s) + x[2]
<1> DEFINE o == Append(s, x)
           n == Len(s)
           f == [m \in DOMAIN o |-> o[m][2]]
<1>1. n \in Nat /\ DOMAIN s = 1..n /\ DOMAIN o = 1..(n + 1) /\ o[n + 1] = x /\ \A m \in 1..n : o[m] = s[m]
  OBVIOUS
<1>2. o \in Seq(Located)
  OBVIOUS
<1>3. \A m \in DOMAIN o : o[m] \in Located
  BY <1>2
<1> HIDE DEF o, n
<1>4. 1..(n + 1) = (1..n) \cup {n + 1} /\ n + 1 \notin 1..n /\ IsFiniteSet(1..n)
  <2>1. n \in Int /\ 1 \in Int
    BY <1>1
  <2>2. IsFiniteSet(1..n)
    BY <2>1, FS_Interval
  <2>3. 1..(n + 1) = (1..n) \cup {n + 1} /\ n + 1 \notin 1..n
    BY <1>1
  <2> QED BY <2>2, <2>3
<1>5. f \in [(1..n) \cup {n + 1} -> Nat]
  BY <1>1, <1>3, <1>4 DEF Located
<1>6. SumFunction(f) = SumFunction([m \in 1..n |-> f[m]]) + f[n + 1]
  BY <1>4, <1>5, SumMore
<1>7. [m \in 1..n |-> f[m]] = [m \in DOMAIN s |-> s[m][2]]
  BY <1>1, <1>4
<1>8. f[n + 1] = x[2]
  BY <1>1, <1>4
<1> HIDE DEF f
<1> QED
  BY <1>6, <1>7, <1>8 DEF SumOf, f, o

\* The items of a process p of jobs j, and an item.
It(j, i) == j[i[1]].items[i[2]]
Some_(j, X, k) == {i \in X : It(j, i).counts[k] # 0}
LinesIn(s) == {s[n][1] : n \in DOMAIN s}

\* Tables t of locations and u of inputs have the events of the items X.
Kinds == ToSet(Events)
EventsAre(j, t, u, X) ==
    /\ t \in [Kinds -> [File -> Seq(Located)]] /\ u = [k \in Kinds |-> {It(j, i).input : i \in Some_(j, X, k)}]
    /\ \A k \in Kinds :
           /\ SumFunction([f \in File |-> SumOf(t[k][f])]) = SumFunction([i \in X |-> It(j, i).counts[k]])
           /\ \A f \in File : LinesIn(t[k][f]) = {It(j, i).line : i \in {i \in Some_(j, X, k) : It(j, i).file = f}}

\* The row of one more item.
LEMMA EventsOfItem ==
    ASSUME NEW j, NEW t, NEW u, NEW X, EventsAre(j, t, u, X), NEW x, x \notin X,
           IsFiniteSet(X), \A i \in X \cup {x} : IsItem(It(j, i))
    PROVE  EventsAre(j, AddEvents(t, It(j, x)), AddInput(u, It(j, x)), X \cup {x})
<1>1. PICK r : r = It(j, x)
  OBVIOUS
<1>2. r.file \in File /\ r.line \in Int /\ \A k \in Kinds : r.counts[k] \in Nat
  BY <1>1 DEF IsItem, Kinds
<1>3. PICK t2 : t2 = AddEvents(t, r)
  OBVIOUS
<1>4. \A k \in Kinds : t[k] \in [File -> Seq(Located)]
  BY DEF EventsAre
<1>5. DOMAIN t = Kinds
  BY DEF EventsAre
<1>6. ASSUME NEW k \in Kinds
      PROVE  t2[k] = IF r.counts[k] = 0 THEN t[k]
                     ELSE [t[k] EXCEPT ![r.file] = Append(@, <<r.line, r.counts[k]>>)]
  BY <1>3, <1>5 DEF AddEvents
<1>7. ASSUME NEW k \in Kinds
      PROVE  /\ t2[k] \in [File -> Seq(Located)]
             /\ \A f \in File \ {r.file} : t2[k][f] = t[k][f]
             /\ r.counts[k] = 0 => t2[k] = t[k]
             /\ r.counts[k] # 0 => t2[k][r.file] = Append(t[k][r.file], <<r.line, r.counts[k]>>)
  <2>1. <<r.line, r.counts[k]>> \in Located
    BY <1>2 DEF Located
  <2>2. t[k][r.file] \in Seq(Located)
    BY <1>2, <1>4
  <2>3. Append(t[k][r.file], <<r.line, r.counts[k]>>) \in Seq(Located)
    BY <2>1, <2>2
  <2>4. CASE r.counts[k] = 0
    BY <1>4, <1>6, <2>4
  <2>5. CASE r.counts[k] # 0
    <3>1. t2[k] = [t[k] EXCEPT ![r.file] = Append(@, <<r.line, r.counts[k]>>)]
      BY <1>6, <2>5
    <3> QED BY <1>2, <1>4, <2>3, <2>5, <3>1
  <2> QED BY <2>4, <2>5
<1>8. t2 \in [Kinds -> [File -> Seq(Located)]]
  <2>1. t2 = [k \in Kinds |-> t2[k]]
    BY <1>3, <1>5 DEF AddEvents
  <2> QED BY <1>7, <2>1
<1>9. ASSUME NEW k \in Kinds
      PROVE  SumFunction([f \in File |-> SumOf(t2[k][f])]) = SumFunction([i \in X \cup {x} |-> It(j, i).counts[k]])
  <2> DEFINE g == [f \in File |-> SumOf(t[k][f])]
             h == [f \in File |-> SumOf(t2[k][f])]
             c == [i \in X \cup {x} |-> It(j, i).counts[k]]
  <2>1. g \in [File -> Nat] /\ h \in [File -> Nat]
    BY <1>4, <1>7, SumOfTyped
  <2>2. \A f \in File \ {r.file} : h[f] = g[f]
    BY <1>7
  <2>3. h[r.file] = g[r.file] + r.counts[k]
    <3>1. CASE r.counts[k] = 0
      <4>1. h[r.file] = g[r.file] /\ g[r.file] \in Nat
        BY <1>2, <1>7, <2>1, <3>1
      <4> HIDE DEF g, h
      <4> QED BY <3>1, <4>1
    <3>2. CASE r.counts[k] # 0
      <4>1. t[k][r.file] \in Seq(Located) /\ <<r.line, r.counts[k]>> \in Located
        BY <1>2, <1>4 DEF Located
      <4>2. SumOf(t2[k][r.file]) = SumOf(t[k][r.file]) + <<r.line, r.counts[k]>>[2]
        <5>1. PICK s, y : s = t[k][r.file] /\ y = <<r.line, r.counts[k]>>
          OBVIOUS
        <5>2. s \in Seq(Located) /\ y \in Located
          BY <4>1, <5>1, Zenon
        <5>3. SumOf(Append(s, y)) = SumOf(s) + y[2]
          BY <5>2, SumOfAppend
        <5>4. t2[k][r.file] = Append(s, y)
          BY <1>7, <3>2, <5>1
        <5> QED BY <5>1, <5>3, <5>4, Zenon
      <4> QED BY <1>2, <4>2
    <3> QED BY <3>1, <3>2
  <2>4. SumFunction(h) = SumFunction(g) + r.counts[k]
    <3> HIDE DEF g, h
    <3> QED BY <1>2, <2>1, <2>2, <2>3, ReportAssumption, SumGrows DEF ReportAssumption
  <2>5. c \in [X \cup {x} -> Nat]
    BY DEF IsItem, Kinds
  <2>6. SumFunction(c) = SumFunction([i \in X |-> c[i]]) + c[x]
    <3> HIDE DEF c
    <3> QED BY <2>5, SumMore
  <2>7. [i \in X |-> c[i]] = [i \in X |-> It(j, i).counts[k]] /\ c[x] = r.counts[k]
    BY <1>1
  <2>8. SumFunction(g) = SumFunction([i \in X |-> It(j, i).counts[k]])
    BY DEF EventsAre
  <2> HIDE DEF g, h, c
  <2>9. SumFunction(h) = SumFunction(c)
    BY <2>4, <2>6, <2>7, <2>8
  <2> QED BY <2>9 DEF h, c
<1>10. ASSUME NEW k \in Kinds, NEW f \in File
       PROVE  LinesIn(t2[k][f]) = {It(j, i).line : i \in {i \in Some_(j, X \cup {x}, k) : It(j, i).file = f}}
  <2>1. LinesIn(t[k][f]) = {It(j, i).line : i \in {i \in Some_(j, X, k) : It(j, i).file = f}}
    BY DEF EventsAre
  <2>2. CASE r.counts[k] # 0 /\ r.file = f
    <3>1. PICK s : s = t[k][f] /\ s \in Seq(Located)
      BY <1>4
    <3>2. PICK y : y = <<r.line, r.counts[k]>> /\ y \in Located
      <4>1. <<r.line, r.counts[k]>> \in Located
        BY <1>2 DEF Located
      <4> QED BY <4>1, Zenon
    <3>3. t2[k][f] = Append(s, y)
      BY <1>7, <2>2, <3>1, <3>2
    <3>4. LinesIn(Append(s, y)) = LinesIn(s) \cup {y[1]}
      <4>1. Len(s) \in Nat /\ DOMAIN s = 1..Len(s)
        BY <3>1
      <4>2. DOMAIN Append(s, y) = DOMAIN s \cup {Len(s) + 1} /\ Append(s, y)[Len(s) + 1] = y
        BY <3>1, <4>1
      <4>3. \A n \in DOMAIN s : Append(s, y)[n] = s[n]
        BY <3>1, <4>1
      <4> QED BY <4>2, <4>3 DEF LinesIn
    <3>5. Some_(j, X \cup {x}, k) = Some_(j, X, k) \cup {x}
      BY <1>1, <2>2 DEF Some_
    <3>6. {i \in Some_(j, X \cup {x}, k) : It(j, i).file = f} = {i \in Some_(j, X, k) : It(j, i).file = f} \cup {x}
      BY <1>1, <2>2, <3>5
    <3>7. y[1] = r.line
      BY <3>2
    <3>8. {It(j, i).line : i \in {i \in Some_(j, X \cup {x}, k) : It(j, i).file = f}}
            = {It(j, i).line : i \in {i \in Some_(j, X, k) : It(j, i).file = f}} \cup {r.line}
      <4>1. PICK Z : Z = {i \in Some_(j, X, k) : It(j, i).file = f}
        OBVIOUS
      <4>2. {It(j, i).line : i \in Z \cup {x}} = {It(j, i).line : i \in Z} \cup {r.line}
        BY <1>1
      <4> QED BY <3>6, <4>1, <4>2, Zenon
    <3> QED BY <2>1, <3>1, <3>3, <3>4, <3>7, <3>8, Zenon
  <2>3. CASE ~(r.counts[k] # 0 /\ r.file = f)
    <3>1. t2[k][f] = t[k][f]
      BY <1>7, <2>3
    <3>2. {i \in Some_(j, X \cup {x}, k) : It(j, i).file = f} = {i \in Some_(j, X, k) : It(j, i).file = f}
      BY <1>1, <2>3 DEF Some_
    <3> QED BY <2>1, <3>1, <3>2
  <2> QED BY <2>2, <2>3
<1>11. AddInput(u, r) = [k \in Kinds |-> {It(j, i).input : i \in Some_(j, X \cup {x}, k)}]
  <2>1. ASSUME NEW k \in Kinds
        PROVE  (IF r.counts[k] = 0 THEN u[k] ELSE u[k] \cup {r.input})
                   = {It(j, i).input : i \in Some_(j, X \cup {x}, k)}
    <3>1. u[k] = {It(j, i).input : i \in Some_(j, X, k)}
      BY DEF EventsAre
    <3>2. CASE r.counts[k] = 0
      <4>1. Some_(j, X \cup {x}, k) = Some_(j, X, k)
        BY <1>1, <3>2 DEF Some_
      <4> QED BY <3>1, <3>2, <4>1
    <3>3. CASE r.counts[k] # 0
      <4>1. Some_(j, X \cup {x}, k) = Some_(j, X, k) \cup {x}
        BY <1>1, <3>3 DEF Some_
      <4> QED BY <1>1, <3>1, <3>3, <4>1
    <3> QED BY <3>2, <3>3
  <2>2. DOMAIN u = Kinds
    BY DEF EventsAre
  <2> QED BY <2>1, <2>2 DEF AddInput
<1>12. EventsAre(j, t2, AddInput(u, r), X \cup {x})
  BY <1>8, <1>9, <1>10, <1>11 DEF EventsAre
<1> QED
  BY <1>1, <1>3, <1>12

\* What holds for 0 and for each number after the one before holds up to N.
LEMMA Upwards ==
    ASSUME NEW N \in Nat, NEW G, 0 \in G, \A n \in 1..N : n - 1 \in G => n \in G
    PROVE  N \in G
<1> DEFINE Bad == {n \in 0..N : n \notin G}
<1>1. Bad = {}
  <2> SUFFICES ASSUME Bad # {} PROVE FALSE
    OBVIOUS
  <2>1. PICK n \in Bad : \A e \in Bad : n <= e
    <3>1. Bad \in SUBSET Nat
      OBVIOUS
    <3> HIDE DEF Bad
    <3> QED BY <3>1, Least
  <2>2. n \in 1..N /\ n - 1 \in 0..N /\ ~(n <= n - 1) /\ n \notin G
    OBVIOUS
  <2>3. n - 1 \notin Bad
    <3> HIDE DEF Bad
    <3> QED BY <2>1, <2>2
  <2> QED BY <2>2, <2>3
<1> QED
  BY <1>1

ItemsOf(j, p) == {<<p, n>> : n \in DOMAIN j[p].items}
UptoItem(p, n) == {<<p, m>> : m \in 1..n}

\* The items of a process up to the n-th.
LEMMA UptoMore ==
    ASSUME NEW p, NEW n \in Nat \ {0}
    PROVE  /\ UptoItem(p, n) = UptoItem(p, n - 1) \cup {<<p, n>>}
           /\ <<p, n>> \notin UptoItem(p, n - 1) /\ IsFiniteSet(UptoItem(p, n - 1))
<1>1. 1..n = (1..(n - 1)) \cup {n} /\ n \notin 1..(n - 1)
  OBVIOUS
<1>2. IsFiniteSet(1..(n - 1))
  <2>1. 1 \in Int /\ n - 1 \in Int
    OBVIOUS
  <2> QED BY <2>1, FS_Interval
<1>3. [m \in 1..(n - 1) |-> <<p, m>>] \in Surjection(1..(n - 1), UptoItem(p, n - 1))
  BY DEF Surjection, UptoItem
<1>4. IsFiniteSet(UptoItem(p, n - 1))
  BY <1>2, <1>3, FS_Surjection
<1>5. UptoItem(p, n) = UptoItem(p, n - 1) \cup {<<p, n>>}
  BY <1>1 DEF UptoItem
<1>6. <<p, n>> \notin UptoItem(p, n - 1)
  BY <1>1 DEF UptoItem
<1> QED
  BY <1>4, <1>5, <1>6

\* A loop of the writer with one item more.
LEMMA WriteLoop ==
    ASSUME NEW t, NEW V, NEW q \in Seq(V), NEW n \in 1..Len(q)
    PROVE  /\ Loop("write", t, SubSeq(q, 1, n)) = Step("write", Loop("write", t, SubSeq(q, 1, n - 1)), q[n])
           /\ q[n] \in V
  BY LoopPrefix, SMTT(60)

\* Loading the trace of a process p adds its items.
LEMMA EventsLoaded ==
    ASSUME NEW j, NEW p, IsJob(j[p]), j[p].runtime = "exceptions",
           NEW t, NEW u, NEW X, IsFiniteSet(X), \A i \in X : IsItem(It(j, i)),
           X \cap ItemsOf(j, p) = {}, EventsAre(j, t, u, X),
           NEW rows, rows = TraceRows(j[p], "events")
    PROVE  EventsAre(j, Loop("events", t, rows), Loop("inputs", u, rows), X \cup ItemsOf(j, p))
<1> DEFINE q == j[p].items
           V == ToSet(q)
           W(n) == Loop("write", <<>>, SubSeq(q, 1, n))
           Good(n) == /\ W(n) \in Seq(V)
                      /\ EventsAre(j, Loop("events", t, W(n)), Loop("inputs", u, W(n)), X \cup UptoItem(p, n))
<1>1. q \in Seq(V) /\ \A i \in V : IsItem(i)
  BY DEF IsJob
<1>2. Len(q) \in Nat /\ DOMAIN q = 1..Len(q)
  BY <1>1
<1>3. ItemsOf(j, p) = UptoItem(p, Len(q))
  BY <1>2 DEF ItemsOf, UptoItem
<1>4. \A n \in 1..Len(q) : It(j, <<p, n>>) = q[n] /\ IsItem(q[n]) /\ <<p, n>> \in ItemsOf(j, p)
  BY <1>1, <1>2 DEF It, ToSet, ItemsOf
<1>5. Good(0)
  <2>1. W(0) = <<>>
    BY LoopStart
  <2>2. Loop("events", t, <<>>) = t /\ Loop("inputs", u, <<>>) = u
    BY LoopOfNone
  <2>3. X \cup UptoItem(p, 0) = X
    BY DEF UptoItem
  <2>4. <<>> \in Seq(V)
    OBVIOUS
  <2> HIDE DEF W, V
  <2> QED BY <2>1, <2>2, <2>3, <2>4
<1>6. ASSUME NEW n \in 1..Len(q), Good(n - 1) PROVE Good(n)
  <2>1. W(n) = Step("write", W(n - 1), q[n]) /\ q[n] \in V
    <3>1. /\ Loop("write", <<>>, SubSeq(q, 1, n)) = Step("write", Loop("write", <<>>, SubSeq(q, 1, n - 1)), q[n])
          /\ q[n] \in V
      <4> HIDE DEF V, q, Good
      <4> QED BY <1>1, WriteLoop
    <3> QED BY <3>1, Zenon
  <2>2. PICK w : w = W(n - 1)
    OBVIOUS
  <2>3. PICK r : r = q[n]
    OBVIOUS
  <2>4. PICK Y : Y = X \cup UptoItem(p, n - 1)
    OBVIOUS
  <2>5. w \in Seq(V) /\ r \in V /\ EventsAre(j, Loop("events", t, w), Loop("inputs", u, w), Y)
    <3> HIDE DEF W, q, V
    <3> QED BY <1>6, <2>1, <2>2, <2>3, <2>4
  <2>6. /\ IsFiniteSet(Y) /\ <<p, n>> \notin Y /\ X \cup UptoItem(p, n) = Y \cup {<<p, n>>}
        /\ \A i \in Y \cup {<<p, n>>} : IsItem(It(j, i))
    <3>0. n \in Nat \ {0}
      BY <1>2
    <3>1. /\ UptoItem(p, n) = UptoItem(p, n - 1) \cup {<<p, n>>}
          /\ <<p, n>> \notin UptoItem(p, n - 1) /\ IsFiniteSet(UptoItem(p, n - 1))
      BY <3>0, UptoMore
    <3>2. \A i \in UptoItem(p, n - 1) : IsItem(It(j, i))
      <4>1. \A m \in 1..(n - 1) : m \in 1..Len(q)
        BY <1>2
      <4> HIDE DEF q
      <4> QED BY <1>4, <4>1 DEF UptoItem
    <3>3. <<p, n>> \notin X /\ IsItem(It(j, <<p, n>>))
      BY <1>4
    <3>4. IsFiniteSet(Y)
      BY <2>4, <3>1, FS_Union
    <3> HIDE DEF q
    <3> QED BY <2>4, <3>1, <3>2, <3>3, <3>4
  <2>7. It(j, <<p, n>>) = r
    BY <1>4, <2>3
  <2>8. PICK t2 : t2 = Loop("events", t, w)
    OBVIOUS
  <2>9. PICK u2 : u2 = Loop("inputs", u, w)
    OBVIOUS
  <2>10. PICK x : x = <<p, n>>
    OBVIOUS
  <2>11. EventsAre(j, AddEvents(t2, r), AddInput(u2, r), Y \cup {x})
    <3>1. EventsAre(j, t2, u2, Y) /\ x \notin Y /\ IsFiniteSet(Y) /\ \A i \in Y \cup {x} : IsItem(It(j, i))
      BY <2>5, <2>6, <2>8, <2>9, <2>10, Zenon
    <3>2. EventsAre(j, AddEvents(t2, It(j, x)), AddInput(u2, It(j, x)), Y \cup {x})
      BY <3>1, EventsOfItem
    <3> QED BY <2>7, <2>10, <3>2, Zenon
  <2>12. CASE IsEmpty(r)
    <3>1. W(n) = w
      BY <2>1, <2>2, <2>3, <2>12 DEF Step
    <3>2. AddEvents(t2, r) = t2 /\ AddInput(u2, r) = u2
      <4>1. DOMAIN t2 = Kinds /\ DOMAIN u2 = Kinds
        BY <2>5, <2>8, <2>9 DEF EventsAre
      <4>2. \A k \in Kinds : r.counts[k] = 0
        BY <2>12 DEF IsEmpty, Kinds
      <4>3. t2 = [k \in Kinds |-> t2[k]] /\ u2 = [k \in Kinds |-> u2[k]]
        BY <2>5, <2>8, <2>9 DEF EventsAre
      <4> QED BY <4>1, <4>2, <4>3 DEF AddEvents, AddInput
    <3> HIDE DEF W, V, q
    <3> QED BY <2>5, <2>6, <2>8, <2>9, <2>10, <2>11, <3>1, <3>2, Zenon
  <2>13. CASE ~IsEmpty(r)
    <3>1. W(n) = Append(w, r)
      BY <2>1, <2>2, <2>3, <2>13 DEF Step
    <3>2. Append(w, r) \in Seq(V)
      <4> HIDE DEF V
      <4> QED BY <2>5
    <3>3. Loop("events", t, Append(w, r)) = AddEvents(t2, r)
      <4>1. Loop("events", t, Append(w, r)) = Step("events", Loop("events", t, w), r)
        <5> HIDE DEF V
        <5> QED BY <2>5, LoopOfMore
      <4> QED BY <2>8, <4>1 DEF Step
    <3>4. Loop("inputs", u, Append(w, r)) = AddInput(u2, r)
      <4>1. Loop("inputs", u, Append(w, r)) = Step("inputs", Loop("inputs", u, w), r)
        <5> HIDE DEF V
        <5> QED BY <2>5, LoopOfMore
      <4> QED BY <2>9, <4>1 DEF Step
    <3> HIDE DEF W, V, q
    <3> QED BY <2>6, <2>10, <2>11, <3>1, <3>2, <3>3, <3>4, Zenon
  <2> QED BY <2>12, <2>13
<1>8. Good(Len(q))
  <2> DEFINE G == {n \in 0..Len(q) : Good(n)}
  <2> HIDE DEF Good
  <2>1. 0 \in G
    BY <1>2, <1>5
  <2>2. \A n \in 1..Len(q) : n - 1 \in G => n \in G
    BY <1>2, <1>6
  <2>3. Len(q) \in G
    <3> HIDE DEF G
    <3> QED BY <1>2, <2>1, <2>2, Upwards
  <2> QED BY <2>3
<1>9. SubSeq(q, 1, Len(q)) = q
  <2> HIDE DEF q, V
  <2> QED BY <1>1, SubSeqFull
<1>10. W(Len(q)) = rows
  BY <1>9 DEF TraceRows
<1> HIDE DEF W, V, q
<1> QED
  BY <1>3, <1>8, <1>10
-----------------------------------------------------------------------------
(* Tables of exponents.                                                    *)

\* The instructions of counts, without those of the exponent 0.
Uses(c) == SumFunction([e \in DOMAIN c \ {0} |-> c[e]])

\* Instructions are counted if and only if there is an exponent but 0.
LEMMA UsesOf ==
    ASSUME NEW c, IsCounts(c)
    PROVE  Uses(c) \in Nat /\ (Uses(c) = 0 <=> DOMAIN c \ {0} = {})
<1> DEFINE f == [e \in DOMAIN c \ {0} |-> c[e]]
<1>1. IsFiniteSet(DOMAIN c \ {0}) /\ f \in [DOMAIN c \ {0} -> Nat] /\ \A e \in DOMAIN c \ {0} : f[e] # 0
  <2>1. IsFiniteSet(DOMAIN c)
    BY DEF IsCounts
  <2>2. DOMAIN c \ {0} \in SUBSET DOMAIN c
    OBVIOUS
  <2>3. IsFiniteSet(DOMAIN c \ {0})
    BY <2>1, <2>2, FS_Subset
  <2> QED BY <2>3 DEF IsCounts
<1> HIDE DEF f
<1>2. SumFunction(f) \in Nat /\ (SumFunction(f) = 0 <=> \A e \in DOMAIN c \ {0} : f[e] = 0)
  BY <1>1, SumTyped, SumZero
<1> QED
  BY <1>1, <1>2 DEF Uses, f

\* A row has the counts of its item.
LEMMA UsesOfRow ==
    ASSUME NEW i, IsItem(i), NEW r, r = [i EXCEPT !.exponents = Unbiased(@)], NEW w \in Width
    PROVE  /\ r.file = i.file /\ SumFunction(r.exponents[w]) = Uses(i.exponents[w])
           /\ DOMAIN r.exponents[w] = {} <=> Uses(i.exponents[w]) = 0
<1>1. r.file = i.file /\ r.exponents = Unbiased(i.exponents)
  BY DEF IsItem
<1>2. PICK c : c = i.exponents[w]
  OBVIOUS
<1>3. IsCounts(c)
  BY <1>2 DEF IsItem
<1>4. PICK B : B = Bias[w] /\ B \in Int
  BY DEF Width, Bias
<1> DEFINE D == DOMAIN c \ {0}
           f == [e \in D |-> c[e]]
<1>5. Unbiased(i.exponents)[w] = [e \in {b - B : b \in D} |-> c[e + B]]
  BY <1>2, <1>4 DEF Unbiased
<1>6. IsFiniteSet(D) /\ f \in [D -> Nat] /\ \A b \in D : b \in Int
  <2>1. IsFiniteSet(DOMAIN c) /\ DOMAIN c \in SUBSET Nat
    BY <1>3 DEF IsCounts
  <2>2. IsFiniteSet(D)
    BY <2>1, FS_Subset
  <2> QED BY <1>3, <2>1, <2>2 DEF IsCounts
<1>7. SumFunction([e \in {b - B : b \in D} |-> f[e + B]]) = SumFunction(f)
  <2> HIDE DEF D, f
  <2> QED BY <1>4, <1>6, SumMoved
<1>8. [e \in {b - B : b \in D} |-> f[e + B]] = [e \in {b - B : b \in D} |-> c[e + B]]
  <2>1. \A e \in {b - B : b \in D} : e + B \in D
    BY <1>4, <1>6
  <2> QED BY <2>1
<1>9. DOMAIN r.exponents[w] = {} <=> D = {}
  BY <1>1, <1>5
<1>10. Uses(c) = SumFunction(f)
  BY DEF Uses
<1>11. SumFunction(r.exponents[w]) = SumFunction(f)
  BY <1>1, <1>5, <1>7, <1>8, Zenon
<1>12. Uses(c) = 0 <=> D = {}
  BY <1>3, UsesOf
<1> QED
  BY <1>1, <1>2, <1>9, <1>10, <1>11, <1>12

\* Tables b of bins and u of counts have the exponents of the items X.
UsageAre(j, b, u, X) ==
    /\ u \in [Width -> [File -> Nat]] /\ DOMAIN b = Width
    /\ \A w \in Width :
           /\ b[w] = [d \in DOMAIN b[w] |-> b[w][d]]
           /\ SumFunction(u[w]) = SumFunction([i \in X |-> Uses(It(j, i).exponents[w])])
           /\ DOMAIN b[w] = {} <=> SumFunction(u[w]) = 0

\* The row of one more item adds its exponents.
LEMMA UsageOfItem ==
    ASSUME NEW j, NEW b, NEW u, NEW X, UsageAre(j, b, u, X), NEW x, x \notin X,
           IsFiniteSet(X), \A i \in X \cup {x} : IsItem(It(j, i)),
           NEW r, r = [It(j, x) EXCEPT !.exponents = Unbiased(@)]
    PROVE  UsageAre(j, AddExponents(b, r), AddUse(u, r), X \cup {x})
<1>1. PICK b2 : b2 = AddExponents(b, r)
  OBVIOUS
<1>2. PICK u2 : u2 = AddUse(u, r)
  OBVIOUS
<1>3. \A w \in Width : IsCounts(It(j, x).exponents[w])
  BY DEF IsItem
<1>4. \A w \in Width : u[w] \in [File -> Nat]
  BY DEF UsageAre
<1>5. r.file \in File
  <2>1. "fp32" \in Width
    BY DEF Width
  <2>2. IsItem(It(j, x))
    OBVIOUS
  <2>3. r.file = It(j, x).file
    BY <2>1, <2>2, UsesOfRow
  <2> QED BY <2>2, <2>3 DEF IsItem
<1>6. ASSUME NEW w \in Width
      PROVE  /\ u2[w] \in [File -> Nat] /\ b2[w] = [d \in DOMAIN b2[w] |-> b2[w][d]]
             /\ SumFunction(u2[w]) = SumFunction([i \in X \cup {x} |-> Uses(It(j, i).exponents[w])])
             /\ DOMAIN b2[w] = {} <=> SumFunction(u2[w]) = 0
  <2>1. PICK n : n = Uses(It(j, x).exponents[w])
    OBVIOUS
  <2>2. n \in Nat
    BY <1>3, <2>1, UsesOf
  <2>3. SumFunction(r.exponents[w]) = n /\ (DOMAIN r.exponents[w] = {} <=> n = 0)
    BY <2>1, UsesOfRow
  <2>4. u2[w] = [u[w] EXCEPT ![r.file] = @ + n]
    BY <1>2, <2>3 DEF AddUse
  <2>5. u2[w] \in [File -> Nat] /\ u2[w][r.file] = u[w][r.file] + n /\ \A f \in File \ {r.file} : u2[w][f] = u[w][f]
    BY <1>4, <1>5, <2>2, <2>4
  <2>6. SumFunction(u2[w]) = SumFunction(u[w]) + n
    <3>1. PICK g, h : g = u[w] /\ h = u2[w]
      OBVIOUS
    <3>2. SumFunction(h) = SumFunction(g) + n
      BY <1>4, <1>5, <2>2, <2>5, <3>1, ReportAssumption, SumGrows DEF ReportAssumption
    <3> QED BY <3>1, <3>2
  <2> DEFINE c == [i \in X \cup {x} |-> Uses(It(j, i).exponents[w])]
  <2>7. c \in [X \cup {x} -> Nat]
    BY UsesOf DEF IsItem
  <2>8. SumFunction(c) = SumFunction([i \in X |-> c[i]]) + c[x]
    <3> HIDE DEF c
    <3> QED BY <2>7, SumMore
  <2>9. [i \in X |-> c[i]] = [i \in X |-> Uses(It(j, i).exponents[w])] /\ c[x] = n
    BY <2>1
  <2>10. /\ SumFunction(u[w]) = SumFunction([i \in X |-> Uses(It(j, i).exponents[w])])
         /\ DOMAIN b[w] = {} <=> SumFunction(u[w]) = 0
    BY DEF UsageAre
  <2>11. SumFunction(u2[w]) = SumFunction(c)
    <3> HIDE DEF c
    <3> QED BY <2>6, <2>8, <2>9, <2>10
  <2>12. SumFunction(u[w]) \in Nat
    BY <1>4, ReportAssumption, SumTyped DEF ReportAssumption
  <2>13. b2[w] = [d \in DOMAIN b2[w] |-> b2[w][d]] /\ DOMAIN b2[w] = DOMAIN b[w] \cup {Decimal(e) : e \in DOMAIN r.exponents[w]}
    BY <1>1 DEF AddExponents
  <2>14. DOMAIN b2[w] = {} <=> SumFunction(u[w]) = 0 /\ n = 0
    BY <2>3, <2>10, <2>13
  <2>15. DOMAIN b2[w] = {} <=> SumFunction(u2[w]) = 0
    BY <2>2, <2>6, <2>12, <2>14
  <2> QED BY <2>5, <2>11, <2>13, <2>15
<1>7. u2 \in [Width -> [File -> Nat]] /\ DOMAIN b2 = Width
  <2>1. u2 = [w \in Width |-> u2[w]] /\ DOMAIN b2 = Width
    BY <1>1, <1>2 DEF AddUse, AddExponents
  <2> QED BY <1>6, <2>1
<1>8. UsageAre(j, b2, u2, X \cup {x})
  BY <1>6, <1>7 DEF UsageAre
<1> QED
  BY <1>1, <1>2, <1>8

\* Loading the trace of a process p adds the exponents of its items.
LEMMA UsageLoaded ==
    ASSUME NEW j, NEW p, IsJob(j[p]), j[p].runtime = "exceptions",
           NEW b, NEW u, NEW X, IsFiniteSet(X), \A i \in X : IsItem(It(j, i)),
           X \cap ItemsOf(j, p) = {}, UsageAre(j, b, u, X),
           NEW rows, rows = TraceRows(j[p], "usage")
    PROVE  UsageAre(j, Loop("bins", b, rows), Loop("usedBy", u, rows), X \cup ItemsOf(j, p))
<1>1. PICK q : q = j[p].items
  OBVIOUS
<1>2. PICK N : N = Len(q)
  OBVIOUS
<1>3. q \in Seq(ToSet(q)) /\ \A i \in ToSet(q) : IsItem(i)
  BY <1>1 DEF IsJob
<1>4. N \in Nat /\ DOMAIN q = 1..N
  BY <1>2, <1>3
<1>5. ItemsOf(j, p) = UptoItem(p, N)
  BY <1>1, <1>4 DEF ItemsOf, UptoItem
<1>6. \A n \in 1..N : It(j, <<p, n>>) = q[n] /\ IsItem(q[n]) /\ <<p, n>> \in ItemsOf(j, p)
  BY <1>1, <1>3, <1>4 DEF It, ToSet, ItemsOf
<1>7. rows = [n \in 1..N |-> [q[n] EXCEPT !.exponents = Unbiased(@)]]
  BY <1>1, <1>4 DEF TraceRows
<1>8. PICK V : V = {rows[n] : n \in 1..N}
  OBVIOUS
<1>9. rows \in Seq(V) /\ Len(rows) = N
  <2>1. rows \in [1..N -> V]
    BY <1>7, <1>8
  <2> QED BY <1>4, <2>1
<1> DEFINE B(n) == Loop("bins", b, SubSeq(rows, 1, n))
           U(n) == Loop("usedBy", u, SubSeq(rows, 1, n))
           G == {n \in 0..N : UsageAre(j, B(n), U(n), X \cup UptoItem(p, n))}
<1>10. 0 \in G
  <2>1. B(0) = b /\ U(0) = u
    BY LoopStart
  <2>2. X \cup UptoItem(p, 0) = X
    BY DEF UptoItem
  <2>3. UsageAre(j, B(0), U(0), X \cup UptoItem(p, 0))
    <3> HIDE DEF B, U, G
    <3> QED BY <2>1, <2>2, Zenon
  <2> HIDE DEF B, U
  <2> QED BY <1>4, <2>3
<1>11. ASSUME NEW n \in 1..N, n - 1 \in G PROVE n \in G
  <2>1. PICK b2, u2, r, x, Y : /\ b2 = B(n - 1) /\ u2 = U(n - 1) /\ r = rows[n]
                               /\ x = <<p, n>> /\ Y = X \cup UptoItem(p, n - 1)
    OBVIOUS
  <2>2. UsageAre(j, b2, u2, Y)
    BY <1>11, <2>1
  <2>3. B(n) = AddExponents(b2, r) /\ U(n) = AddUse(u2, r)
    <3>1. n \in 1..Len(rows)
      BY <1>9
    <3>2. /\ Loop("bins", b, SubSeq(rows, 1, n)) = Step("bins", Loop("bins", b, SubSeq(rows, 1, n - 1)), rows[n])
          /\ Loop("usedBy", u, SubSeq(rows, 1, n)) = Step("usedBy", Loop("usedBy", u, SubSeq(rows, 1, n - 1)), rows[n])
      <4> HIDE DEF B, U, G
      <4> QED BY <1>9, <3>1, LoopPrefix, SMTT(60)
    <3>3. B(n) = Step("bins", b2, r) /\ U(n) = Step("usedBy", u2, r)
      BY <2>1, <3>2, Zenon
    <3> HIDE DEF B, U, G
    <3> QED BY <3>3 DEF Step
  <2>4. /\ IsFiniteSet(Y) /\ x \notin Y /\ X \cup UptoItem(p, n) = Y \cup {x}
        /\ \A i \in Y \cup {x} : IsItem(It(j, i))
    <3>0. n \in Nat \ {0}
      BY <1>4
    <3>1. /\ UptoItem(p, n) = UptoItem(p, n - 1) \cup {<<p, n>>}
          /\ <<p, n>> \notin UptoItem(p, n - 1) /\ IsFiniteSet(UptoItem(p, n - 1))
      BY <3>0, UptoMore
    <3>2. \A i \in UptoItem(p, n - 1) : IsItem(It(j, i))
      <4>1. \A m \in 1..(n - 1) : m \in 1..N
        BY <1>4
      <4> QED BY <1>6, <4>1 DEF UptoItem
    <3>3. <<p, n>> \notin X /\ IsItem(It(j, <<p, n>>))
      BY <1>6
    <3>4. IsFiniteSet(Y)
      BY <2>1, <3>1, FS_Union
    <3> HIDE DEF G, B, U
    <3> QED BY <2>1, <3>1, <3>2, <3>3, <3>4
  <2>5. r = [It(j, x) EXCEPT !.exponents = Unbiased(@)]
    BY <1>6, <1>7, <2>1
  <2>6. UsageAre(j, AddExponents(b2, r), AddUse(u2, r), Y \cup {x})
    <3> HIDE DEF G, B, U
    <3> QED BY <2>2, <2>4, <2>5, UsageOfItem
  <2>7. UsageAre(j, B(n), U(n), X \cup UptoItem(p, n))
    <3> HIDE DEF G, B, U
    <3> QED BY <2>3, <2>4, <2>6, Zenon
  <2> HIDE DEF B, U
  <2> QED BY <1>4, <2>7
<1>12. N \in G
  <2> HIDE DEF G
  <2> QED BY <1>4, <1>10, <1>11, Upwards
<1>13. SubSeq(rows, 1, N) = rows
  <2> HIDE DEF G
  <2> QED BY <1>9, SubSeqFull
<1> QED
  BY <1>5, <1>12, <1>13
-----------------------------------------------------------------------------
(* Tables of rounding errors.                                              *)

ErrorRow == [file : File, line : Int, error : Int, relative : Int]
RowsAt(R, f, l) == {r \in R : r.file = f /\ r.line = l}

\* An entry v of the rows Q of a line.
EntryOf(v, Q) ==
    /\ v[1] \in Int /\ v[2] \in Int /\ v[2] # Nan
    /\ v[1] \in {r.error : r \in Q} \cup {0}
    /\ v[2] \in ({r.relative : r \in Q} \ {Nan}) \cup {0}
    /\ \A r \in Q : r.relative # Nan => r.relative <= v[2]

\* A table t has the errors of the rows R.
ErrorsAre(t, R) ==
    /\ t = [f \in File |-> t[f]]
    /\ \A f \in File :
           /\ DOMAIN t[f] = {r.line : r \in {r \in R : r.file = f}}
           /\ \A l \in DOMAIN t[f] : EntryOf(t[f][l], RowsAt(R, f, l))

\* Merging one more row into the entry of its line.
LEMMA MergeEntry ==
    ASSUME NEW v, NEW Q \in SUBSET ErrorRow, EntryOf(v, Q), NEW r \in ErrorRow
    PROVE  EntryOf(MergeError(v, r), Q \cup {r})
<1>1. r.error \in Int /\ r.relative \in Int /\ v[1] \in Int /\ v[2] \in Int /\ v[2] # Nan
  BY DEF EntryOf, ErrorRow
<1>2. PICK a, b : /\ a = IF r.error # Nan /\ Abs(r.error) > v[1] THEN r.error ELSE v[1]
                  /\ b = IF Exceeds(r.relative, v[2]) THEN r.relative ELSE v[2]
  OBVIOUS
<1>3. MergeError(v, r)[1] = a /\ MergeError(v, r)[2] = b
  BY <1>2 DEF MergeError
<1>4. a \in Int /\ a \in {o.error : o \in Q \cup {r}} \cup {0}
  BY <1>1, <1>2 DEF EntryOf
<1>5. Nan = -99
  BY DEF Nan
<1>6. b \in Int /\ b # Nan
  BY <1>1, <1>2 DEF Exceeds
<1>7. b \in ({o.relative : o \in Q \cup {r}} \ {Nan}) \cup {0}
  BY <1>1, <1>2, <1>6 DEF EntryOf
<1>8. v[2] <= b /\ (r.relative # Nan => r.relative <= b)
  BY <1>1, <1>2, <1>5 DEF Exceeds
<1>9. \A o \in Q \cup {r} : o.relative # Nan => o.relative <= b
  <2> SUFFICES ASSUME NEW o \in Q, o.relative # Nan PROVE o.relative <= b
    BY <1>8
  <2>1. o.relative <= v[2] /\ o.relative \in Int
    BY DEF EntryOf, ErrorRow
  <2> QED BY <1>1, <1>6, <1>8, <2>1
<1> HIDE DEF Nan, MergeError
<1> QED
  BY <1>3, <1>4, <1>6, <1>7, <1>9 DEF EntryOf

\* One more row changes the entry of its line only.
LEMMA ErrorsOfRow ==
    ASSUME NEW t, NEW R \in SUBSET ErrorRow, ErrorsAre(t, R), NEW r \in ErrorRow
    PROVE  ErrorsAre(AddError(t, r), R \cup {r})
<1>1. PICK t2 : t2 = AddError(t, r)
  OBVIOUS
<1>2. PICK f0, l0 : f0 = r.file /\ l0 = r.line
  OBVIOUS
<1>3. f0 \in File
  BY <1>2 DEF ErrorRow
<1>4. DOMAIN t = File
  BY DEF ErrorsAre
<1>5. PICK v : v = MergeError(Lookup(t[f0], l0, <<0, 0>>), r)
  OBVIOUS
<1>6. t2 = [t EXCEPT ![f0] = Put(t[f0], l0, v)]
  BY <1>1, <1>2, <1>5 DEF AddError
<1>7. /\ t2 = [f \in File |-> t2[f]] /\ t2[f0] = Put(t[f0], l0, v)
      /\ \A f \in File \ {f0} : t2[f] = t[f]
  BY <1>3, <1>4, <1>6
<1>8. \A f \in File \ {f0} : \A l : RowsAt(R \cup {r}, f, l) = RowsAt(R, f, l)
  BY <1>2 DEF RowsAt
<1>9. \A l : l # l0 => RowsAt(R \cup {r}, f0, l) = RowsAt(R, f0, l)
  BY <1>2 DEF RowsAt
<1>10. EntryOf(v, RowsAt(R \cup {r}, f0, l0))
  <2>1. PICK o, Q : o = Lookup(t[f0], l0, <<0, 0>>) /\ Q = RowsAt(R, f0, l0)
    OBVIOUS
  <2>2. Q \in SUBSET ErrorRow /\ RowsAt(R \cup {r}, f0, l0) = Q \cup {r}
    BY <1>2, <2>1 DEF RowsAt
  <2>3. EntryOf(o, Q)
    <3>1. CASE l0 \in DOMAIN t[f0]
      BY <1>3, <2>1, <3>1 DEF ErrorsAre, Lookup
    <3>2. CASE l0 \notin DOMAIN t[f0]
      <4>1. o = <<0, 0>>
        BY <2>1, <3>2 DEF Lookup
      <4>2. DOMAIN t[f0] = {y.line : y \in {y \in R : y.file = f0}}
        BY <1>3 DEF ErrorsAre
      <4>3. Q = {}
        BY <2>1, <3>2, <4>2 DEF RowsAt
      <4>4. o[1] = 0 /\ o[2] = 0
        BY <4>1
      <4> QED BY <4>3, <4>4 DEF EntryOf, Nan
    <3> QED BY <3>1, <3>2
  <2>4. EntryOf(MergeError(o, r), Q \cup {r})
    BY <2>2, <2>3, MergeEntry
  <2> QED BY <1>5, <2>1, <2>2, <2>4
<1>11. ASSUME NEW f \in File
       PROVE  DOMAIN t2[f] = {y.line : y \in {y \in R \cup {r} : y.file = f}}
  <2>1. DOMAIN t[f] = {y.line : y \in {y \in R : y.file = f}}
    BY DEF ErrorsAre
  <2>2. CASE f = f0
    <3>1. DOMAIN t2[f] = DOMAIN t[f] \cup {l0}
      BY <1>7, <2>2 DEF Put
    <3>2. {y \in R \cup {r} : y.file = f} = {y \in R : y.file = f} \cup {r}
      BY <1>2, <2>2
    <3>3. {y.line : y \in {y \in R : y.file = f} \cup {r}} = {y.line : y \in {y \in R : y.file = f}} \cup {l0}
      BY <1>2
    <3> QED BY <2>1, <3>1, <3>2, <3>3, Zenon
  <2>3. CASE f # f0
    <3>1. {y \in R \cup {r} : y.file = f} = {y \in R : y.file = f}
      BY <1>2, <2>3
    <3>2. t2[f] = t[f]
      BY <1>7, <2>3
    <3> QED BY <2>1, <3>1, <3>2, Zenon
  <2> QED BY <2>2, <2>3
<1>12. ASSUME NEW f \in File, NEW l \in DOMAIN t2[f]
       PROVE  EntryOf(t2[f][l], RowsAt(R \cup {r}, f, l))
  <2>1. CASE f # f0
    <3>1. t2[f] = t[f] /\ RowsAt(R \cup {r}, f, l) = RowsAt(R, f, l)
      BY <1>7, <1>8, <2>1
    <3>2. EntryOf(t[f][l], RowsAt(R, f, l))
      BY <1>12, <3>1 DEF ErrorsAre
    <3> QED BY <3>1, <3>2
  <2>2. CASE f = f0 /\ l = l0
    <3>1. t2[f][l] = v
      BY <1>7, <2>2 DEF Put
    <3> QED BY <1>10, <2>2, <3>1
  <2>3. CASE f = f0 /\ l # l0
    <3>1. l \in DOMAIN t[f] /\ t2[f][l] = t[f][l]
      BY <1>7, <1>12, <2>3 DEF Put
    <3>2. RowsAt(R \cup {r}, f, l) = RowsAt(R, f, l)
      BY <1>9, <2>3
    <3>3. EntryOf(t[f][l], RowsAt(R, f, l))
      BY <3>1 DEF ErrorsAre
    <3> QED BY <3>1, <3>2, <3>3
  <2> QED BY <2>1, <2>2, <2>3
<1>13. ErrorsAre(t2, R \cup {r})
  BY <1>7, <1>11, <1>12 DEF ErrorsAre
<1> QED
  BY <1>1, <1>13

\* A loop over rows with one row more.
LEMMA ErrorsLoop ==
    ASSUME NEW t, NEW rows \in Seq(ErrorRow), NEW n \in 1..Len(rows)
    PROVE  /\ Loop("errors", t, SubSeq(rows, 1, n)) = Step("errors", Loop("errors", t, SubSeq(rows, 1, n - 1)), rows[n])
           /\ rows[n] \in ErrorRow
  BY LoopPrefix, SMTT(60)

\* Loading a trace adds its rows.
LEMMA ErrorsLoaded ==
    ASSUME NEW t, NEW R \in SUBSET ErrorRow, ErrorsAre(t, R), NEW rows \in Seq(ErrorRow)
    PROVE  ErrorsAre(Loop("errors", t, rows), R \cup ToSet(rows))
<1>1. PICK N : N = Len(rows) /\ N \in Nat
  OBVIOUS
<1> DEFINE E(n) == Loop("errors", t, SubSeq(rows, 1, n))
           First_(n) == {rows[m] : m \in 1..n}
           G == {n \in 0..N : ErrorsAre(E(n), R \cup First_(n))}
<1>2. 0 \in G
  <2>1. E(0) = t
    BY LoopStart
  <2>2. R \cup First_(0) = R
    OBVIOUS
  <2>3. ErrorsAre(E(0), R \cup First_(0))
    <3> HIDE DEF E, First_, G
    <3> QED BY <2>1, <2>2, Zenon
  <2> HIDE DEF E, First_
  <2> QED BY <1>1, <2>3
<1>3. ASSUME NEW n \in 1..N, n - 1 \in G PROVE n \in G
  <2>1. PICK t2, r, Y : t2 = E(n - 1) /\ r = rows[n] /\ Y = R \cup First_(n - 1)
    OBVIOUS
  <2>2. ErrorsAre(t2, Y)
    <3>1. ErrorsAre(E(n - 1), R \cup First_(n - 1))
      BY <1>3
    <3> HIDE DEF E, First_, G
    <3> QED BY <2>1, <3>1, Zenon
  <2>3. E(n) = AddError(t2, r)
    <3>1. n \in 1..Len(rows)
      BY <1>1
    <3>2. /\ Loop("errors", t, SubSeq(rows, 1, n)) = Step("errors", Loop("errors", t, SubSeq(rows, 1, n - 1)), rows[n])
          /\ rows[n] \in ErrorRow
      <4> HIDE DEF E, G
      <4> QED BY <3>1, ErrorsLoop
    <3>3. E(n) = Step("errors", t2, r)
      BY <2>1, <3>2, Zenon
    <3> HIDE DEF E, G
    <3> QED BY <3>3 DEF Step
  <2>4. \A m \in 1..N : rows[m] \in ErrorRow
    BY <1>1
  <2>5. 1..n = (1..(n - 1)) \cup {n} /\ n \in 1..N /\ \A m \in 1..(n - 1) : m \in 1..N
    BY <1>1
  <2>6. Y \in SUBSET ErrorRow /\ r \in ErrorRow
    BY <2>1, <2>4, <2>5
  <2>7. R \cup First_(n) = Y \cup {r}
    BY <2>1, <2>5
  <2>8. ErrorsAre(AddError(t2, r), Y \cup {r})
    <3> HIDE DEF E, First_, G
    <3> QED BY <2>2, <2>6, ErrorsOfRow
  <2>9. ErrorsAre(E(n), R \cup First_(n))
    <3> HIDE DEF E, First_, G
    <3> QED BY <2>3, <2>7, <2>8, Zenon
  <2> HIDE DEF E, First_
  <2> QED BY <1>1, <2>9
<1>4. N \in G
  <2> HIDE DEF G
  <2> QED BY <1>1, <1>2, <1>3, Upwards
<1>5. SubSeq(rows, 1, N) = rows
  <2> HIDE DEF G
  <2> QED BY <1>1, SubSeqFull
<1>6. First_(N) = ToSet(rows)
  BY <1>1 DEF ToSet
<1>7. ErrorsAre(E(N), R \cup First_(N))
  BY <1>4
<1> HIDE DEF First_
<1> QED
  BY <1>5, <1>6, <1>7
-----------------------------------------------------------------------------
(* Series of lines.                                                        *)

\* A part of a sequence is a part of it with more behind it, which is a part too.
LEMMA PartsKept ==
    ASSUME NEW s \in Seq(Int), NEW o \in Seq(Int), NEW v \in SubSeqs(s)
    PROVE  v \in SubSeqs(s \o o)
<1>1. PICK m, n \in 0..Len(s) : v = SubSeq(s, m + 1, n)
  BY DEF SubSeqs
<1>2. Len(s) \in Nat /\ Len(s \o o) \in Nat /\ Len(s) <= Len(s \o o)
  OBVIOUS
<1>3. m \in 0..Len(s \o o) /\ n \in 0..Len(s \o o)
  BY <1>2
<1>4. SubSeq(s \o o, m + 1, n) = v
  <2>1. CASE m < n
    <3>1. m + 1 \in 1..Len(s) /\ n \in 1..Len(s)
      BY <1>2, <2>1
    <3> QED BY <1>1, <3>1, SubSeqOfConcat1
  <2>2. CASE ~(m < n)
    <3>1. m + 1 \in Int /\ n \in Int /\ n < m + 1
      BY <2>2
    <3>2. SubSeq(s, m + 1, n) = <<>> /\ SubSeq(s \o o, m + 1, n) = <<>>
      BY <3>1, SubSeqEmpty
    <3> QED BY <1>1, <3>2
  <2> QED BY <2>1, <2>2
<1>5. PICK w : w = s \o o
  OBVIOUS
<1>6. m \in 0..Len(w) /\ n \in 0..Len(w) /\ v = SubSeq(w, m + 1, n)
  BY <1>3, <1>4, <1>5
<1>7. v \in SubSeqs(w)
  <2>1. \E a, b \in 0..Len(w) : v = SubSeq(w, a + 1, b)
    BY <1>6, Zenon
  <2> QED BY <2>1 DEF SubSeqs
<1> QED
  BY <1>5, <1>7

\* What is added at the end is a part.
LEMMA PartLast ==
    ASSUME NEW s \in Seq(Int), NEW v \in Seq(Int), v # <<>>
    PROVE  v \in SubSeqs(s \o v)
<1>1. Len(s) \in Nat /\ Len(v) \in Nat /\ Len(s \o v) = Len(s) + Len(v)
  OBVIOUS
<1>2. Len(v) > 0
  BY <1>1, EmptySeq
<1>3. Len(s) + 1 \in Len(s)+1 .. Len(s)+Len(v) /\ Len(s) + Len(v) \in Len(s)+1 .. Len(s)+Len(v)
  BY <1>1, <1>2
<1>4. SubSeq(s \o v, Len(s) + 1, Len(s) + Len(v)) = SubSeq(v, (Len(s) + 1) - Len(s), (Len(s) + Len(v)) - Len(s))
  BY <1>3, SubSeqOfConcat2
<1>5. (Len(s) + 1) - Len(s) = 1 /\ (Len(s) + Len(v)) - Len(s) = Len(v)
  BY <1>1
<1>6. SubSeq(v, 1, Len(v)) = v
  BY SubSeqFull
<1>7. SubSeq(s \o v, Len(s) + 1, Len(s \o v)) = v
  BY <1>1, <1>4, <1>5, <1>6, Zenon
<1>8. Len(s) \in 0..Len(s \o v) /\ Len(s \o v) \in 0..Len(s \o v)
  BY <1>1
<1>10. PICK w, m, n : w = s \o v /\ m = Len(s) /\ n = Len(s \o v)
  OBVIOUS
<1>11. v = SubSeq(w, m + 1, n) /\ m \in 0..Len(w) /\ n \in 0..Len(w)
  BY <1>7, <1>8, <1>10
<1>12. v \in SubSeqs(w)
  <2>1. \E a, b \in 0..Len(w) : v = SubSeq(w, a + 1, b)
    BY <1>11, Zenon
  <2> QED BY <2>1 DEF SubSeqs
<1> QED
  BY <1>10, <1>12

SeriesRow == [line : Int, values : Seq(Int)]
SeriesAt(j, i) == j[i[1]].series[i[2]]
SeriesIndex(j, p) == {<<p, n>> : n \in DOMAIN j[p].series}
OfLine(j, X, l) == {i \in X : SeriesAt(j, i).line = l /\ SeriesAt(j, i).values # <<>>}

\* A table t has the values of the rows X, line by line.
LineIs(j, s, X, l) ==
    /\ s \in Seq(Int)
    /\ Len(s) = SumFunction([i \in OfLine(j, X, l) |-> Len(SeriesAt(j, i).values)])
    /\ \A i \in OfLine(j, X, l) : SeriesAt(j, i).values \in SubSeqs(s)
SeriesAre(j, t, X) == \A l : LineIs(j, Lookup(t, l, <<>>), X, l)

\* One more row adds its values to those of its line only.
LEMMA SeriesOfRow ==
    ASSUME NEW j, NEW t, NEW X, SeriesAre(j, t, X), NEW x, x \notin X,
           IsFiniteSet(X), \A i \in X \cup {x} : SeriesAt(j, i) \in SeriesRow
    PROVE  SeriesAre(j, AddSeries(t, SeriesAt(j, x)), X \cup {x})
<1>1. PICK r : r = SeriesAt(j, x)
  OBVIOUS
<1>2. r \in SeriesRow /\ r.values \in Seq(Int)
  BY <1>1 DEF SeriesRow
<1>3. PICK t2 : t2 = AddSeries(t, r)
  OBVIOUS
<1>4. ASSUME NEW l PROVE LineIs(j, Lookup(t2, l, <<>>), X \cup {x}, l)
  <2>1. PICK s : s = Lookup(t, l, <<>>)
    OBVIOUS
  <2>2. LineIs(j, s, X, l)
    BY <2>1 DEF SeriesAre
  <2>3. Lookup(t2, l, <<>>) = IF l = r.line THEN s \o r.values ELSE s
    BY <1>3, <2>1 DEF AddSeries, Put, Lookup
  <2>4. CASE l # r.line
    <3>1. OfLine(j, X \cup {x}, l) = OfLine(j, X, l)
      BY <1>1, <2>4 DEF OfLine
    <3> QED BY <2>2, <2>3, <2>4, <3>1 DEF LineIs
  <2>5. CASE r.values = <<>>
    <3>1. OfLine(j, X \cup {x}, l) = OfLine(j, X, l)
      BY <1>1, <2>5 DEF OfLine
    <3>2. s \o <<>> = s
      BY <2>2 DEF LineIs
    <3> QED BY <2>2, <2>3, <2>5, <3>1, <3>2 DEF LineIs
  <2>6. CASE l = r.line /\ r.values # <<>>
    <3>1. PICK D, o : D = OfLine(j, X, l) /\ o = s \o r.values
      OBVIOUS
    <3>2. OfLine(j, X \cup {x}, l) = D \cup {x} /\ x \notin D
      BY <1>1, <2>6, <3>1 DEF OfLine
    <3>3. IsFiniteSet(D)
      <4>1. D \in SUBSET X
        BY <3>1 DEF OfLine
      <4> QED BY <4>1, FS_Subset
    <3>4. s \in Seq(Int) /\ o \in Seq(Int) /\ Len(o) = Len(s) + Len(r.values)
      <4>1. s \in Seq(Int)
        BY <2>2 DEF LineIs
      <4> QED BY <1>2, <3>1, <4>1, ConcatProperties
    <3> DEFINE f == [i \in D \cup {x} |-> Len(SeriesAt(j, i).values)]
    <3>5. f \in [D \cup {x} -> Nat]
      <4>1. \A i \in D \cup {x} : SeriesAt(j, i) \in SeriesRow
        BY <3>1 DEF OfLine
      <4>2. \A i \in D \cup {x} : Len(SeriesAt(j, i).values) \in Nat
        BY <4>1 DEF SeriesRow
      <4> QED BY <4>2
    <3>6. SumFunction(f) = SumFunction([i \in D |-> f[i]]) + f[x]
      <4> HIDE DEF f
      <4> QED BY <3>2, <3>3, <3>5, SumMore
    <3>7. [i \in D |-> f[i]] = [i \in D |-> Len(SeriesAt(j, i).values)] /\ f[x] = Len(r.values)
      BY <1>1
    <3>8. Len(s) = SumFunction([i \in D |-> Len(SeriesAt(j, i).values)])
      BY <2>2, <3>1 DEF LineIs
    <3>9. Len(o) = SumFunction(f)
      <4> HIDE DEF f
      <4> QED BY <3>4, <3>6, <3>7, <3>8
    <3>10. ASSUME NEW i \in D \cup {x} PROVE SeriesAt(j, i).values \in SubSeqs(o)
      <4>1. CASE i = x
        BY <1>1, <1>2, <2>6, <3>1, <3>4, <4>1, PartLast
      <4>2. CASE i \in D
        <5>1. SeriesAt(j, i).values \in SubSeqs(s)
          BY <2>2, <3>1, <4>2 DEF LineIs
        <5> QED BY <1>2, <3>1, <3>4, <5>1, PartsKept
      <4> QED BY <4>1, <4>2
    <3>11. Lookup(t2, l, <<>>) = o
      BY <2>3, <2>6, <3>1
    <3>12. Len(o) = SumFunction([i \in OfLine(j, X \cup {x}, l) |-> Len(SeriesAt(j, i).values)])
      BY <3>2, <3>9, Zenon
    <3> HIDE DEF f
    <3> QED BY <3>2, <3>4, <3>10, <3>11, <3>12 DEF LineIs
  <2> QED BY <2>4, <2>5, <2>6
<1>5. SeriesAre(j, t2, X \cup {x})
  BY <1>4 DEF SeriesAre
<1> QED
  BY <1>1, <1>3, <1>5

\* A loop over series with one row more.
LEMMA SeriesLoop ==
    ASSUME NEW t, NEW rows \in Seq(SeriesRow), NEW n \in 1..Len(rows)
    PROVE  /\ Loop("series", t, SubSeq(rows, 1, n)) = Step("series", Loop("series", t, SubSeq(rows, 1, n - 1)), rows[n])
           /\ rows[n] \in SeriesRow
  BY LoopPrefix, SMTT(60)

\* Loading the trace of a process p adds its series.
LEMMA SeriesLoaded ==
    ASSUME NEW j, NEW p, j[p].series \in Seq(SeriesRow),
           NEW t, NEW X, IsFiniteSet(X), \A i \in X : SeriesAt(j, i) \in SeriesRow,
           X \cap SeriesIndex(j, p) = {}, SeriesAre(j, t, X)
    PROVE  SeriesAre(j, Loop("series", t, j[p].series), X \cup SeriesIndex(j, p))
<1>1. PICK rows, N : rows = j[p].series /\ N = Len(rows)
  OBVIOUS
<1>2. rows \in Seq(SeriesRow) /\ N \in Nat /\ DOMAIN rows = 1..N
  BY <1>1
<1>3. SeriesIndex(j, p) = UptoItem(p, N)
  BY <1>1, <1>2 DEF SeriesIndex, UptoItem
<1>4. \A n \in 1..N : SeriesAt(j, <<p, n>>) = rows[n] /\ rows[n] \in SeriesRow /\ <<p, n>> \in SeriesIndex(j, p)
  BY <1>1, <1>2 DEF SeriesAt, SeriesIndex
<1>9. \A n \in 1..Len(rows) :
         /\ Loop("series", t, SubSeq(rows, 1, n)) = Step("series", Loop("series", t, SubSeq(rows, 1, n - 1)), rows[n])
         /\ rows[n] \in SeriesRow
  BY <1>2, SeriesLoop
<1> DEFINE E(n) == Loop("series", t, SubSeq(rows, 1, n))
           G == {n \in 0..N : SeriesAre(j, E(n), X \cup UptoItem(p, n))}
<1>5. 0 \in G
  <2>1. E(0) = t
    BY LoopStart
  <2>2. X \cup UptoItem(p, 0) = X
    BY DEF UptoItem
  <2>3. SeriesAre(j, E(0), X \cup UptoItem(p, 0))
    <3> HIDE DEF E, G
    <3> QED BY <2>1, <2>2, Zenon
  <2> HIDE DEF E
  <2> QED BY <1>2, <2>3
<1>6. ASSUME NEW n \in 1..N, n - 1 \in G PROVE n \in G
  <2>1. PICK t2, r, x, Y : /\ t2 = E(n - 1) /\ r = rows[n] /\ x = <<p, n>>
                           /\ Y = X \cup UptoItem(p, n - 1)
    OBVIOUS
  <2>2. SeriesAre(j, t2, Y)
    <3>1. SeriesAre(j, E(n - 1), X \cup UptoItem(p, n - 1))
      BY <1>6
    <3> HIDE DEF E, G
    <3> QED BY <2>1, <3>1, Zenon
  <2>3. E(n) = AddSeries(t2, r)
    <3>1. n \in 1..Len(rows)
      BY <1>1
    <3>2. /\ Loop("series", t, SubSeq(rows, 1, n)) = Step("series", Loop("series", t, SubSeq(rows, 1, n - 1)), rows[n])
          /\ rows[n] \in SeriesRow
      BY <1>9, <3>1
    <3>3. E(n) = Step("series", t2, r)
      BY <2>1, <3>2, Zenon
    <3> HIDE DEF E, G
    <3> QED BY <3>3 DEF Step
  <2>4. /\ IsFiniteSet(Y) /\ x \notin Y /\ X \cup UptoItem(p, n) = Y \cup {x}
        /\ \A i \in Y \cup {x} : SeriesAt(j, i) \in SeriesRow
    <3>0. n \in Nat \ {0}
      BY <1>2
    <3>1. /\ UptoItem(p, n) = UptoItem(p, n - 1) \cup {<<p, n>>}
          /\ <<p, n>> \notin UptoItem(p, n - 1) /\ IsFiniteSet(UptoItem(p, n - 1))
      BY <3>0, UptoMore
    <3>2. \A i \in UptoItem(p, n - 1) : SeriesAt(j, i) \in SeriesRow
      <4>1. \A m \in 1..(n - 1) : m \in 1..N
        BY <1>2
      <4> QED BY <1>4, <4>1 DEF UptoItem
    <3>3. <<p, n>> \notin X /\ SeriesAt(j, <<p, n>>) \in SeriesRow
      BY <1>4
    <3>4. IsFiniteSet(Y)
      BY <2>1, <3>1, FS_Union
    <3> HIDE DEF G, E
    <3> QED BY <2>1, <3>1, <3>2, <3>3, <3>4
  <2>5. r = SeriesAt(j, x)
    BY <1>4, <2>1
  <2>6. SeriesAre(j, AddSeries(t2, r), Y \cup {x})
    <3> HIDE DEF G, E
    <3> QED BY <2>2, <2>4, <2>5, SeriesOfRow
  <2>7. SeriesAre(j, E(n), X \cup UptoItem(p, n))
    <3> HIDE DEF G, E
    <3> QED BY <2>3, <2>4, <2>6, Zenon
  <2> HIDE DEF E
  <2> QED BY <1>2, <2>7
<1>7. N \in G
  <2> HIDE DEF G
  <2> QED BY <1>2, <1>5, <1>6, Upwards
<1>8. SubSeq(rows, 1, N) = rows
  <2> HIDE DEF G
  <2> QED BY <1>1, <1>2, SubSeqFull
<1> QED
  BY <1>1, <1>3, <1>7, <1>8
-----------------------------------------------------------------------------
(* The files of a process.                                                 *)

Groups == ToSet(Group)

\* The groups of traces, in the order they are loaded.
LEMMA GroupsAre == /\ Groups = {"events", "usage", "errors", "series"} /\ DOMAIN Group = 1..4
                   /\ Group[1] = "events" /\ Group[2] = "usage" /\ Group[3] = "errors" /\ Group[4] = "series"
<1>1. DOMAIN Group = 1..4
  BY DEF Group
<1>2. Group[1] = "events" /\ Group[2] = "usage" /\ Group[3] = "errors" /\ Group[4] = "series"
  BY DEF Group
<1>3. 1..4 = {1, 2, 3, 4}
  OBVIOUS
<1> QED
  BY <1>1, <1>2, <1>3 DEF Groups, ToSet

\* A process opens a file before it closes it, and writes the groups of its runtime.
LEMMA FilesInOrder ==
    ASSUME NEW j, IsJob(j), NEW o, o = Operations(j)
    PROVE  /\ Len(o) \in Nat
           /\ \A n \in 1..Len(o) : \E k \in {"open", "close"}, g \in Groups : o[n] = <<k, g>>
           /\ \A m, n \in 1..Len(o) : \A g : o[m] = <<"close", g>> /\ o[n] = <<"open", g>> => n < m
           /\ \A n \in 1..Len(o) : o[n][2] \in {"events", "usage"} <=> j.runtime = "exceptions"
<1>1. j.runtime \in {"exceptions", "errors"}
  BY DEF IsJob
<1>2. CASE j.runtime = "exceptions" /\ j.usage
  <2>1. o = <<<<"open", "events">>, <<"open", "usage">>, <<"close", "events">>, <<"close", "usage">>>>
    BY <1>2 DEF Operations
  <2>2. Len(o) = 4 /\ 1..4 = {1, 2, 3, 4}
    BY <2>1
  <2>3. o[1] = <<"open", "events">> /\ o[2] = <<"open", "usage">> /\ o[3] = <<"close", "events">> /\ o[4] = <<"close", "usage">>
    BY <2>1
  <2> QED BY <1>2, <2>2, <2>3, GroupsAre
<1>3. CASE j.runtime = "exceptions" /\ ~j.usage
  <2>1. o = <<<<"open", "events">>, <<"close", "events">>>>
    BY <1>3 DEF Operations
  <2>2. Len(o) = 2 /\ 1..2 = {1, 2}
    BY <2>1
  <2>3. o[1] = <<"open", "events">> /\ o[2] = <<"close", "events">>
    BY <2>1
  <2> QED BY <1>3, <2>2, <2>3, GroupsAre
<1>4. CASE j.runtime = "errors"
  <2>1. o = <<<<"open", "errors">>, <<"close", "errors">>, <<"open", "series">>, <<"close", "series">>>>
    BY <1>4 DEF Operations
  <2>2. Len(o) = 4 /\ 1..4 = {1, 2, 3, 4}
    BY <2>1
  <2>3. o[1] = <<"open", "errors">> /\ o[2] = <<"close", "errors">> /\ o[3] = <<"open", "series">> /\ o[4] = <<"close", "series">>
    BY <2>1
  <2> QED BY <1>4, <2>2, <2>3, GroupsAre
<1> QED
  BY <1>1, <1>2, <1>3, <1>4

\* Types; a trace is of its process, and whole once that has closed it.
RType ==
    /\ job \in [Proc -> Job]
    /\ done \in [Proc -> Nat] /\ \A p \in Proc : done[p] <= Len(Operations(job[p]))
    /\ DOMAIN trace = Groups /\ \A g \in Groups : trace[g] = [i \in Ids |-> trace[g][i]]
    /\ command \in {"idle", "report", "show"}
    /\ found \in [Groups -> SUBSET Ids] /\ before \in [Groups -> SUBSET Proc]
    /\ walks \in {<<"events", "usage", "errors", "series">>, <<"usage", "errors", "series">>,
                  <<"errors", "series">>, <<"series">>, <<"events", "errors">>, <<"errors">>, <<>>}

TraceIs(t, p, g) ==
    \/ t = Absent
    \/ t = Partial /\ ~Closed(p, g)
    \/ (t = Garbled \/ t = Complete(TraceRows(job[p], g))) /\ Closed(p, g)
TracesOK == \A p \in Proc : \A g \in Groups : TraceIs(trace[g][Id[p]], p, g)

\* What was there when the command was given stays while it is carried out.
BeforeOK ==
    command # "idle" => \A g \in Groups : \A p \in before[g] : Closed(p, g) /\ trace[g][Id[p]] # Absent

\* The tables have the traces of processes S.
ItemsIn(j, S) == UNION {ItemsOf(j, p) : p \in S}
SeriesIn(j, S) == UNION {SeriesIndex(j, p) : p \in S}
RowsIn(j, S) == UNION {ToSet(j[p].errors) : p \in S}
DataIs(g, S) ==
    /\ g = "events" => EventsAre(job, events, inputs, ItemsIn(job, S))
    /\ g = "usage" => UsageAre(job, bins, usedBy, ItemsIn(job, S))
    /\ g = "errors" => ErrorsAre(errors, RowsIn(job, S))
    /\ g = "series" => SeriesAre(job, series, SeriesIn(job, S))

\* The processes whose traces are loaded have closed them, and are not to be
\* loaded again; a process that had closed its trace before is loaded or will be.
IsLoaded(g, S) ==
    /\ \A p \in S : Closed(p, g) /\ Id[p] \notin found[g]
    /\ DataIs(g, S)
    /\ g \notin ToSet(walks) /\ (command = "report" \/ g \in {"events", "errors"}) =>
           \A p \in before[g] : p \in S \/ Id[p] \in found[g]
    /\ walks # <<>> => S = {}
AllLoaded == command # "idle" => \A g \in Groups : \E S \in SUBSET Proc : IsLoaded(g, S)

IdsOwn == \A p, q \in Proc : Id[p] = Id[q] => p = q
RInv == RType /\ TracesOK /\ BeforeOK /\ AllLoaded

\* A process that has closed a trace of a group is one of its runtime.
LEMMA ClosedRuntime ==
    ASSUME RType, NEW p \in Proc, NEW g \in Groups, Closed(p, g)
    PROVE  IsJob(job[p]) /\ (g \in {"events", "usage"} <=> job[p].runtime = "exceptions")
<1>1. PICK j : j = job[p]
  OBVIOUS
<1>2. IsJob(j)
  BY <1>1, ReportAssumption DEF RType, ReportAssumption
<1>3. PICK o : o = Operations(j)
  OBVIOUS
<1>4. PICK n \in 1..done[p] : o[n] = <<"close", g>>
  BY <1>1, <1>3 DEF Closed
<1>5. n \in 1..Len(o)
  <2>1. Len(o) \in Nat
    BY <1>2, <1>3, FilesInOrder
  <2> QED BY <1>1, <1>3, <2>1 DEF RType
<1>6. o[n][2] \in {"events", "usage"} <=> j.runtime = "exceptions"
  BY <1>2, <1>3, <1>5, FilesInOrder
<1>7. o[n][2] = g
  BY <1>4
<1> QED
  BY <1>1, <1>2, <1>6, <1>7

\* Writing leaves all but the trace that is written, of the process that writes.
LEMMA WriteKeepsTraces ==
    ASSUME RType, TracesOK, IdsOwn, NEW p \in Proc, Write(p)
    PROVE  /\ RType' /\ TracesOK'
           /\ \A q \in Proc : \A g \in Groups :
                  /\ Closed(q, g) => Closed(q, g)'
                  /\ Closed(q, g) /\ trace[g][Id[q]] # Absent => trace'[g][Id[q]] # Absent
<1>1. PICK j, o, n, s : j = job[p] /\ o = Operations(j) /\ n = done[p] + 1 /\ s = o[n]
  OBVIOUS
<1>2. IsJob(j)
  BY <1>1, ReportAssumption DEF RType, ReportAssumption
<1>3. /\ Len(o) \in Nat
      /\ \A m \in 1..Len(o) : \E k \in {"open", "close"}, g \in Groups : o[m] = <<k, g>>
      /\ \A m, l \in 1..Len(o) : \A g : o[m] = <<"close", g>> /\ o[l] = <<"open", g>> => l < m
  BY <1>1, <1>2, FilesInOrder
<1>4. n \in 1..Len(o) /\ n \in Nat /\ done[p] \in Nat
  BY <1>1, <1>3 DEF Write, RType
<1>5. PICK k \in {"open", "close"}, g0 \in Groups : s = <<k, g0>>
  BY <1>1, <1>3, <1>4
<1>6. s[1] = k /\ s[2] = g0
  BY <1>5
<1>7. PICK i0 : i0 = Id[p] /\ i0 \in Ids
  BY DEF Ids
<1>8. PICK v : v = AfterStep(p, s, trace[g0][i0])
  OBVIOUS
<1>9. trace' = [trace EXCEPT ![g0][i0] = v] /\ done' = [done EXCEPT ![p] = n] /\ job' = job
  BY <1>1, <1>6, <1>7, <1>8 DEF Write
<1>10. UNCHANGED <<command, found, before, walks>>
  BY DEF Write
<1>11. /\ trace'[g0] = [i \in Ids |-> trace'[g0][i]] /\ trace'[g0][i0] = v
       /\ \A i \in Ids \ {i0} : trace'[g0][i] = trace[g0][i]
       /\ \A g \in Groups \ {g0} : trace'[g] = trace[g]
       /\ DOMAIN trace' = Groups
  BY <1>5, <1>7, <1>9 DEF RType
<1>12. done' \in [Proc -> Nat] /\ done'[p] = n /\ \A q \in Proc \ {p} : done'[q] = done[q]
  BY <1>4, <1>9 DEF RType
<1>13. RType'
  <2>1. \A q \in Proc : done'[q] <= Len(Operations(job'[q]))
    BY <1>1, <1>3, <1>4, <1>9, <1>12 DEF RType
  <2>2. \A g \in Groups : trace'[g] = [i \in Ids |-> trace'[g][i]]
    BY <1>11 DEF RType
  <2> QED BY <1>9, <1>10, <1>11, <1>12, <2>1, <2>2 DEF RType, Ids
<1>14. \A q \in Proc \ {p} : Id[q] # i0 /\ Id[q] \in Ids /\ \A g : Closed(q, g)' <=> Closed(q, g)
  BY <1>7, <1>9, <1>12 DEF IdsOwn, Ids, Closed
<1>15. \A g : Closed(p, g)' <=> \E m \in 1..n : o[m] = <<"close", g>>
  BY <1>1, <1>9, <1>12 DEF Closed
<1>16. \A g : Closed(p, g) <=> \E m \in 1..(n - 1) : o[m] = <<"close", g>>
  BY <1>1, <1>4 DEF Closed
<1>17. \A q \in Proc : \A g : Closed(q, g) => Closed(q, g)'
  <2>1. \A m \in 1..(n - 1) : m \in 1..n
    BY <1>4
  <2> QED BY <1>14, <1>15, <1>16, <2>1
<1>18. \A g \in Groups \ {g0} : Closed(p, g)' <=> Closed(p, g)
  <2> TAKE g \in Groups \ {g0}
  <2>1. o[n] # <<"close", g>>
    BY <1>1, <1>5
  <2>2. 1..n = 1..(n - 1) \cup {n}
    BY <1>4
  <2> QED BY <1>15, <1>16, <2>1, <2>2
<1>19. \A q \in Proc : \A g \in Groups : q # p \/ g # g0 => trace'[g][Id[q]] = trace[g][Id[q]] /\ (Closed(q, g)' <=> Closed(q, g))
  BY <1>7, <1>11, <1>14, <1>18
<1>20. \/ k = "open" /\ v = Partial /\ ~Closed(p, g0)'
       \/ /\ k = "close" /\ Closed(p, g0)'
          /\ v \in {Absent, Garbled, Complete(TraceRows(j, g0))}
          /\ v = Absent => trace[g0][i0] = Absent
  <2>1. CASE k = "open"
    <3>1. v = Partial
      BY <1>6, <1>8, <2>1 DEF AfterStep
    <3>2. \A m \in 1..n : o[m] # <<"close", g0>>
      <4> SUFFICES ASSUME NEW m \in 1..n, o[m] = <<"close", g0>> PROVE FALSE
        OBVIOUS
      <4>1. m \in 1..Len(o) /\ o[n] = <<"open", g0>>
        BY <1>1, <1>4, <1>5, <2>1
      <4>2. n < m
        BY <1>3, <1>4, <4>1
      <4> QED BY <1>4, <4>2
    <3> QED BY <1>15, <2>1, <3>1, <3>2
  <2>2. CASE k = "close"
    <3>1. Closed(p, g0)'
      <4>1. n \in 1..n /\ o[n] = <<"close", g0>>
        BY <1>1, <1>4, <1>5, <2>2
      <4> QED BY <1>15, <4>1
    <3>2. v = IF trace[g0][i0] = Absent THEN Absent
              ELSE IF g0 = "errors" /\ job[p].errors = <<>> THEN Garbled ELSE Complete(TraceRows(j, g0))
      BY <1>1, <1>6, <1>8, <2>2 DEF AfterStep
    <3>3. v = Absent => trace[g0][i0] = Absent
      BY <3>2 DEF Absent, Garbled, Complete
    <3> QED BY <2>2, <3>1, <3>2, <3>3
  <2> QED BY <2>1, <2>2
<1>21. TracesOK'
  <2> SUFFICES ASSUME NEW q \in Proc, NEW g \in Groups PROVE TraceIs(trace[g][Id[q]], q, g)'
    BY DEF TracesOK
  <2>1. CASE q # p \/ g # g0
    <3>1. TraceIs(trace[g][Id[q]], q, g)
      BY DEF TracesOK
    <3>2. trace'[g][Id[q]] = trace[g][Id[q]] /\ (Closed(q, g)' <=> Closed(q, g))
      BY <1>19, <2>1
    <3> QED BY <1>9, <3>1, <3>2 DEF TraceIs
  <2>2. CASE q = p /\ g = g0
    <3>1. trace'[g][Id[q]] = v
      BY <1>7, <1>11, <2>2
    <3> QED BY <1>1, <1>9, <1>20, <2>2, <3>1 DEF TraceIs
  <2> QED BY <2>1, <2>2
<1>22. \A q \in Proc : \A g \in Groups : Closed(q, g) /\ trace[g][Id[q]] # Absent => trace'[g][Id[q]] # Absent
  <2> SUFFICES ASSUME NEW q \in Proc, NEW g \in Groups, Closed(q, g), trace[g][Id[q]] # Absent
               PROVE  trace'[g][Id[q]] # Absent
    OBVIOUS
  <2>1. CASE q # p \/ g # g0
    BY <1>19, <2>1
  <2>2. CASE q = p /\ g = g0
    <3>1. trace'[g][Id[q]] = v /\ Closed(p, g0)' /\ trace[g0][i0] # Absent
      BY <1>7, <1>11, <1>17, <2>2
    <3> QED BY <1>20, <3>1
  <2> QED BY <2>1, <2>2
<1> QED
  BY <1>13, <1>17, <1>21, <1>22
-----------------------------------------------------------------------------
(* The steps of the generator.                                             *)

\* What depends on the traces only is as it was if they are.
LEMMA SameTraces ==
    ASSUME UNCHANGED procs
    PROVE  /\ TracesOK' <=> TracesOK
           /\ \A p, g : Closed(p, g)' <=> Closed(p, g)
<1>1. job' = job /\ done' = done /\ trace' = trace
  BY DEF procs
<1>2. \A p, g : Closed(p, g)' <=> Closed(p, g)
  BY <1>1 DEF Closed
<1>3. TracesOK' <=> TracesOK
  BY <1>1, <1>2 DEF TracesOK, TraceIs
<1> QED
  BY <1>2, <1>3

\* Empty tables have nothing.
LEMMA NoData ==
    ASSUME NEW j, NEW t, t = [k \in Kinds |-> [f \in File |-> <<>>]], NEW u, u = [k \in Kinds |-> {}],
           NEW b, b = [w \in Width |-> <<>>], NEW c, c = [w \in Width |-> [f \in File |-> 0]],
           NEW e, e = [f \in File |-> <<>>]
    PROVE  /\ EventsAre(j, t, u, {}) /\ UsageAre(j, b, c, {}) /\ ErrorsAre(e, {}) /\ SeriesAre(j, <<>>, {})
<1>1. IsFiniteSet(File)
  BY ReportAssumption DEF ReportAssumption
<1>2. PICK z : z = [f \in File |-> 0] /\ z \in [File -> Nat]
  <2>1. [f \in File |-> 0] \in [File -> Nat]
    OBVIOUS
  <2> QED BY <2>1, Zenon
<1>3. SumFunction(z) = 0
  <2>1. \A f \in File : z[f] = 0
    BY <1>2
  <2> QED BY <1>1, <1>2, <2>1, SumZero
<1>4. \A k : Some_(j, {}, k) = {}
  BY DEF Some_
<1>5. EventsAre(j, t, u, {})
  <2>1. <<>> \in Seq(Located)
    OBVIOUS
  <2>2. t \in [Kinds -> [File -> Seq(Located)]]
    BY <2>1
  <2>3. u = [k \in Kinds |-> {It(j, i).input : i \in Some_(j, {}, k)}]
    BY <1>4
  <2>4. SumOf(<<>>) = 0
    <3>1. PICK s : s = [n \in DOMAIN <<>> |-> <<>>[n][2]]
      OBVIOUS
    <3>2. DOMAIN s = {}
      BY <3>1
    <3>3. SumFunction(s) = 0
      BY <3>2, SumNone
    <3> QED BY <3>1, <3>3 DEF SumOf
  <2>5. LinesIn(<<>>) = {}
    BY DEF LinesIn
  <2>6. ASSUME NEW k \in Kinds
        PROVE  /\ SumFunction([f \in File |-> SumOf(t[k][f])]) = SumFunction([i \in {} |-> It(j, i).counts[k]])
               /\ \A f \in File : LinesIn(t[k][f]) = {It(j, i).line : i \in {i \in Some_(j, {}, k) : It(j, i).file = f}}
    <3>1. \A f \in File : t[k][f] = <<>>
      OBVIOUS
    <3>2. [f \in File |-> SumOf(t[k][f])] = z
      BY <1>2, <2>4, <3>1
    <3>3. PICK y : y = [i \in {} |-> It(j, i).counts[k]]
      OBVIOUS
    <3>4. SumFunction(y) = 0
      <4>1. DOMAIN y = {}
        BY <3>3
      <4> QED BY <4>1, SumNone
    <3>5. SumFunction([f \in File |-> SumOf(t[k][f])]) = SumFunction([i \in {} |-> It(j, i).counts[k]])
      BY <1>3, <3>2, <3>3, <3>4, Zenon
    <3>6. \A f \in File : LinesIn(t[k][f]) = {It(j, i).line : i \in {i \in Some_(j, {}, k) : It(j, i).file = f}}
      BY <1>4, <2>5, <3>1
    <3> QED BY <3>5, <3>6
  <2> QED BY <2>2, <2>3, <2>6, Zenon DEF EventsAre
<1>6. UsageAre(j, b, c, {})
  <2>1. c \in [Width -> [File -> Nat]] /\ DOMAIN b = Width
    OBVIOUS
  <2>2. ASSUME NEW w \in Width
        PROVE  /\ b[w] = [d \in DOMAIN b[w] |-> b[w][d]]
               /\ SumFunction(c[w]) = SumFunction([i \in {} |-> Uses(It(j, i).exponents[w])])
               /\ DOMAIN b[w] = {} <=> SumFunction(c[w]) = 0
    <3>1. b[w] = <<>> /\ DOMAIN b[w] = {} /\ b[w] = [d \in DOMAIN b[w] |-> b[w][d]]
      OBVIOUS
    <3>2. c[w] = z
      BY <1>2
    <3>3. PICK y : y = [i \in {} |-> Uses(It(j, i).exponents[w])]
      OBVIOUS
    <3>4. SumFunction(y) = 0
      <4>1. DOMAIN y = {}
        BY <3>3
      <4> QED BY <4>1, SumNone
    <3>5. SumFunction(c[w]) = SumFunction([i \in {} |-> Uses(It(j, i).exponents[w])])
      BY <1>3, <3>2, <3>3, <3>4, Zenon
    <3> QED BY <1>3, <3>1, <3>2, <3>5, Zenon
  <2> QED BY <2>1, <2>2, Zenon DEF UsageAre
<1>7. ErrorsAre(e, {})
  <2>1. \A f \in File : e[f] = <<>> /\ DOMAIN e[f] = {}
    OBVIOUS
  <2> QED BY <2>1 DEF ErrorsAre
<1>8. SeriesAre(j, <<>>, {})
  <2> SUFFICES ASSUME NEW l PROVE LineIs(j, Lookup(<<>>, l, <<>>), {}, l)
    BY Zenon DEF SeriesAre
  <2>1. Lookup(<<>>, l, <<>>) = <<>>
    BY DEF Lookup
  <2>2. OfLine(j, {}, l) = {}
    BY DEF OfLine
  <2>3. PICK y : y = [i \in {} |-> Len(SeriesAt(j, i).values)]
    OBVIOUS
  <2>4. SumFunction(y) = 0
    <3>1. DOMAIN y = {}
      BY <2>3
    <3> QED BY <3>1, SumNone
  <2>5. <<>> \in Seq(Int) /\ Len(<<>>) = 0
    OBVIOUS
  <2>6. LineIs(j, <<>>, {}, l)
    <3>1. Len(<<>>) = SumFunction([i \in OfLine(j, {}, l) |-> Len(SeriesAt(j, i).values)])
      BY <2>2, <2>3, <2>4, <2>5, Zenon
    <3>2. \A i \in OfLine(j, {}, l) : SeriesAt(j, i).values \in SubSeqs(<<>>)
      BY <2>2
    <3> QED BY <2>5, <3>1, <3>2, Zenon DEF LineIs
  <2> QED BY <2>1, <2>6, Zenon
<1> QED
  BY <1>5, <1>6, <1>7, <1>8

\* The groups still to walk.
LEMMA WalksAre ==
    /\ Group = <<"events", "usage", "errors", "series">>
    /\ \A w : RType /\ w = walks /\ w # <<>> => Head(w) \in Groups /\ ToSet(w) = {Head(w)} \cup ToSet(Tail(w))
<1>1. Group = <<"events", "usage", "errors", "series">>
  BY DEF Group
<1>2. ASSUME RType, NEW w, w = walks, w # <<>>
      PROVE  Head(w) \in Groups /\ ToSet(w) = {Head(w)} \cup ToSet(Tail(w))
  <2>1. w \in Seq(Groups)
    <3>1. /\ <<"events", "usage", "errors", "series">> \in Seq(Groups) /\ <<"usage", "errors", "series">> \in Seq(Groups)
          /\ <<"errors", "series">> \in Seq(Groups) /\ <<"series">> \in Seq(Groups) /\ <<>> \in Seq(Groups)
          /\ <<"events", "errors">> \in Seq(Groups) /\ <<"errors">> \in Seq(Groups)
      BY GroupsAre
    <3> QED BY <1>2, <3>1, Zenon DEF RType
  <2>2. Len(w) \in Nat /\ Len(w) # 0 /\ Head(w) = w[1] /\ Head(w) \in Groups
    BY <1>2, <2>1
  <2>3. Len(Tail(w)) = Len(w) - 1 /\ \A n \in 1..(Len(w) - 1) : Tail(w)[n] = w[n + 1]
    BY <1>2, <2>1
  <2>4. Tail(w) \in Seq(Groups) /\ DOMAIN Tail(w) = 1..(Len(w) - 1) /\ DOMAIN w = 1..Len(w)
    BY <1>2, <2>1, <2>3
  <2>5. 1..Len(w) = {1} \cup {n + 1 : n \in 1..(Len(w) - 1)}
    <3>1. \A n \in 1..Len(w) : n = 1 \/ (n - 1 \in 1..(Len(w) - 1) /\ n = (n - 1) + 1)
      BY <2>2
    <3>2. \A n \in 1..(Len(w) - 1) : n + 1 \in 1..Len(w)
      BY <2>2
    <3>3. 1 \in 1..Len(w)
      BY <2>2
    <3> QED BY <3>1, <3>2, <3>3
  <2>6. ToSet(w) = {w[n] : n \in 1..Len(w)} /\ ToSet(Tail(w)) = {Tail(w)[n] : n \in 1..(Len(w) - 1)}
    BY <2>4 DEF ToSet
  <2>7. ToSet(Tail(w)) = {w[n + 1] : n \in 1..(Len(w) - 1)}
    BY <2>3, <2>6
  <2> QED BY <2>2, <2>5, <2>6, <2>7
<1> QED
  BY <1>1, <1>2

\* Nothing is written or loaded at first.
LEMMA RInitially ==
    ASSUME RInit
    PROVE  RInv
<1>1. DOMAIN trace = Groups /\ \A g \in Groups : trace[g] = [i \in Ids |-> Absent]
  BY DEF RInit, NothingYet, Groups
<1>2. RType
  <2>1. \A p \in Proc : done[p] <= Len(Operations(job[p]))
    <3> TAKE p \in Proc
    <3>1. IsJob(job[p])
      BY ReportAssumption DEF RInit, ReportAssumption
    <3>2. Len(Operations(job[p])) \in Nat
      BY <3>1, FilesInOrder
    <3> QED BY <3>2 DEF RInit
  <2>2. \A g \in Groups : trace[g] = [i \in Ids |-> trace[g][i]]
    BY <1>1
  <2>3. found \in [Groups -> SUBSET Ids] /\ before \in [Groups -> SUBSET Proc]
    BY DEF RInit, NothingYet, Groups
  <2>4. done \in [Proc -> Nat] /\ job \in [Proc -> Job] /\ command = "idle" /\ walks = <<>>
    BY DEF RInit, NothingYet
  <2> QED BY <1>1, <2>1, <2>2, <2>3, <2>4 DEF RType
<1>3. TracesOK
  BY <1>1 DEF TracesOK, TraceIs, Ids
<1> QED
  BY <1>2, <1>3 DEF RInv, BeforeOK, AllLoaded, RInit

\* A step that ends a command.
LEMMA IdleStep ==
    ASSUME RInv, RType', TracesOK', command' = "idle"
    PROVE  RInv'
BY DEF RInv, BeforeOK, AllLoaded

\* Writing a trace leaves what is loaded, and what has been found.
LEMMA WriteStep ==
    ASSUME RInv, IdsOwn, NEW p \in Proc, Write(p)
    PROVE  RInv'
<1>1. /\ RType' /\ TracesOK'
      /\ \A q \in Proc : \A g \in Groups :
             /\ Closed(q, g) => Closed(q, g)'
             /\ Closed(q, g) /\ trace[g][Id[q]] # Absent => trace'[g][Id[q]] # Absent
  BY WriteKeepsTraces DEF RInv
<1>2. UNCHANGED <<job, command, walks, found, before>> /\ UNCHANGED <<events, inputs, bins, usedBy, errors, series>>
  BY DEF Write, data
<1>3. BeforeOK'
  <2> SUFFICES ASSUME command' # "idle", NEW g \in Groups, NEW q \in before'[g]
               PROVE  Closed(q, g)' /\ trace'[g][Id[q]] # Absent
    BY DEF BeforeOK
  <2>1. q \in Proc /\ Closed(q, g) /\ trace[g][Id[q]] # Absent
    BY <1>2 DEF RInv, BeforeOK, RType
  <2> QED BY <1>1, <2>1
<1>4. AllLoaded'
  <2> SUFFICES ASSUME command' # "idle", NEW g \in Groups PROVE \E S \in SUBSET Proc : IsLoaded(g, S)'
    BY DEF AllLoaded
  <2>1. PICK S \in SUBSET Proc : IsLoaded(g, S)
    BY <1>2 DEF RInv, AllLoaded
  <2>2. DataIs(g, S)'
    BY <1>2, <2>1 DEF IsLoaded, DataIs
  <2>3. \A q \in S : Closed(q, g)'
    BY <1>1, <2>1 DEF IsLoaded
  <2> QED BY <1>2, <2>1, <2>2, <2>3 DEF IsLoaded
<1> QED
  BY <1>1, <1>3, <1>4 DEF RInv

\* A command starts with empty tables.
LEMMA StartStep ==
    ASSUME RInv, NEW c \in {"report", "show"}, Start(c)
    PROVE  RInv'
<1>1. job' = job /\ done' = done /\ trace' = trace /\ UNCHANGED procs
  BY DEF Start, procs
<1>2. TracesOK' /\ \A p, g : Closed(p, g)' <=> Closed(p, g)
  BY <1>1, SameTraces DEF RInv
<1>3. found' = [g \in Groups |-> {}]
  BY DEF Start, Groups
<1>4. before' = [g \in Groups |-> {p \in Proc : Closed(p, g) /\ Id[p] \notin Of(g, "absent")}]
  BY DEF Start, Groups
<1>5. walks' = IF c = "report" THEN <<"events", "usage", "errors", "series">> ELSE <<"events", "errors">>
  BY DEF Start, Group
<1>6. ToSet(walks') = IF c = "report" THEN Groups ELSE {"events", "errors"}
  <2>1. ToSet(<<"events", "usage", "errors", "series">>) = Groups
    BY DEF Groups, Group
  <2>2. PICK w : w = <<"events", "errors">>
    OBVIOUS
  <2>3. ToSet(w) = {"events", "errors"}
    <3>1. DOMAIN w = 1..2 /\ w[1] = "events" /\ w[2] = "errors" /\ 1..2 = {1, 2}
      BY <2>2
    <3> QED BY <3>1 DEF ToSet
  <2> QED BY <1>5, <2>1, <2>2, <2>3
<1>7. RType'
  <2>1. RType
    BY DEF RInv
  <2>2. /\ job' \in [Proc -> Job]
        /\ done' \in [Proc -> Nat] /\ \A p \in Proc : done'[p] <= Len(Operations(job'[p]))
        /\ DOMAIN trace' = Groups /\ \A g \in Groups : trace'[g] = [i \in Ids |-> trace'[g][i]]
    BY <1>1, <2>1, Zenon DEF RType
  <2>3. command' \in {"idle", "report", "show"}
    BY DEF Start
  <2>4. found' \in [Groups -> SUBSET Ids] /\ before' \in [Groups -> SUBSET Proc]
    BY <1>3, <1>4
  <2>5. walks' \in {<<"events", "usage", "errors", "series">>, <<"events", "errors">>}
    BY <1>5
  <2>6. Ids' = Ids
    BY DEF Ids
  <2> QED BY <2>2, <2>3, <2>4, <2>5, <2>6, Zenon DEF RType
<1>8. BeforeOK'
  <2> SUFFICES ASSUME NEW g \in Groups, NEW p \in before'[g]
               PROVE  Closed(p, g)' /\ trace'[g][Id[p]] # Absent
    BY DEF BeforeOK
  <2>1. p \in Proc /\ Closed(p, g) /\ Id[p] \notin Of(g, "absent")
    BY <1>4
  <2>2. trace[g][Id[p]] # Absent
    BY <2>1 DEF Of, Ids, Absent
  <2> QED BY <1>1, <1>2, <2>1, <2>2
<1>9. \A g \in Groups : DataIs(g, {})'
  <2>1. Kinds' = Kinds
    BY DEF Kinds
  <2>2. /\ events' = [k \in Kinds |-> [f \in File |-> <<>>]] /\ inputs' = [k \in Kinds |-> {}]
        /\ bins' = [w \in Width |-> <<>>] /\ usedBy' = [w \in Width |-> [f \in File |-> 0]]
        /\ errors' = [f \in File |-> <<>>] /\ series' = <<>>
    BY DEF Start, Fresh, Kinds
  <2>3. PICK j, t, u, b, d, e, s :
            j = job' /\ t = events' /\ u = inputs' /\ b = bins' /\ d = usedBy' /\ e = errors' /\ s = series'
    OBVIOUS
  <2>4. EventsAre(j, t, u, {}) /\ UsageAre(j, b, d, {}) /\ ErrorsAre(e, {}) /\ SeriesAre(j, s, {})
    BY <2>2, <2>3, NoData
  <2>5. ItemsIn(j, {}) = {} /\ SeriesIn(j, {}) = {} /\ RowsIn(j, {}) = {}
    BY DEF ItemsIn, SeriesIn, RowsIn
  <2> QED BY <2>3, <2>4, <2>5, Zenon DEF DataIs
<1>10. AllLoaded'
  <2> SUFFICES ASSUME NEW g \in Groups PROVE IsLoaded(g, {})'
    BY DEF AllLoaded
  <2>1. command' = c
    BY DEF Start
  <2>2. g \notin ToSet(walks') /\ (command' = "report" \/ g \in {"events", "errors"}) => FALSE
    BY <1>6, <2>1
  <2> QED BY <1>9, <2>2 DEF IsLoaded
<1> QED
  BY <1>2, <1>7, <1>8, <1>10 DEF RInv

\* A walk finds every trace that was there when the command was given.
LEMMA WalkStep ==
    ASSUME RInv, Walk
    PROVE  RInv'
<1>1. UNCHANGED procs /\ UNCHANGED <<job, done, trace, command, before, events, inputs, bins, usedBy, errors, series>>
  BY DEF Walk, procs, data
<1>2. TracesOK' /\ \A p, g : Closed(p, g)' <=> Closed(p, g)
  BY <1>1, SameTraces DEF RInv
<1>3. RType /\ Ids' = Ids
  BY DEF RInv, Ids
<1>4. PICK w, h : w = walks /\ h = Head(walks)
  OBVIOUS
<1>5. w # <<>> /\ walks' = Tail(w) /\ found' = [found EXCEPT ![h] = Existing(h)]
  BY <1>4 DEF Walk
<1>6. h \in Groups /\ ToSet(w) = {h} \cup ToSet(Tail(w))
  BY <1>3, <1>4, <1>5, WalksAre
<1>7. Existing(h) \in SUBSET Ids
  BY DEF Existing
<1>8. found' \in [Groups -> SUBSET Ids] /\ found'[h] = Existing(h) /\ \A g \in Groups \ {h} : found'[g] = found[g]
  BY <1>3, <1>5, <1>6, <1>7 DEF RType
<1>9. walks' \in {<<"usage", "errors", "series">>, <<"errors", "series">>, <<"series">>, <<"errors">>, <<>>}
  <2>1. w \in {<<"events", "usage", "errors", "series">>, <<"usage", "errors", "series">>,
               <<"errors", "series">>, <<"series">>, <<"events", "errors">>, <<"errors">>}
    BY <1>3, <1>4, <1>5 DEF RType
  <2>2. /\ Tail(<<"events", "usage", "errors", "series">>) = <<"usage", "errors", "series">>
        /\ Tail(<<"usage", "errors", "series">>) = <<"errors", "series">>
        /\ Tail(<<"errors", "series">>) = <<"series">> /\ Tail(<<"series">>) = <<>>
        /\ Tail(<<"events", "errors">>) = <<"errors">> /\ Tail(<<"errors">>) = <<>>
    OBVIOUS
  <2> QED BY <1>5, <2>1, <2>2, Zenon
<1>10. RType'
  <2>1. /\ job' \in [Proc -> Job]
        /\ done' \in [Proc -> Nat] /\ \A p \in Proc : done'[p] <= Len(Operations(job'[p]))
        /\ DOMAIN trace' = Groups /\ \A g \in Groups : trace'[g] = [i \in Ids |-> trace'[g][i]]
        /\ command' \in {"idle", "report", "show"} /\ before' \in [Groups -> SUBSET Proc]
    BY <1>1, <1>3, Zenon DEF RType
  <2> QED BY <1>3, <1>8, <1>9, <2>1, Zenon DEF RType
<1>11. BeforeOK'
  BY <1>1, <1>2 DEF RInv, BeforeOK
<1>12. AllLoaded'
  <2> SUFFICES ASSUME command' # "idle", NEW g \in Groups PROVE IsLoaded(g, {})'
    BY DEF AllLoaded
  <2>1. PICK S \in SUBSET Proc : IsLoaded(g, S)
    BY <1>1 DEF RInv, AllLoaded
  <2>2. S = {}
    BY <1>4, <1>5, <2>1 DEF IsLoaded
  <2>3. DataIs(g, {})'
    <3>1. DataIs(g, {})
      BY <2>1, <2>2 DEF IsLoaded
    <3> QED BY <1>1, <3>1 DEF DataIs
  <2>4. ASSUME g \notin ToSet(walks'), command' = "report" \/ g \in {"events", "errors"}, NEW p \in before'[g]
        PROVE  Id[p] \in found'[g]
    <3>1. p \in before[g] /\ p \in Proc
      BY <1>1, <1>3, <2>4 DEF RType
    <3>2. CASE g = h
      <4>1. Closed(p, g) /\ trace[g][Id[p]] # Absent
        BY <1>1, <3>1 DEF RInv, BeforeOK
      <4>2. TraceIs(trace[g][Id[p]], p, g)
        BY <3>1 DEF RInv, TracesOK
      <4>3. trace[g][Id[p]].status # "absent"
        BY <4>1, <4>2 DEF TraceIs, Partial, Garbled, Complete
      <4>4. Id[p] \in Existing(h)
        BY <3>1, <3>2, <4>3 DEF Existing, Of, Ids
      <4> QED BY <1>8, <3>2, <4>4
    <3>3. CASE g # h
      <4>1. g \notin ToSet(w)
        BY <1>5, <1>6, <2>4, <3>3
      <4>2. Id[p] \in found[g]
        BY <1>1, <1>4, <2>1, <2>2, <2>4, <3>1, <4>1 DEF IsLoaded
      <4> QED BY <1>8, <3>3, <4>2
    <3> QED BY <3>2, <3>3
  <2> QED BY <2>3, <2>4 DEF IsLoaded
<1> QED
  BY <1>2, <1>10, <1>11, <1>12 DEF RInv
-----------------------------------------------------------------------------
(* Loading a trace.                                                        *)

\* Finitely many finite sets are finite together.
LEMMA FiniteTogether ==
    ASSUME NEW S, IsFiniteSet(S), NEW f, \A p \in S : IsFiniteSet(f[p])
    PROVE  IsFiniteSet(UNION {f[p] : p \in S})
<1>1. PICK T : T = {f[p] : p \in S}
  OBVIOUS
<1>2. PICK h : h = [p \in S |-> f[p]]
  OBVIOUS
<1>3. h \in Surjection(S, T)
  BY <1>1, <1>2 DEF Surjection
<1>4. IsFiniteSet(T)
  BY <1>3, FS_Surjection
<1>5. \A t \in T : IsFiniteSet(t)
  BY <1>1
<1>6. IsFiniteSet(UNION T)
  BY <1>4, <1>5, FS_UNION
<1> QED
  BY <1>1, <1>6

\* The items and the rows of processes S that have written them.
LEMMA ItemsTyped ==
    ASSUME NEW j, NEW S, IsFiniteSet(S), \A p \in S : IsJob(j[p]) /\ j[p].runtime = "exceptions"
    PROVE  /\ IsFiniteSet(ItemsIn(j, S))
           /\ \A i \in ItemsIn(j, S) : IsItem(It(j, i)) /\ It(j, i).input = j[i[1]].input
<1>1. ASSUME NEW p \in S
      PROVE  /\ IsFiniteSet(ItemsOf(j, p))
             /\ \A i \in ItemsOf(j, p) : i[1] = p /\ IsItem(It(j, i)) /\ It(j, i).input = j[p].input
  <2>1. PICK s : s = j[p].items
    OBVIOUS
  <2>2. s \in Seq(ToSet(s)) /\ \A i \in ToSet(s) : IsItem(i) /\ i.input = j[p].input
    BY <2>1 DEF IsJob
  <2>3. Len(s) \in Nat /\ DOMAIN s = 1..Len(s) /\ \A n \in DOMAIN s : s[n] \in ToSet(s)
    BY <2>2 DEF ToSet
  <2>4. PICK N : N = Len(s) + 1
    OBVIOUS
  <2>5. N \in Nat \ {0} /\ N - 1 = Len(s)
    BY <2>3, <2>4
  <2>6. ItemsOf(j, p) = UptoItem(p, N - 1)
    BY <2>1, <2>3, <2>5 DEF ItemsOf, UptoItem
  <2>7. IsFiniteSet(ItemsOf(j, p))
    <3>1. IsFiniteSet(UptoItem(p, N - 1))
      BY <2>5, UptoMore
    <3> QED BY <2>6, <3>1
  <2>8. ASSUME NEW i \in ItemsOf(j, p)
        PROVE  i[1] = p /\ IsItem(It(j, i)) /\ It(j, i).input = j[p].input
    <3>1. PICK n \in DOMAIN s : i = <<p, n>>
      BY <2>1 DEF ItemsOf
    <3>2. It(j, i) = s[n] /\ i[1] = p
      BY <2>1, <3>1 DEF It
    <3> QED BY <2>2, <2>3, <3>1, <3>2
  <2> QED BY <2>7, <2>8
<1>2. PICK f : f = [p \in S |-> ItemsOf(j, p)]
  OBVIOUS
<1>3. ItemsIn(j, S) = UNION {f[p] : p \in S}
  BY <1>2 DEF ItemsIn
<1>4. IsFiniteSet(ItemsIn(j, S))
  <2>1. \A p \in S : IsFiniteSet(f[p])
    BY <1>1, <1>2
  <2> QED BY <1>3, <2>1, FiniteTogether
<1>5. ASSUME NEW i \in ItemsIn(j, S) PROVE IsItem(It(j, i)) /\ It(j, i).input = j[i[1]].input
  <2>1. PICK p \in S : i \in ItemsOf(j, p)
    BY <1>5 DEF ItemsIn
  <2> QED BY <1>1, <2>1
<1> QED
  BY <1>4, <1>5

\* The rows and series of processes that have written them.
LEMMA SeriesTyped ==
    ASSUME NEW j, NEW S, IsFiniteSet(S), \A p \in S : IsJob(j[p]) /\ j[p].runtime = "errors"
    PROVE  /\ IsFiniteSet(SeriesIn(j, S)) /\ RowsIn(j, S) \in SUBSET ErrorRow
           /\ \A i \in SeriesIn(j, S) : SeriesAt(j, i) \in SeriesRow
           /\ \A p \in S : j[p].errors \in Seq(ErrorRow) /\ j[p].series \in Seq(SeriesRow)
<1>1. \A p \in S : j[p].errors \in Seq(ErrorRow) /\ j[p].series \in Seq(SeriesRow)
  BY DEF IsJob, ErrorRow, SeriesRow
<1>2. ASSUME NEW p \in S
      PROVE  IsFiniteSet(SeriesIndex(j, p)) /\ \A i \in SeriesIndex(j, p) : SeriesAt(j, i) \in SeriesRow
  <2>1. PICK s : s = j[p].series
    OBVIOUS
  <2>2. s \in Seq(SeriesRow)
    BY <1>1, <2>1
  <2>3. Len(s) \in Nat /\ DOMAIN s = 1..Len(s) /\ \A n \in DOMAIN s : s[n] \in SeriesRow
    BY <2>2
  <2>4. PICK N : N = Len(s) + 1
    OBVIOUS
  <2>5. N \in Nat \ {0} /\ N - 1 = Len(s)
    BY <2>3, <2>4
  <2>6. SeriesIndex(j, p) = UptoItem(p, N - 1)
    BY <2>1, <2>3, <2>5 DEF SeriesIndex, UptoItem
  <2>7. IsFiniteSet(SeriesIndex(j, p))
    <3>1. IsFiniteSet(UptoItem(p, N - 1))
      BY <2>5, UptoMore
    <3> QED BY <2>6, <3>1
  <2>8. ASSUME NEW i \in SeriesIndex(j, p) PROVE SeriesAt(j, i) \in SeriesRow
    <3>1. PICK n \in DOMAIN s : i = <<p, n>>
      BY <2>1 DEF SeriesIndex
    <3>2. SeriesAt(j, i) = s[n]
      BY <2>1, <3>1 DEF SeriesAt
    <3> QED BY <2>3, <3>2
  <2> QED BY <2>7, <2>8
<1>3. PICK f : f = [p \in S |-> SeriesIndex(j, p)]
  OBVIOUS
<1>4. SeriesIn(j, S) = UNION {f[p] : p \in S}
  BY <1>3 DEF SeriesIn
<1>5. IsFiniteSet(SeriesIn(j, S))
  <2>1. \A p \in S : IsFiniteSet(f[p])
    BY <1>2, <1>3
  <2> QED BY <1>4, <2>1, FiniteTogether
<1>6. RowsIn(j, S) \in SUBSET ErrorRow
  <2> SUFFICES ASSUME NEW p \in S, NEW r \in ToSet(j[p].errors) PROVE r \in ErrorRow
    BY DEF RowsIn
  <2>1. j[p].errors \in Seq(ErrorRow)
    BY <1>1
  <2> QED BY <2>1 DEF ToSet
<1>7. \A i \in SeriesIn(j, S) : SeriesAt(j, i) \in SeriesRow
  BY <1>2 DEF SeriesIn
<1> QED
  BY <1>1, <1>5, <1>6, <1>7

\* Those of one more process.
LEMMA OneMore ==
    ASSUME NEW j, NEW S, NEW p
    PROVE  /\ ItemsIn(j, S \cup {p}) = ItemsIn(j, S) \cup ItemsOf(j, p)
           /\ SeriesIn(j, S \cup {p}) = SeriesIn(j, S) \cup SeriesIndex(j, p)
           /\ RowsIn(j, S \cup {p}) = RowsIn(j, S) \cup ToSet(j[p].errors)
           /\ p \notin S => ItemsIn(j, S) \cap ItemsOf(j, p) = {} /\ SeriesIn(j, S) \cap SeriesIndex(j, p) = {}
<1>1. ItemsIn(j, S \cup {p}) = ItemsIn(j, S) \cup ItemsOf(j, p)
  BY DEF ItemsIn
<1>2. SeriesIn(j, S \cup {p}) = SeriesIn(j, S) \cup SeriesIndex(j, p)
  BY DEF SeriesIn
<1>3. RowsIn(j, S \cup {p}) = RowsIn(j, S) \cup ToSet(j[p].errors)
  BY DEF RowsIn
<1>4. \A q, i : i \in ItemsOf(j, q) \/ i \in SeriesIndex(j, q) => i[1] = q
  BY DEF ItemsOf, SeriesIndex
<1>5. p \notin S => ItemsIn(j, S) \cap ItemsOf(j, p) = {}
  BY <1>4 DEF ItemsIn
<1>6. p \notin S => SeriesIn(j, S) \cap SeriesIndex(j, p) = {}
  BY <1>4 DEF SeriesIn
<1> QED
  BY <1>1, <1>2, <1>3, <1>5, <1>6

\* A whole trace adds what its process has recorded.
LEMMA TraceLoaded ==
    ASSUME RType, TracesOK, NEW g \in Groups, NEW p \in Proc, trace[g][Id[p]].status = "complete",
           NEW S \in SUBSET Proc, \A q \in S : Closed(q, g), p \notin S, DataIs(g, S), job' = job,
           NEW rows, rows = trace[g][Id[p]].rows,
           /\ g = "events" => LoadEvents(rows)
           /\ g = "usage" => LoadExponentUsageTraces(rows)
           /\ g = "errors" => LoadRoundingErrorTraces(rows)
           /\ g = "series" => LoadErrorsPerLineTraces(rows)
    PROVE  Closed(p, g) /\ DataIs(g, S \cup {p})'
<1>1. Closed(p, g) /\ trace[g][Id[p]] = Complete(TraceRows(job[p], g))
  <2>1. TraceIs(trace[g][Id[p]], p, g)
    BY DEF TracesOK
  <2> QED BY <2>1 DEF TraceIs, Absent, Partial, Garbled
<1>2. rows = TraceRows(job[p], g)
  BY <1>1 DEF Complete
<1>3. PICK j : j = job
  OBVIOUS
<1>4. IsFiniteSet(S)
  BY FS_Subset, ReportAssumption DEF ReportAssumption
<1>5. \A q \in S \cup {p} : IsJob(j[q]) /\ (g \in {"events", "usage"} <=> j[q].runtime = "exceptions")
  BY <1>1, <1>3, ClosedRuntime
<1>6. CASE g \in {"events", "usage"}
  <2>1. \A q \in S \cup {p} : IsJob(j[q]) /\ j[q].runtime = "exceptions"
    BY <1>5, <1>6
  <2>2. PICK X : X = ItemsIn(j, S)
    OBVIOUS
  <2>3. IsFiniteSet(X) /\ \A i \in X : IsItem(It(j, i))
    BY <1>4, <2>1, <2>2, ItemsTyped
  <2>4. X \cap ItemsOf(j, p) = {} /\ ItemsIn(j, S \cup {p}) = X \cup ItemsOf(j, p)
    BY <2>2, OneMore
  <2>5. CASE g = "events"
    <3>1. PICK t, u, v, z : t = events /\ u = inputs /\ v = events' /\ z = inputs'
      OBVIOUS
    <3>2. EventsAre(j, t, u, X)
      BY <1>3, <2>2, <2>5, <3>1 DEF DataIs
    <3>3. rows = TraceRows(j[p], "events")
      BY <1>2, <1>3, <2>5
    <3>4. EventsAre(j, Loop("events", t, rows), Loop("inputs", u, rows), X \cup ItemsOf(j, p))
      BY <2>1, <2>3, <2>4, <3>2, <3>3, EventsLoaded
    <3>5. v = Loop("events", t, rows) /\ z = Loop("inputs", u, rows)
      BY <2>5, <3>1 DEF LoadEvents
    <3>6. EventsAre(j, v, z, ItemsIn(j, S \cup {p}))
      BY <2>4, <3>4, <3>5, Zenon
    <3>7. EventsAre(job, events, inputs, ItemsIn(job, S \cup {p}))'
      BY <1>3, <3>1, <3>6, Zenon
    <3>8. g # "usage" /\ g # "errors" /\ g # "series"
      BY <2>5
    <3> QED BY <1>1, <3>7, <3>8, Zenon DEF DataIs
  <2>6. CASE g = "usage"
    <3>1. PICK t, u, v, z : t = bins /\ u = usedBy /\ v = bins' /\ z = usedBy'
      OBVIOUS
    <3>2. UsageAre(j, t, u, X)
      BY <1>3, <2>2, <2>6, <3>1 DEF DataIs
    <3>3. rows = TraceRows(j[p], "usage")
      BY <1>2, <1>3, <2>6
    <3>4. UsageAre(j, Loop("bins", t, rows), Loop("usedBy", u, rows), X \cup ItemsOf(j, p))
      BY <2>1, <2>3, <2>4, <3>2, <3>3, UsageLoaded
    <3>5. v = Loop("bins", t, rows) /\ z = Loop("usedBy", u, rows)
      BY <2>6, <3>1 DEF LoadExponentUsageTraces
    <3>6. UsageAre(j, v, z, ItemsIn(j, S \cup {p}))
      BY <2>4, <3>4, <3>5, Zenon
    <3>7. UsageAre(job, bins, usedBy, ItemsIn(job, S \cup {p}))'
      BY <1>3, <3>1, <3>6, Zenon
    <3>8. g # "events" /\ g # "errors" /\ g # "series"
      BY <2>6
    <3> QED BY <1>1, <3>7, <3>8, Zenon DEF DataIs
  <2> QED BY <1>6, <2>5, <2>6
<1>7. CASE g \in {"errors", "series"}
  <2>1. \A q \in S \cup {p} : IsJob(j[q]) /\ j[q].runtime = "errors"
    BY <1>5, <1>7 DEF IsJob
  <2>2. /\ IsFiniteSet(SeriesIn(j, S)) /\ RowsIn(j, S) \in SUBSET ErrorRow
        /\ \A i \in SeriesIn(j, S) : SeriesAt(j, i) \in SeriesRow
    BY <1>4, <2>1, SeriesTyped
  <2>3. j[p].errors \in Seq(ErrorRow) /\ j[p].series \in Seq(SeriesRow)
    <3>1. IsFiniteSet({p})
      BY FS_Singleton
    <3> QED BY <2>1, <3>1, SeriesTyped
  <2>4. CASE g = "errors"
    <3>1. PICK t, v, R : t = errors /\ v = errors' /\ R = RowsIn(j, S)
      OBVIOUS
    <3>2. ErrorsAre(t, R)
      BY <1>3, <2>4, <3>1 DEF DataIs
    <3>3. rows = j[p].errors
      BY <1>2, <1>3, <2>4 DEF TraceRows
    <3>4. rows \in Seq(ErrorRow) /\ R \in SUBSET ErrorRow
      BY <2>2, <2>3, <3>1, <3>3
    <3>5. ErrorsAre(Loop("errors", t, rows), R \cup ToSet(rows))
      BY <3>2, <3>4, ErrorsLoaded
    <3>6. v = Loop("errors", t, rows)
      BY <2>4, <3>1 DEF LoadRoundingErrorTraces
    <3>7. RowsIn(j, S \cup {p}) = R \cup ToSet(rows)
      <4>1. RowsIn(j, S \cup {p}) = RowsIn(j, S) \cup ToSet(j[p].errors)
        BY OneMore
      <4> QED BY <3>1, <3>3, <4>1, Zenon
    <3>8. ErrorsAre(errors, RowsIn(job, S \cup {p}))'
      BY <1>3, <3>1, <3>5, <3>6, <3>7, Zenon
    <3>9. g # "events" /\ g # "usage" /\ g # "series"
      BY <2>4
    <3> QED BY <1>1, <3>8, <3>9, Zenon DEF DataIs
  <2>5. CASE g = "series"
    <3>1. PICK t, v, X : t = series /\ v = series' /\ X = SeriesIn(j, S)
      OBVIOUS
    <3>2. SeriesAre(j, t, X)
      BY <1>3, <2>5, <3>1 DEF DataIs
    <3>3. rows = j[p].series
      BY <1>2, <1>3, <2>5 DEF TraceRows
    <3>4. IsFiniteSet(X) /\ (\A i \in X : SeriesAt(j, i) \in SeriesRow) /\ X \cap SeriesIndex(j, p) = {}
      BY <2>2, <3>1, OneMore
    <3>5. SeriesAre(j, Loop("series", t, j[p].series), X \cup SeriesIndex(j, p))
      BY <2>3, <3>2, <3>4, SeriesLoaded
    <3>6. v = Loop("series", t, j[p].series)
      BY <2>5, <3>1, <3>3 DEF LoadErrorsPerLineTraces
    <3>7. SeriesIn(j, S \cup {p}) = X \cup SeriesIndex(j, p)
      BY <3>1, OneMore
    <3>8. SeriesAre(job, series, SeriesIn(job, S \cup {p}))'
      BY <1>3, <3>1, <3>5, <3>6, <3>7, Zenon
    <3>9. g # "events" /\ g # "usage" /\ g # "errors"
      BY <2>5
    <3> QED BY <1>1, <3>8, <3>9, Zenon DEF DataIs
  <2> QED BY <1>7, <2>4, <2>5
<1> QED
  BY <1>6, <1>7, GroupsAre

\* Loading a trace adds its process, which had not been loaded, to those of its group.
LEMMA LoadStep ==
    ASSUME RInv, IdsOwn, NEW i \in Ids, Load(i)
    PROVE  RInv'
<1>1. UNCHANGED procs /\ UNCHANGED <<job, done, trace, walks, before>>
  BY DEF Load, procs
<1>2. TracesOK' /\ \A p, g : Closed(p, g)' <=> Closed(p, g)
  BY <1>1, SameTraces DEF RInv
<1>3. RType /\ TracesOK /\ Ids' = Ids /\ command # "idle" /\ walks = <<>>
  BY DEF RInv, Ids, Load
<1>4. PICK n \in DOMAIN Group :
          LET g == Group[n]
              t == trace[g][i]
          IN  /\ i \in found[g] /\ \A m \in 1..(n - 1) : found[Group[m]] = {}
              /\ IF t.status # "complete"
                 THEN /\ command' = "idle"
                      /\ found' = [o \in ToSet(Group) |-> {}]
                      /\ UNCHANGED data
                 ELSE /\ CASE g = "events" -> LoadEvents(t.rows)
                           [] g = "usage" -> LoadExponentUsageTraces(t.rows)
                           [] g = "errors" -> LoadRoundingErrorTraces(t.rows)
                           [] g = "series" -> LoadErrorsPerLineTraces(t.rows)
                      /\ found' = [found EXCEPT ![g] = @ \ {i}]
                      /\ UNCHANGED command
  BY Zenon DEF Load
<1>5. PICK g, t : g = Group[n] /\ t = trace[g][i]
  OBVIOUS
<1>6. g \in Groups
  BY <1>5, GroupsAre
<1>7. i \in found[g]
  BY <1>4, <1>5
<1>8. \/ t.status # "complete" /\ command' = "idle" /\ found' = [o \in Groups |-> {}]
      \/ /\ t.status = "complete" /\ command' = command /\ found' = [found EXCEPT ![g] = @ \ {i}]
         /\ CASE g = "events" -> LoadEvents(t.rows)
              [] g = "usage" -> LoadExponentUsageTraces(t.rows)
              [] g = "errors" -> LoadRoundingErrorTraces(t.rows)
              [] g = "series" -> LoadErrorsPerLineTraces(t.rows)
  BY <1>4, <1>5, Zenon DEF Groups
<1>9. command' \in {"idle", "report", "show"} /\ found' \in [Groups -> SUBSET Ids]
  BY <1>3, <1>6, <1>8 DEF RType
<1>10. RType'
  <2>1. /\ job' \in [Proc -> Job]
        /\ done' \in [Proc -> Nat] /\ \A p \in Proc : done'[p] <= Len(Operations(job'[p]))
        /\ DOMAIN trace' = Groups /\ \A o \in Groups : trace'[o] = [h \in Ids |-> trace'[o][h]]
        /\ before' \in [Groups -> SUBSET Proc]
        /\ walks' \in {<<"events", "usage", "errors", "series">>, <<"usage", "errors", "series">>,
                  <<"errors", "series">>, <<"series">>, <<"events", "errors">>, <<"errors">>, <<>>}
    BY <1>1, <1>3, Zenon DEF RType
  <2> QED BY <1>3, <1>9, <2>1, Zenon DEF RType
<1>11. CASE command' = "idle"
  BY <1>2, <1>10, <1>11, IdleStep
<1>12. CASE command' # "idle"
  <2>1. t.status = "complete" /\ command' = command /\ found' = [found EXCEPT ![g] = @ \ {i}]
    BY <1>8, <1>12
  <2>2. /\ g = "events" => LoadEvents(t.rows)
        /\ g = "usage" => LoadExponentUsageTraces(t.rows)
        /\ g = "errors" => LoadRoundingErrorTraces(t.rows)
        /\ g = "series" => LoadErrorsPerLineTraces(t.rows)
    BY <1>6, <1>8, <1>12, GroupsAre
  <2>3. found'[g] = found[g] \ {i} /\ \A o \in Groups \ {g} : found'[o] = found[o]
    BY <1>3, <1>6, <2>1 DEF RType
  <2>4. BeforeOK'
    BY <1>1, <1>2, <2>1 DEF RInv, BeforeOK
  <2>5. ASSUME NEW o \in Groups, o # g PROVE \E S \in SUBSET Proc : IsLoaded(o, S)'
    <3>1. PICK S \in SUBSET Proc : IsLoaded(o, S)
      BY <1>3 DEF RInv, AllLoaded
    <3>2. DataIs(o, S)'
      <4>1. DataIs(o, S)
        BY <3>1 DEF IsLoaded
      <4>2. /\ g # "events" => UNCHANGED <<events, inputs>>
            /\ g # "usage" => UNCHANGED <<bins, usedBy>>
            /\ g # "errors" => UNCHANGED errors
            /\ g # "series" => UNCHANGED series
        BY <1>6, <2>2, GroupsAre DEF LoadEvents, LoadExponentUsageTraces, LoadRoundingErrorTraces, LoadErrorsPerLineTraces
      <4> QED BY <1>1, <2>5, <4>1, <4>2 DEF DataIs
    <3> QED BY <1>1, <1>2, <2>1, <2>3, <2>5, <3>1, <3>2 DEF IsLoaded
  <2>6. \E S \in SUBSET Proc : IsLoaded(g, S)'
    <3>1. PICK S \in SUBSET Proc : IsLoaded(g, S)
      BY <1>3, <1>6 DEF RInv, AllLoaded
    <3>2. PICK p \in Proc : i = Id[p]
      BY DEF Ids
    <3>3. p \notin S
      BY <1>7, <3>1, <3>2 DEF IsLoaded
    <3>4. Closed(p, g) /\ DataIs(g, S \cup {p})'
      <4>1. (\A q \in S : Closed(q, g)) /\ DataIs(g, S)
        BY <3>1 DEF IsLoaded
      <4>2. PICK rows : rows = t.rows
        OBVIOUS
      <4>3. t = trace[g][Id[p]] /\ trace[g][Id[p]].status = "complete"
        BY <1>5, <2>1, <3>2
      <4>4. rows = trace[g][Id[p]].rows
        BY <4>2, <4>3
      <4>5. /\ g = "events" => LoadEvents(rows)
            /\ g = "usage" => LoadExponentUsageTraces(rows)
            /\ g = "errors" => LoadRoundingErrorTraces(rows)
            /\ g = "series" => LoadErrorsPerLineTraces(rows)
        BY <2>2, <4>2, Zenon
      <4> QED BY <1>1, <1>3, <1>6, <3>3, <4>1, <4>3, <4>4, <4>5, TraceLoaded
    <3>5. \A q \in S \cup {p} : Closed(q, g)' /\ Id[q] \notin found'[g]
      BY <1>2, <2>3, <3>1, <3>2, <3>4 DEF IsLoaded
    <3>6. ASSUME g \notin ToSet(walks'), command' = "report" \/ g \in {"events", "errors"}, NEW q \in before'[g]
          PROVE  q \in S \cup {p} \/ Id[q] \in found'[g]
      <4>1. q \in before[g] /\ q \in Proc
        BY <1>1, <1>3, <1>6, <3>6 DEF RType
      <4>2. q \in S \/ Id[q] \in found[g]
        BY <1>1, <2>1, <3>1, <3>6, <4>1 DEF IsLoaded
      <4>3. Id[q] = i => q = p
        BY <3>2, <4>1 DEF IdsOwn
      <4> QED BY <2>3, <4>2, <4>3
    <3>7. walks' = <<>>
      BY <1>1, <1>3
    <3>8. IsLoaded(g, S \cup {p})'
      BY <3>4, <3>5, <3>6, <3>7 DEF IsLoaded
    <3> QED BY <3>8
  <2>7. AllLoaded'
    BY <2>5, <2>6 DEF AllLoaded
  <2> QED BY <1>2, <1>10, <2>4, <2>7 DEF RInv
<1> QED
  BY <1>11, <1>12

\* Making a report, a query or a removal ends or does not start a command.
LEMMA OtherStep ==
    ASSUME RInv, UNCHANGED <<job, done, walks, found, before>>,
           command' = "idle",
           trace' = trace \/ trace' = [g \in Groups |-> [i \in Ids |-> Absent]]
    PROVE  RInv'
<1>1. RType /\ TracesOK /\ Ids' = Ids
  BY DEF RInv, Ids
<1>2. RType'
  <2>1. DOMAIN trace' = Groups /\ \A g \in Groups : trace'[g] = [i \in Ids |-> trace'[g][i]]
    BY <1>1 DEF RType
  <2>2. /\ job' \in [Proc -> Job]
        /\ done' \in [Proc -> Nat] /\ \A p \in Proc : done'[p] <= Len(Operations(job'[p]))
        /\ found' \in [Groups -> SUBSET Ids] /\ before' \in [Groups -> SUBSET Proc]
        /\ walks' \in {<<"events", "usage", "errors", "series">>, <<"usage", "errors", "series">>,
                  <<"errors", "series">>, <<"series">>, <<"events", "errors">>, <<"errors">>, <<>>}
    BY <1>1, Zenon DEF RType
  <2> QED BY <1>1, <2>1, <2>2, Zenon DEF RType
<1>3. TracesOK'
  <2>1. CASE trace' = trace
    BY <2>1, SameTraces DEF RInv, procs
  <2>2. CASE trace' = [g \in Groups |-> [i \in Ids |-> Absent]]
    <3>1. \A p \in Proc : \A g \in Groups : trace'[g][Id[p]] = Absent
      BY <2>2 DEF Ids
    <3> QED BY <3>1 DEF TracesOK, TraceIs
  <2> QED BY <2>1, <2>2
<1> QED
  BY <1>2, <1>3, IdleStep

\* Every step keeps the invariant.
LEMMA RStep ==
    ASSUME RInv, IdsOwn, [RNext]_rvars
    PROVE  RInv'
<1>1. CASE \E p \in Proc : Write(p)
  BY <1>1, WriteStep
<1>2. CASE \E c \in {"report", "show"} : Start(c)
  BY <1>2, StartStep
<1>3. CASE Walk
  BY <1>3, WalkStep
<1>4. CASE \E i \in Ids : Load(i)
  BY <1>4, LoadStep
<1>5. CASE CreateRootReport
  <2>1. UNCHANGED <<job, done, trace, walks, found, before>> /\ command' = "idle"
    BY <1>5 DEF CreateRootReport, procs
  <2> QED BY <2>1, OtherStep
<1>6. CASE CreateTextReport
  <2>1. UNCHANGED <<job, done, trace, walks, found, before>> /\ command' = "idle"
    BY <1>6 DEF CreateTextReport, procs
  <2> QED BY <2>1, OtherStep
<1>7. CASE \E f \in File, k \in ToSet(Events) : ExecuteQuery(f, [o \in ToSet(Events) |-> IF o = k THEN 1 ELSE 0])
  <2>1. PICK f, least : ExecuteQuery(f, least)
    BY <1>7
  <2>2. UNCHANGED <<job, done, trace, walks, found, before>> /\ command' = "idle"
    BY <2>1 DEF ExecuteQuery, procs, Other
  <2> QED BY <2>2, OtherStep
<1>8. CASE RemoveReportDir
  <2>1. UNCHANGED <<job, done, trace, walks, found, before>> /\ command' = "idle"
    BY <1>8 DEF RemoveReportDir, procs, Other
  <2> QED BY <2>1, OtherStep
<1>9. CASE RemoveTraces
  <2>1. UNCHANGED <<job, done, walks, found, before>> /\ command' = "idle" /\ trace' = [g \in Groups |-> [i \in Ids |-> Absent]]
    BY <1>9 DEF RemoveTraces, Other, Groups
  <2> QED BY <2>1, OtherStep
<1>10. CASE UNCHANGED rvars
  <2>1. UNCHANGED <<job, done, trace, walks, found, before, command>> /\ UNCHANGED procs /\ UNCHANGED <<events, inputs, bins, usedBy, errors, series>>
    BY <1>10 DEF rvars, procs, data
  <2>2. TracesOK' /\ \A p, g : Closed(p, g)' <=> Closed(p, g)
    BY <2>1, SameTraces DEF RInv
  <2>3. RType' /\ BeforeOK'
    <3>1. RType /\ BeforeOK /\ Ids' = Ids
      BY DEF RInv, Ids
    <3>2. RType'
      BY <2>1, <3>1, Zenon DEF RType
    <3> QED BY <2>1, <2>2, <3>1, <3>2 DEF BeforeOK
  <2>4. AllLoaded'
    <3>1. AllLoaded
      BY DEF RInv
    <3>2. \A g, S : IsLoaded(g, S) => IsLoaded(g, S)'
      BY <2>1, <2>2 DEF IsLoaded, DataIs
    <3> QED BY <2>1, <3>1, <3>2 DEF AllLoaded
  <2> QED BY <2>2, <2>3, <2>4 DEF RInv
<1> QED
  BY <1>1, <1>2, <1>3, <1>4, <1>5, <1>6, <1>7, <1>8, <1>9, <1>10 DEF RNext

\* The traces are in order, and the tables have those that are loaded.
LEMMA RAlways ==
    ASSUME IdsOwn
    PROVE  RSpec => []RInv
<1>1. RInit => RInv
  BY RInitially
<1>2. RInv /\ [RNext]_rvars => RInv'
  BY RStep
<1> QED
  BY <1>1, <1>2, PTL DEF RSpec
-----------------------------------------------------------------------------
(* The report of what is loaded.                                           *)

\* Once all traces that have been found are loaded, the tables have those of a
\* set of processes that the walk may have found.
LEMMA WalkedLoaded ==
    ASSUME RInv, command # "idle", walks = <<>>, \A g \in DOMAIN found : found[g] = {},
           NEW g \in Groups, command = "report" \/ g \in {"events", "errors"}
    PROVE  \E S \in Walked(g) :
               /\ IsFiniteSet(S) /\ DataIs(g, S)
               /\ \A p \in S : IsJob(job[p]) /\ (g \in {"events", "usage"} <=> job[p].runtime = "exceptions")
<1>1. PICK S \in SUBSET Proc : IsLoaded(g, S)
  BY DEF RInv, AllLoaded
<1>2. g \notin ToSet(walks)
  <2>1. DOMAIN walks = {}
    OBVIOUS
  <2> QED BY <2>1 DEF ToSet
<1>3. found[g] = {}
  BY DEF RInv, RType
<1>4. before[g] \subseteq S
  BY <1>1, <1>2, <1>3 DEF IsLoaded
<1>5. \A p \in S : p \in Proc /\ Closed(p, g)
  BY <1>1 DEF IsLoaded
<1>6. S \in Walked(g)
  BY <1>4, <1>5 DEF Walked
<1>7. IsFiniteSet(S)
  BY FS_Subset, ReportAssumption DEF ReportAssumption
<1>8. \A p \in S : IsJob(job[p]) /\ (g \in {"events", "usage"} <=> job[p].runtime = "exceptions")
  BY <1>5, ClosedRuntime DEF RInv
<1>9. DataIs(g, S)
  BY <1>1 DEF IsLoaded
<1> QED
  BY <1>6, <1>7, <1>8, <1>9

\* The words of the properties and those of the tables.
LEMMA SameItems ==
    ASSUME NEW S, \A p \in S : job[p].runtime = "exceptions"
    PROVE  /\ Items(S) = ItemsIn(job, S) /\ \A i : ItemOf(i) = It(job, i)
           /\ \A k : With(S, k) = Some_(job, ItemsIn(job, S), k)
           /\ \A k, f : Lines(S, k, f) = {It(job, i).line : i \in {i \in Some_(job, ItemsIn(job, S), k) : It(job, i).file = f}}
<1>1. \A i : ItemOf(i) = It(job, i)
  BY DEF ItemOf, It
<1>2. Items(S) = ItemsIn(job, S)
  <2>1. {p \in S : job[p].runtime = "exceptions"} = S
    OBVIOUS
  <2> QED BY <2>1 DEF Items, ItemsIn, ItemsOf
<1>3. \A k : With(S, k) = Some_(job, ItemsIn(job, S), k)
  BY <1>1, <1>2 DEF With, Some_
<1>4. \A k, f : Lines(S, k, f) = {It(job, i).line : i \in {i \in Some_(job, ItemsIn(job, S), k) : It(job, i).file = f}}
  BY <1>1, <1>3 DEF Lines
<1> QED
  BY <1>1, <1>2, <1>3, <1>4

\* The rows of the properties are those of the tables.
LEMMA SameRows ==
    ASSUME NEW S, \A p \in S : job[p].runtime = "errors"
    PROVE  /\ \A f : ErrorRows(S, f) = {r \in RowsIn(job, S) : r.file = f}
           /\ \A f, l : RowsOfLine(S, f, l) = RowsAt(RowsIn(job, S), f, l)
           /\ SeriesRows(S) = SeriesIn(job, S) /\ \A i : SeriesOf(i) = SeriesAt(job, i)
<1>1. OfErrors(S) = S
  BY DEF OfErrors
<1>2. \A f : ErrorRows(S, f) = {r \in RowsIn(job, S) : r.file = f}
  BY <1>1 DEF ErrorRows, RowsIn
<1>3. \A f, l : RowsOfLine(S, f, l) = RowsAt(RowsIn(job, S), f, l)
  BY <1>2 DEF RowsOfLine, RowsAt
<1>4. SeriesRows(S) = SeriesIn(job, S)
  BY <1>1 DEF SeriesRows, SeriesIn, SeriesIndex
<1>5. \A i : SeriesOf(i) = SeriesAt(job, i)
  BY DEF SeriesOf, SeriesAt
<1> QED
  BY <1>2, <1>3, <1>4, <1>5

\* An empty function is the empty sequence.
LEMMA EmptyFunction ==
    ASSUME NEW f, f = [d \in DOMAIN f |-> f[d]]
    PROVE  f = <<>> <=> DOMAIN f = {}
<1>1. <<>> = [d \in {} |-> f[d]]
  OBVIOUS
<1> QED
  BY <1>1

\* The errors of a table t like that of the generator.
LEMMA ErrorsShown ==
    ASSUME NEW S, \A p \in S : job[p].runtime = "errors", ErrorsAre(errors, RowsIn(job, S)),
           NEW t, \A f \in File : DOMAIN t[f] = DOMAIN errors[f] /\ \A l \in DOMAIN errors[f] : t[f][l] = errors[f][l]
    PROVE  ErrorsOfRun(S, t)
<1> SUFFICES ASSUME NEW f \in File
             PROVE  /\ DOMAIN t[f] = {r.line : r \in ErrorRows(S, f)}
                    /\ \A l \in DOMAIN t[f] :
                           LET rows == RowsOfLine(S, f, l)
                               relative == {r.relative : r \in rows} \ {Nan}
                           IN  /\ t[f][l][2] \in relative \cup {0}
                               /\ \A e \in relative : e <= t[f][l][2]
                               /\ t[f][l][1] \in {r.error : r \in rows} \cup {0}
  BY Zenon DEF ErrorsOfRun
<1>1. DOMAIN t[f] = {r.line : r \in ErrorRows(S, f)}
  BY SameRows DEF ErrorsAre
<1>2. ASSUME NEW l \in DOMAIN t[f], NEW rows, rows = RowsOfLine(S, f, l)
      PROVE  /\ t[f][l][2] \in ({r.relative : r \in rows} \ {Nan}) \cup {0}
             /\ \A e \in {r.relative : r \in rows} \ {Nan} : e <= t[f][l][2]
             /\ t[f][l][1] \in {r.error : r \in rows} \cup {0}
  <2>1. PICK v : v = t[f][l]
    OBVIOUS
  <2>2. v = errors[f][l] /\ l \in DOMAIN errors[f]
    BY <2>1
  <2>3. rows = RowsAt(RowsIn(job, S), f, l)
    BY <1>2, SameRows
  <2>4. EntryOf(v, rows)
    BY <2>2, <2>3 DEF ErrorsAre
  <2> QED BY <2>1, <2>4 DEF EntryOf
<1> QED
  BY <1>1, <1>2

\* The series of plots like those of the generator.
LEMMA SeriesShown ==
    ASSUME NEW S, \A p \in S : job[p].runtime = "errors", SeriesAre(job, series, SeriesIn(job, S)),
           NEW plots, plots = [l \in {l \in DOMAIN series : series[l] # <<>>} |-> series[l]]
    PROVE  SeriesOfRun(S, plots)
<1> SUFFICES ASSUME NEW l
             PROVE  /\ Len(Lookup(plots, l, <<>>)) =
                           SumFunction([r \in {r \in SeriesRows(S) : SeriesOf(r).line = l /\ SeriesOf(r).values # <<>>}
                                            |-> Len(SeriesOf(r).values)])
                    /\ \A r \in {r \in SeriesRows(S) : SeriesOf(r).line = l /\ SeriesOf(r).values # <<>>} :
                           SeriesOf(r).values \in SubSeqs(Lookup(plots, l, <<>>))
  BY Zenon DEF SeriesOfRun
<1>1. PICK A : A = {r \in SeriesRows(S) : SeriesOf(r).line = l /\ SeriesOf(r).values # <<>>}
  OBVIOUS
<1>2. A = OfLine(job, SeriesIn(job, S), l) /\ \A i : SeriesOf(i) = SeriesAt(job, i)
  BY <1>1, SameRows DEF OfLine
<1>3. PICK s : s = Lookup(plots, l, <<>>)
  OBVIOUS
<1>4. s = Lookup(series, l, <<>>)
  BY <1>3 DEF Lookup
<1>5. LineIs(job, s, SeriesIn(job, S), l)
  BY <1>4, Zenon DEF SeriesAre
<1>6. [r \in A |-> Len(SeriesOf(r).values)] = [r \in OfLine(job, SeriesIn(job, S), l) |-> Len(SeriesAt(job, r).values)]
  BY <1>2
<1>7. Len(s) = SumFunction([r \in A |-> Len(SeriesOf(r).values)])
  BY <1>5, <1>6, Zenon DEF LineIs
<1>8. \A r \in A : SeriesOf(r).values \in SubSeqs(s)
  BY <1>2, <1>5, Zenon DEF LineIs
<1> QED
  BY <1>1, <1>3, <1>7, <1>8, Zenon

\* The use of exponents, of a report like that of the generator.
LEMMA UsageShown ==
    ASSUME NEW S, \A p \in S : job[p].runtime = "exceptions", UsageAre(job, bins, usedBy, ItemsIn(job, S)),
           NEW r, r.instructions = [w \in Width |-> Instructions(w)], r.histograms = {w \in Width : bins[w] # <<>>}
    PROVE  UsageOfRun(S, r)
<1> SUFFICES ASSUME NEW w \in Width
             PROVE  /\ r.instructions[w] =
                           SumFunction([i \in Items(S) |->
                               LET c == ItemOf(i).exponents[w] IN SumFunction([e \in DOMAIN c \ {0} |-> c[e]])])
                    /\ w \in r.histograms <=> r.instructions[w] # 0
  BY Zenon DEF UsageOfRun
<1>1. r.instructions[w] = SumFunction(usedBy[w])
  BY DEF Instructions
<1>2. PICK X : X = ItemsIn(job, S)
  OBVIOUS
<1>3. SumFunction(usedBy[w]) = SumFunction([i \in X |-> Uses(It(job, i).exponents[w])])
  BY <1>2, Zenon DEF UsageAre
<1>4. [i \in X |-> Uses(It(job, i).exponents[w])] =
          [i \in Items(S) |-> LET c == ItemOf(i).exponents[w] IN SumFunction([e \in DOMAIN c \ {0} |-> c[e]])]
  <2>1. Items(S) = X /\ \A i : ItemOf(i) = It(job, i)
    BY <1>2, SameItems
  <2> QED BY <2>1 DEF Uses
<1>5. w \in r.histograms <=> DOMAIN bins[w] # {}
  <2>1. bins[w] = [d \in DOMAIN bins[w] |-> bins[w][d]]
    BY Zenon DEF UsageAre
  <2>2. bins[w] = <<>> <=> DOMAIN bins[w] = {}
    BY <2>1, EmptyFunction
  <2> QED BY <2>2
<1>6. DOMAIN bins[w] = {} <=> SumFunction(usedBy[w]) = 0
  BY Zenon DEF UsageAre
<1>7. r.instructions[w] =
          SumFunction([i \in Items(S) |-> LET c == ItemOf(i).exponents[w] IN SumFunction([e \in DOMAIN c \ {0} |-> c[e]])])
  BY <1>1, <1>3, <1>4, Zenon
<1> QED
  BY <1>1, <1>5, <1>6, <1>7, Zenon

\* The totals and inputs of events.
LEMMA EventsShown ==
    ASSUME NEW S, IsFiniteSet(S), \A p \in S : IsJob(job[p]) /\ job[p].runtime = "exceptions",
           EventsAre(job, events, inputs, ItemsIn(job, S)),
           NEW r, r.totals = Totals, r.inputs = inputs
    PROVE  EventsOfRun(S, r)
<1> SUFFICES ASSUME NEW k \in Kinds
             PROVE  /\ r.totals[k] = SumFunction([i \in Items(S) |-> ItemOf(i).counts[k]])
                    /\ r.inputs[k] = {job[i[1]].input : i \in With(S, k)}
  BY Zenon DEF EventsOfRun, Kinds
<1>1. PICK X : X = ItemsIn(job, S)
  OBVIOUS
<1>2. DOMAIN events = Kinds
  BY DEF EventsAre
<1>3. r.totals[k] = SumFunction([f \in File |-> SumOf(events[k][f])])
  BY <1>2 DEF Totals, GetEvents
<1>4. SumFunction([f \in File |-> SumOf(events[k][f])]) = SumFunction([i \in X |-> It(job, i).counts[k]])
  BY <1>1, Zenon DEF EventsAre
<1>5. Items(S) = X /\ (\A i : ItemOf(i) = It(job, i)) /\ With(S, k) = Some_(job, X, k)
  BY <1>1, SameItems
<1>6. [i \in X |-> It(job, i).counts[k]] = [i \in Items(S) |-> ItemOf(i).counts[k]]
  BY <1>5
<1>7. \A i \in X : It(job, i).input = job[i[1]].input
  BY <1>1, ItemsTyped
<1>8. inputs[k] = {It(job, i).input : i \in Some_(job, X, k)}
  BY <1>1 DEF EventsAre
<1>9. r.inputs[k] = {job[i[1]].input : i \in With(S, k)}
  BY <1>5, <1>7, <1>8 DEF Some_
<1>10. r.totals[k] = SumFunction([i \in Items(S) |-> ItemOf(i).counts[k]])
  BY <1>3, <1>4, <1>6, Zenon
<1> QED
  BY <1>9, <1>10

\* The lines of a page.
LEMMA PageLines ==
    ASSUME NEW n, NEW lines, \A l \in lines : l \in Int, NEW page, page = LinesToHighlight(n, lines)
    PROVE  /\ {l \in DOMAIN page : page[l] = "H"} = lines \cap 1..n
           /\ \A l \in DOMAIN page : page[l] = "P" => {l - 1, l + 1} \cap lines # {}
<1> DEFINE Near(k) == {m \in 1..n : \E l \in lines : m = l - k \/ m = l + k}
           All == Near(0) \cup Near(1) \cup Near(2)
<1>1. page = [l \in All |-> IF l \in lines THEN "H" ELSE IF l \in Near(1) THEN "P" ELSE "D"]
  BY DEF LinesToHighlight
<1>2. Near(0) = lines \cap 1..n
  OBVIOUS
<1>3. \A l \in Near(1) : {l - 1, l + 1} \cap lines # {}
  <2> TAKE l \in Near(1)
  <2>1. PICK m \in lines : l = m - 1 \/ l = m + 1
    OBVIOUS
  <2>2. m \in Int
    OBVIOUS
  <2>3. l + 1 = m \/ l - 1 = m
    BY <2>1, <2>2
  <2> QED BY <2>3
<1>4. DOMAIN page = All /\ \A l \in All : /\ page[l] = "H" <=> l \in lines
                                          /\ page[l] = "P" => l \in Near(1)
  <2> HIDE DEF Near
  <2> QED BY <1>1
<1>5. All \subseteq 1..n
  OBVIOUS
<1> QED
  <2> HIDE DEF Near
  <2> QED BY <1>2, <1>3, <1>4, <1>5

\* The pages, and the numbers of files and of lines.
LEMMA PagesShown ==
    ASSUME NEW S, IsFiniteSet(S), \A p \in S : IsJob(job[p]) /\ job[p].runtime = "exceptions",
           EventsAre(job, events, inputs, ItemsIn(job, S)),
           NEW r, r.pages = [k \in {k \in Kinds : GetEvents(k) # 0} |-> EventReport(k, r.length)],
           r.files = Cardinality(Affected), r.lines = GetLinesAffected
    PROVE  PagesOfRun(S, r)
<1>1. PICK X : X = ItemsIn(job, S)
  OBVIOUS
<1>2. IsFiniteSet(X) /\ \A i \in X : IsItem(It(job, i))
  BY <1>1, ItemsTyped
<1>3. /\ \A i : ItemOf(i) = It(job, i)
      /\ \A k : With(S, k) = Some_(job, X, k)
      /\ \A k, f : Lines(S, k, f) = {It(job, i).line : i \in {i \in Some_(job, X, k) : It(job, i).file = f}}
  BY <1>1, SameItems
<1>4. DOMAIN events = Kinds /\ \A k \in Kinds : \A f \in File :
          events[k][f] \in Seq(Located) /\ LinesIn(events[k][f]) = Lines(S, k, f)
  <2>1. \A k \in Kinds : \A f \in File :
            LinesIn(events[k][f]) = {It(job, i).line : i \in {i \in Some_(job, X, k) : It(job, i).file = f}}
    BY <1>1, Zenon DEF EventsAre
  <2>2. events \in [Kinds -> [File -> Seq(Located)]]
    BY Zenon DEF EventsAre
  <2> QED BY <1>3, <2>1, <2>2
<1>5. \A k \in Kinds : \A f \in File :
          /\ LinesOf(k, f) = Lines(S, k, f) /\ \A l \in Lines(S, k, f) : l \in Int
          /\ events[k][f] # <<>> <=> Lines(S, k, f) # {}
  <2> TAKE k \in Kinds
  <2> TAKE f \in File
  <2>1. PICK s : s = events[k][f]
    OBVIOUS
  <2>2. s \in Seq(Located) /\ LinesIn(s) = Lines(S, k, f)
    BY <1>4, <2>1
  <2>3. DOMAIN s = 1..Len(s) /\ Len(s) \in Nat /\ \A n \in DOMAIN s : s[n] \in Located
    BY <2>2
  <2>4. \A l \in LinesIn(s) : l \in Int
    BY <2>3 DEF LinesIn, Located
  <2>5. s # <<>> <=> LinesIn(s) # {}
    <3>1. s # <<>> => 1 \in DOMAIN s
      BY <2>2, <2>3
    <3>2. s = <<>> => DOMAIN s = {}
      OBVIOUS
    <3> QED BY <3>1, <3>2 DEF LinesIn
  <2>6. LinesOf(k, f) = LinesIn(s)
    BY <2>1 DEF LinesOf, LinesIn
  <2> QED BY <2>1, <2>2, <2>4, <2>5, <2>6
<1>6. \A k \in Kinds : GetEvents(k) # 0 <=> With(S, k) # {}
  <2> TAKE k \in Kinds
  <2>1. PICK c : c = [i \in X |-> It(job, i).counts[k]]
    OBVIOUS
  <2>2. c \in [X -> Nat]
    BY <1>2, <2>1 DEF IsItem, Kinds
  <2>3. SumFunction(c) = 0 <=> \A i \in X : c[i] = 0
    BY <1>2, <2>2, SumZero
  <2>4. GetEvents(k) = SumFunction(c)
    <3>1. SumFunction([f \in File |-> SumOf(events[k][f])]) = SumFunction([i \in X |-> It(job, i).counts[k]])
      BY <1>1, Zenon DEF EventsAre
    <3> QED BY <2>1, <3>1, Zenon DEF GetEvents
  <2>5. Some_(job, X, k) # {} <=> \E i \in X : c[i] # 0
    BY <2>1 DEF Some_
  <2> QED BY <1>3, <2>3, <2>4, <2>5
<1>7. PICK shown : shown = {k \in Kinds : GetEvents(k) # 0}
  OBVIOUS
<1>8. DOMAIN r.pages = shown /\ \A k \in shown : r.pages[k] = EventReport(k, r.length)
  BY <1>7
<1>9. DOMAIN r.pages = {k \in Kinds : With(S, k) # {}}
  BY <1>6, <1>7, <1>8
<1>10. ASSUME NEW k \in DOMAIN r.pages, NEW f \in File,
              NEW page, page = IF f \in DOMAIN r.pages[k] THEN r.pages[k][f] ELSE <<>>
       PROVE  /\ {l \in DOMAIN page : page[l] = "H"} = Lines(S, k, f) \cap 1..r.length[f]
              /\ \A l \in DOMAIN page : page[l] = "P" => {l - 1, l + 1} \cap Lines(S, k, f) # {}
  <2>1. k \in Kinds /\ r.pages[k] = EventReport(k, r.length)
    BY <1>7, <1>8
  <2>2. PICK pages : pages = r.pages[k]
    OBVIOUS
  <2>3. pages = [o \in {o \in File : events[k][o] # <<>>} |-> LinesToHighlight(r.length[o], LinesOf(k, o))]
    BY <2>1, <2>2 DEF EventReport
  <2>4. CASE events[k][f] = <<>>
    <3>1. f \notin DOMAIN pages
      BY <2>3, <2>4
    <3>2. DOMAIN page = {}
      BY <1>10, <2>2, <3>1
    <3>3. Lines(S, k, f) = {}
      BY <1>5, <2>1, <2>4
    <3> QED BY <3>2, <3>3
  <2>5. CASE events[k][f] # <<>>
    <3>1. f \in DOMAIN pages /\ pages[f] = LinesToHighlight(r.length[f], LinesOf(k, f))
      BY <2>3, <2>5
    <3>2. PICK lines : lines = Lines(S, k, f)
      OBVIOUS
    <3>3. page = LinesToHighlight(r.length[f], lines) /\ \A l \in lines : l \in Int
      BY <1>5, <1>10, <2>1, <2>2, <3>1, <3>2
    <3>4. /\ {l \in DOMAIN page : page[l] = "H"} = lines \cap 1..r.length[f]
          /\ \A l \in DOMAIN page : page[l] = "P" => {l - 1, l + 1} \cap lines # {}
      BY <3>3, PageLines
    <3> QED BY <3>2, <3>4
  <2> QED BY <2>4, <2>5
<1>11. PICK all : all = UNION {With(S, k) : k \in Kinds}
  OBVIOUS
<1>12. \A k \in Kinds : \A f \in File : \A l :
           l \in Lines(S, k, f) <=> \E i \in With(S, k) : ItemOf(i).file = f /\ ItemOf(i).line = l
  BY DEF Lines
<1>13. \A k \in Kinds : \A i \in With(S, k) : ItemOf(i).file \in File
  BY <1>2, <1>3 DEF Some_, IsItem
<1>14. Affected = {ItemOf(i).file : i \in all}
  <2>1. ASSUME NEW f \in Affected PROVE \E i \in all : f = ItemOf(i).file
    <3>1. PICK k \in Kinds : f \in File /\ events[k][f] # <<>>
      BY <1>4, <2>1 DEF Affected
    <3>2. PICK l : l \in Lines(S, k, f)
      BY <1>5, <3>1
    <3> QED BY <1>11, <1>12, <3>1, <3>2
  <2>2. ASSUME NEW i \in all PROVE ItemOf(i).file \in Affected
    <3>1. PICK k \in Kinds : i \in With(S, k)
      BY <1>11
    <3>2. PICK f : f = ItemOf(i).file
      OBVIOUS
    <3>3. f \in File /\ ItemOf(i).line \in Lines(S, k, f)
      BY <1>12, <1>13, <3>1, <3>2
    <3>4. events[k][f] # <<>>
      BY <1>5, <3>3
    <3> QED BY <1>4, <3>2, <3>3, <3>4 DEF Affected
  <2> QED BY <2>1, <2>2
<1>15. UNION {{f} \X UNION {LinesOf(k, f) : k \in DOMAIN events} : f \in File} =
           {<<ItemOf(i).file, ItemOf(i).line>> : i \in all}
  <2>1. \A k \in Kinds : \A f \in File : \A l \in LinesOf(k, f) : \E i \in all : <<f, l>> = <<ItemOf(i).file, ItemOf(i).line>>
    BY <1>5, <1>11, <1>12
  <2>2. \A i \in all : \E k \in Kinds : \E f \in File : \E l \in LinesOf(k, f) : <<ItemOf(i).file, ItemOf(i).line>> = <<f, l>>
    <3> TAKE i \in all
    <3>1. PICK k \in Kinds : i \in With(S, k)
      BY <1>11
    <3>2. PICK f, l : f = ItemOf(i).file /\ l = ItemOf(i).line
      OBVIOUS
    <3>3. f \in File /\ l \in LinesOf(k, f)
      BY <1>5, <1>12, <1>13, <3>1, <3>2
    <3> QED BY <3>2, <3>3
  <2>3. ASSUME NEW x \in UNION {{f} \X UNION {LinesOf(k, f) : k \in DOMAIN events} : f \in File}
        PROVE  x \in {<<ItemOf(i).file, ItemOf(i).line>> : i \in all}
    <3>1. PICK f \in File : x \in {f} \X UNION {LinesOf(k, f) : k \in DOMAIN events}
      OBVIOUS
    <3>2. PICK l \in UNION {LinesOf(k, f) : k \in DOMAIN events} : x = <<f, l>>
      BY <3>1
    <3>3. PICK k \in Kinds : l \in LinesOf(k, f)
      BY <1>4, <3>2
    <3> QED BY <2>1, <3>2, <3>3
  <2>4. ASSUME NEW i \in all
        PROVE  <<ItemOf(i).file, ItemOf(i).line>> \in UNION {{f} \X UNION {LinesOf(k, f) : k \in DOMAIN events} : f \in File}
    <3>1. PICK k \in Kinds, f \in File : \E l \in LinesOf(k, f) : <<ItemOf(i).file, ItemOf(i).line>> = <<f, l>>
      BY <2>2
    <3>2. PICK l \in LinesOf(k, f) : <<ItemOf(i).file, ItemOf(i).line>> = <<f, l>>
      BY <3>1
    <3>3. l \in UNION {LinesOf(o, f) : o \in DOMAIN events}
      BY <1>4
    <3>4. <<f, l>> \in {f} \X UNION {LinesOf(o, f) : o \in DOMAIN events}
      BY <3>3
    <3> QED BY <3>2, <3>4
  <2> QED BY <2>3, <2>4
<1>16. /\ r.files = Cardinality({ItemOf(i).file : i \in all})
       /\ r.lines = Cardinality({<<ItemOf(i).file, ItemOf(i).line>> : i \in all})
  <2>1. r.files = Cardinality({ItemOf(i).file : i \in all})
    BY <1>14
  <2>2. r.lines = Cardinality({<<ItemOf(i).file, ItemOf(i).line>> : i \in all})
    <3>1. PICK a, b : /\ a = UNION {{f} \X UNION {LinesOf(k, f) : k \in DOMAIN events} : f \in File}
                      /\ b = {<<ItemOf(i).file, ItemOf(i).line>> : i \in all}
      OBVIOUS
    <3>2. r.lines = Cardinality(a)
      BY <3>1, Zenon DEF GetLinesAffected
    <3> QED BY <1>15, <3>1, <3>2, Zenon
  <2> QED BY <2>1, <2>2
<1>17. \A k \in DOMAIN r.pages : \A f \in File :
           LET page == IF f \in DOMAIN r.pages[k] THEN r.pages[k][f] ELSE <<>>
           IN  /\ {l \in DOMAIN page : page[l] = "H"} = Lines(S, k, f) \cap 1..r.length[f]
               /\ \A l \in DOMAIN page : page[l] = "P" => {l - 1, l + 1} \cap Lines(S, k, f) # {}
  BY <1>10
<1>18. DOMAIN r.pages = {k \in ToSet(Events) : With(S, k) # {}}
  BY <1>9 DEF Kinds
<1>19. LET those == UNION {With(S, k) : k \in ToSet(Events)}
       IN  /\ r.files = Cardinality({ItemOf(i).file : i \in those})
           /\ r.lines = Cardinality({<<ItemOf(i).file, ItemOf(i).line>> : i \in those})
  BY <1>11, <1>16 DEF Kinds
<1> QED
  BY <1>17, <1>18, <1>19 DEF PagesOfRun

\* A report that is created has the traces of such sets of processes.
LEMMA RootReport ==
    ASSUME RInv, CreateRootReport, report'.status = "complete"
    PROVE  /\ \E S \in Walked("events") : EventsOfRun(S, report') /\ PagesOfRun(S, report')
           /\ \E S \in Walked("usage") : UsageOfRun(S, report')
           /\ \E S \in Walked("errors") :
                  ErrorsOfRun(S, [f \in File |-> IF f \in DOMAIN report'.errors THEN report'.errors[f].errors ELSE <<>>])
           /\ \E S \in Walked("series") : SeriesOfRun(S, report'.plots)
<1>1. command = "report" /\ command # "idle" /\ walks = <<>> /\ \A g \in DOMAIN found : found[g] = {}
  BY DEF CreateRootReport
<1>2. PICK length, failing, written, pages :
          /\ failing = {n \in DOMAIN Events : Fails(Events[n], length)}
          /\ written = {n \in DOMAIN Events : \A m \in failing : n < m}
          /\ pages = [k \in {Events[n] : n \in {m \in written : GetEvents(Events[m]) # 0}} |-> EventReport(k, length)]
          /\ report' = IF failing # {} \/ CodePathsFail
                       THEN [status |-> "partial", pages |-> pages, length |-> length]
                       ELSE [status |-> "complete", pages |-> pages, length |-> length,
                             totals |-> Totals, inputs |-> inputs,
                             files |-> Cardinality(Affected), lines |-> GetLinesAffected,
                             histograms |-> {w \in Width : bins[w] # <<>>},
                             instructions |-> [w \in Width |-> Instructions(w)],
                             errors |-> [f \in {f \in File : errors[f] # <<>>} |-> ErrorTable(f, length)],
                             plots |-> [l \in {l \in DOMAIN series : series[l] # <<>>} |-> series[l]]]
  <2>1. PICK length :
            LET failing == {n \in DOMAIN Events : Fails(Events[n], length)}
                written == {n \in DOMAIN Events : \A m \in failing : n < m}
                pages == [k \in {Events[n] : n \in {m \in written : GetEvents(Events[m]) # 0}} |-> EventReport(k, length)]
            IN  report' = IF failing # {} \/ CodePathsFail
                          THEN [status |-> "partial", pages |-> pages, length |-> length]
                          ELSE [status |-> "complete", pages |-> pages, length |-> length,
                                totals |-> Totals, inputs |-> inputs,
                                files |-> Cardinality(Affected), lines |-> GetLinesAffected,
                                histograms |-> {w \in Width : bins[w] # <<>>},
                                instructions |-> [w \in Width |-> Instructions(w)],
                                errors |-> [f \in {f \in File : errors[f] # <<>>} |-> ErrorTable(f, length)],
                                plots |-> [l \in {l \in DOMAIN series : series[l] # <<>>} |-> series[l]]]
    BY DEF CreateRootReport
  <2> DEFINE failing == {n \in DOMAIN Events : Fails(Events[n], length)}
             written == {n \in DOMAIN Events : \A m \in failing : n < m}
             pages == [k \in {Events[n] : n \in {m \in written : GetEvents(Events[m]) # 0}} |-> EventReport(k, length)]
  <2> WITNESS length, failing, written, pages
  <2> QED BY <2>1, Zenon
<1>3. failing = {} /\ ~CodePathsFail
  BY <1>2
<1>4. PICK r : r = report'
  OBVIOUS
<1>5. r = [status |-> "complete", pages |-> pages, length |-> length,
           totals |-> Totals, inputs |-> inputs,
           files |-> Cardinality(Affected), lines |-> GetLinesAffected,
           histograms |-> {w \in Width : bins[w] # <<>>},
           instructions |-> [w \in Width |-> Instructions(w)],
           errors |-> [f \in {f \in File : errors[f] # <<>>} |-> ErrorTable(f, length)],
           plots |-> [l \in {l \in DOMAIN series : series[l] # <<>>} |-> series[l]]]
  BY <1>2, <1>3, <1>4, Zenon
<1>6. /\ r.pages = pages /\ r.length = length /\ r.totals = Totals /\ r.inputs = inputs
      /\ r.files = Cardinality(Affected) /\ r.lines = GetLinesAffected
      /\ r.histograms = {w \in Width : bins[w] # <<>>} /\ r.instructions = [w \in Width |-> Instructions(w)]
      /\ r.errors = [f \in {f \in File : errors[f] # <<>>} |-> ErrorTable(f, length)]
      /\ r.plots = [l \in {l \in DOMAIN series : series[l] # <<>>} |-> series[l]]
  BY <1>5
<1>7. r.pages = [k \in {k \in Kinds : GetEvents(k) # 0} |-> EventReport(k, r.length)]
  <2>1. written = DOMAIN Events
    BY <1>2, <1>3
  <2>2. Kinds = {Events[n] : n \in DOMAIN Events}
    BY DEF Kinds, ToSet
  <2>3. {Events[n] : n \in {m \in written : GetEvents(Events[m]) # 0}} = {k \in Kinds : GetEvents(k) # 0}
    BY <2>1, <2>2
  <2> QED BY <1>2, <1>6, <2>3
<1>8. \E S \in Walked("events") : EventsOfRun(S, r) /\ PagesOfRun(S, r)
  <2>1. PICK S \in Walked("events") :
            /\ IsFiniteSet(S) /\ DataIs("events", S)
            /\ \A p \in S : IsJob(job[p]) /\ ("events" \in {"events", "usage"} <=> job[p].runtime = "exceptions")
    BY <1>1, WalkedLoaded, GroupsAre
  <2>2. EventsAre(job, events, inputs, ItemsIn(job, S))
    BY <2>1 DEF DataIs
  <2>3. \A p \in S : IsJob(job[p]) /\ job[p].runtime = "exceptions"
    BY <2>1
  <2>4. EventsOfRun(S, r)
    BY <1>6, <2>1, <2>2, <2>3, EventsShown
  <2>5. PagesOfRun(S, r)
    BY <1>6, <1>7, <2>1, <2>2, <2>3, PagesShown
  <2> QED BY <2>4, <2>5
<1>9. \E S \in Walked("usage") : UsageOfRun(S, r)
  <2>1. PICK S \in Walked("usage") :
            /\ IsFiniteSet(S) /\ DataIs("usage", S)
            /\ \A p \in S : IsJob(job[p]) /\ ("usage" \in {"events", "usage"} <=> job[p].runtime = "exceptions")
    BY <1>1, WalkedLoaded, GroupsAre
  <2>2. UsageAre(job, bins, usedBy, ItemsIn(job, S))
    BY <2>1 DEF DataIs
  <2>3. \A p \in S : job[p].runtime = "exceptions"
    BY <2>1
  <2> QED BY <1>6, <2>2, <2>3, UsageShown
<1>10. \E S \in Walked("errors") :
          ErrorsOfRun(S, [f \in File |-> IF f \in DOMAIN r.errors THEN r.errors[f].errors ELSE <<>>])
  <2>1. PICK S \in Walked("errors") :
            /\ IsFiniteSet(S) /\ DataIs("errors", S)
            /\ \A p \in S : IsJob(job[p]) /\ ("errors" \in {"events", "usage"} <=> job[p].runtime = "exceptions")
    BY <1>1, WalkedLoaded, GroupsAre
  <2>2. ErrorsAre(errors, RowsIn(job, S))
    BY <2>1 DEF DataIs
  <2>3. \A p \in S : job[p].runtime = "errors"
    BY <2>1 DEF IsJob
  <2>4. PICK t : t = [f \in File |-> IF f \in DOMAIN r.errors THEN r.errors[f].errors ELSE <<>>]
    OBVIOUS
  <2>5. ASSUME NEW f \in File
        PROVE  DOMAIN t[f] = DOMAIN errors[f] /\ \A l \in DOMAIN errors[f] : t[f][l] = errors[f][l]
    <3>1. CASE errors[f] = <<>>
      <4>1. t[f] = <<>>
        BY <1>6, <2>4, <3>1
      <4> QED BY <3>1, <4>1
    <3>2. CASE errors[f] # <<>>
      <4>1. r.errors[f] = ErrorTable(f, length) /\ f \in DOMAIN r.errors
        BY <1>6, <3>2
      <4>2. t[f] = ErrorTable(f, length).errors
        BY <2>4, <4>1
      <4>3. t[f] = [l \in DOMAIN errors[f] |-> errors[f][l]]
        BY <4>2 DEF ErrorTable
      <4> QED BY <4>3
    <3> QED BY <3>1, <3>2
  <2>6. ErrorsOfRun(S, t)
    BY <2>2, <2>3, <2>5, ErrorsShown
  <2> QED BY <2>4, <2>6, Zenon
<1>11. \E S \in Walked("series") : SeriesOfRun(S, r.plots)
  <2>1. PICK S \in Walked("series") :
            /\ IsFiniteSet(S) /\ DataIs("series", S)
            /\ \A p \in S : IsJob(job[p]) /\ ("series" \in {"events", "usage"} <=> job[p].runtime = "exceptions")
    BY <1>1, WalkedLoaded, GroupsAre
  <2>2. SeriesAre(job, series, SeriesIn(job, S))
    BY <2>1 DEF DataIs
  <2>3. \A p \in S : job[p].runtime = "errors"
    BY <2>1 DEF IsJob
  <2>4. PICK plots : plots = r.plots
    OBVIOUS
  <2>5. plots = [l \in {l \in DOMAIN series : series[l] # <<>>} |-> series[l]]
    BY <1>6, <2>4
  <2>6. SeriesOfRun(S, plots)
    BY <2>2, <2>3, <2>5, SeriesShown
  <2> QED BY <2>4, <2>6
<1> QED
  BY <1>4, <1>8, <1>9, <1>10, <1>11, Zenon

\* So has what is printed instead.
LEMMA TextReport ==
    ASSUME RInv, CreateTextReport
    PROVE  /\ \E S \in Walked("events") : EventsOfRun(S, screen')
           /\ \E S \in Walked("errors") : ErrorsOfRun(S, screen'.errors)
<1>1. command = "show" /\ command # "idle" /\ walks = <<>> /\ \A g \in DOMAIN found : found[g] = {}
  BY DEF CreateTextReport
<1>2. PICK r, locations, abs, relative :
          /\ r = screen'
          /\ r = [totals |-> Totals, inputs |-> inputs, locations |-> locations,
                  errors |-> errors, maxAbs |-> abs, maxRelative |-> relative]
  BY Zenon DEF CreateTextReport
<1>3. r.totals = Totals /\ r.inputs = inputs /\ r.errors = errors
  BY <1>2
<1>4. \E S \in Walked("events") : EventsOfRun(S, r)
  <2>1. PICK S \in Walked("events") :
            /\ IsFiniteSet(S) /\ DataIs("events", S)
            /\ \A p \in S : IsJob(job[p]) /\ ("events" \in {"events", "usage"} <=> job[p].runtime = "exceptions")
    BY <1>1, WalkedLoaded, GroupsAre
  <2>2. EventsAre(job, events, inputs, ItemsIn(job, S))
    BY <2>1 DEF DataIs
  <2>3. \A p \in S : IsJob(job[p]) /\ job[p].runtime = "exceptions"
    BY <2>1
  <2> QED BY <1>3, <2>1, <2>2, <2>3, EventsShown
<1>5. \E S \in Walked("errors") : ErrorsOfRun(S, r.errors)
  <2>1. PICK S \in Walked("errors") :
            /\ IsFiniteSet(S) /\ DataIs("errors", S)
            /\ \A p \in S : IsJob(job[p]) /\ ("errors" \in {"events", "usage"} <=> job[p].runtime = "exceptions")
    BY <1>1, WalkedLoaded, GroupsAre
  <2>2. ErrorsAre(errors, RowsIn(job, S))
    BY <2>1 DEF DataIs
  <2>3. \A p \in S : job[p].runtime = "errors"
    BY <2>1 DEF IsJob
  <2>4. ErrorsOfRun(S, errors)
    BY <2>2, <2>3, ErrorsShown
  <2> QED BY <1>3, <2>4
<1> QED
  BY <1>2, <1>4, <1>5, Zenon

\* Where no two processes have the same name, a report that is created, and
\* what is printed instead of one, shows the traces of a set of processes, whole
\* and once, that has every process that had ended before it was asked for.
\* (fpc_create_report.py 146-284, 343-370, 395-416, 469-824)
THEOREM ReportsFaithful ==
    ASSUME IdsOwn
    PROVE  RSpec => ReportFaithful
<1>1. RSpec => []RInv
  BY RAlways
<1>2. RInv /\ [RNext]_rvars =>
          [/\ CreateRootReport /\ report'.status = "complete" =>
                  /\ \E S \in Walked("events") : EventsOfRun(S, report') /\ PagesOfRun(S, report')
                  /\ \E S \in Walked("usage") : UsageOfRun(S, report')
                  /\ \E S \in Walked("errors") :
                         ErrorsOfRun(S, [f \in File |-> IF f \in DOMAIN report'.errors THEN report'.errors[f].errors ELSE <<>>])
                  /\ \E S \in Walked("series") : SeriesOfRun(S, report'.plots)
           /\ CreateTextReport =>
                  /\ \E S \in Walked("events") : EventsOfRun(S, screen')
                  /\ \E S \in Walked("errors") : ErrorsOfRun(S, screen'.errors)]_rvars
  BY RootReport, TextReport
<1> QED
  BY <1>1, <1>2, PTL DEF RSpec, ReportFaithful
=============================================================================
