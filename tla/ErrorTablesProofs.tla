-------------------------- MODULE ErrorTablesProofs --------------------------
(***************************************************************************)
(* Proofs about ErrorTables and its report, for every number of bins,      *)
(* every hash, every layout of the string cache and every set of names and *)
(* errors.  First what one bin does, then what one table does, then the    *)
(* state machine, and what the tables mean: a memcpy copies the errors of  *)
(* its source exactly, an update of a register is found by the next        *)
(* lookup, and the tables implement ErrorMap.  The last two need that the  *)
(* string cache does not cut or mix up names, which the theorems assume.   *)
(* Last the writer of ErrorReport.  It consists of loops over a sequence,  *)
(* which the model states as folds: first that a fold goes through the     *)
(* states of such a loop, then what holds in each state of the walk over   *)
(* the bins, of the log, and of the printed report.                        *)
(***************************************************************************)
EXTENDS ErrorReport, SequenceTheorems, FiniteSetTheorems, WellFoundedInduction, TLAPS

-----------------------------------------------------------------------------
(* One bin.                                                                *)

\* In a bin without repeated keys, Position finds the one entry of the key.
LEMMA PositionIsUnique ==
    ASSUME NEW S, NEW chain \in Seq(S), Once(chain), NEW k, Holds(chain, k)
    PROVE  /\ Position(chain, k) \in DOMAIN chain
           /\ chain[Position(chain, k)].key = k
           /\ \A i \in DOMAIN chain : chain[i].key = k => i = Position(chain, k)
<1>1. PICK i \in DOMAIN chain : chain[i].key = k
  BY DEF Holds
<1>2. DOMAIN chain \subseteq Nat
  BY LenProperties
<1>3. \A j \in DOMAIN chain : j < i => chain[j].key # k
  BY <1>1, <1>2 DEF Once
<1>4. Position(chain, k) \in DOMAIN chain /\ chain[Position(chain, k)].key = k
  BY <1>1, <1>3 DEF Position
<1> QED
  BY <1>4 DEF Once

\* The place HT_SET writes: the entry of the key, or the end of the list.
Target(chain, k) == IF Holds(chain, k) THEN Position(chain, k) ELSE Len(chain) + 1

\* HT_SET on a bin: what every entry of the result is, and where it was.
LEMMA ChainSetEntries ==
    ASSUME NEW S, NEW chain \in Seq(S), Once(chain), NEW e \in S
    PROVE  /\ ChainSet(chain, e) \in Seq(S)
           /\ DOMAIN chain \subseteq DOMAIN ChainSet(chain, e)
           /\ Target(chain, e.key) \in DOMAIN ChainSet(chain, e)
           /\ ChainSet(chain, e)[Target(chain, e.key)] = e
           /\ Target(chain, e.key) \in DOMAIN chain =>
                 chain[Target(chain, e.key)].key = e.key
           /\ \A i \in DOMAIN ChainSet(chain, e) : i # Target(chain, e.key) =>
                 /\ i \in DOMAIN chain
                 /\ ChainSet(chain, e)[i] = chain[i]
                 /\ chain[i].key # e.key
<1> DEFINE new == ChainSet(chain, e)
<1>1. CASE Holds(chain, e.key)
  <2> DEFINE p == Position(chain, e.key)
  <2>1. /\ p \in DOMAIN chain
        /\ chain[p].key = e.key
        /\ \A i \in DOMAIN chain : chain[i].key = e.key => i = p
    BY <1>1, PositionIsUnique
  <2>2. new = [chain EXCEPT ![p] = e]
    BY <1>1 DEF ChainSet
  <2>3. p \in 1..Len(chain)
    BY <2>1, LenProperties
  <2>4. new \in Seq(S)
    <3> HIDE DEF p
    <3> QED BY <2>2, <2>3, ExceptSeq
  <2>5. DOMAIN new = DOMAIN chain /\ new[p] = e
    BY <2>2, <2>1
  <2>6. \A i \in DOMAIN new : i # p =>
            i \in DOMAIN chain /\ new[i] = chain[i] /\ chain[i].key # e.key
    BY <2>1, <2>2
  <2>7. Target(chain, e.key) = p
    BY <1>1 DEF Target
  <2> QED
    BY <2>1, <2>4, <2>5, <2>6, <2>7
<1>2. CASE ~Holds(chain, e.key)
  <2>1. new = Append(chain, e)
    BY <1>2 DEF ChainSet
  <2>2. /\ new \in Seq(S)
        /\ Len(new) = Len(chain) + 1
        /\ \A i \in 1..Len(chain) : new[i] = chain[i]
        /\ new[Len(chain) + 1] = e
    BY <2>1, AppendProperties
  <2>3. /\ DOMAIN chain = 1..Len(chain) /\ Len(chain) \in Nat
        /\ DOMAIN new = 1..(Len(chain) + 1)
    BY <2>2, LenProperties
  <2>4. \A i \in DOMAIN chain : chain[i].key # e.key
    BY <1>2 DEF Holds
  <2>5. Len(chain) + 1 \in DOMAIN new /\ Len(chain) + 1 \notin DOMAIN chain
    BY <2>3
  <2>6. \A i \in DOMAIN new : i # Len(chain) + 1 => i \in DOMAIN chain
    BY <2>3
  <2>7. DOMAIN chain \subseteq DOMAIN new
    BY <2>3
  <2>8. Target(chain, e.key) = Len(chain) + 1
    BY <1>2 DEF Target
  <2> QED
    BY <2>2, <2>4, <2>5, <2>6, <2>7, <2>8
<1> QED
  BY <1>1, <1>2

\* HT_SET on a bin keeps its keys distinct, adds at most the key set, and
\* changes what is found under that key only.
LEMMA ChainSetLookup ==
    ASSUME NEW S, NEW chain \in Seq(S), Once(chain), NEW e \in S
    PROVE  LET new == ChainSet(chain, e)
           IN  /\ Once(new)
               /\ \A k : Holds(new, k) <=> Holds(chain, k) \/ k = e.key
               /\ EntryOf(new, e.key) = e
               /\ \A k : k # e.key => EntryOf(new, k) = EntryOf(chain, k)
<1> DEFINE new == ChainSet(chain, e)
<1>1. /\ new \in Seq(S)
      /\ DOMAIN chain \subseteq DOMAIN new
  BY ChainSetEntries
<1> DEFINE p == Target(chain, e.key)
<1>2. /\ p \in DOMAIN new
      /\ new[p] = e
      /\ p \in DOMAIN chain => chain[p].key = e.key
      /\ \A i \in DOMAIN new : i # p =>
            /\ i \in DOMAIN chain
            /\ new[i] = chain[i]
            /\ chain[i].key # e.key
  BY ChainSetEntries
<1> HIDE DEF new, p
<1>3. Once(new)
  BY <1>2 DEF Once
<1>4. \A k : Holds(new, k) <=> Holds(chain, k) \/ k = e.key
  BY <1>1, <1>2 DEF Holds
<1>5. EntryOf(new, e.key) = e
  <2>1. Holds(new, e.key)
    BY <1>4
  <2>2. Position(new, e.key) = p
    BY <1>1, <1>2, <1>3, <2>1, PositionIsUnique
  <2> QED
    BY <1>2, <2>1, <2>2 DEF EntryOf
<1>6. ASSUME NEW k, k # e.key
      PROVE  EntryOf(new, k) = EntryOf(chain, k)
  <2>1. CASE ~Holds(chain, k)
    BY <1>4, <1>6, <2>1 DEF EntryOf
  <2>2. CASE Holds(chain, k)
    <3> DEFINE q == Position(chain, k)
    <3>1. q \in DOMAIN chain /\ chain[q].key = k
      BY <2>2, PositionIsUnique
    <3>2. q \in DOMAIN new /\ new[q] = chain[q]
      BY <1>1, <1>2, <1>6, <3>1
    <3>3. Holds(new, k)
      BY <1>4, <2>2
    <3>4. Position(new, k) = q
      <4> HIDE DEF q
      <4> QED BY <1>1, <1>3, <3>1, <3>2, <3>3, PositionIsUnique
    <3> QED
      BY <2>2, <3>2, <3>3, <3>4 DEF EntryOf
  <2> QED
    BY <2>1, <2>2
<1> QED
  BY <1>3, <1>4, <1>5, <1>6 DEF new
-----------------------------------------------------------------------------
(* One table.                                                              *)

TableOK(tab, hash, Key) == /\ tab \in [Bin -> Seq(Entry(Key))]
                           /\ Placed(tab, hash)
                           /\ KeyOnce(tab)

\* HT_SET on a table whose entries are in their bins: the result is again
\* such a table, every entry but the one written is where it was, and a
\* lookup of any key sees exactly this update.
LEMMA TableSetEntries ==
    ASSUME NEW Key, NEW hash \in [Key -> Bin],
           NEW tab, TableOK(tab, hash, Key),
           NEW e \in Entry(Key),
           NEW new, new = TableSet(tab, hash, e)
    PROVE  /\ TableOK(new, hash, Key)
           /\ Present(new, Key) = Present(tab, Key) \cup {e.key}
           /\ Holds(tab[hash[e.key]], e.key) <=> e.key \in Present(tab, Key)
           /\ \A k \in Key : EntryOf(new[hash[k]], k) =
                  IF k = e.key THEN e ELSE EntryOf(tab[hash[k]], k)
           /\ \A c \in Bin : \A i \in DOMAIN new[c] :
                  IF c = hash[e.key] /\ i = Target(tab[c], e.key)
                  THEN new[c][i] = e
                  ELSE i \in DOMAIN tab[c] /\ new[c][i] = tab[c][i]
<1> DEFINE b == hash[e.key]
<1>1. e.key \in Key /\ b \in Bin
  BY DEF Entry
<1>2. tab[b] \in Seq(Entry(Key)) /\ Once(tab[b])
  BY <1>1 DEF KeyOnce, TableOK
<1>3. new[b] = ChainSet(tab[b], e) /\ \A c \in Bin : c # b => new[c] = tab[c]
  BY <1>1 DEF TableSet, TableOK
<1>4. new[b] \in Seq(Entry(Key))
  BY <1>2, <1>3, ChainSetEntries
<1> DEFINE p == Target(tab[b], e.key)
<1>a. ASSUME NEW chain, chain = tab[b]
      PROVE  /\ Target(chain, e.key) \in DOMAIN ChainSet(chain, e)
             /\ ChainSet(chain, e)[Target(chain, e.key)] = e
             /\ Target(chain, e.key) \in DOMAIN chain =>
                   chain[Target(chain, e.key)].key = e.key
             /\ \A i \in DOMAIN ChainSet(chain, e) : i # Target(chain, e.key) =>
                   /\ i \in DOMAIN chain
                   /\ ChainSet(chain, e)[i] = chain[i]
                   /\ chain[i].key # e.key
  <2>1. chain \in Seq(Entry(Key)) /\ Once(chain)
    BY <1>2, <1>a
  <2> HIDE DEF b
  <2> QED
    BY <2>1, ChainSetEntries
<1>5. /\ p \in DOMAIN new[b]
      /\ new[b][p] = e
      /\ \A i \in DOMAIN new[b] : i # p =>
            /\ i \in DOMAIN tab[b]
            /\ new[b][i] = tab[b][i]
            /\ tab[b][i].key # e.key
  BY <1>3, <1>a
<1>6. /\ Once(new[b])
      /\ \A k : Holds(new[b], k) <=> Holds(tab[b], k) \/ k = e.key
      /\ EntryOf(new[b], e.key) = e
      /\ \A k : k # e.key => EntryOf(new[b], k) = EntryOf(tab[b], k)
  BY <1>2, <1>3, ChainSetLookup
<1> HIDE DEF p
<1>7. new \in [Bin -> Seq(Entry(Key))]
  BY <1>3, <1>4 DEF TableSet, TableOK
<1>8. Placed(new, hash)
  <2> SUFFICES ASSUME NEW c \in Bin, NEW i \in DOMAIN new[c]
               PROVE  hash[new[c][i].key] = c
    BY DEF Placed
  <2>1. CASE c = b /\ i = p
    BY <1>5, <2>1
  <2>2. CASE ~(c = b /\ i = p)
    BY <1>3, <1>5, <2>2 DEF Placed, TableOK
  <2> QED
    BY <2>1, <2>2
<1>9. KeyOnce(new)
  BY <1>3, <1>6 DEF KeyOnce, TableOK
<1>10. Present(new, Key) = Present(tab, Key) \cup {e.key}
  BY <1>1, <1>3, <1>6 DEF Present
<1>11. Holds(tab[b], e.key) <=> e.key \in Present(tab, Key)
  <2>1. ASSUME NEW c \in Bin, Holds(tab[c], e.key)
        PROVE  c = b
    BY <2>1 DEF Holds, Placed, TableOK
  <2> QED
    BY <1>1, <2>1 DEF Present
<1>12. ASSUME NEW k \in Key
       PROVE  EntryOf(new[hash[k]], k) =
                  IF k = e.key THEN e ELSE EntryOf(tab[hash[k]], k)
  BY <1>3, <1>6, hash[k] \in Bin
<1>13. \A c \in Bin : \A i \in DOMAIN new[c] :
           IF c = b /\ i = p
           THEN new[c][i] = e
           ELSE i \in DOMAIN tab[c] /\ new[c][i] = tab[c][i]
  BY <1>3, <1>5
<1> QED
  BY <1>7, <1>8, <1>9, <1>10, <1>11, <1>12, <1>13 DEF TableOK, p

\* HT_SET keeps the item count equal to the number of keys.
LEMMA TableCount ==
    ASSUME NEW Key, NEW hash \in [Key -> Bin],
           NEW tab, TableOK(tab, hash, Key),
           NEW e \in Entry(Key),
           NEW new, new = TableSet(tab, hash, e),
           IsFiniteSet(Present(tab, Key)),
           NEW n, n = Cardinality(Present(tab, Key))
    PROVE  /\ IsFiniteSet(Present(new, Key))
           /\ CountAfter(n, tab[hash[e.key]], e.key) = Cardinality(Present(new, Key))
<1>1. /\ Present(new, Key) = Present(tab, Key) \cup {e.key}
      /\ Holds(tab[hash[e.key]], e.key) <=> e.key \in Present(tab, Key)
  BY TableSetEntries
<1> QED
  BY <1>1, FS_AddElement DEF CountAfter

\* HT_SET of an entry stamped with the next tick keeps the stamps of a table
\* distinct, not in the future, and different from those of another table.
LEMMA TableStamps ==
    ASSUME NEW Key, NEW hash \in [Key -> Bin],
           NEW tab, TableOK(tab, hash, Key),
           NEW e \in Entry(Key), clock \in Nat, e.clock = clock + 1,
           NEW new, new = TableSet(tab, hash, e),
           StampsUpTo(tab), StampOnce(tab),
           NEW other, StampsUpTo(other)
    PROVE  /\ \A c \in Bin : \A i \in DOMAIN new[c] : new[c][i].clock \in 1..(clock + 1)
           /\ StampOnce(new)
           /\ (\A c, d \in Bin : \A i \in DOMAIN tab[c], j \in DOMAIN other[d] :
                   tab[c][i].clock # other[d][j].clock)
              => \A c, d \in Bin : \A i \in DOMAIN new[c], j \in DOMAIN other[d] :
                   new[c][i].clock # other[d][j].clock
<1> DEFINE At(c, i) == c = hash[e.key] /\ i = Target(tab[c], e.key)
<1>1. \A c \in Bin : \A i \in DOMAIN new[c] :
         IF At(c, i) THEN new[c][i] = e
                     ELSE i \in DOMAIN tab[c] /\ new[c][i] = tab[c][i]
  BY TableSetEntries
<1>c. \A c, d \in Bin : \A i, j : At(c, i) /\ At(d, j) => c = d /\ i = j
  OBVIOUS
<1> HIDE DEF At
<1>2. \A c \in Bin : \A i \in DOMAIN tab[c] : tab[c][i].clock \in 1..clock
  BY DEF StampsUpTo
<1>a. \A c \in Bin : \A i \in DOMAIN new[c] :
          /\ At(c, i) => new[c][i].clock = clock + 1
          /\ ~At(c, i) => /\ i \in DOMAIN tab[c]
                          /\ new[c][i].clock = tab[c][i].clock
                          /\ new[c][i].clock \in 1..clock
  BY <1>1, <1>2
<1>b. clock + 1 \in 1..(clock + 1) /\ clock + 1 \notin 1..clock /\ \A t \in 1..clock : t \in 1..(clock + 1)
  OBVIOUS
<1>3. ASSUME NEW c \in Bin, NEW i \in DOMAIN new[c]
      PROVE  new[c][i].clock \in 1..(clock + 1)
  <2>1. CASE At(c, i)
    BY <1>a, <1>b, <2>1
  <2>2. CASE ~At(c, i)
    BY <1>a, <1>b, <2>2
  <2> QED
    BY <2>1, <2>2
<1>4. StampOnce(new)
  <2> SUFFICES ASSUME NEW c \in Bin, NEW d \in Bin,
                      NEW i \in DOMAIN new[c], NEW j \in DOMAIN new[d],
                      new[c][i].clock = new[d][j].clock
               PROVE  c = d /\ i = j
    BY DEF StampOnce
  <2>1. CASE At(c, i) /\ At(d, j)
    BY <1>c, <2>1
  <2>2. ~(At(c, i) /\ ~At(d, j)) /\ ~(~At(c, i) /\ At(d, j))
    BY <1>a, <1>b
  <2>4. CASE ~At(c, i) /\ ~At(d, j)
    <3>1. tab[c][i].clock = tab[d][j].clock /\ i \in DOMAIN tab[c] /\ j \in DOMAIN tab[d]
      BY <1>a, <2>4
    <3> QED
      BY <3>1 DEF StampOnce
  <2> QED
    BY <2>1, <2>2, <2>4
<1>5. \A d \in Bin : \A j \in DOMAIN other[d] : other[d][j].clock \in 1..clock
  BY DEF StampsUpTo
<1>6. ASSUME \A c, d \in Bin : \A i \in DOMAIN tab[c], j \in DOMAIN other[d] :
                tab[c][i].clock # other[d][j].clock,
             NEW c \in Bin, NEW d \in Bin,
             NEW i \in DOMAIN new[c], NEW j \in DOMAIN other[d]
      PROVE  new[c][i].clock # other[d][j].clock
  <2>1. CASE At(c, i)
    BY <1>a, <1>b, <1>5, <2>1
  <2>2. CASE ~At(c, i)
    BY <1>a, <1>6, <2>2
  <2> QED
    BY <2>1, <2>2
<1> QED
  BY <1>3, <1>4, <1>6
-----------------------------------------------------------------------------
(* The string cache.                                                       *)

\* Touch keeps the cache coherent, and right after it the touched pointer
\* reads as the text it means.
LEMMA TouchCoherent ==
    ASSUME NEW c \in [Slot -> SlotContent], CacheCoherent(c), NEW p \in Ptr
    PROVE  /\ Touch(c, p) \in [Slot -> SlotContent]
           /\ CacheCoherent(Touch(c, p))
           /\ Deref(Touch(c, p), p) = Meant(p)
           /\ \A q \in Ptr : Deref(Touch(c, p), q) \in Text
<1>1. SafeCopy(p) \in Text /\ SlotOf[p] \in Slot /\ p # NoPtr
  BY StrAssumption DEF SafeCopy
<1>2. Touch(c, p) \in [Slot -> SlotContent]
  BY <1>1 DEF Touch, SlotContent
<1>3. CacheCoherent(Touch(c, p))
  <2>1. CASE p \in LowPtr \/ c[SlotOf[p]].ptr = p
    BY <2>1 DEF Touch
  <2>2. CASE ~(p \in LowPtr \/ c[SlotOf[p]].ptr = p)
    <3>1. Touch(c, p) = [c EXCEPT ![SlotOf[p]] = [ptr |-> p, copy |-> SafeCopy(p)]]
      BY <2>2 DEF Touch
    <3> QED
      BY <1>1, <3>1 DEF CacheCoherent
  <2> QED
    BY <2>1, <2>2
<1>4. Deref(Touch(c, p), p) = Meant(p)
  <2>1. CASE p \in LowPtr
    BY <2>1 DEF Deref, Meant
  <2>2. CASE p \notin LowPtr /\ c[SlotOf[p]].ptr = p
    BY <1>1, <2>2 DEF Deref, Meant, Touch, CacheCoherent
  <2>3. CASE p \notin LowPtr /\ c[SlotOf[p]].ptr # p
    BY <1>1, <2>3 DEF Deref, Meant, Touch
  <2> QED
    BY <2>1, <2>2, <2>3
<1>5. \A q \in Ptr : Deref(Touch(c, p), q) \in Text
  BY <1>2, StrAssumption DEF Deref, SlotContent
<1> QED
  BY <1>2, <1>3, <1>4, <1>5

-----------------------------------------------------------------------------
(* The state machine.                                                      *)

Counted(tab, Key, n) == IsFiniteSet(Present(tab, Key)) /\ n = Cardinality(Present(tab, Key))

\* The inductive invariant: the tables are well formed and counted, the
\* stamps are unique, the cache holds what its pointers mean.
TablesInv ==
    /\ TablesTyped /\ EachKeyOnce
    /\ Counted(addrTab, Addr, addrN) /\ Counted(regTab, RegKey, regN)
    /\ StampsAreUnique
    /\ CacheCoherent(cache)

IInv == TablesInv /\ CopyTyped

\* Both hashes send every key to a bin.
LEMMA HashTypes == /\ AddrHash \in [Addr -> Bin]
                   /\ RegHash \in [RegKey -> Bin]
  BY TableAssumption DEF AddrHash, Bin, Addr

\* The zeroed tables and cache satisfy the invariant.
LEMMA InitInv == Init => IInv
<1> SUFFICES ASSUME Init PROVE IInv
  OBVIOUS
<1> USE DEF Init
<1>1. <<>> \in Seq(Entry(Addr)) /\ <<>> \in Seq(Entry(RegKey)) /\ DOMAIN <<>> = {}
  BY EmptySeq
<1>2. TablesTyped
  BY <1>1, StrAssumption DEF TablesTyped, EmptyCache, SlotContent
<1>3. EachKeyOnce
  BY <1>1 DEF EachKeyOnce, Placed, KeyOnce, Once
<1>4. Present(addrTab, Addr) = {} /\ Present(regTab, RegKey) = {}
  BY <1>1 DEF Present, Holds
<1>5. Counted(addrTab, Addr, addrN) /\ Counted(regTab, RegKey, regN)
  BY <1>4, FS_EmptySet DEF Counted
<1>6. StampsAreUnique
  BY <1>1 DEF StampsAreUnique, StampsUpTo, StampOnce, StampsDiffer
<1>7. CacheCoherent(cache)
  BY DEF CacheCoherent, EmptyCache
<1>8. CopyTyped
  BY DEF CopyTyped
<1> QED
  BY <1>2, <1>3, <1>5, <1>6, <1>7, <1>8 DEF IInv, TablesInv

\* _FPC_ADDRESS_HT_UPDATE_ preserves the invariant of the tables.
LEMMA PutAddressInv ==
    ASSUME TablesInv, NEW a \in Addr, NEW e \in Err, NEW fp \in FilePtr, NEW l \in Line,
           PutAddress(a, e, fp, l)
    PROVE  TablesInv'
<1> DEFINE c == Touch(cache, fp)
           new == NewEntry(a, e, Deref(c, fp), l)
<1>1. fp \in Ptr /\ cache \in [Slot -> SlotContent] /\ CacheCoherent(cache) /\ clock \in Nat
  BY TableAssumption DEF TablesInv, TablesTyped
<1>2. /\ c \in [Slot -> SlotContent] /\ CacheCoherent(c) /\ Deref(c, fp) \in Text
  BY <1>1, TouchCoherent
<1>3. new \in Entry(Addr) /\ new.key = a /\ new.clock = clock + 1
  <2> HIDE DEF c
  <2> QED BY <1>1, <1>2 DEF NewEntry, Entry
<1>4. /\ cache' = c /\ clock' = clock + 1
      /\ addrTab' = TableSet(addrTab, AddrHash, new)
      /\ addrN' = CountAfter(addrN, addrTab[AddrHash[new.key]], new.key)
      /\ regTab' = regTab /\ regN' = regN
  BY <1>3 DEF PutAddress
<1> HIDE DEF c, new
<1>5. /\ TableOK(addrTab, AddrHash, Addr) /\ TableOK(regTab, RegHash, RegKey)
      /\ StampsUpTo(addrTab) /\ StampOnce(addrTab) /\ StampsUpTo(regTab) /\ StampOnce(regTab)
      /\ StampsDiffer
  BY DEF TablesInv, TablesTyped, EachKeyOnce, StampsAreUnique, TableOK
<1>6. TableOK(addrTab', AddrHash, Addr)
  BY <1>3, <1>4, <1>5, HashTypes, TableSetEntries
<1>7. Counted(addrTab', Addr, addrN')
  BY <1>3, <1>4, <1>5, HashTypes, TableCount DEF TablesInv, Counted
<1>8. /\ \A d \in Bin : \A i \in DOMAIN addrTab'[d] : addrTab'[d][i].clock \in 1..(clock + 1)
      /\ StampOnce(addrTab')
      /\ \A d, b \in Bin : \A i \in DOMAIN addrTab'[d], j \in DOMAIN regTab[b] :
             addrTab'[d][i].clock # regTab[b][j].clock
  BY <1>1, <1>3, <1>4, <1>5, HashTypes, TableStamps DEF StampsDiffer
<1>9. addrN' \in Nat
  BY <1>7, FS_CardinalityType DEF Counted
<1>10. TablesTyped'
  BY <1>1, <1>2, <1>4, <1>6, <1>9 DEF TablesTyped, TablesInv, TableOK
<1>11. EachKeyOnce'
  BY <1>4, <1>5, <1>6 DEF EachKeyOnce, TableOK, Placed, KeyOnce
<1>12. Counted(regTab, RegKey, regN)'
  BY <1>4 DEF TablesInv, Counted, Present
<1>13. StampsAreUnique'
  <2>1. 1..clock \subseteq 1..(clock + 1)
    BY <1>1
  <2>2. StampsUpTo(addrTab)' /\ StampsUpTo(regTab)'
    BY <1>4, <1>5, <1>8, <2>1 DEF StampsUpTo
  <2>3. StampOnce(addrTab)' /\ StampOnce(regTab)'
    BY <1>4, <1>5, <1>8 DEF StampOnce
  <2>4. StampsDiffer'
    BY <1>4, <1>8 DEF StampsDiffer
  <2> QED
    BY <2>2, <2>3, <2>4 DEF StampsAreUnique
<1>14. CacheCoherent(cache)'
  BY <1>2, <1>4 DEF CacheCoherent
<1>15. Counted(addrTab, Addr, addrN)'
  BY <1>7 DEF Counted, Present
<1> QED
  BY <1>10, <1>11, <1>12, <1>13, <1>14, <1>15 DEF TablesInv

\* _FPC_REGISTER_HT_UPDATE_ preserves the invariant of the tables.
LEMMA PutRegisterInv ==
    ASSUME TablesInv, NEW r \in Reg, NEW fn \in FnPtr,
           NEW e \in Err, NEW fp \in FilePtr, NEW l \in Line,
           PutRegister(r, fn, e, fp, l)
    PROVE  TablesInv'
<1> DEFINE c == Touch(Touch(cache, fp), fn)
           k == <<r, Deref(c, fn)>>
           new == NewEntry(k, e, Deref(c, fp), l)
<1>1. /\ fp \in Ptr /\ fn \in Ptr
      /\ cache \in [Slot -> SlotContent] /\ CacheCoherent(cache) /\ clock \in Nat
  BY TableAssumption DEF TablesInv, TablesTyped
<1>2. /\ c \in [Slot -> SlotContent] /\ CacheCoherent(c)
      /\ Deref(c, fp) \in Text /\ Deref(c, fn) \in Text
  <2>1. Touch(cache, fp) \in [Slot -> SlotContent] /\ CacheCoherent(Touch(cache, fp))
    BY <1>1, TouchCoherent
  <2> QED
    BY <1>1, <2>1, TouchCoherent
<1>3. new \in Entry(RegKey) /\ new.key = k /\ new.clock = clock + 1
  <2> HIDE DEF c
  <2>1. k \in RegKey
    BY <1>2 DEF RegKey
  <2> HIDE DEF k
  <2> QED BY <1>1, <1>2, <2>1 DEF NewEntry, Entry
<1>4. /\ cache' = c /\ clock' = clock + 1
      /\ regTab' = TableSet(regTab, RegHash, new)
      /\ regN' = CountAfter(regN, regTab[RegHash[new.key]], new.key)
      /\ addrTab' = addrTab /\ addrN' = addrN
  BY <1>3 DEF PutRegister
<1> HIDE DEF c, new, k
<1>5. /\ TableOK(addrTab, AddrHash, Addr) /\ TableOK(regTab, RegHash, RegKey)
      /\ StampsUpTo(addrTab) /\ StampOnce(addrTab) /\ StampsUpTo(regTab) /\ StampOnce(regTab)
      /\ StampsDiffer
  BY DEF TablesInv, TablesTyped, EachKeyOnce, StampsAreUnique, TableOK
<1>6. TableOK(regTab', RegHash, RegKey)
  BY <1>3, <1>4, <1>5, HashTypes, TableSetEntries
<1>7. Counted(regTab', RegKey, regN')
  BY <1>3, <1>4, <1>5, HashTypes, TableCount DEF TablesInv, Counted
<1>a. \A d, b \in Bin : \A i \in DOMAIN regTab[d], j \in DOMAIN addrTab[b] :
          regTab[d][i].clock # addrTab[b][j].clock
  BY <1>5 DEF StampsDiffer
<1>8. /\ \A d \in Bin : \A i \in DOMAIN regTab'[d] : regTab'[d][i].clock \in 1..(clock + 1)
      /\ StampOnce(regTab')
      /\ \A d, b \in Bin : \A i \in DOMAIN regTab'[d], j \in DOMAIN addrTab[b] :
             regTab'[d][i].clock # addrTab[b][j].clock
  BY <1>1, <1>3, <1>4, <1>5, <1>a, HashTypes, TableStamps
<1>9. regN' \in Nat
  BY <1>7, FS_CardinalityType DEF Counted
<1>10. TablesTyped'
  BY <1>1, <1>2, <1>4, <1>6, <1>9 DEF TablesTyped, TablesInv, TableOK
<1>11. EachKeyOnce'
  BY <1>4, <1>5, <1>6 DEF EachKeyOnce, TableOK, Placed, KeyOnce
<1>12. Counted(addrTab, Addr, addrN)'
  BY <1>4 DEF TablesInv, Counted, Present
<1>13. StampsAreUnique'
  <2>1. 1..clock \subseteq 1..(clock + 1)
    BY <1>1
  <2>2. StampsUpTo(addrTab)' /\ StampsUpTo(regTab)'
    BY <1>4, <1>5, <1>8, <2>1 DEF StampsUpTo
  <2>3. StampOnce(addrTab)' /\ StampOnce(regTab)'
    BY <1>4, <1>5, <1>8 DEF StampOnce
  <2>4. StampsDiffer'
    BY <1>4, <1>8 DEF StampsDiffer
  <2> QED
    BY <2>2, <2>3, <2>4 DEF StampsAreUnique
<1>14. CacheCoherent(cache)'
  BY <1>2, <1>4 DEF CacheCoherent
<1>15. Counted(regTab, RegKey, regN)'
  BY <1>7 DEF Counted, Present
<1> QED
  BY <1>10, <1>11, <1>12, <1>13, <1>14, <1>15 DEF TablesInv

\* _FPC_FIND_ERRORS_BY_ADDRESS returns an error.
LEMMA FindAddressType ==
    ASSUME TablesInv, NEW a \in Addr
    PROVE  FindAddress(a) \in Err
<1> DEFINE chain == addrTab[AddrHash[a]]
<1>1. AddrHash[a] \in Bin
  BY HashTypes
<1>2. chain \in Seq(Entry(Addr)) /\ Once(chain)
  BY <1>1 DEF TablesInv, TablesTyped, EachKeyOnce, KeyOnce
<1>3. FindAddress(a) = ErrOf(chain, a)
  BY DEF FindAddress
<1> HIDE DEF chain
<1>4. CASE ~Holds(chain, a)
  BY <1>3, <1>4, TableAssumption DEF ErrOf
<1>5. CASE Holds(chain, a)
  <2>1. Position(chain, a) \in DOMAIN chain
    BY <1>2, <1>5, PositionIsUnique
  <2>2. chain[Position(chain, a)] \in Entry(Addr)
    BY <1>2, <2>1, LenProperties, ElementOfSeq
  <2> QED
    BY <1>3, <1>5, <2>2 DEF ErrOf, Entry
<1> QED
  BY <1>4, <1>5

\* One step of Next, or none, preserves the invariant.
LEMMA NextInv == IInv /\ [Next]_vars => IInv'
<1> SUFFICES ASSUME IInv, [Next]_vars PROVE IInv'
  OBVIOUS
<1>0. TablesInv /\ CopyTyped
  BY DEF IInv
<1>1. ASSUME NEW e \in Err, NEW fp \in FilePtr, NEW l \in Line, NEW a \in Addr,
             AddressUpdate(a, e, fp, l)
      PROVE  IInv'
  <2>1. TablesInv'
    BY <1>0, <1>1, PutAddressInv DEF AddressUpdate
  <2>2. CopyTyped'
    BY <1>0, <1>1 DEF AddressUpdate, CopyTyped
  <2> QED
    BY <2>1, <2>2 DEF IInv
<1>2. ASSUME NEW e \in Err, NEW fp \in FilePtr, NEW l \in Line,
             NEW r \in Reg, NEW fn \in FnPtr,
             RegisterUpdate(r, fn, e, fp, l)
      PROVE  IInv'
  <2>1. TablesInv'
    BY <1>0, <1>2, PutRegisterInv DEF RegisterUpdate
  <2>2. CopyTyped'
    BY <1>0, <1>2 DEF RegisterUpdate, CopyTyped
  <2> QED
    BY <2>1, <2>2 DEF IInv
<1> DEFINE still == UNCHANGED <<addrTab, addrN, regTab, regN, clock, cache>>
<1>3. ASSUME still PROVE TablesInv'
  BY <1>0, <1>3 DEF TablesInv, TablesTyped, EachKeyOnce, Placed, KeyOnce, Counted,
     Present, StampsAreUnique, StampsUpTo, StampOnce, StampsDiffer, CacheCoherent
<1>4. ASSUME NEW dst \in Addr, NEW src \in Addr, NEW size \in 1..MaxCopy,
             NEW fp \in FilePtr, NEW l \in Line,
             MemcpyBegin(dst, src, size, fp, l)
      PROVE  IInv'
  <2>1. TablesInv'
    BY <1>3, <1>4 DEF MemcpyBegin
  <2>2. \A o \in 0..(size - 1) : FindAddress(src + o) \in Err
    <3> SUFFICES ASSUME NEW o \in 0..(size - 1) PROVE FindAddress(src + o) \in Err
      OBVIOUS
    <3>1. src + o \in Addr
      BY <1>4, TableAssumption DEF MemcpyBegin, Addr
    <3> QED
      BY <1>0, <3>1, FindAddressType
  <2> DEFINE buf == [o \in 0..(size - 1) |-> FindAddress(src + o)]
  <2>3. buf \in [0..(size - 1) -> Err]
    BY <2>2
  <2>4. copy' = [active |-> TRUE, dst |-> dst, src |-> src, size |-> size,
                 off |-> 0, file |-> fp, line |-> l, buf |-> buf]
    BY <1>4 DEF MemcpyBegin
  <2>5. DOMAIN buf = 0..(size - 1)
    OBVIOUS
  <2>6. dst + size - 1 <= MaxAddr /\ src + size - 1 <= MaxAddr /\ 0 <= size
    BY <1>4, TableAssumption DEF MemcpyBegin
  <2> HIDE DEF buf
  <2>7. buf \in UNION {[0..(s - 1) -> Err] : s \in 1..MaxCopy}
    BY <2>3
  <2>8. copy' \in CopyState
    BY <2>4, <2>7 DEF CopyState
  <2>9. CopyTyped'
    BY <2>4, <2>5, <2>6, <2>8 DEF CopyTyped
  <2> QED
    BY <2>1, <2>9 DEF IInv
<1>5. ASSUME MemcpyStep PROVE IInv'
  <2>1. /\ copy \in CopyState
        /\ copy.off < copy.size /\ DOMAIN copy.buf = 0..(copy.size - 1)
        /\ copy.dst + copy.size - 1 <= MaxAddr /\ copy.src + copy.size - 1 <= MaxAddr
        /\ copy' = [copy EXCEPT !.off = @ + 1]
        /\ PutAddress(copy.dst + copy.off, copy.buf[copy.off], copy.file, copy.line)
    BY <1>0, <1>5 DEF MemcpyStep, CopyTyped, NoCopy
  <2>2. /\ copy.dst \in Addr /\ copy.off \in Nat /\ copy.size \in 1..MaxCopy
        /\ copy.file \in FilePtr /\ copy.line \in Line
    BY <2>1 DEF CopyState
  <2>3. copy.dst + copy.off \in Addr
    BY <2>1, <2>2, TableAssumption DEF Addr
  <2>4. copy.buf[copy.off] \in Err
    <3>1. copy.off \in DOMAIN copy.buf
      BY <2>1, <2>2
    <3>2. PICK s \in 1..MaxCopy : copy.buf \in [0..(s - 1) -> Err]
      BY <2>1 DEF CopyState
    <3> QED
      BY <3>1, <3>2
  <2>5. TablesInv'
    BY <1>0, <2>1, <2>2, <2>3, <2>4, PutAddressInv
  <2>6. copy' \in CopyState /\ copy'.off = copy.off + 1 /\ copy'.size = copy.size
        /\ copy'.buf = copy.buf /\ copy'.dst = copy.dst /\ copy'.src = copy.src
    <3> DEFINE Buf == UNION {[0..(s - 1) -> Err] : s \in 1..MaxCopy}
    <3>1. copy \in [active: {TRUE}, dst: Addr, src: Addr, size: 1..MaxCopy, off: Nat,
                    file: FilePtr, line: Line, buf: Buf]
      BY <2>1 DEF CopyState
    <3>2. copy.off + 1 \in Nat
      BY <2>2
    <3> HIDE DEF Buf
    <3>3. copy' \in [active: {TRUE}, dst: Addr, src: Addr, size: 1..MaxCopy, off: Nat,
                     file: FilePtr, line: Line, buf: Buf]
      BY <2>1, <3>1, <3>2
    <3> QED
      BY <2>1, <3>1, <3>3 DEF CopyState, Buf
  <2>7. copy.off + 1 <= copy.size
    BY <2>1, <2>2
  <2>8. CopyTyped'
    BY <2>1, <2>6, <2>7 DEF CopyTyped
  <2> QED
    BY <2>5, <2>8 DEF IInv
<1>6. ASSUME MemcpyEnd PROVE IInv'
  BY <1>3, <1>6 DEF MemcpyEnd, CopyTyped, IInv
<1>7. ASSUME UNCHANGED vars PROVE IInv'
  BY <1>0, <1>3, <1>7 DEF vars, CopyTyped, IInv
<1> QED
  BY <1>1, <1>2, <1>4, <1>5, <1>6, <1>7 DEF Next, Update, Memcpy

\* The invariant holds in every reachable state.
LEMMA Inductive == Spec => []IInv
  BY InitInv, NextInv, PTL DEF Spec

-----------------------------------------------------------------------------
(* The theorems.                                                           *)

\* The tables, the counts, the clock and the cache have their types, and a
\* memcpy never leaves the address space or its buffer.
THEOREM TypeCorrect == Spec => []TypeOK
<1>1. IInv => TypeOK
  BY DEF IInv, TablesInv, TypeOK
<1> QED
  BY <1>1, Inductive, PTL

\* HT_SET never leaves two entries for one key, or an entry in a bin the
\* lookup of its key would not walk.
THEOREM KeysOnce == Spec => []EachKeyOnce
<1>1. IInv => EachKeyOnce
  BY DEF IInv, TablesInv
<1> QED
  BY <1>1, Inductive, PTL

\* The counts the report writer allocates its log from are the numbers of
\* entries it walks.
THEOREM ExactCounts == Spec => []CountsAreExact
<1>1. IInv => CountsAreExact
  BY DEF IInv, TablesInv, CountsAreExact, Counted
<1> QED
  BY <1>1, Inductive, PTL

\* The clock orders the records of both tables without a tie.
THEOREM UniqueStamps == Spec => []StampsAreUnique
<1>1. IInv => StampsAreUnique
  BY DEF IInv, TablesInv
<1> QED
  BY <1>1, Inductive, PTL

-----------------------------------------------------------------------------
(* Lookups after an update.                                                *)

\* A key is in the bin it hashes to, or nowhere.
LEMMA HoldsPresent ==
    ASSUME NEW Key, NEW hash \in [Key -> Bin], NEW tab, TableOK(tab, hash, Key), NEW k \in Key
    PROVE  Holds(tab[hash[k]], k) <=> k \in Present(tab, Key)
  BY DEF Present, Holds, TableOK, Placed

\* HT_SET changes the error of its key only.
LEMMA ErrAfterSet ==
    ASSUME NEW Key, NEW hash \in [Key -> Bin], NEW tab, TableOK(tab, hash, Key),
           NEW e \in Entry(Key), NEW new, new = TableSet(tab, hash, e), NEW k \in Key
    PROVE  ErrOf(new[hash[k]], k) = IF k = e.key THEN e.err ELSE ErrOf(tab[hash[k]], k)
  <1>1. /\ TableOK(new, hash, Key)
        /\ Present(new, Key) = Present(tab, Key) \cup {e.key}
        /\ EntryOf(new[hash[k]], k) = IF k = e.key THEN e ELSE EntryOf(tab[hash[k]], k)
    BY TableSetEntries
  <1>2. Holds(new[hash[k]], k) <=> Holds(tab[hash[k]], k) \/ k = e.key
    BY <1>1, HoldsPresent
  <1>3. CASE k = e.key
    BY <1>1, <1>2, <1>3 DEF ErrOf, EntryOf
  <1>4. CASE k # e.key
    BY <1>1, <1>2, <1>4 DEF ErrOf, EntryOf
  <1> QED
    BY <1>3, <1>4

\* The entry _FPC_ADDRESS_HT_UPDATE_ writes.
LEMMA AddressEntry ==
    ASSUME TablesInv, NEW a \in Addr, NEW e \in Err, NEW fp \in FilePtr, NEW l \in Line
    PROVE  /\ Deref(Touch(cache, fp), fp) = Meant(fp)
           /\ NewEntry(a, e, Meant(fp), l) \in Entry(Addr)
           /\ NewEntry(a, e, Meant(fp), l).key = a /\ NewEntry(a, e, Meant(fp), l).err = e
           /\ TableOK(addrTab, AddrHash, Addr)
  <1>1. fp \in Ptr /\ cache \in [Slot -> SlotContent] /\ CacheCoherent(cache) /\ clock \in Nat
    BY TableAssumption DEF TablesInv, TablesTyped
  <1>2. Deref(Touch(cache, fp), fp) = Meant(fp) /\ Meant(fp) \in Text
    BY <1>1, TouchCoherent
  <1> DEFINE f == Meant(fp)
             new == [key |-> a, err |-> e, clock |-> clock + 1, file |-> f, line |-> l]
  <1>3. NewEntry(a, e, f, l) = new
    BY DEF NewEntry
  <1> HIDE DEF f
  <1>4. new \in Entry(Addr) /\ new.key = a /\ new.err = e
    BY <1>1, <1>2 DEF Entry, f
  <1>5. TableOK(addrTab, AddrHash, Addr)
    BY DEF TablesInv, TablesTyped, EachKeyOnce, TableOK
  <1> QED
    BY <1>2, <1>3, <1>4, <1>5 DEF f

\* FindAddress in a given table.
Lookup(tab, a) == ErrOf(tab[AddrHash[a]], a)

\* An update of an address changes the errors found at that address only.
LEMMA AddressLookup ==
    ASSUME TablesInv, NEW a \in Addr, NEW e \in Err, NEW fp \in FilePtr, NEW l \in Line,
           PutAddress(a, e, fp, l), NEW b \in Addr
    PROVE  Lookup(addrTab', b) = IF b = a THEN e ELSE Lookup(addrTab, b)
  <1> DEFINE new == NewEntry(a, e, Meant(fp), l)
  <1>1. /\ new \in Entry(Addr) /\ new.key = a /\ new.err = e
        /\ TableOK(addrTab, AddrHash, Addr)
        /\ addrTab' = TableSet(addrTab, AddrHash, new)
    BY AddressEntry DEF PutAddress
  <1> HIDE DEF new
  <1> QED
    BY <1>1, HashTypes, ErrAfterSet DEF Lookup
-----------------------------------------------------------------------------
(* memcpy.                                                                 *)

\* MemcpyExact of a table and a copy.
Exact(tab, c) ==
    /\ \A o \in 0..(c.off - 1) : Lookup(tab, c.dst + o) = c.buf[o]
    /\ \A o \in 0..(c.size - 1) :
           c.src + o \notin c.dst..(c.dst + c.off - 1) => Lookup(tab, c.src + o) = c.buf[o]

\* Ranges of bytes.
LEMMA RangeTyped ==
    ASSUME NEW d \in Nat, NEW s \in Nat, d + s - 1 <= MaxAddr
    PROVE  \A o \in 0..(s - 1) : d + o \in Addr
  BY TableAssumption DEF Addr

LEMMA BeforeOffset ==
    ASSUME NEW d \in Nat, NEW n \in Nat, NEW s \in Nat, n < s, NEW o \in 0..n, o # n
    PROVE  o \in 0..(n - 1) /\ o \in 0..(s - 1) /\ d + o # d + n
  OBVIOUS

LEMMA CopyStep == IInv /\ MemcpyExact /\ [Next]_vars => MemcpyExact'
  <1> SUFFICES ASSUME IInv, MemcpyExact, [Next]_vars, copy'.active
               PROVE  Exact(addrTab', copy')
    BY DEF MemcpyExact, Exact, Lookup, FindAddress
  <1>0. copy.active => Exact(addrTab, copy)
    BY DEF MemcpyExact, Exact, Lookup, FindAddress
  <1>1. CASE Update
    <2>1. ~copy.active /\ copy' = copy
      BY <1>1 DEF Update, AddressUpdate, RegisterUpdate
    <2> QED
      BY <2>1
  <1>2. ASSUME NEW dst \in Addr, NEW src \in Addr, NEW size \in 1..MaxCopy,
               NEW fp \in FilePtr, NEW l \in Line,
               MemcpyBegin(dst, src, size, fp, l)
        PROVE  Exact(addrTab', copy')
    <2> DEFINE buf == [o \in 0..(size - 1) |-> Lookup(addrTab, src + o)]
    <2>1. /\ copy' = [active |-> TRUE, dst |-> dst, src |-> src, size |-> size,
                      off |-> 0, file |-> fp, line |-> l, buf |-> buf]
          /\ addrTab' = addrTab
      BY <1>2 DEF MemcpyBegin, Lookup, FindAddress
    <2>2. \A o \in 0..(size - 1) : Lookup(addrTab, src + o) = buf[o]
      OBVIOUS
    <2> HIDE DEF buf
    <2>3. copy'.off = 0 /\ copy'.size = size /\ copy'.src = src /\ copy'.buf = buf
      BY <2>1
    <2> QED
      BY <2>1, <2>2, <2>3 DEF Exact
  <1>3. CASE MemcpyStep
    <2>1. /\ copy.active /\ copy \in CopyState
          /\ copy.off < copy.size
          /\ copy.dst + copy.size - 1 <= MaxAddr /\ copy.src + copy.size - 1 <= MaxAddr
          /\ copy' = [copy EXCEPT !.off = @ + 1]
          /\ PutAddress(copy.dst + copy.off, copy.buf[copy.off], copy.file, copy.line)
      BY <1>3 DEF IInv, MemcpyStep, CopyTyped, NoCopy
    <2>2. /\ copy.dst \in Nat /\ copy.src \in Nat /\ copy.off \in Nat
          /\ copy.size \in 1..MaxCopy /\ copy.file \in FilePtr /\ copy.line \in Line
          /\ copy'.off = copy.off + 1 /\ copy'.size = copy.size /\ copy'.buf = copy.buf
          /\ copy'.dst = copy.dst /\ copy'.src = copy.src
      BY <2>1, TableAssumption DEF CopyState, Addr
    <2>3. copy.buf[copy.off] \in Err
      <3>1. DOMAIN copy.buf = 0..(copy.size - 1)
        BY <2>1 DEF IInv, CopyTyped, NoCopy
      <3>2. PICK s \in 1..MaxCopy : copy.buf \in [0..(s - 1) -> Err]
        BY <2>1 DEF CopyState
      <3> QED
        BY <2>1, <2>2, <3>1, <3>2
    <2>4. /\ \A o \in 0..(copy.size - 1) : copy.dst + o \in Addr /\ copy.src + o \in Addr
          /\ copy.dst + copy.off \in Addr
      <3>1. /\ copy.size \in Nat
            /\ copy.off \in 0..(copy.size - 1)
        BY <2>1, <2>2
      <3> QED
        BY <2>1, <2>2, <3>1, RangeTyped
    <2>5. \A b \in Addr : Lookup(addrTab', b) =
              IF b = copy.dst + copy.off THEN copy.buf[copy.off] ELSE Lookup(addrTab, b)
      BY <2>1, <2>2, <2>3, <2>4, AddressLookup DEF IInv
    <2>6. \A o \in 0..copy.off : Lookup(addrTab', copy.dst + o) = copy.buf[o]
      <3> TAKE o \in 0..copy.off
      <3>1. CASE o = copy.off
        BY <2>4, <2>5, <3>1
      <3>2. CASE o # copy.off
        <4>1. o \in 0..(copy.off - 1) /\ o \in 0..(copy.size - 1)
              /\ copy.dst + o # copy.dst + copy.off
          BY <2>1, <2>2, <3>2, BeforeOffset
        <4> QED
          BY <1>0, <2>1, <2>4, <2>5, <4>1 DEF Exact
      <3> QED
        BY <3>1, <3>2
    <2>7. ASSUME NEW o \in 0..(copy.size - 1), copy.src + o \notin copy.dst..(copy.dst + copy.off)
          PROVE  Lookup(addrTab', copy.src + o) = copy.buf[o]
      <3>1. copy.src + o # copy.dst + copy.off
            /\ copy.src + o \notin copy.dst..(copy.dst + copy.off - 1)
        BY <2>2, <2>7
      <3> QED
        BY <1>0, <2>1, <2>4, <2>5, <3>1 DEF Exact
    <2>8. copy'.off - 1 = copy.off /\ copy'.dst + copy'.off - 1 = copy.dst + copy.off
      BY <2>2
    <2> QED
      BY <2>2, <2>6, <2>7, <2>8 DEF Exact
  <1>4. CASE MemcpyEnd
    BY <1>4 DEF MemcpyEnd, NoCopy
  <1>5. CASE UNCHANGED vars
    BY <1>0, <1>5 DEF vars
  <1> QED
    BY <1>1, <1>2, <1>3, <1>4, <1>5 DEF Next, Memcpy

\* A memcpy leaves at its destination the errors its source had at the start,
\* whichever way the ranges overlap (_FPC_ADDRESS_RANGE_UPDATE_).
THEOREM CopiesExactly == Spec => []MemcpyExact
  <1>1. Init => MemcpyExact
    BY DEF Init, NoCopy, MemcpyExact
  <1> QED
    BY <1>1, CopyStep, Inductive, PTL DEF Spec
-----------------------------------------------------------------------------
(* Registers.                                                              *)

\* The entry _FPC_REGISTER_HT_UPDATE_ writes: the function name, which is
\* validated last, is the one meant.
LEMMA RegisterEntry ==
    ASSUME TablesInv, NEW r \in Reg, NEW fn \in FnPtr, NEW e \in Err,
           NEW fp \in FilePtr, NEW l \in Line, NEW c, c = Touch(Touch(cache, fp), fn)
    PROVE  /\ Deref(c, fn) = Meant(fn)
           /\ NewEntry(<<r, Meant(fn)>>, e, Deref(c, fp), l) \in Entry(RegKey)
           /\ NewEntry(<<r, Meant(fn)>>, e, Deref(c, fp), l).key = <<r, Meant(fn)>>
           /\ NewEntry(<<r, Meant(fn)>>, e, Deref(c, fp), l).err = e
           /\ TableOK(regTab, RegHash, RegKey)
  <1>1. /\ fp \in Ptr /\ fn \in Ptr
        /\ cache \in [Slot -> SlotContent] /\ CacheCoherent(cache) /\ clock \in Nat
    BY TableAssumption DEF TablesInv, TablesTyped
  <1>2. /\ Touch(cache, fp) \in [Slot -> SlotContent] /\ CacheCoherent(Touch(cache, fp))
    BY <1>1, TouchCoherent
  <1>3. /\ Deref(c, fn) = Meant(fn) /\ Deref(c, fn) \in Text /\ Deref(c, fp) \in Text
    BY <1>1, <1>2, TouchCoherent
  <1> DEFINE k == <<r, Meant(fn)>>
             f == Deref(c, fp)
             new == [key |-> k, err |-> e, clock |-> clock + 1, file |-> f, line |-> l]
  <1>4. NewEntry(k, e, f, l) = new
    BY DEF NewEntry
  <1>5. k \in RegKey
    BY <1>3 DEF RegKey
  <1> HIDE DEF k, f
  <1>6. new \in Entry(RegKey) /\ new.key = k /\ new.err = e
    BY <1>1, <1>3, <1>5 DEF Entry, f
  <1>7. TableOK(regTab, RegHash, RegKey)
    BY DEF TablesInv, TablesTyped, EachKeyOnce, TableOK
  <1> QED
    BY <1>3, <1>4, <1>6, <1>7 DEF k, f

\* Function names can be read and are not cut by the string cache.
NamesWhole == \A fn \in FnPtr : fn \notin LowPtr \cup UnreadablePtr
                                /\ Prefix[Content[fn]] = Content[fn]

LEMMA RegisterFound ==
    ASSUME NamesWhole, TablesInv, NEW r \in Reg, NEW fn \in FnPtr, NEW e \in Err,
           NEW fp \in FilePtr, NEW l \in Line, PutRegister(r, fn, e, fp, l)
    PROVE  FindRegister(r, fn)' = e
  <1> DEFINE c == Touch(Touch(cache, fp), fn)
             k == <<r, Content[fn]>>
             new == NewEntry(k, e, Deref(c, fp), l)
  <1>1. Meant(fn) = Content[fn]
    BY DEF NamesWhole, Meant, SafeCopy
  <1>2. /\ Deref(c, fn) = Content[fn]
        /\ new \in Entry(RegKey) /\ new.key = k /\ new.err = e
        /\ TableOK(regTab, RegHash, RegKey)
    BY <1>1, RegisterEntry
  <1>3. regTab' = TableSet(regTab, RegHash, new)
    BY <1>2 DEF PutRegister
  <1>4. k \in RegKey
    BY <1>2 DEF Entry
  <1> HIDE DEF new
  <1>5. ErrOf(regTab'[RegHash[k]], k) = e
    BY <1>2, <1>3, <1>4, HashTypes, ErrAfterSet
  <1> QED
    BY <1>5 DEF FindRegister

\* What an update of a register records is what the next lookup returns, if
\* function names pass through the string cache unchanged.
THEOREM UpdatesFound == ASSUME NamesWhole
                        PROVE  Spec => ReadBack
  <1> DEFINE Found == \A r \in Reg, fn \in FnPtr, e \in Err, fp \in FilePtr, l \in Line :
                          RegisterUpdate(r, fn, e, fp, l) => FindRegister(r, fn)' = e
  <1>1. IInv /\ [Next]_vars => [Found]_vars
    BY RegisterFound DEF IInv, RegisterUpdate
  <1> QED
    BY <1>1, Inductive, PTL DEF Spec, ReadBack
-----------------------------------------------------------------------------
(* Refinement.                                                             *)

\* No file name shares a slot of the string cache with a function name.
SlotsApart == \A fn \in FnPtr, fp \in FilePtr : SlotOf[fn] # SlotOf[fp]

AddressRecord(tab, a) == Recorded(EntryOf(tab[AddrHash[a]], a))
RegisterRecord(tab, k) == Recorded(EntryOf(tab[RegHash[k]], k))
AddressMap == [a \in Addr |-> AddressRecord(addrTab, a)]
RegisterMap == [k \in RegKey |-> RegisterRecord(regTab, k)]

\* The record of a new entry.
Record(e, f, l) == [err |-> e, clock |-> clock + 1, file |-> f, line |-> l]

LEMMA NewRecorded ==
    ASSUME NEW Key, NEW k \in Key, NEW e, NEW f, NEW l,
           NewEntry(k, e, f, l) \in Entry(Key), Absent \notin Entry(Key)
    PROVE  Recorded(NewEntry(k, e, f, l)) = Record(e, f, l)
  <1>1. NewEntry(k, e, f, l) # Absent
    OBVIOUS
  <1>2. Recorded(NewEntry(k, e, f, l)) =
            [err |-> NewEntry(k, e, f, l).err, clock |-> NewEntry(k, e, f, l).clock,
             file |-> NewEntry(k, e, f, l).file, line |-> NewEntry(k, e, f, l).line]
    BY <1>1 DEF Recorded
  <1> QED
    BY <1>2 DEF NewEntry, Record

\* After the function name has been validated, the file name still reads as the
\* text it means.
LEMMA FileStays ==
    ASSUME SlotsApart, TablesInv, NEW fn \in FnPtr, NEW fp \in FilePtr
    PROVE  Deref(Touch(Touch(cache, fp), fn), fp) = Meant(fp)
  <1>1. /\ fp \in Ptr /\ fn \in Ptr
        /\ cache \in [Slot -> SlotContent] /\ CacheCoherent(cache)
    BY TableAssumption DEF TablesInv, TablesTyped
  <1> DEFINE c == Touch(cache, fp)
  <1>2. c \in [Slot -> SlotContent] /\ Deref(c, fp) = Meant(fp)
    BY <1>1, TouchCoherent
  <1>3. SlotOf[fp] \in Slot /\ SlotOf[fp] # SlotOf[fn]
    BY <1>1, StrAssumption DEF SlotsApart
  <1> HIDE DEF c
  <1>4. Touch(c, fn)[SlotOf[fp]] = c[SlotOf[fp]]
    BY <1>2, <1>3 DEF Touch
  <1>5. Deref(Touch(c, fn), fp) = Deref(c, fp)
    BY <1>4 DEF Deref
  <1> QED
    BY <1>2, <1>5 DEF c

\* An update of an address records it, and nothing else.
LEMMA AddressMaps ==
    ASSUME TablesInv, NEW a \in Addr, NEW e \in Err, NEW fp \in FilePtr, NEW l \in Line,
           PutAddress(a, e, fp, l)
    PROVE  /\ AddressMap' = [AddressMap EXCEPT ![a] = Record(e, Meant(fp), l)]
           /\ clock' = clock + 1 /\ RegisterMap' = RegisterMap
  <1> DEFINE new == NewEntry(a, e, Meant(fp), l)
  <1>1. /\ new \in Entry(Addr) /\ new.key = a
        /\ TableOK(addrTab, AddrHash, Addr)
        /\ addrTab' = TableSet(addrTab, AddrHash, new)
        /\ clock' = clock + 1 /\ regTab' = regTab
    BY AddressEntry DEF PutAddress
  <1>2. Recorded(new) = Record(e, Meant(fp), l)
    BY <1>1, NewRecorded, TableAssumption
  <1> HIDE DEF new
  <1>3. \A b \in Addr : EntryOf(addrTab'[AddrHash[b]], b) =
            IF b = a THEN new ELSE EntryOf(addrTab[AddrHash[b]], b)
    BY <1>1, HashTypes, TableSetEntries
  <1>4. \A b \in Addr : AddressRecord(addrTab', b) =
            IF b = a THEN Record(e, Meant(fp), l) ELSE AddressRecord(addrTab, b)
    BY <1>2, <1>3 DEF AddressRecord
  <1>5. AddressMap' = [b \in Addr |-> AddressRecord(addrTab', b)]
    BY DEF AddressMap
  <1>6. AddressMap' = [AddressMap EXCEPT ![a] = Record(e, Meant(fp), l)]
    BY <1>4, <1>5 DEF AddressMap
  <1>7. RegisterMap' = RegisterMap
    BY <1>1 DEF RegisterMap
  <1> QED
    BY <1>1, <1>6, <1>7

\* So does an update of a register.
LEMMA RegisterMaps ==
    ASSUME SlotsApart, TablesInv, NEW r \in Reg, NEW fn \in FnPtr, NEW e \in Err,
           NEW fp \in FilePtr, NEW l \in Line, PutRegister(r, fn, e, fp, l)
    PROVE  /\ <<r, Meant(fn)>> \in RegKey
           /\ RegisterMap' = [RegisterMap EXCEPT ![<<r, Meant(fn)>>] = Record(e, Meant(fp), l)]
           /\ clock' = clock + 1 /\ AddressMap' = AddressMap
  <1> DEFINE k == <<r, Meant(fn)>>
             new == NewEntry(k, e, Meant(fp), l)
  <1>0. Deref(Touch(Touch(cache, fp), fn), fp) = Meant(fp)
    BY FileStays
  <1>1. /\ Deref(Touch(Touch(cache, fp), fn), fn) = Meant(fn)
        /\ new \in Entry(RegKey) /\ new.key = k
        /\ TableOK(regTab, RegHash, RegKey)
    BY <1>0, RegisterEntry
  <1>2. /\ regTab' = TableSet(regTab, RegHash, new)
        /\ clock' = clock + 1 /\ addrTab' = addrTab
    BY <1>0, <1>1 DEF PutRegister
  <1>3. k \in RegKey
    BY <1>1 DEF Entry
  <1> HIDE DEF k
  <1>4. Recorded(new) = Record(e, Meant(fp), l)
    BY <1>1, <1>3, NewRecorded, TableAssumption
  <1> HIDE DEF new
  <1>5. \A b \in RegKey : EntryOf(regTab'[RegHash[b]], b) =
            IF b = k THEN new ELSE EntryOf(regTab[RegHash[b]], b)
    BY <1>1, <1>2, HashTypes, TableSetEntries
  <1>6. \A b \in RegKey : RegisterRecord(regTab', b) =
            IF b = k THEN Record(e, Meant(fp), l) ELSE RegisterRecord(regTab, b)
    BY <1>4, <1>5 DEF RegisterRecord
  <1>7. RegisterMap' = [b \in RegKey |-> RegisterRecord(regTab', b)]
    BY DEF RegisterMap
  <1>8. RegisterMap' = [RegisterMap EXCEPT ![k] = Record(e, Meant(fp), l)]
    BY <1>6, <1>7 DEF RegisterMap
  <1>9. AddressMap' = AddressMap
    BY <1>2 DEF AddressMap
  <1> QED
    BY <1>2, <1>3, <1>8, <1>9 DEF k

\* The steps of ErrorMap, in these terms.
LEMMA AddressStep ==
    ASSUME NEW a \in Addr, NEW e \in Err, NEW fp \in FilePtr, NEW l \in Line,
           AddressMap' = [AddressMap EXCEPT ![a] = Record(e, Meant(fp), l)],
           clock' = clock + 1, RegisterMap' = RegisterMap
    PROVE  AbstractMap!Next
  <1>1. AbstractMap!RecordAddress(a, e, Meant(fp), l)
    BY DEF AbstractMap!RecordAddress, AbstractMap!Stamped, AddressMap, RegisterMap,
           AddressRecord, RegisterRecord, Record
  <1> QED
    BY <1>1 DEF AbstractMap!Next

LEMMA RegisterStep ==
    ASSUME NEW k \in RegKey, NEW e \in Err, NEW fp \in FilePtr, NEW l \in Line,
           RegisterMap' = [RegisterMap EXCEPT ![k] = Record(e, Meant(fp), l)],
           clock' = clock + 1, AddressMap' = AddressMap
    PROVE  AbstractMap!Next
  <1>1. AbstractMap!RecordRegister(k, e, Meant(fp), l)
    BY DEF AbstractMap!RecordRegister, AbstractMap!Stamped, AddressMap, RegisterMap,
           AddressRecord, RegisterRecord, Record
  <1> QED
    BY <1>1 DEF AbstractMap!Next

LEMMA MapInit == Init => AbstractMap!Init
  <1> SUFFICES ASSUME Init
               PROVE  AbstractMap!Init
    OBVIOUS
  <1>1. /\ \A a \in Addr : addrTab[AddrHash[a]] = <<>>
        /\ \A k \in RegKey : regTab[RegHash[k]] = <<>>
    BY HashTypes DEF Init
  <1>2. \A k : EntryOf(<<>>, k) = Absent
    BY DEF EntryOf, Holds
  <1> QED
    BY <1>1, <1>2 DEF Init, AbstractMap!Init, Recorded

LEMMA MapNext == SlotsApart /\ IInv /\ [Next]_vars
                     => [AbstractMap!Next]_<<AddressMap, RegisterMap, clock>>
  <1> SUFFICES ASSUME SlotsApart, IInv, [Next]_vars
               PROVE  AbstractMap!Next \/ UNCHANGED <<AddressMap, RegisterMap, clock>>
    OBVIOUS
  <1>0. TablesInv
    BY DEF IInv
  <1>1. ASSUME NEW e \in Err, NEW fp \in FilePtr, NEW l \in Line, NEW a \in Addr,
               AddressUpdate(a, e, fp, l)
        PROVE  AbstractMap!Next
    BY <1>0, <1>1, AddressMaps, AddressStep DEF AddressUpdate
  <1>2. ASSUME NEW e \in Err, NEW fp \in FilePtr, NEW l \in Line,
               NEW r \in Reg, NEW fn \in FnPtr, RegisterUpdate(r, fn, e, fp, l)
        PROVE  AbstractMap!Next
    <2> DEFINE k == <<r, Meant(fn)>>
    <2>1. /\ k \in RegKey
          /\ RegisterMap' = [RegisterMap EXCEPT ![k] = Record(e, Meant(fp), l)]
          /\ clock' = clock + 1 /\ AddressMap' = AddressMap
      BY <1>0, <1>2, RegisterMaps DEF RegisterUpdate
    <2> HIDE DEF k
    <2> QED
      BY <2>1, RegisterStep
  <1>3. ASSUME MemcpyStep
        PROVE  AbstractMap!Next
    <2>1. /\ copy \in CopyState /\ copy.off < copy.size
          /\ copy.dst + copy.size - 1 <= MaxAddr /\ DOMAIN copy.buf = 0..(copy.size - 1)
          /\ PutAddress(copy.dst + copy.off, copy.buf[copy.off], copy.file, copy.line)
      BY <1>3 DEF IInv, MemcpyStep, CopyTyped, NoCopy
    <2>2. /\ copy.dst \in Nat /\ copy.off \in Nat /\ copy.size \in Nat
          /\ copy.off \in 0..(copy.size - 1)
          /\ copy.file \in FilePtr /\ copy.line \in Line
      BY <2>1, TableAssumption DEF CopyState, Addr
    <2>3. copy.dst + copy.off \in Addr
      BY <2>1, <2>2, RangeTyped
    <2>4. copy.buf[copy.off] \in Err
      <3>1. PICK s \in 1..MaxCopy : copy.buf \in [0..(s - 1) -> Err]
        BY <2>1 DEF CopyState
      <3> QED
        BY <2>1, <2>2, <3>1
    <2> QED
      BY <1>0, <2>1, <2>2, <2>3, <2>4, AddressMaps, AddressStep
  <1>4. CASE UNCHANGED <<addrTab, regTab, clock>>
    BY <1>4 DEF AddressMap, RegisterMap
  <1> QED
    BY <1>1, <1>2, <1>3, <1>4 DEF Next, Update, Memcpy, MemcpyBegin, MemcpyEnd, vars

\* The chained tables, filled through the string cache, are a map of addresses
\* and a map of registers with one clock, if file and function names do not
\* share slots of the cache (_FPC_HT_SET_, _FPC_SAFE_STR_).
THEOREM TablesAreMaps == ASSUME SlotsApart
                         PROVE  Spec => ImplementsMap
  <1>1. Spec => [][AbstractMap!Next]_<<AddressMap, RegisterMap, clock>>
    BY MapNext, Inductive, PTL DEF Spec
  <1> QED
    BY <1>1, MapInit, PTL DEF Spec, ImplementsMap, AbstractMap!Spec, AbstractMap!mapVars,
       AddressMap, RegisterMap, AddressRecord, RegisterRecord

-----------------------------------------------------------------------------
(* Loops.                                                                  *)

\* A set of naturals has a least element.
LEMMA Least ==
    ASSUME NEW S \in SUBSET Nat, S # {}
    PROVE  \E d \in S : \A e \in S : d <= e
  <1>1. PICK x \in S : \A y \in S : ~(<<y, x>> \in OpToRel(<, Nat))
    BY NatLessThanWellFounded, WFMin, Zenon
  <1>2. \A y \in S : ~(y < x)
    BY <1>1, Zenon DEF OpToRel
  <1> QED
    BY <1>2

\* A set of naturals up to n that is not empty has a maximum.
LEMMA MaxIn ==
    ASSUME NEW n \in Nat, NEW s \in SUBSET (1..n), s # {}
    PROVE  Max(s) \in s /\ \A y \in s : Max(s) >= y
<1> DEFINE U == {u \in Nat : \A y \in s : u >= y}
<1>1. n \in U
  OBVIOUS
<1>2. U \in SUBSET Nat /\ U # {}
  BY <1>1
<1>3. PICK u \in U : \A v \in U : u <= v
  <2> HIDE DEF U
  <2> QED BY <1>2, Least
<1>4. u \in s
  <2> SUFFICES ASSUME u \notin s PROVE FALSE
    OBVIOUS
  <2>1. PICK y \in s : TRUE
    OBVIOUS
  <2>2. u \in Nat /\ u >= y /\ y >= 1
    BY <1>3
  <2>3. u - 1 \in U
    <3>1. u - 1 \in Nat
      BY <2>2
    <3>2. \A z \in s : u - 1 >= z
      BY <1>3, <2>2
    <3> QED BY <3>1, <3>2
  <2> QED
    BY <1>3, <2>2, <2>3
<1>5. \A y \in s : u >= y
  BY <1>3
<1> QED
  BY <1>4, <1>5 DEF Max

\* The maximum of a set of naturals up to n that has n is n.
LEMMA MaxIsLast ==
    ASSUME NEW n \in Nat, NEW s \in SUBSET (1..n), n \in s
    PROVE  Max(s) = n
<1>1. Max(s) \in s /\ \A y \in s : Max(s) >= y
  <2>1. s # {}
    OBVIOUS
  <2> QED BY <2>1, MaxIn
<1>2. Max(s) \in 1..n /\ Max(s) >= n
  BY <1>1
<1> QED
  BY <1>2

\* The function a fold from A with G over 1..n is defined by: it peels off
\* the largest index.
Folds(it, D, A, G, n) ==
    /\ it \in [SUBSET (1..n) -> D]
    /\ \A s \in SUBSET (1..n) :
          it[s] = IF s = {} THEN A ELSE G[<<it[s \ {Max(s)}], Max(s)>>]

\* The states of the loop: f[k] is the state after k iterations.
Loops(f, D, A, G, n) == /\ f \in [0..n -> D] /\ f[0] = A
                        /\ \A k \in 1..n : f[k] = G[<<f[k - 1], k>>]

\* A fold exists.
LEMMA FoldExists ==
    ASSUME NEW D, NEW A \in D, NEW n \in Nat, NEW G \in [D \X (1..n) -> D]
    PROVE  \E it : Folds(it, D, A, G, n)
<1> DEFINE Bad == {m \in 0..n : ~ \E it : Folds(it, D, A, G, m)}
<1>1. Bad = {}
  <2> SUFFICES ASSUME Bad # {} PROVE FALSE
    OBVIOUS
  <2>1. PICK m \in Bad : \A e \in Bad : m <= e
    <3>1. Bad \in SUBSET Nat
      OBVIOUS
    <3> HIDE DEF Bad
    <3> QED BY <3>1, Least
  <2>2. m \in 0..n
    OBVIOUS
  <2>3. CASE m = 0
    <3> DEFINE it == [s \in SUBSET (1..m) |-> A]
    <3>1. \A s \in SUBSET (1..m) : s = {}
      BY <2>3
    <3>2. Folds(it, D, A, G, m)
      BY <3>1 DEF Folds
    <3> QED
      BY <2>1, <3>2
  <2>4. CASE m # 0
    <3>0. m - 1 \in 0..n /\ m \in 1..n /\ ~(m <= m - 1)
      BY <2>2, <2>4
    <3>1. m - 1 \notin Bad
      <4> HIDE DEF Bad
      <4> QED BY <2>1, <3>0
    <3>2. PICK it : Folds(it, D, A, G, m - 1)
      BY <3>0, <3>1
    <3> DEFINE g == [s \in SUBSET (1..m) |->
                        IF m \in s THEN G[<<it[s \ {m}], m>>] ELSE it[s]]
    <3>3. \A s \in SUBSET (1..m) : m \notin s => s \in SUBSET (1..(m - 1))
      BY <3>0
    <3>4. \A s \in SUBSET (1..m) : s \ {m} \in SUBSET (1..(m - 1))
      BY <3>0
    <3>5. g \in [SUBSET (1..m) -> D]
      <4> SUFFICES ASSUME NEW s \in SUBSET (1..m)
                   PROVE  (IF m \in s THEN G[<<it[s \ {m}], m>>] ELSE it[s]) \in D
        OBVIOUS
      <4>1. CASE m \in s
        <5>1. it[s \ {m}] \in D
          BY <3>2, <3>4 DEF Folds
        <5> QED BY <3>0, <4>1, <5>1
      <4>2. CASE m \notin s
        BY <3>2, <3>3, <4>2 DEF Folds
      <4> QED BY <4>1, <4>2
    <3>6. ASSUME NEW s \in SUBSET (1..m)
          PROVE  g[s] = IF s = {} THEN A ELSE G[<<g[s \ {Max(s)}], Max(s)>>]
      <4>1. CASE m \in s
        <5>1. Max(s) = m
          BY <3>0, <4>1, MaxIsLast
        <5>2. s \ {m} \in SUBSET (1..m) /\ m \notin s \ {m}
          OBVIOUS
        <5>3. g[s \ {m}] = it[s \ {m}]
          BY <5>2
        <5> QED BY <4>1, <5>1, <5>3
      <4>2. CASE m \notin s
        <5>1. s \in SUBSET (1..(m - 1))
          BY <3>3, <4>2
        <5>2. it[s] = IF s = {} THEN A ELSE G[<<it[s \ {Max(s)}], Max(s)>>]
          BY <3>2, <5>1 DEF Folds
        <5>3. s \ {Max(s)} \in SUBSET (1..m) /\ m \notin s \ {Max(s)}
          BY <4>2
        <5>4. g[s \ {Max(s)}] = it[s \ {Max(s)}]
          BY <5>3
        <5> QED BY <4>2, <5>2, <5>4
      <4> QED BY <4>1, <4>2
    <3>7. Folds(g, D, A, G, m)
      <4> HIDE DEF g
      <4> QED BY <3>5, <3>6 DEF Folds
    <3> QED
      BY <2>1, <3>7
  <2> QED
    BY <2>3, <2>4
<1>2. n \in 0..n
  OBVIOUS
<1> QED
  BY <1>1, <1>2

\* A fold goes through the states of the loop, and ends in its last one.
LEMMA FoldLoops ==
    ASSUME NEW D, NEW A, NEW n \in Nat, NEW G, NEW it, Folds(it, D, A, G, n)
    PROVE  \E f : Loops(f, D, A, G, n) /\ it[1..n] = f[n]
<1> DEFINE f == [k \in 0..n |-> it[1..k]]
<1>1. \A k \in 0..n : 1..k \in SUBSET (1..n)
  OBVIOUS
<1>2. f \in [0..n -> D]
  BY <1>1 DEF Folds
<1>3. 1..0 = {} /\ 0 \in 0..n /\ n \in 0..n
  OBVIOUS
<1>4. f[0] = A
  BY <1>1, <1>3 DEF Folds
<1>5. ASSUME NEW k \in 1..n PROVE f[k] = G[<<f[k - 1], k>>]
  <2>1. k \in 0..n /\ k - 1 \in 0..n /\ k \in 1..k /\ k \in Nat
    OBVIOUS
  <2>2. Max(1..k) = k
    BY <2>1, MaxIsLast
  <2>3. (1..k) \ {k} = 1..(k - 1)
    OBVIOUS
  <2>4. 1..k # {}
    BY <2>1
  <2>5. it[1..k] = G[<<it[(1..k) \ {Max(1..k)}], Max(1..k)>>]
    BY <1>1, <2>1, <2>4 DEF Folds
  <2> QED
    BY <2>1, <2>2, <2>3, <2>5
<1>6. Loops(f, D, A, G, n)
  <2> HIDE DEF f
  <2> QED BY <1>2, <1>4, <1>5 DEF Loops
<1> QED
  BY <1>3, <1>6

\* A loop exists.
LEMMA LoopExists ==
    ASSUME NEW D, NEW A \in D, NEW n \in Nat, NEW G \in [D \X (1..n) -> D]
    PROVE  \E f : Loops(f, D, A, G, n)
  BY FoldExists, FoldLoops

-----------------------------------------------------------------------------
(* The walk over the bins of a table.                                      *)

\* The walk appends one bin after the other.
LEMMA BinsLoop ==
    ASSUME NEW S, NEW tab \in [Bin -> Seq(S)]
    PROVE  \E w : /\ w \in [0..Size -> Seq(S)] /\ w[0] = <<>>
                  /\ \A k \in 1..Size : w[k] = w[k - 1] \o tab[k - 1]
                  /\ BinsInOrder(tab) = w[Size]
<1> DEFINE chains == [i \in 1..Size |-> tab[i - 1]]
           G == [p \in Seq(S) \X (1..Size) |-> p[1] \o tab[p[2] - 1]]
           IsFlatten(g) == g = [i \in 1..Size |-> IF i = 1 THEN chains[i]
                                                  ELSE g[i - 1] \o chains[i]]
<1>0. Size \in Nat /\ Size >= 1
  BY TableAssumption
<1>1. \A k \in 1..Size : k - 1 \in Bin /\ tab[k - 1] \in Seq(S)
  BY <1>0 DEF Bin
<1>2. <<>> \in Seq(S)
  BY EmptySeq
<1>3. G \in [Seq(S) \X (1..Size) -> Seq(S)]
  <2> SUFFICES ASSUME NEW p \in Seq(S) \X (1..Size)
               PROVE  p[1] \o tab[p[2] - 1] \in Seq(S)
    OBVIOUS
  <2>1. p[1] \in Seq(S) /\ tab[p[2] - 1] \in Seq(S)
    BY <1>1
  <2> QED BY <2>1, ConcatProperties
<1>4. PICK f : Loops(f, Seq(S), <<>>, G, Size)
  <2> HIDE DEF G
  <2> QED BY <1>0, <1>2, <1>3, LoopExists
<1>5. f \in [0..Size -> Seq(S)] /\ f[0] = <<>>
  BY <1>4 DEF Loops
<1>6. ASSUME NEW k \in 1..Size PROVE f[k] = f[k - 1] \o tab[k - 1]
  <2>1. k - 1 \in 0..Size
    BY <1>0
  <2>2. f[k] = G[<<f[k - 1], k>>]
    BY <1>4 DEF Loops
  <2>3. <<f[k - 1], k>> \in Seq(S) \X (1..Size)
    BY <1>5, <2>1
  <2> QED BY <2>2, <2>3
<1>7. Len(chains) = Size /\ chains \in Seq(Seq(S))
  <2>1. chains \in [1..Size -> Seq(S)]
    BY <1>1
  <2> QED BY <1>0, <2>1 DEF Seq
<1> DEFINE h == [i \in 1..Size |-> f[i]]
<1>a. ASSUME NEW i \in 1..Size
      PROVE  f[i] = IF i = 1 THEN chains[i] ELSE f[i - 1] \o chains[i]
  <2>1. f[i] = f[i - 1] \o chains[i]
    BY <1>6
  <2>2. CASE i = 1
    <3>1. i - 1 = 0 /\ chains[i] \in Seq(S)
      BY <1>1, <2>2
    <3>2. <<>> \o chains[i] = chains[i]
      BY <3>1, ConcatEmptySeq
    <3> QED BY <1>5, <2>1, <2>2, <3>1, <3>2
  <2> QED BY <2>1, <2>2
<1>8. IsFlatten(h)
  <2>1. \A i \in 1..Size : i # 1 => i - 1 \in 1..Size
    BY <1>0
  <2> HIDE DEF chains
  <2> QED BY <1>a, <2>1
<1> DEFINE flatten == CHOOSE g : IsFlatten(g)
<1>9. IsFlatten(flatten)
  <2> HIDE DEF IsFlatten
  <2> QED BY <1>8
<1>10. BinsInOrder(tab) = flatten[Size]
  <2>1. Len(chains) # 0 /\ 1..Len(chains) = 1..Size
    BY <1>0, <1>7
  <2>2. FlattenSeq(chains) = flatten[Size]
    BY <1>7, <2>1 DEF FlattenSeq
  <2> QED BY <2>2 DEF BinsInOrder
<1>11. \A i \in 1..Size : flatten[i] = f[i]
  <2> DEFINE Bad == {i \in 1..Size : flatten[i] # f[i]}
  <2> SUFFICES ASSUME Bad # {} PROVE FALSE
    OBVIOUS
  <2>1. PICK i \in Bad : \A e \in Bad : i <= e
    <3> HIDE DEF flatten
    <3>1. Bad \in SUBSET Nat
      OBVIOUS
    <3> HIDE DEF Bad
    <3> QED BY <3>1, Least
  <2>2. i \in 1..Size /\ flatten[i] # f[i]
    OBVIOUS
  <2>3. flatten[i] = IF i = 1 THEN chains[i] ELSE flatten[i - 1] \o chains[i]
    <3> HIDE DEF flatten, chains
    <3> QED BY <1>9, <2>2
  <2>4. f[i] = IF i = 1 THEN chains[i] ELSE f[i - 1] \o chains[i]
    BY <1>a, <2>2
  <2>5. CASE i = 1
    BY <2>2, <2>3, <2>4, <2>5
  <2>6. CASE i # 1
    <3>1. i - 1 \in 1..Size /\ ~(i <= i - 1)
      BY <1>0, <2>2, <2>6
    <3>2. i - 1 \notin Bad
      <4> HIDE DEF Bad
      <4> QED BY <2>1, <3>1
    <3> HIDE DEF flatten, chains
    <3>3. flatten[i - 1] = f[i - 1]
      BY <3>1, <3>2
    <3> QED BY <2>2, <2>3, <2>4, <2>6, <3>3
  <2> QED BY <2>5, <2>6
<1>12. Size \in 1..Size
  BY <1>0
<1> HIDE DEF flatten
<1> QED
  BY <1>5, <1>6, <1>10, <1>11, <1>12

\* What the walk has collected when it has come to bin k: every entry of the
\* bins before k, and no key twice.
Collected(q, tab, k, Key) ==
    /\ q \in Seq(Entry(Key))
    /\ \A i \in DOMAIN q : \E b \in 0..(k - 1) : \E j \in DOMAIN tab[b] : q[i] = tab[b][j]
    /\ \A b \in 0..(k - 1) : \A j \in DOMAIN tab[b] : \E i \in DOMAIN q : q[i] = tab[b][j]
    /\ \A i, j \in DOMAIN q : q[i].key = q[j].key => i = j

\* One more bin is collected.
LEMMA CollectBin ==
    ASSUME NEW Key, NEW hash \in [Key -> Bin], NEW tab, TableOK(tab, hash, Key),
           NEW k \in 1..Size, NEW q, Collected(q, tab, k - 1, Key)
    PROVE  Collected(q \o tab[k - 1], tab, k, Key)
<1> DEFINE c == tab[k - 1]
           new == q \o c
<1>0. Size \in Nat /\ k - 1 \in Bin /\ k - 1 \in 0..(k - 1)
  BY TableAssumption DEF Bin
<1>1. q \in Seq(Entry(Key)) /\ c \in Seq(Entry(Key)) /\ Once(c)
  BY <1>0 DEF Collected, TableOK, KeyOnce
<1>2. /\ DOMAIN q = 1..Len(q) /\ Len(q) \in Nat
      /\ DOMAIN c = 1..Len(c) /\ Len(c) \in Nat
  BY <1>1, LenProperties
<1>3. /\ new \in Seq(Entry(Key)) /\ Len(new) = Len(q) + Len(c)
      /\ \A i \in 1..(Len(q) + Len(c)) :
            new[i] = IF i <= Len(q) THEN q[i] ELSE c[i - Len(q)]
  <2> HIDE DEF c
  <2> QED BY <1>1, ConcatProperties
<1>4. DOMAIN new = 1..(Len(q) + Len(c))
  BY <1>3, LenProperties
<1> HIDE DEF c, new
<1>5. \A i \in DOMAIN new : i \in DOMAIN q => new[i] = q[i]
  BY <1>2, <1>3, <1>4
<1>6. \A i \in DOMAIN new : i \notin DOMAIN q =>
          i - Len(q) \in DOMAIN c /\ new[i] = c[i - Len(q)]
  BY <1>2, <1>3, <1>4
<1>7. DOMAIN q \subseteq DOMAIN new
  BY <1>2, <1>4
<1>8. ASSUME NEW j \in DOMAIN c
      PROVE  j + Len(q) \in DOMAIN new /\ new[j + Len(q)] = c[j]
  <2> DEFINE m == j + Len(q)
  <2>1. m \in DOMAIN new /\ m \notin DOMAIN q /\ m - Len(q) = j
    BY <1>2, <1>4
  <2>2. new[m] = c[j]
    <3> HIDE DEF m
    <3> QED BY <1>6, <2>1
  <2> QED BY <2>1, <2>2
<1>9. \A b \in 0..(k - 1) : b = k - 1 \/ b \in 0..(k - 1 - 1)
  BY <1>0
<1>10. 0..(k - 1 - 1) \subseteq 0..(k - 1) /\ 0..(k - 1 - 1) \subseteq Bin
  BY <1>0 DEF Bin
<1>11. ASSUME NEW i \in DOMAIN new
       PROVE  \E b \in 0..(k - 1) : \E j \in DOMAIN tab[b] : new[i] = tab[b][j]
  <2>1. CASE i \in DOMAIN q
    BY <1>5, <1>10, <2>1 DEF Collected
  <2>2. CASE i \notin DOMAIN q
    BY <1>0, <1>6, <2>2 DEF c
  <2> QED BY <2>1, <2>2
<1>12. ASSUME NEW b \in 0..(k - 1), NEW j \in DOMAIN tab[b]
       PROVE  \E i \in DOMAIN new : new[i] = tab[b][j]
  <2>1. CASE b = k - 1
    <3>1. j \in DOMAIN c
      BY <2>1 DEF c
    <3>2. new[j + Len(q)] = c[j] /\ j + Len(q) \in DOMAIN new
      BY <1>8, <3>1
    <3> QED BY <2>1, <3>2 DEF c
  <2>2. CASE b \in 0..(k - 1 - 1)
    <3>1. PICK i \in DOMAIN q : q[i] = tab[b][j]
      BY <2>2 DEF Collected
    <3> QED BY <1>5, <1>7, <3>1
  <2> QED BY <1>9, <2>1, <2>2
<1>13. ASSUME NEW i \in DOMAIN q, NEW j \in DOMAIN c
       PROVE  q[i].key # c[j].key
  <2>1. PICK b \in 0..(k - 1 - 1) : \E l \in DOMAIN tab[b] : q[i] = tab[b][l]
    BY DEF Collected
  <2>2. hash[q[i].key] = b
    BY <1>10, <2>1 DEF TableOK, Placed
  <2>3. hash[c[j].key] = k - 1
    BY <1>0 DEF TableOK, Placed, c
  <2>4. b # k - 1
    BY <1>0
  <2> QED BY <2>2, <2>3, <2>4
<1>14. ASSUME NEW i \in DOMAIN new, NEW j \in DOMAIN new, new[i].key = new[j].key
       PROVE  i = j
  <2>1. CASE i \in DOMAIN q /\ j \in DOMAIN q
    BY <1>5, <1>14, <2>1 DEF Collected
  <2>2. CASE i \notin DOMAIN q /\ j \notin DOMAIN q
    <3>1. i - Len(q) = j - Len(q)
      BY <1>1, <1>6, <1>14, <2>2 DEF Once
    <3> QED BY <1>2, <1>4, <3>1
  <2>3. CASE i \in DOMAIN q /\ j \notin DOMAIN q
    BY <1>5, <1>6, <1>13, <1>14, <2>3
  <2>4. CASE i \notin DOMAIN q /\ j \in DOMAIN q
    BY <1>5, <1>6, <1>13, <1>14, <2>4
  <2> QED BY <2>1, <2>2, <2>3, <2>4
<1> QED
  BY <1>3, <1>11, <1>12, <1>14 DEF Collected, new, c

\* The walk collects every entry of a table, and no key twice.
LEMMA BinsCollected ==
    ASSUME NEW Key, NEW hash \in [Key -> Bin], NEW tab, TableOK(tab, hash, Key)
    PROVE  Collected(BinsInOrder(tab), tab, Size, Key)
<1>0. Size \in Nat /\ tab \in [Bin -> Seq(Entry(Key))]
  BY TableAssumption DEF TableOK
<1>1. PICK w : /\ w \in [0..Size -> Seq(Entry(Key))] /\ w[0] = <<>>
               /\ \A k \in 1..Size : w[k] = w[k - 1] \o tab[k - 1]
               /\ BinsInOrder(tab) = w[Size]
  BY <1>0, BinsLoop
<1> DEFINE Bad == {k \in 0..Size : ~Collected(w[k], tab, k, Key)}
<1>2. Bad = {}
  <2> SUFFICES ASSUME Bad # {} PROVE FALSE
    OBVIOUS
  <2>1. PICK k \in Bad : \A e \in Bad : k <= e
    <3>1. Bad \in SUBSET Nat
      OBVIOUS
    <3> HIDE DEF Bad
    <3> QED BY <3>1, Least
  <2>2. CASE k = 0
    <3>1. <<>> \in Seq(Entry(Key)) /\ DOMAIN <<>> = {}
      BY EmptySeq
    <3>2. 0..(0 - 1) = {}
      OBVIOUS
    <3>3. Collected(<<>>, tab, 0, Key)
      BY <3>1, <3>2 DEF Collected
    <3> QED BY <1>1, <2>1, <2>2, <3>3
  <2>3. CASE k # 0
    <3>1. k \in 1..Size /\ k - 1 \in 0..Size /\ ~(k <= k - 1)
      BY <1>0, <2>3
    <3>2. k - 1 \notin Bad
      <4> HIDE DEF Bad
      <4> QED BY <2>1, <3>1
    <3>3. Collected(w[k - 1], tab, k - 1, Key)
      BY <3>1, <3>2
    <3>4. Collected(w[k - 1] \o tab[k - 1], tab, k, Key)
      BY <3>1, <3>3, CollectBin
    <3> QED BY <1>1, <2>1, <3>1, <3>4
  <2> QED BY <2>2, <2>3
<1> QED
  BY <1>0, <1>1, <1>2

\* The walk is no longer than the table has keys.
LEMMA BinsLength ==
    ASSUME NEW Key, NEW hash \in [Key -> Bin], NEW tab, TableOK(tab, hash, Key),
           IsFiniteSet(Present(tab, Key))
    PROVE  Len(BinsInOrder(tab)) <= Cardinality(Present(tab, Key))
<1> DEFINE q == BinsInOrder(tab)
           f == [i \in 1..Len(q) |-> q[i].key]
<1>0. Size \in Nat
  BY TableAssumption
<1>1. Collected(q, tab, Size, Key)
  BY BinsCollected
<1> HIDE DEF q
<1>2. q \in Seq(Entry(Key)) /\ DOMAIN q = 1..Len(q) /\ Len(q) \in Nat
  BY <1>1, LenProperties DEF Collected
<1>3. ASSUME NEW i \in 1..Len(q) PROVE f[i] \in Present(tab, Key)
  <2>0. q[i] \in Entry(Key)
    BY <1>2, ElementOfSeq
  <2>1. q[i].key \in Key
    BY <2>0 DEF Entry
  <2>2. PICK b \in 0..(Size - 1) : \E j \in DOMAIN tab[b] : q[i] = tab[b][j]
    BY <1>1, <1>2 DEF Collected
  <2> QED BY <2>1, <2>2 DEF Present, Holds, Bin
<1>4. \A i, j \in 1..Len(q) : f[i] = f[j] => i = j
  BY <1>1, <1>2 DEF Collected
<1>5. f \in Injection(1..Len(q), Present(tab, Key))
  BY <1>3, <1>4 DEF Injection, IsInjective
<1>6. Cardinality(1..Len(q)) <= Cardinality(Present(tab, Key))
  BY <1>5, FS_Injection
<1>7. Cardinality(1..Len(q)) = Len(q)
  <2>1. 1 \in Int /\ Len(q) \in Int
    BY <1>2
  <2>2. Cardinality(1..Len(q)) = IF 1 > Len(q) THEN 0 ELSE Len(q) - 1 + 1
    BY <2>1, FS_Interval, Zenon
  <2> QED BY <1>2, <2>2
<1> QED
  BY <1>6, <1>7 DEF q

-----------------------------------------------------------------------------
(* The entries of both tables.                                             *)

AnyEntry == Entry(Addr) \cup Entry(RegKey)
InTable(e, tab) == \E b \in Bin : \E j \in DOMAIN tab[b] : e = tab[b][j]

\* AllEntries are the entries of the two tables.
LEMMA AllIn == \A e : e \in AllEntries <=> InTable(e, addrTab) \/ InTable(e, regTab)
<1> SUFFICES ASSUME NEW e
             PROVE  e \in AllEntries <=> InTable(e, addrTab) \/ InTable(e, regTab)
  OBVIOUS
<1>1. \A chain : e \in ToSet(chain) <=> \E j \in DOMAIN chain : e = chain[j]
  BY DEF ToSet
<1>2. e \in AllEntries <=> \/ \E b \in Bin : e \in ToSet(addrTab[b])
                          \/ \E b \in Bin : e \in ToSet(regTab[b])
  BY DEF AllEntries
<1> QED
  BY <1>1, <1>2 DEF InTable

\* The writer comes past every entry of the tables and past nothing else, and
\* past no more than the item counts say.
LEMMA EntriesWalked ==
    ASSUME TablesInv
    PROVE  /\ Entries \in Seq(AnyEntry)
           /\ Len(Entries) <= addrN + regN
           /\ \A i \in DOMAIN Entries : Entries[i] \in AllEntries
           /\ \A e \in AllEntries : \E i \in DOMAIN Entries : e = Entries[i]
<1> DEFINE a == BinsInOrder(addrTab)
           r == BinsInOrder(regTab)
<1>0. Size \in Nat /\ Bin = 0..(Size - 1)
  BY TableAssumption DEF Bin
<1>1. TableOK(addrTab, AddrHash, Addr) /\ TableOK(regTab, RegHash, RegKey)
  BY DEF TablesInv, TablesTyped, EachKeyOnce, TableOK
<1>2. Collected(a, addrTab, Size, Addr) /\ Collected(r, regTab, Size, RegKey)
  BY <1>1, HashTypes, BinsCollected
<1>3. Len(a) <= addrN
  BY <1>1, HashTypes, BinsLength DEF TablesInv, Counted
<1>4. Len(r) <= regN
  BY <1>1, HashTypes, BinsLength DEF TablesInv, Counted
<1>5. Entries = a \o r
  BY DEF Entries
<1> HIDE DEF a, r
<1>6. a \in Seq(Entry(Addr)) /\ r \in Seq(Entry(RegKey))
  BY <1>2 DEF Collected
<1>7. a \in Seq(AnyEntry) /\ r \in Seq(AnyEntry)
  <2>1. Entry(Addr) \subseteq AnyEntry /\ Entry(RegKey) \subseteq AnyEntry
    BY DEF AnyEntry
  <2> QED BY <1>6, <2>1, SeqMonotonic
<1>8. /\ Entries \in Seq(AnyEntry) /\ Len(Entries) = Len(a) + Len(r)
      /\ \A i \in 1..(Len(a) + Len(r)) :
            Entries[i] = IF i <= Len(a) THEN a[i] ELSE r[i - Len(a)]
  BY <1>5, <1>7, ConcatProperties
<1>9. /\ DOMAIN Entries = 1..(Len(a) + Len(r))
      /\ DOMAIN a = 1..Len(a) /\ DOMAIN r = 1..Len(r) /\ Len(a) \in Nat /\ Len(r) \in Nat
  BY <1>7, <1>8, LenProperties
<1>10. Len(Entries) <= addrN + regN
  BY <1>3, <1>4, <1>8, <1>9 DEF TablesInv, TablesTyped
<1>11. \A i \in DOMAIN a : InTable(a[i], addrTab)
  BY <1>0, <1>2 DEF Collected, InTable
<1>12. \A i \in DOMAIN r : InTable(r[i], regTab)
  BY <1>0, <1>2 DEF Collected, InTable
<1>13. ASSUME NEW i \in DOMAIN Entries PROVE Entries[i] \in AllEntries
  <2>1. CASE i <= Len(a)
    <3>1. i \in DOMAIN a /\ Entries[i] = a[i]
      BY <1>8, <1>9, <2>1
    <3> QED BY <1>11, <3>1, AllIn
  <2>2. CASE ~(i <= Len(a))
    <3>1. i - Len(a) \in DOMAIN r /\ Entries[i] = r[i - Len(a)]
      BY <1>8, <1>9, <2>2
    <3> QED BY <1>12, <3>1, AllIn
  <2> QED BY <2>1, <2>2
<1>14. ASSUME NEW e \in AllEntries PROVE \E i \in DOMAIN Entries : e = Entries[i]
  <2>1. CASE InTable(e, addrTab)
    <3>1. PICK i \in DOMAIN a : e = a[i]
      BY <1>0, <1>2, <2>1 DEF Collected, InTable
    <3>2. i \in DOMAIN Entries /\ Entries[i] = a[i]
      BY <1>8, <1>9
    <3> QED BY <3>1, <3>2
  <2>2. CASE InTable(e, regTab)
    <3>1. PICK i \in DOMAIN r : e = r[i]
      BY <1>0, <1>2, <2>2 DEF Collected, InTable
    <3> DEFINE j == Len(a) + i
    <3>2. j \in 1..(Len(a) + Len(r)) /\ ~(j <= Len(a)) /\ j - Len(a) = i
      BY <1>9
    <3>3. Entries[j] = r[i]
      <4> HIDE DEF j
      <4> QED BY <1>8, <3>2
    <3> QED BY <1>9, <3>1, <3>2, <3>3
  <2> QED BY <2>1, <2>2, AllIn
<1> QED
  BY <1>8, <1>10, <1>13, <1>14

\* No two entries have the same stamp.
LEMMA StampsApart ==
    ASSUME TablesInv, NEW x \in AllEntries, NEW y \in AllEntries, x.clock = y.clock
    PROVE  x = y
<1>1. StampOnce(addrTab) /\ StampOnce(regTab) /\ StampsDiffer
  BY DEF TablesInv, StampsAreUnique
<1>2. /\ InTable(x, addrTab) \/ InTable(x, regTab)
      /\ InTable(y, addrTab) \/ InTable(y, regTab)
  BY AllIn
<1>3. CASE InTable(x, addrTab) /\ InTable(y, addrTab)
  BY <1>1, <1>3 DEF InTable, StampOnce
<1>4. CASE InTable(x, regTab) /\ InTable(y, regTab)
  BY <1>1, <1>4 DEF InTable, StampOnce
<1>5. CASE InTable(x, addrTab) /\ InTable(y, regTab)
  BY <1>1, <1>5 DEF InTable, StampsDiffer
<1>6. CASE InTable(x, regTab) /\ InTable(y, addrTab)
  BY <1>1, <1>6 DEF InTable, StampsDiffer
<1> QED
  BY <1>2, <1>3, <1>4, <1>5, <1>6

-----------------------------------------------------------------------------
(* The log.                                                                *)

\* An entry makes a row.
LEMMA RowOfEntry ==
    ASSUME NEW e \in AnyEntry
    PROVE  /\ Row(e) \in LogRow
           /\ Row(e).file = e.file /\ Row(e).line = e.line /\ Row(e).clock = e.clock
           /\ e.clock \in Nat
<1>1. e.file \in Text /\ e.line \in Line /\ e.err \in Err /\ e.clock \in Nat
  BY DEF AnyEntry, Entry
<1> QED
  BY <1>1 DEF Row, LogRow

\* Entering an entry keeps the rows of the other lines, in their places, and
\* leaves a row of its line that is as new as the entry.
LEMMA EnterRows ==
    ASSUME NEW log \in Seq(LogRow), NEW e \in AnyEntry
    PROVE  /\ Enter(log, e) \in Seq(LogRow)
           /\ DOMAIN log \subseteq DOMAIN Enter(log, e)
           /\ \A i \in DOMAIN log : /\ SameRow(Enter(log, e)[i], log[i])
                                    /\ log[i].clock <= Enter(log, e)[i].clock
           /\ \A i \in DOMAIN Enter(log, e) :
                 \/ i \in DOMAIN log /\ Enter(log, e)[i] = log[i]
                 \/ Enter(log, e)[i] = Row(e)
           /\ \E i \in DOMAIN Enter(log, e) : /\ SameRow(Enter(log, e)[i], e)
                                              /\ e.clock <= Enter(log, e)[i].clock
           /\ Len(Enter(log, e)) <= Len(log) + 1
           /\ \A i \in DOMAIN Enter(log, e) : i \notin DOMAIN log =>
                 /\ i = Len(log) + 1
                 /\ \A j \in DOMAIN log : ~SameRow(log[j], e)
<1> DEFINE new == Enter(log, e)
<1>1. /\ Row(e) \in LogRow /\ Row(e).file = e.file /\ Row(e).line = e.line
      /\ Row(e).clock = e.clock /\ e.clock \in Nat
  BY RowOfEntry
<1>2. DOMAIN log = 1..Len(log) /\ Len(log) \in Nat
  BY LenProperties
<1>3. \A i \in DOMAIN log : log[i] \in LogRow /\ log[i].clock \in Nat
  <2>1. \A i \in DOMAIN log : log[i] \in LogRow
    BY <1>2, ElementOfSeq
  <2> QED BY <2>1 DEF LogRow
<1>4. CASE \E i \in DOMAIN log : SameRow(log[i], e)
  <2>1. new = [i \in DOMAIN log |->
                  IF SameRow(log[i], e) /\ Newer(log[i], e) THEN Row(e) ELSE log[i]]
    BY <1>4 DEF Enter
  <2> HIDE DEF new
  <2>2. DOMAIN new = DOMAIN log
    BY <2>1
  <2>3. \A i \in DOMAIN log : IF SameRow(log[i], e) /\ Newer(log[i], e)
                              THEN new[i] = Row(e) ELSE new[i] = log[i]
    BY <2>1
  <2>4. new \in Seq(LogRow) /\ Len(new) = Len(log)
    <3>1. \A i \in DOMAIN log : new[i] \in LogRow
      BY <1>1, <1>3, <2>3
    <3>2. new \in [1..Len(log) -> LogRow]
      BY <1>2, <2>1, <3>1
    <3> QED BY <1>2, <2>2, <3>2 DEF Seq
  <2>5. \A i \in DOMAIN log : SameRow(new[i], log[i])
    BY <1>1, <2>3 DEF SameRow
  <2>6. \A i \in DOMAIN log : log[i].clock <= new[i].clock
    BY <1>1, <1>3, <2>3 DEF Newer
  <2>7. PICK i \in DOMAIN log : SameRow(log[i], e)
    BY <1>4
  <2>8. SameRow(new[i], e)
    BY <2>5, <2>7 DEF SameRow
  <2>9. e.clock <= new[i].clock
    BY <1>1, <1>3, <2>3, <2>7 DEF Newer
  <2>10. Len(new) <= Len(log) + 1
    BY <1>2, <2>4
  <2> QED
    BY <2>2, <2>3, <2>4, <2>5, <2>6, <2>8, <2>9, <2>10 DEF new
<1>5. CASE ~ \E i \in DOMAIN log : SameRow(log[i], e)
  <2>1. new = Append(log, Row(e))
    BY <1>5 DEF Enter
  <2>2. /\ new \in Seq(LogRow) /\ Len(new) = Len(log) + 1
        /\ \A i \in 1..Len(log) : new[i] = log[i]
        /\ new[Len(log) + 1] = Row(e)
    BY <1>1, <2>1, AppendProperties
  <2> HIDE DEF new
  <2>3. DOMAIN new = 1..(Len(log) + 1)
    BY <2>2, LenProperties
  <2>4. \A i \in DOMAIN new : i \in DOMAIN log \/ i = Len(log) + 1
    BY <1>2, <2>3
  <2>5. DOMAIN log \subseteq DOMAIN new /\ Len(log) + 1 \in DOMAIN new
    BY <1>2, <2>3
  <2>6. \A i \in DOMAIN log : new[i] = log[i] /\ SameRow(new[i], log[i])
                              /\ log[i].clock <= new[i].clock
    BY <1>2, <1>3, <2>2 DEF SameRow
  <2>7. /\ SameRow(new[Len(log) + 1], e)
        /\ e.clock <= new[Len(log) + 1].clock
    BY <1>1, <2>2 DEF SameRow
  <2>8. Len(new) <= Len(log) + 1
    BY <1>2, <2>2
  <2> QED
    BY <1>5, <2>2, <2>4, <2>5, <2>6, <2>7, <2>8 DEF new
<1> QED
  BY <1>4, <1>5

\* The log after k entries of es: no more than k rows, one for each line, each
\* made from an entry, and none older than an entry of its line.
LogOK(log, es, k) ==
    /\ log \in Seq(LogRow)
    /\ Len(log) <= k
    /\ \A i, j \in DOMAIN log : SameRow(log[i], log[j]) => i = j
    /\ \A i \in DOMAIN log : \E p \in 1..k : log[i] = Row(es[p])
    /\ \A p \in 1..k : \E i \in DOMAIN log : /\ SameRow(log[i], es[p])
                                             /\ es[p].clock <= log[i].clock

\* One more entry is entered.
LEMMA LogStep ==
    ASSUME NEW es \in Seq(AnyEntry), NEW k \in 1..Len(es),
           NEW log, LogOK(log, es, k - 1)
    PROVE  LogOK(Enter(log, es[k]), es, k)
<1> DEFINE e == es[k]
           new == Enter(log, e)
<1>0. /\ Len(es) \in Nat /\ e \in AnyEntry /\ log \in Seq(LogRow)
      /\ DOMAIN log = 1..Len(log) /\ Len(log) \in Nat
  BY LenProperties, ElementOfSeq DEF LogOK
<1>1. /\ new \in Seq(LogRow)
      /\ DOMAIN log \subseteq DOMAIN new
      /\ \A i \in DOMAIN log : SameRow(new[i], log[i]) /\ log[i].clock <= new[i].clock
      /\ \A i \in DOMAIN new : (i \in DOMAIN log /\ new[i] = log[i]) \/ new[i] = Row(e)
      /\ \E i \in DOMAIN new : SameRow(new[i], e) /\ e.clock <= new[i].clock
      /\ Len(new) <= Len(log) + 1
      /\ \A i \in DOMAIN new : i \notin DOMAIN log =>
            i = Len(log) + 1 /\ \A j \in DOMAIN log : ~SameRow(log[j], e)
  <2> HIDE DEF e
  <2> QED BY <1>0, EnterRows
<1>2. Row(e).file = e.file /\ Row(e).line = e.line
  BY DEF Row
<1>3. k \in 1..k /\ \A p \in 1..k : p = k \/ p \in 1..(k - 1)
  BY <1>0
<1>4. 1..(k - 1) \subseteq 1..k /\ k \in Nat
  BY <1>0
<1>5. Len(new) \in Nat /\ DOMAIN new = 1..Len(new)
  BY <1>1, LenProperties
<1> HIDE DEF e, new
<1>6. Len(new) <= k
  BY <1>0, <1>1, <1>4, <1>5 DEF LogOK
<1>7. ASSUME NEW i \in DOMAIN new, NEW j \in DOMAIN new, SameRow(new[i], new[j])
      PROVE  i = j
  <2>1. CASE i \in DOMAIN log /\ j \in DOMAIN log
    BY <1>1, <1>7, <2>1 DEF LogOK, SameRow
  <2>2. CASE i \in DOMAIN log /\ j \notin DOMAIN log
    BY <1>1, <1>2, <1>7, <2>2 DEF SameRow
  <2>3. CASE i \notin DOMAIN log /\ j \in DOMAIN log
    BY <1>1, <1>2, <1>7, <2>3 DEF SameRow
  <2>4. CASE i \notin DOMAIN log /\ j \notin DOMAIN log
    BY <1>1, <2>4
  <2> QED BY <2>1, <2>2, <2>3, <2>4
<1>8. ASSUME NEW i \in DOMAIN new PROVE \E p \in 1..k : new[i] = Row(es[p])
  BY <1>1, <1>3, <1>4 DEF LogOK, e
<1>9. ASSUME NEW p \in 1..k
      PROVE  \E i \in DOMAIN new : SameRow(new[i], es[p]) /\ es[p].clock <= new[i].clock
  <2>1. CASE p = k
    BY <1>1, <2>1 DEF e
  <2>2. CASE p \in 1..(k - 1)
    <3>1. PICK i \in DOMAIN log : SameRow(log[i], es[p]) /\ es[p].clock <= log[i].clock
      BY <2>2 DEF LogOK
    <3>2. i \in DOMAIN new /\ SameRow(new[i], es[p])
      BY <1>1, <3>1 DEF SameRow
    <3>3. es[p] \in AnyEntry /\ log[i] \in LogRow /\ new[i] \in LogRow
      <4>1. p \in 1..Len(es) /\ i \in 1..Len(log) /\ i \in 1..Len(new)
        BY <1>0, <1>5, <3>1, <3>2, <2>2
      <4> QED BY <1>0, <1>1, <4>1, ElementOfSeq
    <3>4. es[p].clock \in Nat /\ log[i].clock \in Nat /\ new[i].clock \in Nat
      BY <3>3, RowOfEntry DEF LogRow
    <3>5. log[i].clock <= new[i].clock
      BY <1>1
    <3>6. es[p].clock <= new[i].clock
      BY <3>1, <3>4, <3>5
    <3> QED BY <3>2, <3>6
  <2> QED BY <1>3, <2>1, <2>2
<1> QED
  BY <1>1, <1>6, <1>7, <1>8, <1>9 DEF LogOK, new, e

\* The writer's loop over the entries.
LEMMA LogLoop ==
    ASSUME NEW es \in Seq(AnyEntry)
    PROVE  \E f : /\ f[0] = <<>>
                  /\ \A k \in 1..Len(es) : f[k] = Enter(f[k - 1], es[k])
                  /\ FoldLeft(Enter, <<>>, es) = f[Len(es)]
<1> DEFINE D == Seq(LogRow)
           n == Len(es)
           G == [p \in D \X (1..n) |-> Enter(p[1], es[p[2]])]
           IsFold(g) == g = [s \in SUBSET DOMAIN es |->
                               IF s = {} THEN <<>>
                               ELSE Enter(g[s \ {Max(s)}], es[Max(s)])]
           it == CHOOSE g : IsFold(g)
<1>1. n \in Nat /\ DOMAIN es = 1..n /\ <<>> \in D
  BY LenProperties, EmptySeq
<1>2. FoldLeft(Enter, <<>>, es) = it[DOMAIN es]
  BY DEF FoldLeft, MapThenFoldSet
<1>3. G \in [D \X (1..n) -> D]
  <2> SUFFICES ASSUME NEW p \in D \X (1..n) PROVE Enter(p[1], es[p[2]]) \in D
    OBVIOUS
  <2>1. p[1] \in Seq(LogRow) /\ es[p[2]] \in AnyEntry
    BY <1>1, ElementOfSeq
  <2> QED BY <2>1, EnterRows
<1>4. PICK g : Folds(g, D, <<>>, G, n)
  <2> HIDE DEF G, D, n
  <2> QED BY <1>1, <1>3, FoldExists
<1>5. \A s \in SUBSET (1..n) : s # {} => Max(s) \in 1..n
  BY <1>1, MaxIn
<1>6. IsFold(g)
  <2>1. g \in [SUBSET (1..n) -> D]
    BY <1>4 DEF Folds
  <2>2. ASSUME NEW s \in SUBSET (1..n)
        PROVE  g[s] = IF s = {} THEN <<>> ELSE Enter(g[s \ {Max(s)}], es[Max(s)])
    <3>1. g[s] = IF s = {} THEN <<>> ELSE G[<<g[s \ {Max(s)}], Max(s)>>]
      BY <1>4 DEF Folds
    <3>2. g[s \ {Max(s)}] \in D
      BY <2>1
    <3>3. s # {} => G[<<g[s \ {Max(s)}], Max(s)>>] = Enter(g[s \ {Max(s)}], es[Max(s)])
      <4> HIDE DEF D, n
      <4> QED BY <1>5, <3>2
    <3> HIDE DEF G
    <3> QED BY <3>1, <3>3
  <2> HIDE DEF D, n
  <2> QED BY <1>1, <2>1, <2>2
<1>7. IsFold(it)
  <2> HIDE DEF IsFold
  <2> QED BY <1>6
<1> HIDE DEF it, n
<1> DEFINE f == [k \in 0..n |-> it[1..k]]
<1>8. \A k \in 0..n : 1..k \in SUBSET DOMAIN es
  BY <1>1
<1>9. 1..0 = {} /\ 0 \in 0..n /\ n \in 0..n
  BY <1>1
<1>10. f[0] = <<>>
  BY <1>7, <1>8, <1>9
<1>11. ASSUME NEW k \in 1..n PROVE f[k] = Enter(f[k - 1], es[k])
  <2>1. k \in 0..n /\ k - 1 \in 0..n /\ k \in 1..k /\ k \in Nat
    BY <1>1
  <2>2. Max(1..k) = k
    BY <2>1, MaxIsLast
  <2>3. (1..k) \ {k} = 1..(k - 1) /\ 1..k # {}
    BY <2>1
  <2>4. it[1..k] = Enter(it[(1..k) \ {Max(1..k)}], es[Max(1..k)])
    BY <1>7, <1>8, <2>1, <2>3
  <2> QED
    BY <2>1, <2>2, <2>3, <2>4
<1>12. FoldLeft(Enter, <<>>, es) = f[n]
  BY <1>1, <1>2, <1>9
<1> HIDE DEF f
<1> QED
  BY <1>10, <1>11, <1>12 DEF n

\* The log of all entries.
LEMMA LogOfAll ==
    ASSUME NEW es \in Seq(AnyEntry)
    PROVE  LogOK(FoldLeft(Enter, <<>>, es), es, Len(es))
<1>0. Len(es) \in Nat
  BY LenProperties
<1>1. PICK f : /\ f[0] = <<>>
               /\ \A k \in 1..Len(es) : f[k] = Enter(f[k - 1], es[k])
               /\ FoldLeft(Enter, <<>>, es) = f[Len(es)]
  BY LogLoop
<1> DEFINE Bad == {k \in 0..Len(es) : ~LogOK(f[k], es, k)}
<1>2. Bad = {}
  <2> SUFFICES ASSUME Bad # {} PROVE FALSE
    OBVIOUS
  <2>1. PICK k \in Bad : \A e \in Bad : k <= e
    <3>1. Bad \in SUBSET Nat
      OBVIOUS
    <3> HIDE DEF Bad
    <3> QED BY <3>1, Least
  <2>2. CASE k = 0
    <3>1. <<>> \in Seq(LogRow) /\ DOMAIN <<>> = {} /\ Len(<<>>) = 0 /\ 1..0 = {}
      BY EmptySeq
    <3>2. LogOK(<<>>, es, 0)
      BY <3>1 DEF LogOK
    <3> QED BY <1>1, <2>1, <2>2, <3>2
  <2>3. CASE k # 0
    <3>1. k \in 1..Len(es) /\ k - 1 \in 0..Len(es) /\ ~(k <= k - 1)
      BY <1>0, <2>3
    <3>2. k - 1 \notin Bad
      <4> HIDE DEF Bad
      <4> QED BY <2>1, <3>1
    <3>3. LogOK(f[k - 1], es, k - 1)
      BY <3>1, <3>2
    <3>4. LogOK(Enter(f[k - 1], es[k]), es, k)
      BY <3>1, <3>3, LogStep
    <3> QED BY <1>1, <2>1, <3>1, <3>4
  <2> QED BY <2>2, <2>3
<1>3. Len(es) \in 0..Len(es)
  BY <1>0
<1> QED
  BY <1>1, <1>2, <1>3

\* The log the report is written from.
LEMMA ErrorsLogged ==
    ASSUME TablesInv
    PROVE  LogOK(ErrorsLog, Entries, Len(Entries))
  BY EntriesWalked, LogOfAll DEF ErrorsLog

-----------------------------------------------------------------------------
(* The rows that are written.                                              *)

\* The writer's loop over the rows of the log.
LEMMA WrittenLoop ==
    ASSUME NEW es \in Seq(LogRow)
    PROVE  \E f : /\ f[0] = <<>>
                  /\ \A k \in 1..Len(es) : f[k] = AddShown(f[k - 1], es[k])
                  /\ FoldLeft(AddShown, <<>>, es) = f[Len(es)]
<1> DEFINE D == Seq(LogRow)
           n == Len(es)
           G == [p \in D \X (1..n) |-> AddShown(p[1], es[p[2]])]
           IsFold(g) == g = [s \in SUBSET DOMAIN es |->
                               IF s = {} THEN <<>>
                               ELSE AddShown(g[s \ {Max(s)}], es[Max(s)])]
           it == CHOOSE g : IsFold(g)
<1>1. n \in Nat /\ DOMAIN es = 1..n /\ <<>> \in D
  BY LenProperties, EmptySeq
<1>2. FoldLeft(AddShown, <<>>, es) = it[DOMAIN es]
  BY DEF FoldLeft, MapThenFoldSet
<1>3. G \in [D \X (1..n) -> D]
  <2> SUFFICES ASSUME NEW p \in D \X (1..n) PROVE AddShown(p[1], es[p[2]]) \in D
    OBVIOUS
  <2>1. p[1] \in Seq(LogRow) /\ es[p[2]] \in LogRow
    BY <1>1, ElementOfSeq
  <2> QED BY <2>1, AppendProperties DEF AddShown
<1>4. PICK g : Folds(g, D, <<>>, G, n)
  <2> HIDE DEF G, D, n
  <2> QED BY <1>1, <1>3, FoldExists
<1>5. \A s \in SUBSET (1..n) : s # {} => Max(s) \in 1..n
  BY <1>1, MaxIn
<1>6. IsFold(g)
  <2>1. g \in [SUBSET (1..n) -> D]
    BY <1>4 DEF Folds
  <2>2. ASSUME NEW s \in SUBSET (1..n)
        PROVE  g[s] = IF s = {} THEN <<>> ELSE AddShown(g[s \ {Max(s)}], es[Max(s)])
    <3>1. g[s] = IF s = {} THEN <<>> ELSE G[<<g[s \ {Max(s)}], Max(s)>>]
      BY <1>4 DEF Folds
    <3>2. g[s \ {Max(s)}] \in D
      BY <2>1
    <3>3. s # {} => G[<<g[s \ {Max(s)}], Max(s)>>] = AddShown(g[s \ {Max(s)}], es[Max(s)])
      <4> HIDE DEF D, n
      <4> QED BY <1>5, <3>2
    <3> HIDE DEF G
    <3> QED BY <3>1, <3>3
  <2> HIDE DEF D, n
  <2> QED BY <1>1, <2>1, <2>2
<1>7. IsFold(it)
  <2> HIDE DEF IsFold
  <2> QED BY <1>6
<1> HIDE DEF it, n
<1> DEFINE f == [k \in 0..n |-> it[1..k]]
<1>8. \A k \in 0..n : 1..k \in SUBSET DOMAIN es
  BY <1>1
<1>9. 1..0 = {} /\ 0 \in 0..n /\ n \in 0..n
  BY <1>1
<1>10. f[0] = <<>>
  BY <1>7, <1>8, <1>9
<1>11. ASSUME NEW k \in 1..n PROVE f[k] = AddShown(f[k - 1], es[k])
  <2>1. k \in 0..n /\ k - 1 \in 0..n /\ k \in 1..k /\ k \in Nat
    BY <1>1
  <2>2. Max(1..k) = k
    BY <2>1, MaxIsLast
  <2>3. (1..k) \ {k} = 1..(k - 1) /\ 1..k # {}
    BY <2>1
  <2>4. it[1..k] = AddShown(it[(1..k) \ {Max(1..k)}], es[Max(1..k)])
    BY <1>7, <1>8, <2>1, <2>3
  <2> QED
    BY <2>1, <2>2, <2>3, <2>4
<1>12. FoldLeft(AddShown, <<>>, es) = f[n]
  BY <1>1, <1>2, <1>9
<1> HIDE DEF f
<1> QED
  BY <1>10, <1>11, <1>12 DEF n


\* What is written of the first k rows of the log: those that are shown, once.
WrittenOK(rows, log, k) ==
    /\ rows \in Seq(LogRow)
    /\ \A i \in DOMAIN rows : \E p \in 1..k : rows[i] = log[p] /\ Shown(log[p])
    /\ \A p \in 1..k : Shown(log[p]) => \E i \in DOMAIN rows : rows[i] = log[p]
    /\ \A i, j \in DOMAIN rows : rows[i] = rows[j] => i = j

\* One more row of the log is written, or skipped.
LEMMA WriteStep ==
    ASSUME NEW log \in Seq(LogRow), \A i, j \in DOMAIN log : log[i] = log[j] => i = j,
           NEW k \in 1..Len(log), NEW rows, WrittenOK(rows, log, k - 1)
    PROVE  WrittenOK(AddShown(rows, log[k]), log, k)
<1>0. /\ Len(log) \in Nat /\ log[k] \in LogRow /\ k \in DOMAIN log
      /\ DOMAIN log = 1..Len(log)
  BY LenProperties, ElementOfSeq
<1>1. rows \in Seq(LogRow) /\ DOMAIN rows = 1..Len(rows) /\ Len(rows) \in Nat
  BY LenProperties DEF WrittenOK
<1>2. /\ k \in 1..k /\ 1..(k - 1) \subseteq 1..k /\ k \notin 1..(k - 1)
      /\ \A p \in 1..k : p = k \/ p \in 1..(k - 1)
      /\ 1..k \subseteq DOMAIN log
  BY <1>0
<1>3. CASE ~Shown(log[k])
  <2>1. AddShown(rows, log[k]) = rows
    BY <1>3 DEF AddShown
  <2>2. WrittenOK(rows, log, k)
    BY <1>2, <1>3 DEF WrittenOK
  <2> QED BY <2>1, <2>2
<1>4. CASE Shown(log[k])
  <2> DEFINE new == Append(rows, log[k])
  <2>1. AddShown(rows, log[k]) = new
    BY <1>4 DEF AddShown
  <2>2. /\ new \in Seq(LogRow) /\ Len(new) = Len(rows) + 1
        /\ \A i \in 1..Len(rows) : new[i] = rows[i]
        /\ new[Len(rows) + 1] = log[k]
    BY <1>0, <1>1, AppendProperties
  <2> HIDE DEF new
  <2>3. DOMAIN new = 1..(Len(rows) + 1)
    BY <2>2, LenProperties
  <2>4. /\ \A i \in DOMAIN new : i \in DOMAIN rows \/ i = Len(rows) + 1
        /\ DOMAIN rows \subseteq DOMAIN new
        /\ Len(rows) + 1 \in DOMAIN new
        /\ \A i \in DOMAIN rows : new[i] = rows[i]
    BY <1>1, <2>2, <2>3
  <2>5. ASSUME NEW i \in DOMAIN rows PROVE rows[i] # log[k]
    <3>1. PICK p \in 1..(k - 1) : rows[i] = log[p]
      BY DEF WrittenOK
    <3>2. p \in DOMAIN log /\ p # k
      BY <1>2
    <3> QED BY <1>0, <3>1, <3>2
  <2>6. \A i \in DOMAIN new : \E p \in 1..k : new[i] = log[p] /\ Shown(log[p])
    BY <1>2, <1>4, <2>2, <2>4 DEF WrittenOK
  <2>7. \A p \in 1..k : Shown(log[p]) => \E i \in DOMAIN new : new[i] = log[p]
    BY <1>2, <2>2, <2>4 DEF WrittenOK
  <2>8. \A i, j \in DOMAIN new : new[i] = new[j] => i = j
    BY <2>2, <2>4, <2>5 DEF WrittenOK
  <2>9. WrittenOK(new, log, k)
    BY <2>2, <2>6, <2>7, <2>8 DEF WrittenOK
  <2> QED BY <2>1, <2>9
<1> QED
  BY <1>3, <1>4

\* The rows written of a whole log.
LEMMA WrittenOfAll ==
    ASSUME NEW es \in Seq(LogRow), \A i, j \in DOMAIN es : es[i] = es[j] => i = j
    PROVE  WrittenOK(FoldLeft(AddShown, <<>>, es), es, Len(es))
<1>0. Len(es) \in Nat
  BY LenProperties
<1>1. PICK f : /\ f[0] = <<>>
               /\ \A k \in 1..Len(es) : f[k] = AddShown(f[k - 1], es[k])
               /\ FoldLeft(AddShown, <<>>, es) = f[Len(es)]
  BY WrittenLoop
<1> DEFINE Bad == {k \in 0..Len(es) : ~WrittenOK(f[k], es, k)}
<1>2. Bad = {}
  <2> SUFFICES ASSUME Bad # {} PROVE FALSE
    OBVIOUS
  <2>1. PICK k \in Bad : \A e \in Bad : k <= e
    <3>1. Bad \in SUBSET Nat
      OBVIOUS
    <3> HIDE DEF Bad
    <3> QED BY <3>1, Least
  <2>2. CASE k = 0
    <3>1. <<>> \in Seq(LogRow) /\ DOMAIN <<>> = {} /\ 1..0 = {}
      BY EmptySeq
    <3>2. WrittenOK(<<>>, es, 0)
      BY <3>1 DEF WrittenOK
    <3> QED BY <1>1, <2>1, <2>2, <3>2
  <2>3. CASE k # 0
    <3>1. k \in 1..Len(es) /\ k - 1 \in 0..Len(es) /\ ~(k <= k - 1)
      BY <1>0, <2>3
    <3>2. k - 1 \notin Bad
      <4> HIDE DEF Bad
      <4> QED BY <2>1, <3>1
    <3>3. WrittenOK(f[k - 1], es, k - 1)
      BY <3>1, <3>2
    <3>4. WrittenOK(AddShown(f[k - 1], es[k]), es, k)
      BY <3>1, <3>3, WriteStep
    <3> QED BY <1>1, <2>1, <3>1, <3>4
  <2> QED BY <2>2, <2>3
<1>3. Len(es) \in 0..Len(es)
  BY <1>0
<1> QED
  BY <1>1, <1>2, <1>3

\* The rows of the report.
LEMMA RowsWritten ==
    ASSUME TablesInv
    PROVE  WrittenOK(Written, ErrorsLog, Len(ErrorsLog))
<1>1. LogOK(ErrorsLog, Entries, Len(Entries))
  BY ErrorsLogged
<1>2. ErrorsLog \in Seq(LogRow)
  BY <1>1 DEF LogOK
<1>3. \A i, j \in DOMAIN ErrorsLog : ErrorsLog[i] = ErrorsLog[j] => i = j
  BY <1>1 DEF LogOK, SameRow
<1> QED
  BY <1>2, <1>3, WrittenOfAll DEF Written

-----------------------------------------------------------------------------
(* The theorems about the rows.                                            *)

\* assert(currentEntry < max_entries) holds: the writer never needs more rows
\* than the item counts of the tables say.
THEOREM RoomInLog == Spec => []LogHasRoom
<1>1. TablesInv => LogHasRoom
  <2> SUFFICES ASSUME TablesInv PROVE LogHasRoom
    OBVIOUS
  <2>1. Len(ErrorsLog) <= Len(Entries) /\ ErrorsLog \in Seq(LogRow)
    BY ErrorsLogged DEF LogOK
  <2>2. Entries \in Seq(AnyEntry) /\ Len(Entries) <= addrN + regN
    BY EntriesWalked
  <2>3. /\ Len(ErrorsLog) \in Nat /\ Len(Entries) \in Nat
        /\ addrN \in Nat /\ regN \in Nat
    BY <2>1, <2>2, LenProperties DEF TablesInv, TablesTyped
  <2> QED BY <2>1, <2>2, <2>3 DEF LogHasRoom
<1>2. IInv => TablesInv
  BY DEF IInv
<1> QED
  BY <1>1, <1>2, Inductive, PTL

\* A row is written exactly if it is the row of the latest entry of its line.
LEMMA WrittenAreLatest ==
    ASSUME TablesInv
    PROVE  ToSet(Written) = LatestRows
<1> DEFINE Latest(x) == /\ x.file # EmptyText /\ x.line # NoLine
                        /\ \A y \in AllEntries : SameRow(y, x) => y.clock <= x.clock
<1>0. \A r : r \in LatestRows <=> \E x \in AllEntries : Latest(x) /\ r = Row(x)
  BY DEF LatestRows
<1>1. LogOK(ErrorsLog, Entries, Len(Entries))
  BY ErrorsLogged
<1>2. WrittenOK(Written, ErrorsLog, Len(ErrorsLog))
  BY RowsWritten
<1>3. /\ Entries \in Seq(AnyEntry)
      /\ \A i \in DOMAIN Entries : Entries[i] \in AllEntries
      /\ \A e \in AllEntries : \E i \in DOMAIN Entries : e = Entries[i]
  BY EntriesWalked
<1>4. /\ DOMAIN Entries = 1..Len(Entries)
      /\ DOMAIN ErrorsLog = 1..Len(ErrorsLog)
      /\ \A i \in DOMAIN Entries : Entries[i] \in AnyEntry
  <2>1. ErrorsLog \in Seq(LogRow)
    BY <1>1 DEF LogOK
  <2>2. DOMAIN Entries = 1..Len(Entries) /\ DOMAIN ErrorsLog = 1..Len(ErrorsLog)
    BY <1>3, <2>1, LenProperties
  <2> QED BY <1>3, <2>2, ElementOfSeq
<1>5. \A i \in DOMAIN Entries :
         /\ Row(Entries[i]).file = Entries[i].file
         /\ Row(Entries[i]).line = Entries[i].line
         /\ Row(Entries[i]).clock = Entries[i].clock
         /\ Entries[i].clock \in Nat
  BY <1>4, RowOfEntry
<1>6. ASSUME NEW r \in ToSet(Written) PROVE r \in LatestRows
  <2>1. PICK i \in DOMAIN Written : r = Written[i]
    BY DEF ToSet
  <2>2. PICK p \in DOMAIN ErrorsLog : r = ErrorsLog[p] /\ Shown(r)
    BY <1>2, <1>4, <2>1 DEF WrittenOK
  <2>3. PICK q \in DOMAIN Entries : r = Row(Entries[q])
    BY <1>1, <1>4, <2>2 DEF LogOK
  <2> DEFINE x == Entries[q]
  <2>4. x \in AllEntries /\ x.file # EmptyText /\ x.line # NoLine
    BY <1>3, <1>5, <2>2, <2>3 DEF Shown
  <2>5. ASSUME NEW y \in AllEntries, SameRow(y, x) PROVE y.clock <= x.clock
    <3>1. PICK z \in DOMAIN Entries : y = Entries[z]
      BY <1>3
    <3>2. PICK j \in DOMAIN ErrorsLog : /\ SameRow(ErrorsLog[j], y)
                                        /\ y.clock <= ErrorsLog[j].clock
      BY <1>1, <1>4, <3>1 DEF LogOK
    <3>3. SameRow(ErrorsLog[j], ErrorsLog[p])
      BY <1>5, <2>2, <2>3, <2>5, <3>2 DEF SameRow
    <3>4. j = p
      BY <1>1, <3>3 DEF LogOK
    <3> QED BY <1>5, <2>2, <2>3, <3>2, <3>4
  <2>6. Latest(x)
    BY <2>4, <2>5
  <2> HIDE DEF Latest
  <2> QED BY <1>0, <2>3, <2>4, <2>6
<1>7. ASSUME NEW r \in LatestRows PROVE r \in ToSet(Written)
  <2>1. PICK x \in AllEntries : Latest(x) /\ r = Row(x)
    BY <1>0, <1>7
  <2>2. PICK q \in DOMAIN Entries : x = Entries[q]
    BY <1>3
  <2>3. PICK p \in DOMAIN ErrorsLog : /\ SameRow(ErrorsLog[p], x)
                                      /\ x.clock <= ErrorsLog[p].clock
    BY <1>1, <1>4, <2>2 DEF LogOK
  <2>4. PICK z \in DOMAIN Entries : ErrorsLog[p] = Row(Entries[z])
    BY <1>1, <1>4 DEF LogOK
  <2> DEFINE y == Entries[z]
  <2>5. y \in AllEntries /\ SameRow(y, x) /\ x.clock <= y.clock
    BY <1>3, <1>5, <2>3, <2>4 DEF SameRow
  <2>6. y.clock <= x.clock
    BY <2>1, <2>5
  <2>7. x.clock \in Nat /\ y.clock \in Nat
    BY <1>5, <2>2
  <2>8. y = x
    <3>1. y.clock = x.clock
      BY <2>5, <2>6, <2>7
    <3> QED BY <2>5, <3>1, StampsApart
  <2>9. r = ErrorsLog[p] /\ Shown(r)
    BY <1>5, <2>1, <2>2, <2>4, <2>8 DEF Shown
  <2>10. \E i \in DOMAIN Written : Written[i] = r
    BY <1>2, <1>4, <2>9 DEF WrittenOK
  <2> QED BY <2>10 DEF ToSet
<1> QED
  BY <1>6, <1>7

\* The report has exactly one row per source line some entry carries, with the
\* errors recorded last for it, whatever the hash and the order of the updates.
THEOREM LatestReported == Spec => []ReportIsLatest
<1>1. TablesInv => ReportIsLatest
  <2> SUFFICES ASSUME TablesInv PROVE ReportIsLatest
    OBVIOUS
  <2> DEFINE n == Len(Written)
             T == ToSet(Written)
  <2>1. Written \in Seq(LogRow) /\ \A i, j \in DOMAIN Written : Written[i] = Written[j] => i = j
    BY RowsWritten DEF WrittenOK
  <2>2. n \in Nat /\ DOMAIN Written = 1..n /\ Written \in [1..n -> LogRow]
    BY <2>1, LenProperties
  <2>3. Written \in [1..n -> T]
    BY <2>2 DEF ToSet
  <2>4. Written \in Injection(1..n, T)
    BY <2>1, <2>2, <2>3 DEF Injection, IsInjective
  <2>5. Written \in Surjection(1..n, T)
    BY <2>2, <2>3 DEF Surjection, ToSet
  <2>6. ExistsBijection(1..n, T)
    BY <2>4, <2>5 DEF ExistsBijection, Bijection
  <2>7. IsFiniteSet(1..n) /\ Cardinality(1..n) = n
    <3>1. 1 \in Int /\ n \in Int
      BY <2>2
    <3>2. /\ IsFiniteSet(1..n)
          /\ Cardinality(1..n) = IF 1 > n THEN 0 ELSE n - 1 + 1
      BY <3>1, FS_Interval, Zenon
    <3> QED BY <2>2, <3>2
  <2>8. Cardinality(T) = n
    BY <2>6, <2>7, FS_Bijection
  <2> QED
    BY <2>8, WrittenAreLatest DEF ReportIsLatest
<1>2. IInv => TablesInv
  BY DEF IInv
<1> QED
  BY <1>1, <1>2, Inductive, PTL

-----------------------------------------------------------------------------
(* The printed report.                                                     *)

Token == PrintedRow \cup Mark

\* The marks are tokens, printed rows are tokens, and the two differ.
LEMMA Tokens ==
    /\ LineEnd \in Token /\ Open \in Token /\ Close \in Token /\ Comma \in Token
    /\ PrintedRow \subseteq Token
    /\ \A r \in PrintedRow : r # LineEnd /\ r # Open /\ r # Close /\ r # Comma
    /\ LineEnd # Open /\ LineEnd # Close /\ LineEnd # Comma
    /\ Open # Close /\ Open # Comma /\ Close # Comma
  BY ReportAssumption DEF Token, Mark

\* What the report starts with, and what is printed for a row.
LEMMA PrintStart == <<Open, LineEnd>> \in Seq(Token)
  BY Tokens

LEMMA PrintedType ==
    ASSUME NEW row \in LogRow
    PROVE  /\ Printed(row) \in PrintedRow /\ Printed(row).row = row
           /\ Printed(row).numbers = IF row.err \in NotFinite THEN "bare" ELSE "digits"
  BY DEF Printed, PrintedRow

LEMMA PrintRowType ==
    ASSUME NEW out \in Seq(Token), NEW row \in LogRow
    PROVE  /\ PrintRow(out, row) \in Seq(Token)
           /\ Len(PrintRow(out, row)) = Len(out) + 3
           /\ \A i \in 1..Len(out) : PrintRow(out, row)[i] = out[i]
           /\ PrintRow(out, row)[Len(out) + 1] = Printed(row)
           /\ PrintRow(out, row)[Len(out) + 2] = Comma
           /\ PrintRow(out, row)[Len(out) + 3] = LineEnd
<1> DEFINE t == <<Printed(row), Comma, LineEnd>>
<1>1. t \in Seq(Token) /\ Len(t) = 3 /\ t[1] = Printed(row) /\ t[2] = Comma /\ t[3] = LineEnd
  <2>1. Printed(row) \in Token
    BY PrintedType, Tokens
  <2> QED BY <2>1, Tokens
<1>2. Len(out) \in Nat
  BY LenProperties
<1>3. PrintRow(out, row) = out \o t
  BY DEF PrintRow
<1> HIDE DEF t
<1>4. /\ out \o t \in Seq(Token) /\ Len(out \o t) = Len(out) + Len(t)
      /\ \A i \in 1..(Len(out) + Len(t)) :
            (out \o t)[i] = IF i <= Len(out) THEN out[i] ELSE t[i - Len(out)]
  BY <1>1, ConcatProperties
<1> QED
  BY <1>1, <1>2, <1>3, <1>4

\* The printer's loop over the rows.
LEMMA PrintLoop ==
    ASSUME NEW es \in Seq(LogRow)
    PROVE  \E f : /\ f[0] = <<Open, LineEnd>>
                  /\ \A k \in 1..Len(es) : f[k] = PrintRow(f[k - 1], es[k])
                  /\ FoldLeft(PrintRow, <<Open, LineEnd>>, es) = f[Len(es)]
<1> DEFINE D == Seq(Token)
           n == Len(es)
           G == [p \in D \X (1..n) |-> PrintRow(p[1], es[p[2]])]
           IsFold(g) == g = [s \in SUBSET DOMAIN es |->
                               IF s = {} THEN <<Open, LineEnd>>
                               ELSE PrintRow(g[s \ {Max(s)}], es[Max(s)])]
           it == CHOOSE g : IsFold(g)
<1>1. n \in Nat /\ DOMAIN es = 1..n /\ <<Open, LineEnd>> \in D
  BY LenProperties, PrintStart
<1>2. FoldLeft(PrintRow, <<Open, LineEnd>>, es) = it[DOMAIN es]
  BY DEF FoldLeft, MapThenFoldSet
<1>3. G \in [D \X (1..n) -> D]
  <2> SUFFICES ASSUME NEW p \in D \X (1..n) PROVE PrintRow(p[1], es[p[2]]) \in D
    OBVIOUS
  <2>1. p[1] \in Seq(Token) /\ es[p[2]] \in LogRow
    BY <1>1, ElementOfSeq
  <2> QED BY <2>1, PrintRowType
<1>4. PICK g : Folds(g, D, <<Open, LineEnd>>, G, n)
  <2> HIDE DEF G, D, n
  <2> QED BY <1>1, <1>3, FoldExists
<1>5. \A s \in SUBSET (1..n) : s # {} => Max(s) \in 1..n
  BY <1>1, MaxIn
<1>6. IsFold(g)
  <2>1. g \in [SUBSET (1..n) -> D]
    BY <1>4 DEF Folds
  <2>2. ASSUME NEW s \in SUBSET (1..n)
        PROVE  g[s] = IF s = {} THEN <<Open, LineEnd>> ELSE PrintRow(g[s \ {Max(s)}], es[Max(s)])
    <3>1. g[s] = IF s = {} THEN <<Open, LineEnd>> ELSE G[<<g[s \ {Max(s)}], Max(s)>>]
      BY <1>4 DEF Folds
    <3>2. g[s \ {Max(s)}] \in D
      BY <2>1
    <3>3. s # {} => G[<<g[s \ {Max(s)}], Max(s)>>] = PrintRow(g[s \ {Max(s)}], es[Max(s)])
      <4> HIDE DEF D, n
      <4> QED BY <1>5, <3>2
    <3> HIDE DEF G
    <3> QED BY <3>1, <3>3
  <2> HIDE DEF D, n
  <2> QED BY <1>1, <2>1, <2>2
<1>7. IsFold(it)
  <2> HIDE DEF IsFold
  <2> QED BY <1>6
<1> HIDE DEF it, n
<1> DEFINE f == [k \in 0..n |-> it[1..k]]
<1>8. \A k \in 0..n : 1..k \in SUBSET DOMAIN es
  BY <1>1
<1>9. 1..0 = {} /\ 0 \in 0..n /\ n \in 0..n
  BY <1>1
<1>10. f[0] = <<Open, LineEnd>>
  BY <1>7, <1>8, <1>9
<1>11. ASSUME NEW k \in 1..n PROVE f[k] = PrintRow(f[k - 1], es[k])
  <2>1. k \in 0..n /\ k - 1 \in 0..n /\ k \in 1..k /\ k \in Nat
    BY <1>1
  <2>2. Max(1..k) = k
    BY <2>1, MaxIsLast
  <2>3. (1..k) \ {k} = 1..(k - 1) /\ 1..k # {}
    BY <2>1
  <2>4. it[1..k] = PrintRow(it[(1..k) \ {Max(1..k)}], es[Max(1..k)])
    BY <1>7, <1>8, <2>1, <2>3
  <2> QED
    BY <2>1, <2>2, <2>3, <2>4
<1>12. FoldLeft(PrintRow, <<Open, LineEnd>>, es) = f[n]
  BY <1>1, <1>2, <1>9
<1> HIDE DEF f
<1> QED
  BY <1>10, <1>11, <1>12 DEF n


\* What is printed before and after the first k rows.
PrintedOK(out, rows, k) ==
    /\ out \in Seq(Token) /\ Len(out) = 3 * k + 2
    /\ out[1] = Open /\ out[2] = LineEnd
    /\ \A j \in 1..k : out[3 * j] = Printed(rows[j])
    /\ \A j \in 1..k : out[3 * j + 1] = Comma
    /\ \A j \in 1..k : out[3 * j + 2] = LineEnd

\* One more row is printed.
LEMMA PrintStep ==
    ASSUME NEW rows \in Seq(LogRow), NEW k \in 1..Len(rows), NEW out, PrintedOK(out, rows, k - 1)
    PROVE  PrintedOK(PrintRow(out, rows[k]), rows, k)
<1> DEFINE new == PrintRow(out, rows[k])
<1>0. Len(rows) \in Nat /\ rows[k] \in LogRow /\ k \in Nat /\ k >= 1
  BY LenProperties, ElementOfSeq
<1>1. /\ out \in Seq(Token) /\ Len(out) = 3 * (k - 1) + 2
      /\ out[1] = Open /\ out[2] = LineEnd
      /\ \A j \in 1..(k - 1) : out[3 * j] = Printed(rows[j])
      /\ \A j \in 1..(k - 1) : out[3 * j + 1] = Comma
      /\ \A j \in 1..(k - 1) : out[3 * j + 2] = LineEnd
  BY DEF PrintedOK
<1>2. /\ new \in Seq(Token) /\ Len(new) = Len(out) + 3
      /\ \A i \in 1..Len(out) : new[i] = out[i]
      /\ new[Len(out) + 1] = Printed(rows[k])
      /\ new[Len(out) + 2] = Comma
      /\ new[Len(out) + 3] = LineEnd
  BY <1>0, <1>1, PrintRowType
<1> HIDE DEF new
<1>3. /\ Len(out) + 1 = 3 * k /\ Len(out) + 2 = 3 * k + 1 /\ Len(out) + 3 = 3 * k + 2
      /\ 1 \in 1..Len(out) /\ 2 \in 1..Len(out)
  BY <1>0, <1>1
<1>4. new[1] = Open /\ new[2] = LineEnd /\ Len(new) = 3 * k + 2
  BY <1>1, <1>2, <1>3
<1>5. ASSUME NEW j \in 1..k
      PROVE  new[3 * j] = Printed(rows[j]) /\ new[3 * j + 1] = Comma /\ new[3 * j + 2] = LineEnd
  <2>1. CASE j = k
    BY <1>2, <1>3, <2>1
  <2>2. CASE j # k
    <3> DEFINE a == 3 * j
               b == 3 * j + 1
               c == 3 * j + 2
    <3>1. j \in 1..(k - 1) /\ a \in 1..Len(out) /\ b \in 1..Len(out) /\ c \in 1..Len(out)
      BY <1>0, <1>1, <2>2
    <3>2. out[a] = Printed(rows[j]) /\ out[b] = Comma /\ out[c] = LineEnd
      BY <1>1, <3>1
    <3> HIDE DEF a, b, c
    <3>3. new[a] = out[a] /\ new[b] = out[b] /\ new[c] = out[c]
      BY <1>2, <3>1
    <3> QED BY <3>2, <3>3 DEF a, b, c
  <2> QED BY <2>1, <2>2
<1> QED
  BY <1>2, <1>4, <1>5 DEF PrintedOK, new

\* All rows are printed.
LEMMA PrintedOfAll ==
    ASSUME NEW es \in Seq(LogRow)
    PROVE  PrintedOK(FoldLeft(PrintRow, <<Open, LineEnd>>, es), es, Len(es))
<1>0. Len(es) \in Nat
  BY LenProperties
<1>1. PICK f : /\ f[0] = <<Open, LineEnd>>
               /\ \A k \in 1..Len(es) : f[k] = PrintRow(f[k - 1], es[k])
               /\ FoldLeft(PrintRow, <<Open, LineEnd>>, es) = f[Len(es)]
  BY PrintLoop
<1> DEFINE Bad == {k \in 0..Len(es) : ~PrintedOK(f[k], es, k)}
<1>2. Bad = {}
  <2> SUFFICES ASSUME Bad # {} PROVE FALSE
    OBVIOUS
  <2>1. PICK k \in Bad : \A e \in Bad : k <= e
    <3>1. Bad \in SUBSET Nat
      OBVIOUS
    <3> HIDE DEF Bad
    <3> QED BY <3>1, Least
  <2>2. CASE k = 0
    <3> DEFINE start == <<Open, LineEnd>>
    <3>1. /\ start \in Seq(Token) /\ Len(start) = 3 * 0 + 2
          /\ start[1] = Open /\ start[2] = LineEnd /\ 1..0 = {}
      BY PrintStart
    <3> HIDE DEF start
    <3>2. PrintedOK(start, es, 0)
      BY <3>1 DEF PrintedOK
    <3> QED BY <1>1, <2>1, <2>2, <3>2 DEF start
  <2>3. CASE k # 0
    <3>1. k \in 1..Len(es) /\ k - 1 \in 0..Len(es) /\ ~(k <= k - 1)
      BY <1>0, <2>3
    <3>2. k - 1 \notin Bad
      <4> HIDE DEF Bad
      <4> QED BY <2>1, <3>1
    <3>3. PrintedOK(f[k - 1], es, k - 1)
      BY <3>1, <3>2
    <3>4. PrintedOK(PrintRow(f[k - 1], es[k]), es, k)
      BY <3>1, <3>3, PrintStep
    <3> QED BY <1>1, <2>1, <3>1, <3>4
  <2> QED BY <2>2, <2>3
<1>3. Len(es) \in 0..Len(es)
  BY <1>0
<1> QED
  BY <1>1, <1>2, <1>3

\* The report: the last comma and line end have given way to the bracket.
JsonOK(rows, m) ==
    /\ Json \in Seq(Token) /\ Len(Json) = 3 * m + 3
    /\ Json[1] = Open /\ Json[2] = LineEnd
    /\ \A j \in 1..m : Json[3 * j] = Printed(rows[j])
    /\ \A j \in 1..(m - 1) : Json[3 * j + 1] = Comma
    /\ \A j \in 1..(m - 1) : Json[3 * j + 2] = LineEnd
    /\ Json[3 * m + 1] = LineEnd /\ Json[3 * m + 2] = Close /\ Json[3 * m + 3] = LineEnd

LEMMA JsonPrinted ==
    ASSUME Written \in Seq(LogRow), Written # <<>>
    PROVE  JsonOK(Written, Len(Written)) /\ Len(Written) \in Nat \ {0}
<1> DEFINE m == Len(Written)
           raw == RawJson
           end == <<LineEnd, Close, LineEnd>>
           cut == SubSeq(raw, 1, Len(raw) - 2)
<1>0. m \in Nat \ {0}
  BY LenProperties, EmptySeq
<1>1. PrintedOK(raw, Written, m)
  BY PrintedOfAll DEF RawJson
<1>2. /\ end \in Seq(Token) /\ Len(end) = 3
      /\ end[1] = LineEnd /\ end[2] = Close /\ end[3] = LineEnd
  BY Tokens
<1>3. Json = cut \o end
  BY DEF Json
<1> HIDE DEF raw, end, m
<1>4. raw \in Seq(Token) /\ Len(raw) = 3 * m + 2 /\ Len(raw) - 2 = 3 * m
  BY <1>0, <1>1 DEF PrintedOK
<1>5. /\ cut \in Seq(Token) /\ Len(cut) = 3 * m
      /\ \A i \in 1..(3 * m) : cut[i] = raw[i]
  <2> DEFINE n == 3 * m
  <2>1. n \in Nat /\ n <= Len(raw) /\ n >= 1 /\ \A i \in 1..n : 1 + i - 1 = i
    BY <1>0, <1>4
  <2> HIDE DEF n
  <2>2. cut = SubSeq(raw, 1, n)
    BY <1>4 DEF n
  <2>3. cut = [i \in 1..n |-> raw[i]]
    BY <2>1, <2>2, <1>4
  <2>4. cut \in [1..n -> Token]
    <3>1. \A i \in 1..n : i \in 1..Len(raw)
      BY <2>1, <1>0, <1>4
    <3>2. \A i \in 1..n : raw[i] \in Token
      BY <1>4, <3>1, ElementOfSeq
    <3> QED BY <2>3, <3>2
  <2>5. cut \in Seq(Token) /\ Len(cut) = n
    <3> HIDE DEF cut
    <3> QED BY <2>1, <2>4 DEF Seq
  <2> QED BY <2>3, <2>5 DEF n
<1> HIDE DEF cut
<1>6. /\ Json \in Seq(Token) /\ Len(Json) = 3 * m + 3
      /\ \A i \in 1..(3 * m + 3) :
            Json[i] = IF i <= 3 * m THEN cut[i] ELSE end[i - 3 * m]
  <2>1. /\ Json \in Seq(Token) /\ Len(Json) = Len(cut) + Len(end)
        /\ \A i \in 1..(Len(cut) + Len(end)) :
              Json[i] = IF i <= Len(cut) THEN cut[i] ELSE end[i - Len(cut)]
    BY <1>2, <1>3, <1>5, ConcatProperties
  <2> QED BY <1>2, <1>5, <2>1
<1>7. \A i \in 1..(3 * m) : Json[i] = raw[i]
  BY <1>0, <1>5, <1>6
<1>8. Json[3 * m + 1] = LineEnd /\ Json[3 * m + 2] = Close /\ Json[3 * m + 3] = LineEnd
  BY <1>0, <1>2, <1>6
<1>9. Json[1] = Open /\ Json[2] = LineEnd
  BY <1>0, <1>1, <1>7 DEF PrintedOK
<1>10. ASSUME NEW j \in 1..m PROVE Json[3 * j] = Printed(Written[j])
  <2> DEFINE a == 3 * j
  <2>1. a \in 1..(3 * m) /\ raw[a] = Printed(Written[j])
    BY <1>0, <1>1 DEF PrintedOK
  <2> HIDE DEF a
  <2>2. Json[a] = Printed(Written[j])
    BY <1>7, <2>1
  <2> QED BY <2>2 DEF a
<1>11. ASSUME NEW j \in 1..(m - 1) PROVE Json[3 * j + 1] = Comma /\ Json[3 * j + 2] = LineEnd
  <2> DEFINE a == 3 * j + 1
             b == 3 * j + 2
  <2>0. j \in 1..m
    BY <1>0
  <2>1. /\ a \in 1..(3 * m) /\ raw[a] = Comma
        /\ b \in 1..(3 * m) /\ raw[b] = LineEnd
    BY <1>0, <1>1, <2>0 DEF PrintedOK
  <2> HIDE DEF a, b
  <2>2. Json[a] = Comma /\ Json[b] = LineEnd
    BY <1>7, <2>1
  <2> QED BY <2>2 DEF a, b
<1> QED
  BY <1>0, <1>6, <1>8, <1>9, <1>10, <1>11 DEF JsonOK, m

-----------------------------------------------------------------------------
(* Reading the report.                                                     *)

Parser == [at: {"start", "first", "row", "item", "end", "error"}, rows: Seq(LogRow)]

\* The parser's states.
LEMMA ParseStart == ParserAt("start", <<>>) \in Parser
  BY EmptySeq DEF ParserAt, Parser

LEMMA ParseType ==
    ASSUME NEW p \in Parser, NEW t \in Token
    PROVE  Parse(p, t) \in Parser
<1>1. p.rows \in Seq(LogRow)
  BY DEF Parser
<1>2. t \in PrintedRow => Append(p.rows, t.row) \in Seq(LogRow)
  <2>1. t \in PrintedRow => t.row \in LogRow
    BY DEF PrintedRow
  <2> QED BY <1>1, <2>1, AppendProperties
<1>3. <<>> \in Seq(LogRow)
  BY EmptySeq
<1>4. \A where \in {"start", "first", "row", "item", "end", "error"}, r \in Seq(LogRow) :
         ParserAt(where, r) \in Parser
  BY DEF ParserAt, Parser
<1> QED
  BY <1>1, <1>2, <1>3, <1>4 DEF Parse

\* The parser's loop over the tokens.
LEMMA ParseLoop ==
    ASSUME NEW es \in Seq(Token)
    PROVE  \E f : /\ f[0] = ParserAt("start", <<>>)
                  /\ \A k \in 1..Len(es) : f[k] = Parse(f[k - 1], es[k])
                  /\ FoldLeft(Parse, ParserAt("start", <<>>), es) = f[Len(es)]
<1> DEFINE D == Parser
           n == Len(es)
           G == [p \in D \X (1..n) |-> Parse(p[1], es[p[2]])]
           IsFold(g) == g = [s \in SUBSET DOMAIN es |->
                               IF s = {} THEN ParserAt("start", <<>>)
                               ELSE Parse(g[s \ {Max(s)}], es[Max(s)])]
           it == CHOOSE g : IsFold(g)
<1>1. n \in Nat /\ DOMAIN es = 1..n /\ ParserAt("start", <<>>) \in D
  BY LenProperties, ParseStart
<1>2. FoldLeft(Parse, ParserAt("start", <<>>), es) = it[DOMAIN es]
  BY DEF FoldLeft, MapThenFoldSet
<1>3. G \in [D \X (1..n) -> D]
  <2> SUFFICES ASSUME NEW p \in D \X (1..n) PROVE Parse(p[1], es[p[2]]) \in D
    OBVIOUS
  <2>1. p[1] \in Parser /\ es[p[2]] \in Token
    BY <1>1, ElementOfSeq
  <2> QED BY <2>1, ParseType
<1>4. PICK g : Folds(g, D, ParserAt("start", <<>>), G, n)
  <2> HIDE DEF G, D, n
  <2> QED BY <1>1, <1>3, FoldExists
<1>5. \A s \in SUBSET (1..n) : s # {} => Max(s) \in 1..n
  BY <1>1, MaxIn
<1>6. IsFold(g)
  <2>1. g \in [SUBSET (1..n) -> D]
    BY <1>4 DEF Folds
  <2>2. ASSUME NEW s \in SUBSET (1..n)
        PROVE  g[s] = IF s = {} THEN ParserAt("start", <<>>) ELSE Parse(g[s \ {Max(s)}], es[Max(s)])
    <3>1. g[s] = IF s = {} THEN ParserAt("start", <<>>) ELSE G[<<g[s \ {Max(s)}], Max(s)>>]
      BY <1>4 DEF Folds
    <3>2. g[s \ {Max(s)}] \in D
      BY <2>1
    <3>3. s # {} => G[<<g[s \ {Max(s)}], Max(s)>>] = Parse(g[s \ {Max(s)}], es[Max(s)])
      <4> HIDE DEF D, n
      <4> QED BY <1>5, <3>2
    <3> HIDE DEF G
    <3> QED BY <3>1, <3>3
  <2> HIDE DEF D, n
  <2> QED BY <1>1, <2>1, <2>2
<1>7. IsFold(it)
  <2> HIDE DEF IsFold
  <2> QED BY <1>6
<1> HIDE DEF it, n
<1> DEFINE f == [k \in 0..n |-> it[1..k]]
<1>8. \A k \in 0..n : 1..k \in SUBSET DOMAIN es
  BY <1>1
<1>9. 1..0 = {} /\ 0 \in 0..n /\ n \in 0..n
  BY <1>1
<1>10. f[0] = ParserAt("start", <<>>)
  BY <1>7, <1>8, <1>9
<1>11. ASSUME NEW k \in 1..n PROVE f[k] = Parse(f[k - 1], es[k])
  <2>1. k \in 0..n /\ k - 1 \in 0..n /\ k \in 1..k /\ k \in Nat
    BY <1>1
  <2>2. Max(1..k) = k
    BY <2>1, MaxIsLast
  <2>3. (1..k) \ {k} = 1..(k - 1) /\ 1..k # {}
    BY <2>1
  <2>4. it[1..k] = Parse(it[(1..k) \ {Max(1..k)}], es[Max(1..k)])
    BY <1>7, <1>8, <2>1, <2>3
  <2> QED
    BY <2>1, <2>2, <2>3, <2>4
<1>12. FoldLeft(Parse, ParserAt("start", <<>>), es) = f[n]
  BY <1>1, <1>2, <1>9
<1> HIDE DEF f
<1> QED
  BY <1>10, <1>11, <1>12 DEF n


\* One token is read.
LEMMA ReadSpace == \A p : Parse(p, LineEnd) = p
<1>1. LineEnd # Comma /\ LineEnd # Open /\ LineEnd # Close /\ LineEnd \notin PrintedRow
  BY Tokens
<1> QED BY <1>1 DEF Parse

LEMMA ReadOpen == ASSUME NEW p, p.at = "start" PROVE Parse(p, Open) = ParserAt("first", <<>>)
  BY Tokens DEF Parse

LEMMA ReadRow ==
    ASSUME NEW p, p.at \in {"first", "item"}, NEW t \in PrintedRow, Readable(t)
    PROVE  Parse(p, t) = ParserAt("row", Append(p.rows, t.row))
  BY Tokens DEF Parse

LEMMA ReadComma == ASSUME NEW p, p.at = "row" PROVE Parse(p, Comma) = ParserAt("item", p.rows)
<1>1. Comma # LineEnd /\ Comma # Open /\ Comma # Close /\ Comma \notin PrintedRow
  BY Tokens
<1>2. p.at # "start" /\ p.at \notin {"first", "item"}
  OBVIOUS
<1> QED BY <1>1, <1>2 DEF Parse

LEMMA ReadClose == ASSUME NEW p, p.at = "row" PROVE Parse(p, Close) = ParserAt("end", p.rows)
<1>1. Close # LineEnd /\ Close # Open /\ Close # Comma /\ Close \notin PrintedRow
  BY Tokens
<1>2. p.at # "start" /\ p.at \notin {"first", "item"}
  OBVIOUS
<1> QED BY <1>1, <1>2 DEF Parse

LEMMA ReadCloseEarly ==
    ASSUME NEW p, p.at = "start"
    PROVE  Parse(p, Close) = ParserAt("error", p.rows)
<1>1. Close # LineEnd /\ Close # Open /\ Close # Comma /\ Close \notin PrintedRow
  BY Tokens
<1>2. p.at # "row" /\ p.at \notin {"first", "item"} /\ p.at \notin {"first", "row"}
  OBVIOUS
<1> QED BY <1>1, <1>2 DEF Parse

\* Where the parser is, and that it has read the first j rows.
ReadOK(p, where, rows, j) ==
    /\ p.at = where
    /\ p.rows \in Seq(LogRow) /\ Len(p.rows) = j
    /\ \A i \in 1..j : p.rows[i] = rows[i]

\* The parser reads the next row.
LEMMA RowRead ==
    ASSUME NEW rows \in Seq(LogRow), NEW j \in 1..Len(rows), NEW p, NEW where \in {"first", "item"},
           ReadOK(p, where, rows, j - 1), NEW t \in PrintedRow, t.row = rows[j], Readable(t)
    PROVE  ReadOK(Parse(p, t), "row", rows, j)
<1> DEFINE new == Append(p.rows, rows[j])
<1>0. rows[j] \in LogRow /\ Len(rows) \in Nat
  BY ElementOfSeq, LenProperties
<1>1. Parse(p, t) = ParserAt("row", new)
  BY <1>0, ReadRow DEF ReadOK
<1>2. /\ new \in Seq(LogRow) /\ Len(new) = Len(p.rows) + 1
      /\ \A i \in 1..Len(p.rows) : new[i] = p.rows[i]
      /\ new[Len(p.rows) + 1] = rows[j]
  BY <1>0, AppendProperties DEF ReadOK
<1> HIDE DEF new
<1>3. Len(p.rows) = j - 1 /\ \A i \in 1..(j - 1) : p.rows[i] = rows[i]
  BY DEF ReadOK
<1>4. Len(new) = j /\ \A i \in 1..j : new[i] = rows[i]
  BY <1>0, <1>2, <1>3
<1> QED
  BY <1>1, <1>2, <1>4 DEF ReadOK, ParserAt

\* A text with one token for each row, as the report is before and after its
\* numbers are replaced.
TextOK(ts, rows, m) ==
    /\ ts \in Seq(Token) /\ Len(ts) = 3 * m + 3
    /\ ts[1] = Open /\ ts[2] = LineEnd
    /\ \A j \in 1..m : ts[3 * j] \in PrintedRow /\ ts[3 * j].row = rows[j]
    /\ \A j \in 1..(m - 1) : ts[3 * j + 1] = Comma
    /\ \A j \in 1..(m - 1) : ts[3 * j + 2] = LineEnd
    /\ ts[3 * m + 1] = LineEnd /\ ts[3 * m + 2] = Close /\ ts[3 * m + 3] = LineEnd

\* The parser reads the rows of a text, and its end, if every row is readable.
LEMMA AllRead ==
    ASSUME NEW W \in Seq(LogRow), W # <<>>, NEW ts, TextOK(ts, W, Len(W)),
           \A j \in 1..Len(W) : Readable(ts[3 * j])
    PROVE  Loads(ts) = ParserAt("end", W)
<1> DEFINE m == Len(W)
<1>0. TextOK(ts, W, m) /\ m \in Nat \ {0}
  BY LenProperties, EmptySeq
<1>1. PICK f : /\ f[0] = ParserAt("start", <<>>)
               /\ \A k \in 1..Len(ts) : f[k] = Parse(f[k - 1], ts[k])
               /\ FoldLeft(Parse, ParserAt("start", <<>>), ts) = f[Len(ts)]
  <2>1. ts \in Seq(Token)
    BY <1>0 DEF TextOK
  <2> QED BY <2>1, ParseLoop
<1>12. \A j \in 1..m : Readable(ts[3 * j])
  OBVIOUS
<1> HIDE DEF m
<1>2. Len(ts) = 3 * m + 3 /\ W \in Seq(LogRow) /\ m = Len(W)
  BY <1>0 DEF TextOK, m
<1>3. ASSUME NEW k \in 1..(3 * m + 3), NEW l, l = k - 1 PROVE f[k] = Parse(f[l], ts[k])
  BY <1>1, <1>2, <1>3
<1>4. ReadOK(f[2], "first", W, 0)
  <2>1. 1 \in 1..(3 * m + 3) /\ 2 \in 1..(3 * m + 3) /\ 0 = 1 - 1 /\ 1 = 2 - 1
    BY <1>0
  <2>2. f[1] = Parse(f[0], Open)
    BY <1>0, <1>3, <2>1 DEF TextOK
  <2>3. f[2] = Parse(f[1], LineEnd)
    BY <1>0, <1>3, <2>1 DEF TextOK
  <2>4. f[0].at = "start"
    BY <1>1 DEF ParserAt
  <2>5. f[2] = ParserAt("first", <<>>)
    BY <2>2, <2>3, <2>4, ReadOpen, ReadSpace
  <2>6. <<>> \in Seq(LogRow) /\ Len(<<>>) = 0 /\ 1..0 = {}
    BY EmptySeq
  <2> QED BY <2>5, <2>6 DEF ReadOK, ParserAt
<1> DEFINE Bad == {j \in 1..m : ~ReadOK(f[3 * j], "row", W, j)}
<1>5. Bad = {}
  <2> SUFFICES ASSUME Bad # {} PROVE FALSE
    OBVIOUS
  <2>1. PICK j \in Bad : \A e \in Bad : j <= e
    <3>1. Bad \in SUBSET Nat
      OBVIOUS
    <3> HIDE DEF Bad
    <3> QED BY <3>1, Least
  <2>2. j \in 1..m /\ ~ReadOK(f[3 * j], "row", W, j)
    OBVIOUS
  <2> DEFINE a == 3 * j
  <2>3. /\ a \in 1..(3 * m + 3) /\ ts[a] \in PrintedRow
        /\ ts[a].row = W[j] /\ Readable(ts[a])
    <3>1. a \in 1..(3 * m + 3)
      BY <1>0, <2>2
    <3>2. ts[3 * j] \in PrintedRow /\ ts[3 * j].row = W[j]
      BY <1>0, <2>2 DEF TextOK
    <3>3. Readable(ts[3 * j])
      BY <1>12, <2>2
    <3> QED BY <3>1, <3>2, <3>3
  <2>4. CASE j = 1
    <3>1. f[3] = Parse(f[2], ts[3]) /\ ts[3] \in PrintedRow /\ ts[3].row = W[1] /\ Readable(ts[3])
      <4>1. 2 = a - 1 /\ a = 3
        BY <2>4
      <4> HIDE DEF a
      <4> QED BY <1>3, <2>3, <2>4, <4>1
    <3>2. ReadOK(f[2], "first", W, 1 - 1)
      BY <1>4
    <3>3. ReadOK(f[3], "row", W, 1)
      BY <1>2, <2>2, <2>4, <3>1, <3>2, RowRead
    <3>4. 3 * j = 3
      BY <2>4
    <3> QED BY <2>2, <2>4, <3>3, <3>4
  <2>5. CASE j # 1
    <3> DEFINE i == j - 1
               b == 3 * i
               c == 3 * i + 1
               d == 3 * i + 2
    <3>1. i \in 1..m /\ ~(j <= i) /\ i \in 1..(m - 1)
      BY <1>0, <2>2, <2>5
    <3>2. i \notin Bad
      <4> HIDE DEF Bad, i
      <4> QED BY <2>1, <3>1
    <3>3. ReadOK(f[b], "row", W, i)
      BY <3>1, <3>2
    <3>4. /\ c \in 1..(3 * m + 3) /\ b = c - 1 /\ ts[c] = Comma
          /\ d \in 1..(3 * m + 3) /\ c = d - 1 /\ ts[d] = LineEnd
          /\ d = a - 1
      <4> HIDE DEF i
      <4>1. ts[c] = Comma /\ ts[d] = LineEnd
        BY <1>0, <3>1 DEF TextOK
      <4>2. d = a - 1
        BY <1>0, <2>2 DEF i
      <4> QED BY <1>0, <3>1, <4>1, <4>2
    <3> HIDE DEF a, b, c, d
    <3>5. f[c] = Parse(f[b], Comma)
      BY <1>3, <3>4
    <3>6. f[d] = Parse(f[c], LineEnd)
      BY <1>3, <3>4
    <3>7. f[a] = Parse(f[d], ts[a])
      BY <1>3, <2>3, <3>4
    <3>8. f[d] = ParserAt("item", f[b].rows)
      BY <3>3, <3>5, <3>6, ReadComma, ReadSpace DEF ReadOK
    <3>9. ReadOK(f[d], "item", W, j - 1)
      BY <3>3, <3>8 DEF ReadOK, ParserAt
    <3>10. ReadOK(f[a], "row", W, j)
      <4> HIDE DEF i
      <4> QED BY <1>2, <2>2, <2>3, <3>7, <3>9, RowRead
    <3> QED BY <2>2, <3>10 DEF a
  <2> QED BY <2>4, <2>5
<1>6. ReadOK(f[3 * m], "row", W, m)
  <2>1. m \in 1..m
    BY <1>0
  <2>2. m \notin Bad
    <3> HIDE DEF Bad
    <3> QED BY <1>5
  <2> QED BY <2>1, <2>2
<1> DEFINE a == 3 * m
           b == 3 * m + 1
           c == 3 * m + 2
           d == 3 * m + 3
<1>7. /\ b \in 1..(3 * m + 3) /\ a = b - 1 /\ ts[b] = LineEnd
      /\ c \in 1..(3 * m + 3) /\ b = c - 1 /\ ts[c] = Close
      /\ d \in 1..(3 * m + 3) /\ c = d - 1 /\ ts[d] = LineEnd
      /\ d = Len(ts)
  BY <1>0, <1>2 DEF TextOK
<1> HIDE DEF Bad
<1>8. ReadOK(f[a], "row", W, m)
  BY <1>6
<1> HIDE DEF a, b, c, d
<1>9. f[b] = Parse(f[a], LineEnd) /\ f[c] = Parse(f[b], Close) /\ f[d] = Parse(f[c], LineEnd)
  BY <1>3, <1>7
<1>10. f[d] = ParserAt("end", f[a].rows)
  BY <1>8, <1>9, ReadSpace, ReadClose DEF ReadOK
<1>11. f[a].rows = W
  BY <1>2, <1>8, SeqEqual DEF ReadOK
<1> QED
  BY <1>1, <1>7, <1>10, <1>11 DEF Loads

\* The parser stays where it has failed.
LEMMA ParseStays ==
    ASSUME NEW p, p.at = "error", NEW t
    PROVE  Parse(p, t).at = "error"
  BY DEF Parse, ParserAt

\* It fails at a row that is not readable, wherever it is.
LEMMA RowFails ==
    ASSUME NEW p, NEW t \in PrintedRow, ~Readable(t)
    PROVE  Parse(p, t).at = "error"
<1>1. t # LineEnd /\ t # Open /\ t # Comma /\ t # Close
  BY Tokens
<1> QED BY <1>1 DEF Parse, ParserAt

\* A text with a row that is not readable does not parse.
LEMMA NotRead ==
    ASSUME NEW W \in Seq(LogRow), NEW ts, TextOK(ts, W, Len(W)),
           NEW j \in 1..Len(W), ~Readable(ts[3 * j])
    PROVE  Loads(ts).at = "error"
<1> DEFINE n == Len(ts)
           a == 3 * j
<1>0. /\ Len(W) \in Nat /\ n = 3 * Len(W) + 3 /\ ts \in Seq(Token)
      /\ ts[a] \in PrintedRow /\ ~Readable(ts[a])
  BY LenProperties DEF TextOK
<1>1. PICK f : /\ f[0] = ParserAt("start", <<>>)
               /\ \A k \in 1..n : f[k] = Parse(f[k - 1], ts[k])
               /\ FoldLeft(Parse, ParserAt("start", <<>>), ts) = f[n]
  BY <1>0, ParseLoop
<1>2. n \in Nat /\ a \in 1..n
  BY <1>0
<1> HIDE DEF n, a
<1> DEFINE Bad == {k \in a..n : f[k].at # "error"}
<1>3. Bad = {}
  <2> SUFFICES ASSUME Bad # {} PROVE FALSE
    OBVIOUS
  <2>1. PICK k \in Bad : \A e \in Bad : k <= e
    <3>1. Bad \in SUBSET Nat
      BY <1>2
    <3> HIDE DEF Bad
    <3> QED BY <3>1, Least
  <2>2. k \in 1..n /\ k \in a..n
    BY <1>2
  <2>3. f[k] = Parse(f[k - 1], ts[k])
    BY <1>1, <2>2
  <2>4. CASE k = a
    <3>1. f[a].at = "error"
      BY <1>0, <2>3, <2>4, RowFails
    <3> QED BY <2>4, <3>1
  <2>5. CASE k # a
    <3>1. k - 1 \in a..n /\ ~(k <= k - 1)
      BY <1>2, <2>2, <2>5
    <3>2. k - 1 \notin Bad
      <4> HIDE DEF Bad
      <4> QED BY <2>1, <3>1
    <3>3. f[k - 1].at = "error"
      BY <3>1, <3>2
    <3>4. f[k].at = "error"
      BY <2>3, <3>3, ParseStays
    <3> QED BY <3>4
  <2> QED BY <2>4, <2>5
<1>4. f[n].at = "error"
  BY <1>2, <1>3
<1> QED
  BY <1>1, <1>4 DEF Loads, n

-----------------------------------------------------------------------------
(* Loading the report, with its fallback.                                  *)

\* One token is sanitized.
LEMMA SanitizeRow ==
    ASSUME NEW t \in PrintedRow
    PROVE  /\ Sanitize(t) \in PrintedRow /\ Sanitize(t).row = t.row
           /\ Sanitize(t).numbers # "bare"
           /\ t.numbers = "bare" => Sanitize(t) # t
           /\ Readable(Sanitize(t)) <=> t.row.file \notin Escaped
<1>1. CASE t.numbers = "bare"
  <2>1. Sanitize(t) = [t EXCEPT !.numbers = "words"]
    BY <1>1 DEF Sanitize
  <2>2. /\ Sanitize(t) \in PrintedRow /\ Sanitize(t).row = t.row
        /\ Sanitize(t).numbers = "words"
    BY <2>1 DEF PrintedRow
  <2> QED BY <1>1, <2>2 DEF Readable
<1>2. CASE t.numbers # "bare"
  <2>1. Sanitize(t) = t
    BY <1>2 DEF Sanitize
  <2> QED BY <1>2, <2>1 DEF Readable
<1> QED BY <1>1, <1>2

LEMMA SanitizeMark ==
    ASSUME NEW t \in Mark
    PROVE  Sanitize(t) = t
<1>1. t \notin PrintedRow
  BY ReportAssumption
<1> QED BY <1>1 DEF Sanitize

\* The report is such a text, sanitized or not.
LEMMA Texts ==
    ASSUME Written \in Seq(LogRow), Written # <<>>
    PROVE  /\ TextOK(Json, Written, Len(Written))
           /\ TextOK(Sanitized, Written, Len(Written))
           /\ \A j \in 1..Len(Written) :
                 /\ Json[3 * j] = Printed(Written[j])
                 /\ Sanitized[3 * j] = Sanitize(Json[3 * j])
<1> DEFINE m == Len(Written)
           J == Json
           S == Sanitized
<1>0. JsonOK(Written, m) /\ m \in Nat \ {0}
  BY JsonPrinted
<1>1. \A j \in 1..m : Printed(Written[j]) \in PrintedRow /\ Printed(Written[j]).row = Written[j]
  BY ElementOfSeq, PrintedType
<1>2. TextOK(J, Written, m)
  BY <1>0, <1>1 DEF JsonOK, TextOK
<1>3. J \in Seq(Token) /\ Len(J) = 3 * m + 3
  BY <1>0 DEF JsonOK
<1>4. DOMAIN J = 1..(3 * m + 3) /\ S = [i \in DOMAIN J |-> Sanitize(J[i])]
  <2>1. DOMAIN J = 1..Len(J)
    BY <1>3, LenProperties
  <2>2. S = [i \in DOMAIN J |-> Sanitize(J[i])]
    BY DEF Sanitized
  <2> QED BY <1>3, <2>1, <2>2
<1> HIDE DEF J, S, m
<1>5. \A i \in 1..(3 * m + 3) : S[i] = Sanitize(J[i])
  BY <1>4
<1>6. S \in Seq(Token) /\ Len(S) = 3 * m + 3
  <2> DEFINE n == 3 * m + 3
  <2>1. n \in Nat
    BY <1>0
  <2>2. \A t \in Token : Sanitize(t) \in Token
    BY SanitizeRow, SanitizeMark DEF Token
  <2>3. \A i \in 1..n : J[i] \in Token
    BY <1>3, ElementOfSeq
  <2>4. S \in [1..n -> Token]
    <3> HIDE DEF n
    <3> QED BY <1>4, <2>2, <2>3 DEF n
  <2> HIDE DEF n
  <2>5. S \in Seq(Token) /\ Len(S) = n
    BY <2>1, <2>4 DEF Seq
  <2> QED BY <2>5 DEF n
<1>7. \A c \in Mark : Sanitize(c) = c
  BY SanitizeMark
<1>8. S[1] = Open /\ S[2] = LineEnd
  <2>1. 1 \in 1..(3 * m + 3) /\ 2 \in 1..(3 * m + 3)
    BY <1>0
  <2>2. J[1] = Open /\ J[2] = LineEnd
    BY <1>2 DEF TextOK
  <2> QED BY <1>5, <1>7, <2>1, <2>2 DEF Mark
<1>9. ASSUME NEW j \in 1..m
      PROVE  S[3 * j] = Sanitize(J[3 * j]) /\ S[3 * j] \in PrintedRow /\ S[3 * j].row = Written[j]
  <2> DEFINE a == 3 * j
  <2>1. a \in 1..(3 * m + 3) /\ J[a] \in PrintedRow /\ J[a].row = Written[j]
    BY <1>0, <1>2 DEF TextOK
  <2> HIDE DEF a
  <2>2. S[a] = Sanitize(J[a]) /\ S[a] \in PrintedRow /\ S[a].row = Written[j]
    BY <1>5, <2>1, SanitizeRow
  <2> QED BY <2>2 DEF a
<1>10. ASSUME NEW j \in 1..(m - 1)
       PROVE  S[3 * j + 1] = Comma /\ S[3 * j + 2] = LineEnd
  <2> DEFINE a == 3 * j + 1
             b == 3 * j + 2
  <2>1. /\ a \in 1..(3 * m + 3) /\ J[a] = Comma
        /\ b \in 1..(3 * m + 3) /\ J[b] = LineEnd
    BY <1>0, <1>2 DEF TextOK
  <2> HIDE DEF a, b
  <2>2. S[a] = Comma /\ S[b] = LineEnd
    BY <1>5, <1>7, <2>1 DEF Mark
  <2> QED BY <2>2 DEF a, b
<1>11. S[3 * m + 1] = LineEnd /\ S[3 * m + 2] = Close /\ S[3 * m + 3] = LineEnd
  <2> DEFINE a == 3 * m + 1
             b == 3 * m + 2
             c == 3 * m + 3
  <2>1. /\ a \in 1..c /\ J[a] = LineEnd /\ b \in 1..c /\ J[b] = Close
        /\ c \in 1..c /\ J[c] = LineEnd
    BY <1>0, <1>2 DEF TextOK
  <2>2. \A i \in 1..c : S[i] = Sanitize(J[i])
    BY <1>5
  <2> HIDE DEF a, b, c
  <2>3. S[a] = LineEnd /\ S[b] = Close /\ S[c] = LineEnd
    BY <1>7, <2>1, <2>2 DEF Mark
  <2> QED BY <2>3 DEF a, b, c
<1>12. TextOK(S, Written, m)
  BY <1>6, <1>8, <1>9, <1>10, <1>11 DEF TextOK
<1>13. \A j \in 1..m : J[3 * j] = Printed(Written[j])
  BY <1>0 DEF JsonOK, J
<1> QED
  BY <1>2, <1>9, <1>12, <1>13 DEF J, S, m

\* Which rows are readable.
LEMMA RowReadable ==
    ASSUME NEW row \in LogRow
    PROVE  /\ Readable(Printed(row)) <=> row.err \notin NotFinite /\ row.file \notin Escaped
           /\ Readable(Sanitize(Printed(row))) <=> row.file \notin Escaped
           /\ row.err \in NotFinite => Sanitize(Printed(row)) # Printed(row)
<1>1. /\ Printed(row) \in PrintedRow /\ Printed(row).row = row
      /\ Printed(row).numbers = IF row.err \in NotFinite THEN "bare" ELSE "digits"
  BY PrintedType
<1>2. Readable(Printed(row)) <=> row.err \notin NotFinite /\ row.file \notin Escaped
  BY <1>1 DEF Readable
<1> QED BY <1>1, <1>2, SanitizeRow

\* Without a row the output is a closing bracket between line ends: it does
\* not parse, and there is nothing to replace.
LEMMA EmptyFails ==
    ASSUME Written = <<>>
    PROVE  Parsed.at # "end" /\ LoadReport.at # "end"
<1> DEFINE start == <<Open, LineEnd>>
           end == <<LineEnd, Close, LineEnd>>
           none == <<>>
<1>1. RawJson = start
  <2>1. <<>> \in Seq(LogRow) /\ Len(<<>>) = 0
    BY EmptySeq
  <2>2. PICK f : /\ f[0] = start
                 /\ FoldLeft(PrintRow, start, <<>>) = f[Len(<<>>)]
    BY <2>1, PrintLoop
  <2> HIDE DEF start
  <2> QED BY <2>1, <2>2 DEF RawJson, start
<1>2. /\ end \in Seq(Token) /\ Len(end) = 3
      /\ end[1] = LineEnd /\ end[2] = Close /\ end[3] = LineEnd
  BY Tokens
<1>3. Json = end
  <2>1. SubSeq(start, 1, Len(start) - 2) = <<>>
    OBVIOUS
  <2>2. Json = <<>> \o end
    BY <1>1, <2>1 DEF Json
  <2> HIDE DEF end
  <2> QED BY <1>2, <2>2
<1> HIDE DEF end
<1>4. Sanitized = Json
  <2>1. DOMAIN Json = 1..3
    BY <1>2, <1>3, LenProperties
  <2>2. \A i \in 1..3 : Json[i] \in Mark
    BY <1>2, <1>3 DEF Mark
  <2>3. \A i \in DOMAIN Json : Sanitize(Json[i]) = Json[i]
    BY <2>1, <2>2, SanitizeMark
  <2>4. Json = [i \in DOMAIN Json |-> Json[i]]
    BY <1>2, <1>3
  <2> QED BY <2>3, <2>4 DEF Sanitized
<1>5. Parsed.at = "error"
  <2>1. PICK f : /\ f[0] = ParserAt("start", <<>>)
                 /\ \A k \in 1..Len(Json) : f[k] = Parse(f[k - 1], Json[k])
                 /\ FoldLeft(Parse, ParserAt("start", <<>>), Json) = f[Len(Json)]
    BY <1>2, <1>3, ParseLoop
  <2>2. \A k \in 1..3, l \in 0..2 : l = k - 1 => f[k] = Parse(f[l], end[k])
    BY <1>2, <1>3, <2>1
  <2>3. f[1] = Parse(f[0], LineEnd) /\ f[2] = Parse(f[1], Close) /\ f[3] = Parse(f[2], LineEnd)
    <3>1. /\ 1 \in 1..3 /\ 2 \in 1..3 /\ 3 \in 1..3 /\ 0 = 1 - 1 /\ 1 = 2 - 1 /\ 2 = 3 - 1
          /\ 0 \in 0..2 /\ 1 \in 0..2 /\ 2 \in 0..2
      OBVIOUS
    <3> QED BY <1>2, <2>2, <3>1
  <2>4. f[1].at = "start"
    BY <2>1, <2>3, ReadSpace DEF ParserAt
  <2>5. f[2].at = "error"
    BY <2>3, <2>4, ReadCloseEarly DEF ParserAt
  <2>6. f[3].at = "error"
    BY <2>3, <2>5, ReadSpace
  <2> QED BY <1>2, <1>3, <2>1, <2>6 DEF Parsed, Loads
<1> QED
  BY <1>4, <1>5 DEF LoadReport

\* What is read of a report with rows.
LEMMA RowsRead ==
    ASSUME Written \in Seq(LogRow), Written # <<>>
    PROVE  RowsParse
<1> DEFINE m == Len(Written)
           whole == ParserAt("end", Written)
<1>1. /\ TextOK(Json, Written, m) /\ TextOK(Sanitized, Written, m)
      /\ \A j \in 1..m : /\ Json[3 * j] = Printed(Written[j])
                          /\ Sanitized[3 * j] = Sanitize(Printed(Written[j]))
  BY Texts
<1>2. m \in Nat /\ DOMAIN Written = 1..m /\ \A j \in 1..m : Written[j] \in LogRow
  BY LenProperties, ElementOfSeq
<1>3. /\ NumbersFinite <=> \A j \in 1..m : Written[j].err \notin NotFinite
      /\ NamesPlain <=> \A j \in 1..m : Written[j].file \notin Escaped
  BY <1>2 DEF NumbersFinite, NamesPlain, ToSet
<1>4. ASSUME NEW j \in 1..m
      PROVE  /\ Readable(Json[3 * j]) <=>
                    Written[j].err \notin NotFinite /\ Written[j].file \notin Escaped
             /\ Readable(Sanitized[3 * j]) <=> Written[j].file \notin Escaped
             /\ Written[j].err \in NotFinite => Sanitized[3 * j] # Json[3 * j]
  BY <1>1, <1>2, RowReadable
<1>5. whole.at = "end"
  BY DEF ParserAt
<1>6. CASE NamesPlain /\ NumbersFinite
  <2>1. \A j \in 1..m : Readable(Json[3 * j])
    BY <1>3, <1>4, <1>6
  <2>2. Parsed = whole
    BY <1>1, <2>1, AllRead DEF Parsed
  <2>3. LoadReport = whole
    BY <1>5, <2>2 DEF LoadReport
  <2> QED BY <1>6, <2>2, <2>3 DEF RowsParse
<1>7. CASE NamesPlain /\ ~NumbersFinite
  <2>1. PICK j \in 1..m : Written[j].err \in NotFinite
    BY <1>3, <1>7
  <2>2. Parsed.at = "error"
    BY <1>1, <1>4, <2>1, NotRead DEF Parsed
  <2>3. Sanitized # Json
    BY <1>4, <2>1
  <2>4. \A i \in 1..m : Readable(Sanitized[3 * i])
    BY <1>3, <1>4, <1>7
  <2>5. Loads(Sanitized) = whole
    BY <1>1, <2>4, AllRead
  <2>6. LoadReport = whole
    BY <2>2, <2>3, <2>5 DEF LoadReport
  <2> QED BY <1>5, <1>7, <2>2, <2>6 DEF RowsParse
<1>8. CASE ~NamesPlain
  <2>1. PICK j \in 1..m : Written[j].file \in Escaped
    BY <1>3, <1>8
  <2>2. ~Readable(Json[3 * j]) /\ ~Readable(Sanitized[3 * j])
    BY <1>4, <2>1
  <2>3. Parsed.at = "error"
    BY <1>1, <2>2, NotRead DEF Parsed
  <2>4. Loads(Sanitized).at = "error"
    BY <1>1, <2>2, NotRead
  <2>5. LoadReport.at = "error"
    BY <2>3, <2>4 DEF LoadReport
  <2> QED BY <1>5, <1>8, <2>3, <2>5 DEF RowsParse
<1> QED
  BY <1>6, <1>7, <1>8

\* For a report of any length: it is JSON, with the rows written in their order,
\* exactly if there is a row, all numbers are finite and all names plain; the
\* generator reads the same rows exactly if there is a row and names are plain.
THEOREM ReportParses == Spec => []RowsParse
<1>1. TablesInv => Written \in Seq(LogRow)
  BY RowsWritten DEF WrittenOK
<1>2. Written = <<>> => RowsParse
  <2> DEFINE whole == ParserAt("end", Written)
  <2>1. whole.at = "end"
    BY DEF ParserAt
  <2> HIDE DEF whole
  <2>2. Written = <<>> => Parsed # whole /\ LoadReport # whole
    BY <2>1, EmptyFails
  <2> QED BY <2>2 DEF RowsParse, whole
<1>3. TablesInv => RowsParse
  BY <1>1, <1>2, RowsRead
<1>4. IInv => TablesInv
  BY DEF IInv
<1> QED
  BY <1>3, <1>4, Inductive, PTL
=============================================================================
