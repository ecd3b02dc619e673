----------------------------- MODULE ErrorTables -----------------------------
(***************************************************************************)
(* The storage of the error-tracking runtime (FPC_Hashtable_Error.h): a    *)
(* hash table of memory addresses and one of registers, both with chained  *)
(* bins, one clock for both, and the string cache every name goes through. *)
(*                                                                         *)
(* A bin is the sequence of the entries of its linked list.  An entry's    *)
(* (error, relative error) pair is one value of Err.  A register entry is  *)
(* keyed by the register name and the text of the function name; a lookup  *)
(* gets the raw function name, an update the text that came back from the  *)
(* string cache.  memcpy is a loop over bytes and is modelled one          *)
(* iteration at a time; the other operations are one action each.          *)
(***************************************************************************)
EXTENDS Integers, Sequences, FiniteSets, StrCache

CONSTANTS
    MaxAddr,    \* highest byte address
    Reg,        \* register names
    FnPtr,      \* function-name pointers
    FilePtr,    \* file-name pointers
    Line,       \* source lines
    Err,        \* (error, relative error) values
    ZeroErr,    \* (0.0, 0.0)
    Size,       \* number of bins
    RegHash,    \* the DJB2 hash of "register:function", modulo Size
    Absent,     \* no entry
    MaxClock,   \* bound: updates explored
    MaxCopy     \* bound: bytes of one memcpy

Addr == 0..MaxAddr
Bin == 0..(Size - 1)
RegKey == Reg \X Text
Entry(Key) == [key: Key, err: Err, clock: Nat, file: Text, line: Line]

ASSUME TableAssumption ==
    /\ MaxAddr \in Nat /\ MaxClock \in Nat /\ MaxCopy \in Nat
    /\ Size \in Nat \ {0}
    /\ FnPtr \subseteq Ptr /\ FilePtr \subseteq Ptr
    /\ ZeroErr \in Err
    /\ RegHash \in [RegKey -> Bin]
    /\ Absent \notin Entry(Addr) \cup Entry(RegKey)

VARIABLES
    addrTab, addrN,   \* bins and item count of the address table
    regTab, regN,     \* bins and item count of the register table
    clock,            \* _FPC_CLOCK_
    cache,            \* the string cache
    copy              \* the memcpy loop in progress, or NoCopy

vars == <<addrTab, addrN, regTab, regN, clock, cache, copy>>

AddrHash == [a \in Addr |-> a % Size]
NoCopy == [active |-> FALSE]

-----------------------------------------------------------------------------
(* A bin: the walk of the list stops at the first entry with the key.      *)

Holds(chain, k) == \E i \in DOMAIN chain : chain[i].key = k

Position(chain, k) ==
    CHOOSE i \in DOMAIN chain :
        chain[i].key = k /\ \A j \in DOMAIN chain : j < i => chain[j].key # k

\* Faulty variants, used only to show that the properties can fail: an entry
\* is appended without walking the bin; an overwritten entry keeps its stamp,
\* file and line.
ChainSetBlind(chain, e) == Append(chain, e)
ChainSetErrOnly(chain, e) ==
    IF Holds(chain, e.key)
    THEN [chain EXCEPT ![Position(chain, e.key)].err = e.err]
    ELSE Append(chain, e)

\* HT_SET on a bin: overwrite the entry of that key, or append a new one.
ChainSet(chain, e) ==
    IF Holds(chain, e.key)
    THEN [chain EXCEPT ![Position(chain, e.key)] = e]
    ELSE Append(chain, e)

\* Faulty variants: an overwrite is counted too; it is counted instead.
CountEverySet(n, chain, k) == n + 1
CountOverwrites(n, chain, k) == IF Holds(chain, k) THEN n + 1 ELSE n

\* HT_SET counts the entries it appends.
CountAfter(n, chain, k) == IF Holds(chain, k) THEN n ELSE n + 1

\* HT_SET on a table: the bin of the key.
TableSet(tab, hash, e) == [tab EXCEPT ![hash[e.key]] = ChainSet(@, e)]

EntryOf(chain, k) ==
    IF Holds(chain, k) THEN chain[Position(chain, k)] ELSE Absent

\* Faulty variant: the result of a failed lookup is not set to zero.
ErrOfUnset(chain, k) ==
    IF Holds(chain, k) THEN chain[Position(chain, k)].err ELSE Absent

ErrOf(chain, k) ==
    IF Holds(chain, k) THEN chain[Position(chain, k)].err ELSE ZeroErr

\* _FPC_FIND_ERRORS_BY_ADDRESS
FindAddress(a) == ErrOf(addrTab[AddrHash[a]], a)

\* _FPC_FIND_ERRORS_BY_REGISTER: the function name is not sanitised here.
FindRegister(r, fn) ==
    LET k == <<r, Content[fn]>> IN ErrOf(regTab[RegHash[k]], k)

-----------------------------------------------------------------------------
(* Updates.                                                                *)

Init == /\ addrTab = [b \in Bin |-> <<>>] /\ addrN = 0
        /\ regTab = [b \in Bin |-> <<>>] /\ regN = 0
        /\ clock = 0
        /\ cache = EmptyCache
        /\ copy = NoCopy

\* Faulty variant: the clock does not advance before the stamp is taken.
NewEntrySameClock(k, e, f, l) ==
    [key |-> k, err |-> e, clock |-> clock, file |-> f, line |-> l]

NewEntry(k, e, f, l) ==
    [key |-> k, err |-> e, clock |-> clock + 1, file |-> f, line |-> l]

\* _FPC_ADDRESS_HT_UPDATE_
PutAddress(a, e, fp, l) ==
    LET c == Touch(cache, fp)
    IN  /\ cache' = c
        /\ clock' = clock + 1
        /\ addrTab' = TableSet(addrTab, AddrHash, NewEntry(a, e, Deref(c, fp), l))
        /\ addrN' = CountAfter(addrN, addrTab[AddrHash[a]], a)
        /\ UNCHANGED <<regTab, regN>>

\* Faulty variant: the function name's slot is read before it is filled.
PutRegisterEarly(r, fn, e, fp, l) ==
    LET c == Touch(Touch(cache, fp), fn)
        k == <<r, Deref(cache, fn)>>
    IN  /\ cache' = c
        /\ clock' = clock + 1
        /\ regTab' = TableSet(regTab, RegHash, NewEntry(k, e, Deref(c, fp), l))
        /\ regN' = CountAfter(regN, regTab[RegHash[k]], k)
        /\ UNCHANGED <<addrTab, addrN>>

\* _FPC_REGISTER_HT_UPDATE_: both names go through the cache before either
\* text is read.
PutRegister(r, fn, e, fp, l) ==
    LET c == Touch(Touch(cache, fp), fn)
        k == <<r, Deref(c, fn)>>
    IN  /\ cache' = c
        /\ clock' = clock + 1
        /\ regTab' = TableSet(regTab, RegHash, NewEntry(k, e, Deref(c, fp), l))
        /\ regN' = CountAfter(regN, regTab[RegHash[k]], k)
        /\ UNCHANGED <<addrTab, addrN>>

AddressUpdate(a, e, fp, l) ==
    /\ ~copy.active /\ clock < MaxClock
    /\ PutAddress(a, e, fp, l)
    /\ UNCHANGED copy

RegisterUpdate(r, fn, e, fp, l) ==
    /\ ~copy.active /\ clock < MaxClock
    /\ PutRegister(r, fn, e, fp, l)
    /\ UNCHANGED copy

\* _FPC_ADDRESS_RANGE_UPDATE_: the errors of the whole source range are read
\* into a buffer before the first byte of the destination is recorded.
MemcpyBegin(dst, src, size, fp, l) ==
    /\ ~copy.active /\ clock + size <= MaxClock
    /\ dst + size - 1 <= MaxAddr /\ src + size - 1 <= MaxAddr
    /\ copy' = [active |-> TRUE, dst |-> dst, src |-> src, size |-> size,
                off |-> 0, file |-> fp, line |-> l,
                buf |-> [o \in 0..(size - 1) |-> FindAddress(src + o)]]
    /\ UNCHANGED <<addrTab, addrN, regTab, regN, clock, cache>>

\* Faulty variant: the source is looked up byte by byte while the destination
\* is written.
MemcpyStepLive ==
    /\ copy.active /\ copy.off < copy.size
    /\ PutAddress(copy.dst + copy.off, FindAddress(copy.src + copy.off),
                  copy.file, copy.line)
    /\ copy' = [copy EXCEPT !.off = @ + 1]

MemcpyStep ==
    /\ copy.active /\ copy.off < copy.size
    /\ PutAddress(copy.dst + copy.off, copy.buf[copy.off], copy.file, copy.line)
    /\ copy' = [copy EXCEPT !.off = @ + 1]

MemcpyEnd ==
    /\ copy.active /\ copy.off = copy.size
    /\ copy' = NoCopy
    /\ UNCHANGED <<addrTab, addrN, regTab, regN, clock, cache>>

Update == \E e \in Err, fp \in FilePtr, l \in Line :
              \/ \E a \in Addr : AddressUpdate(a, e, fp, l)
              \/ \E r \in Reg, fn \in FnPtr : RegisterUpdate(r, fn, e, fp, l)

Memcpy == \/ \E dst, src \in Addr, size \in 1..MaxCopy, fp \in FilePtr, l \in Line :
                 MemcpyBegin(dst, src, size, fp, l)
          \/ MemcpyStep
          \/ MemcpyEnd

Next == Update \/ Memcpy

Spec == Init /\ [][Next]_vars

-----------------------------------------------------------------------------
(* Properties.                                                             *)

CopyState == [active: {TRUE}, dst: Addr, src: Addr, size: 1..MaxCopy, off: Nat,
              file: FilePtr, line: Line,
              buf: UNION {[0..(s - 1) -> Err] : s \in 1..MaxCopy}]

TablesTyped ==
    /\ addrTab \in [Bin -> Seq(Entry(Addr))] /\ addrN \in Nat
    /\ regTab \in [Bin -> Seq(Entry(RegKey))] /\ regN \in Nat
    /\ clock \in Nat
    /\ cache \in [Slot -> SlotContent]

CopyTyped ==
    \/ copy = NoCopy
    \/ /\ copy \in CopyState
       /\ copy.off <= copy.size
       /\ DOMAIN copy.buf = 0..(copy.size - 1)
       /\ copy.dst + copy.size - 1 <= MaxAddr
       /\ copy.src + copy.size - 1 <= MaxAddr

\* Types of the variables; a copy in progress stays inside the address space.
TypeOK == TablesTyped /\ CopyTyped

Present(tab, Key) == {k \in Key : \E b \in Bin : Holds(tab[b], k)}

\* Every entry is in the bin its key hashes to, and no two entries of a bin
\* have the same key: a lookup, which walks one bin up to the first match,
\* can neither miss an entry nor find an outdated one.
Placed(tab, hash) == \A b \in Bin : \A i \in DOMAIN tab[b] : hash[tab[b][i].key] = b
Once(chain) == \A i, j \in DOMAIN chain : chain[i].key = chain[j].key => i = j
KeyOnce(tab) == \A b \in Bin : Once(tab[b])
EachKeyOnce == /\ Placed(addrTab, AddrHash) /\ KeyOnce(addrTab)
               /\ Placed(regTab, RegHash) /\ KeyOnce(regTab)

\* The item counts are the numbers of entries: the report writer allocates
\* its log from them and asserts that it never runs out of space.
CountsAreExact == /\ addrN = Cardinality(Present(addrTab, Addr))
                  /\ regN = Cardinality(Present(regTab, RegKey))

\* No stamp is in the future, and no two entries, of either table, carry the
\* same one: "the highest clock" singles out one entry.
StampsUpTo(tab) == \A b \in Bin : \A i \in DOMAIN tab[b] : tab[b][i].clock \in 1..clock
StampOnce(tab) == \A b, c \in Bin : \A i \in DOMAIN tab[b], j \in DOMAIN tab[c] :
                      tab[b][i].clock = tab[c][j].clock => b = c /\ i = j
StampsDiffer == \A b, c \in Bin : \A i \in DOMAIN addrTab[b], j \in DOMAIN regTab[c] :
                    addrTab[b][i].clock # regTab[c][j].clock
StampsAreUnique == /\ StampsUpTo(addrTab) /\ StampsUpTo(regTab)
                   /\ StampOnce(addrTab) /\ StampOnce(regTab)
                   /\ StampsDiffer

\* While a memcpy runs, what it has written is what its buffer says, and the
\* source bytes it has not overwritten still agree with the buffer: the
\* destination ends with the errors the source had at the start, whichever
\* way the two ranges overlap.
MemcpyExact == copy.active =>
    /\ \A o \in 0..(copy.off - 1) : FindAddress(copy.dst + o) = copy.buf[o]
    /\ \A o \in 0..(copy.size - 1) :
           copy.src + o \notin copy.dst..(copy.dst + copy.off - 1)
              => FindAddress(copy.src + o) = copy.buf[o]

\* An update of a register is what the next lookup of that register returns.
ReadBack == [][\A r \in Reg, fn \in FnPtr, e \in Err, fp \in FilePtr, l \in Line :
                  RegisterUpdate(r, fn, e, fp, l) => FindRegister(r, fn)' = e]_vars

\* The file an entry is attributed to is the text of a file name, never of
\* something else that went through the string cache.
FilesAreFiles == \A b \in Bin :
    /\ \A i \in DOMAIN addrTab[b] : \E fp \in FilePtr : addrTab[b][i].file = Meant(fp)
    /\ \A i \in DOMAIN regTab[b] : \E fp \in FilePtr : regTab[b][i].file = Meant(fp)

\* The tables implement the pair of maps of ErrorMap: an update records one
\* key, with the next stamp and the file and line the hook was given, and a
\* lookup sees it; every other key keeps its record.
Recorded(entry) ==
    IF entry = Absent THEN Absent
    ELSE [err |-> entry.err, clock |-> entry.clock,
          file |-> entry.file, line |-> entry.line]

AbstractMap == INSTANCE ErrorMap WITH
    FileText <- {Meant(fp) : fp \in FilePtr},
    amap <- [a \in Addr |-> Recorded(EntryOf(addrTab[AddrHash[a]], a))],
    rmap <- [k \in RegKey |-> Recorded(EntryOf(regTab[RegHash[k]], k))],
    now <- clock

ImplementsMap == AbstractMap!Spec
=============================================================================
