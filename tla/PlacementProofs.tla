--------------------------- MODULE PlacementProofs ---------------------------
(***************************************************************************)
(* Proofs about the places of hooks (HookPlacement) and of checks          *)
(* (CheckPlacement), for every valid function whose instructions stand     *)
(* behind what they use.                                                   *)
(*                                                                         *)
(* Both passes only insert: the function stays embedded in the code, and   *)
(* an insertion moves what is behind it.  In the walk, instruction i adds  *)
(* uses of what instructions up to i define, behind i.  So the names that  *)
(* hooks have are not changed by a later helper, which renumbers what is   *)
(* behind it, and a pass that asks for the users of a result that it has   *)
(* not visited sees those of the program.                                  *)
(***************************************************************************)
EXTENDS HookPlacement, CheckPlacement, SequenceTheorems, FiniteSetTheorems,
        WellFoundedInduction, TLAPS

-----------------------------------------------------------------------------
(* Numbers and sequences.                                                  *)

\* A set of naturals has a least element.
LEMMA Least ==
    ASSUME NEW S \in SUBSET Nat, S # {}
    PROVE  \E d \in S : \A e \in S : d <= e
<1>1. PICK d \in S : \A e \in S : ~(<<e, d>> \in OpToRel(<, Nat))
  BY NatLessThanWellFounded, WFMin, Zenon
<1>2. \A e \in S : ~(e < d)
  BY <1>1, Zenon DEF OpToRel
<1> QED
  BY <1>2

LEMMA MinIn ==
    ASSUME NEW S \in SUBSET Nat, S # {}
    PROVE  Min(S) \in S /\ \A e \in S : Min(S) <= e
  BY Least DEF Min

LEMMA Concatenated ==
    ASSUME NEW S, NEW s \in Seq(S), NEW t \in Seq(S)
    PROVE  /\ s \o t \in Seq(S) /\ Len(s \o t) = Len(s) + Len(t)
           /\ \A q \in 1..Len(s) : (s \o t)[q] = s[q]
           /\ \A k \in 1..Len(t) : (s \o t)[Len(s) + k] = t[k]
<1>1. s \o t \in Seq(S) /\ Len(s \o t) = Len(s) + Len(t) /\ Len(s) \in Nat /\ Len(t) \in Nat
  OBVIOUS
<1>2. \A q \in 1..(Len(s) + Len(t)) : (s \o t)[q] = IF q <= Len(s) THEN s[q] ELSE t[q - Len(s)]
  OBVIOUS
<1>3. \A q \in 1..Len(s) : q \in 1..(Len(s) + Len(t)) /\ q <= Len(s)
  BY <1>1
<1>4. \A k \in 1..Len(t) : /\ Len(s) + k \in 1..(Len(s) + Len(t)) /\ ~(Len(s) + k <= Len(s))
                            /\ (Len(s) + k) - Len(s) = k
  BY <1>1
<1> QED
  BY <1>1, <1>2, <1>3, <1>4

\* Where an insertion of n items before position p and m behind it puts q.
Shift(p, n, m, q) == IF q < p THEN q ELSE IF q = p THEN q + n ELSE q + n + m

\* What an insertion makes.
Result(c, S, p, before, after) ==
    /\ c \in Seq(S) /\ Len(c) = Len(code) + Len(before) + Len(after)
    /\ \A q \in DOMAIN code : c[Shift(p, Len(before), Len(after), q)] = code[q]
    /\ \A k \in DOMAIN before : c[p - 1 + k] = before[k]
    /\ \A k \in DOMAIN after : c[p + Len(before) + k] = after[k]
LEMMA SplicedFacts ==
    ASSUME NEW S, code \in Seq(S), NEW p \in DOMAIN code,
           NEW before \in Seq(S), NEW after \in Seq(S),
           NEW c, c = Spliced(p, before, after)
    PROVE  Result(c, S, p, before, after)
<1> DEFINE n == Len(before)
           m == Len(after)
           h == SubSeq(code, 1, p - 1)
           t == SubSeq(code, p + 1, Len(code))
<1>1. /\ p \in 1..Len(code) /\ n \in Nat /\ m \in Nat /\ Len(code) \in Nat
      /\ DOMAIN before = 1..n /\ DOMAIN after = 1..m /\ DOMAIN code = 1..Len(code)
  OBVIOUS
<1>2. /\ h \in Seq(S) /\ Len(h) = p - 1
      /\ \A q \in 1..(p - 1) : h[q] = code[q]
  BY <1>1
<1>3. /\ t \in Seq(S) /\ Len(t) = Len(code) - p
      /\ \A q \in 1..(Len(code) - p) : t[q] = code[p + q]
  BY <1>1
<1>4. <<code[p]>> \in Seq(S) /\ Len(<<code[p]>>) = 1 /\ <<code[p]>>[1] = code[p]
  BY <1>1
<1> DEFINE a == h \o before
           b == a \o <<code[p]>>
           d == b \o after
<1>5. c = d \o t
  BY DEF Spliced
<1> HIDE DEF h, t
<1>6. /\ a \in Seq(S) /\ Len(a) = p - 1 + n
      /\ \A q \in 1..(p - 1) : a[q] = code[q]
      /\ \A k \in 1..n : a[p - 1 + k] = before[k]
  <2>1. /\ a \in Seq(S) /\ Len(a) = Len(h) + Len(before)
        /\ \A q \in 1..Len(h) : a[q] = h[q]
        /\ \A k \in 1..Len(before) : a[Len(h) + k] = before[k]
    <3>1. PICK u \in Seq(S) : u = h
      BY <1>2
    <3>2. /\ u \o before \in Seq(S) /\ Len(u \o before) = Len(u) + Len(before)
          /\ \A q \in 1..Len(u) : (u \o before)[q] = u[q]
          /\ \A k \in 1..Len(before) : (u \o before)[Len(u) + k] = before[k]
      BY Concatenated
    <3> QED
      BY <3>1, <3>2, Zenon
  <2> HIDE DEF a
  <2> QED
    BY <1>1, <1>2, <2>1
<1> HIDE DEF a
<1>7. /\ b \in Seq(S) /\ Len(b) = p + n /\ b[p + n] = code[p]
      /\ \A q \in 1..(p - 1 + n) : b[q] = a[q]
  BY <1>1, <1>4, <1>6
<1> HIDE DEF b
<1>8. /\ d \in Seq(S) /\ Len(d) = p + n + m
      /\ \A q \in 1..(p + n) : d[q] = b[q]
      /\ \A k \in 1..m : d[p + n + k] = after[k]
  <2>1. /\ d \in Seq(S) /\ Len(d) = Len(b) + Len(after)
        /\ \A q \in 1..Len(b) : d[q] = b[q]
        /\ \A k \in 1..Len(after) : d[Len(b) + k] = after[k]
    <3>1. PICK u \in Seq(S) : u = b
      BY <1>7
    <3>2. /\ u \o after \in Seq(S) /\ Len(u \o after) = Len(u) + Len(after)
          /\ \A q \in 1..Len(u) : (u \o after)[q] = u[q]
          /\ \A k \in 1..Len(after) : (u \o after)[Len(u) + k] = after[k]
      BY Concatenated
    <3> QED
      BY <3>1, <3>2, Zenon
  <2> HIDE DEF d
  <2> QED
    BY <1>1, <1>7, <2>1
<1> HIDE DEF d
<1>9. /\ c \in Seq(S) /\ Len(c) = Len(code) + n + m
      /\ \A q \in 1..(p + n + m) : c[q] = d[q]
      /\ \A q \in 1..(Len(code) - p) : c[p + n + m + q] = code[p + q]
  <2>2. /\ c \in Seq(S) /\ Len(c) = Len(d) + Len(t)
        /\ \A q \in 1..Len(d) : c[q] = d[q]
        /\ \A q \in 1..Len(t) : c[Len(d) + q] = t[q]
    <3>1. PICK u \in Seq(S) : u = d
      BY <1>8
    <3>2. PICK v \in Seq(S) : v = t
      BY <1>3
    <3>3. /\ u \o v \in Seq(S) /\ Len(u \o v) = Len(u) + Len(v)
          /\ \A q \in 1..Len(u) : (u \o v)[q] = u[q]
          /\ \A k \in 1..Len(v) : (u \o v)[Len(u) + k] = v[k]
      BY Concatenated
    <3> QED
      BY <3>1, <3>2, <3>3, <1>5, Zenon
  <2>3. (p + n + m) + (Len(code) - p) = Len(code) + n + m
    BY <1>1
  <2> QED
    BY <1>1, <1>3, <1>8, <2>2, <2>3
<1>10. \A q \in DOMAIN code : c[Shift(p, n, m, q)] = code[q]
  <2> TAKE q \in DOMAIN code
  <2>1. CASE q < p
    <3>1. /\ q \in 1..(p - 1) /\ q \in 1..(p - 1 + n) /\ q \in 1..(p + n) /\ q \in 1..(p + n + m)
          /\ Shift(p, n, m, q) = q
      BY <2>1, <1>1 DEF Shift
    <3> QED
      BY <3>1, <1>6, <1>7, <1>8, <1>9
  <2>2. CASE q = p
    BY <2>2, <1>1, <1>7, <1>8, <1>9 DEF Shift
  <2>3. CASE q > p
    <3>1. q - p \in 1..(Len(code) - p) /\ Shift(p, n, m, q) = p + n + m + (q - p)
      BY <2>3, <1>1 DEF Shift
    <3>2. p + (q - p) = q
      BY <1>1
    <3> QED
      BY <3>1, <3>2, <1>9
  <2> QED
    BY <2>1, <2>2, <2>3, <1>1
<1>11. \A k \in DOMAIN before : c[p - 1 + k] = before[k]
  <2> TAKE k \in DOMAIN before
  <2>1. /\ k \in 1..n /\ p - 1 + k \in 1..(p - 1 + n) /\ p - 1 + k \in 1..(p + n)
        /\ p - 1 + k \in 1..(p + n + m)
    BY <1>1
  <2> QED
    BY <2>1, <1>6, <1>7, <1>8, <1>9
<1>12. \A k \in DOMAIN after : c[p + n + k] = after[k]
  <2> TAKE k \in DOMAIN after
  <2>1. k \in 1..m /\ p + n + k \in 1..(p + n + m)
    BY <1>1
  <2> QED
    BY <2>1, <1>8, <1>9
<1> QED
  BY <1>9, <1>10, <1>11, <1>12 DEF Result

-----------------------------------------------------------------------------
(* The function in the code.                                               *)

\* The position of a value that has one definition.
LEMMA PlaceIs ==
    ASSUME NEW S, code \in Seq(S), NEW v, v # Literal, NEW p \in DOMAIN code, code[p].id = v,
           \A q \in DOMAIN code : code[q].id = v => q = p
    PROVE  Place(v) = p /\ ItemOf(v) = code[p]
<1> DEFINE K == {q \in 1..Len(code) : code[q].id = v}
<1>1. K = {p}
  OBVIOUS
<1>2. Place(v) = IF K # {} THEN Min(K) ELSE 0
  BY DEF Place, SelectInSeq
<1>3. Min({p}) = p
  BY DEF Min
<1> QED
  BY <1>1, <1>2, <1>3 DEF ItemOf

LEMMA PlaceNone ==
    ASSUME NEW S, code \in Seq(S), NEW v, \A q \in DOMAIN code : code[q].id # v
    PROVE  Place(v) = 0
<1> DEFINE K == {q \in 1..Len(code) : code[q].id = v}
<1>1. K = {}
  OBVIOUS
<1>2. v # Literal => Place(v) = IF K # {} THEN Min(K) ELSE 0
  BY DEF Place, SelectInSeq
<1> QED
  BY <1>1, <1>2 DEF Place

\* What a pass inserts: calls, and helpers that use nothing of the function.
Inserted(c) == /\ c.id = Literal
               /\ \/ c.op = "hook" /\ c.ty = "void"
                  \/ c.op = "aux" /\ c.args = <<>> /\ c.hook = ""

\* Instruction i of function f is at position at[i] of the code, between which
\* there is only what has been inserted.
Embeds(f, at) ==
    /\ f \in Program
    /\ \E S : code \in Seq(S)
    /\ at \in [DOMAIN f -> DOMAIN code]
    /\ \A i \in DOMAIN f : code[at[i]] = f[i]
    /\ \A i, j \in DOMAIN f : i < j => at[i] < at[j]
    /\ \A q \in DOMAIN code : Inserted(code[q]) \/ \E i \in DOMAIN f : at[i] = q

IsParameter(v) == \E n \in DOMAIN Param : v = Param[n]

\* What a program's functions are.
LEMMA ProgramValid ==
    ASSUME NEW f \in Program
    PROVE  /\ f \in Seq(Instruction) /\ Len(f) \in Nat \ {0} /\ DOMAIN f = 1..Len(f)
           /\ \A i \in DOMAIN f : /\ f[i] \in Instruction
                                  /\ f[i].id \in Nat \ {0} /\ f[i].id # Literal
                                  /\ ~IsParameter(f[i].id)
           /\ \A i, j \in DOMAIN f : f[i].id = f[j].id => i = j
           /\ \A i, j \in DOMAIN f : i <= j => f[i].bb <= f[j].bb
<1>1. Valid(f)
  BY LlvmAssumption
<1>2. f \in Seq(Instruction) /\ f # <<>>
  BY <1>1 DEF Valid
<1>3. Len(f) \in Nat \ {0} /\ DOMAIN f = 1..Len(f)
  BY <1>2
<1>4. ASSUME NEW i \in DOMAIN f
      PROVE  /\ f[i] \in Instruction
             /\ f[i].id \in Nat \ {0} /\ f[i].id # Literal /\ f[i].bb \in Nat
             /\ ~IsParameter(f[i].id)
  <2>1. f[i] \in Instruction
    BY <1>2
  <2>2. f[i].id \in Nat \ {0} /\ f[i].id # Literal /\ f[i].bb \in Nat
    BY <2>1 DEF Instruction, Literal
  <2>3. ~IsParameter(f[i].id)
    BY <1>1 DEF Valid, IsParameter
  <2> QED
    BY <2>1, <2>2, <2>3
<1>5. \A i, j \in DOMAIN f : i < j => f[i].id # f[j].id /\ f[i].bb <= f[j].bb
  BY <1>1 DEF Valid
<1>6. \A i, j \in DOMAIN f : i < j \/ i = j \/ j < i
  BY <1>3
<1>7. \A i, j \in DOMAIN f : f[i].id = f[j].id => i = j
  BY <1>5, <1>6
<1>8. \A i, j \in DOMAIN f : i <= j => f[i].bb <= f[j].bb
  BY <1>3, <1>4, <1>5
<1> QED
  BY <1>2, <1>3, <1>4, <1>7, <1>8

\* The values of the function are found where they are embedded, literals and
\* parameters nowhere.
LEMMA Placed ==
    ASSUME NEW f, NEW at, Embeds(f, at)
    PROVE  /\ \A i \in DOMAIN f : Place(f[i].id) = at[i] /\ ItemOf(f[i].id) = f[i]
           /\ \A v : v = Literal \/ IsParameter(v) => Place(v) = 0
<1> USE ProgramValid
<1>1. f \in Program /\ at \in [DOMAIN f -> DOMAIN code]
  BY DEF Embeds
<1>2. PICK S : code \in Seq(S)
  BY DEF Embeds
<1>3. \A q \in DOMAIN code : code[q].id = Literal \/ \E i \in DOMAIN f : at[i] = q /\ code[q] = f[i]
  <2> TAKE q \in DOMAIN code
  <2>1. CASE Inserted(code[q])
    BY <2>1 DEF Inserted
  <2>2. CASE \E i \in DOMAIN f : at[i] = q
    BY <2>2 DEF Embeds
  <2> QED
    BY <2>1, <2>2 DEF Embeds
<1>4. ASSUME NEW i \in DOMAIN f
      PROVE  Place(f[i].id) = at[i] /\ ItemOf(f[i].id) = f[i]
  <2>1. at[i] \in DOMAIN code /\ code[at[i]] = f[i]
    BY <1>1 DEF Embeds
  <2>2. f[i].id # Literal /\ \A j \in DOMAIN f : f[j].id = f[i].id => j = i
    BY <1>1
  <2>3. \A q \in DOMAIN code : code[q].id = f[i].id => q = at[i]
    BY <1>3, <2>2
  <2> QED
    BY <1>2, <2>1, <2>2, <2>3, PlaceIs
<1>5. ASSUME NEW v, v = Literal \/ IsParameter(v)
      PROVE  Place(v) = 0
  <2>1. CASE v = Literal
    BY <2>1 DEF Place
  <2>2. CASE IsParameter(v)
    <3>1. v # Literal
      BY <2>2, LlvmAssumption DEF IsParameter
    <3>2. \A j \in DOMAIN f : f[j].id # v
      BY <2>2, <1>1
    <3>3. \A q \in DOMAIN code : code[q].id # v
      BY <3>1, <3>2, <1>3
    <3> QED
      BY <1>2, <3>3, PlaceNone
  <2> QED
    BY <1>5, <2>1, <2>2
<1> QED
  BY <1>4, <1>5

-----------------------------------------------------------------------------
(* Insertions.                                                             *)

Inserts(p, before, after) ==
    /\ p \in DOMAIN code
    /\ \E S : before \in Seq(S) /\ after \in Seq(S)
    /\ \A k \in DOMAIN before : Inserted(before[k])
    /\ \A k \in DOMAIN after : Inserted(after[k])
    /\ code' = Spliced(p, before, after)

\* What was there is there still, in the same order; the rest is new.
Grows(p, before, after, n, m) ==
    /\ p \in Nat \ {0} /\ n \in Nat /\ m \in Nat
    /\ n = Len(before) /\ m = Len(after)
    /\ DOMAIN before = 1..n /\ DOMAIN after = 1..m
    /\ Len(code) \in Nat /\ DOMAIN code = 1..Len(code) /\ p \in 1..Len(code)
    /\ \E S : code' \in Seq(S)
    /\ DOMAIN code' = 1..(Len(code) + n + m)
    /\ \A q \in DOMAIN code : /\ Shift(p, n, m, q) \in DOMAIN code'
                              /\ code'[Shift(p, n, m, q)] = code[q]
    /\ \A q, r \in DOMAIN code : q < r => Shift(p, n, m, q) < Shift(p, n, m, r)
    /\ \A k \in 1..n : p - 1 + k \in DOMAIN code' /\ code'[p - 1 + k] = before[k]
    /\ \A k \in 1..m : p + n + k \in DOMAIN code' /\ code'[p + n + k] = after[k]
    /\ \A r \in DOMAIN code' : \/ \E q \in DOMAIN code : r = Shift(p, n, m, q)
                               \/ \E k \in 1..n : r = p - 1 + k
                               \/ \E k \in 1..m : r = p + n + k
LEMMA InsertFacts ==
    ASSUME NEW f, NEW at, Embeds(f, at), NEW p, NEW before, NEW after, Inserts(p, before, after),
           NEW n, NEW m, n = Len(before), m = Len(after)
    PROVE  Grows(p, before, after, n, m)
<1>1. PICK S1 : code \in Seq(S1)
  BY DEF Embeds
<1>2. PICK S2 : before \in Seq(S2) /\ after \in Seq(S2)
  BY DEF Inserts
<1> DEFINE S == S1 \cup S2
<1>3. code \in Seq(S) /\ before \in Seq(S) /\ after \in Seq(S)
  BY <1>1, <1>2
<1> HIDE DEF S
<1>4. p \in DOMAIN code /\ code' = Spliced(p, before, after)
  BY DEF Inserts
<1>5. PICK c : c = Spliced(p, before, after)
  OBVIOUS
<1>6. c = code'
  BY <1>4, <1>5
<1>7. /\ c \in Seq(S) /\ Len(c) = Len(code) + Len(before) + Len(after)
      /\ \A q \in DOMAIN code : c[Shift(p, Len(before), Len(after), q)] = code[q]
      /\ \A k \in DOMAIN before : c[p - 1 + k] = before[k]
      /\ \A k \in DOMAIN after : c[p + Len(before) + k] = after[k]
  <2>1. Result(c, S, p, before, after)
    BY <1>3, <1>4, <1>5, SplicedFacts
  <2> QED
    BY <2>1 DEF Result
<1>8. /\ n \in Nat /\ m \in Nat /\ Len(code) \in Nat /\ DOMAIN code = 1..Len(code)
      /\ DOMAIN before = 1..n /\ DOMAIN after = 1..m /\ DOMAIN c = 1..Len(c)
  BY <1>3, <1>7
<1>9. p \in 1..Len(code) /\ p \in Nat \ {0} /\ DOMAIN c = 1..(Len(code) + n + m)
  BY <1>4, <1>7, <1>8
<1>10. \A q \in 1..Len(code) : Shift(p, n, m, q) \in 1..(Len(code) + n + m)
  BY <1>8, <1>9 DEF Shift
<1>11. \A q, r \in 1..Len(code) : q < r => Shift(p, n, m, q) < Shift(p, n, m, r)
  BY <1>8, <1>9 DEF Shift
<1>12. \A k \in 1..n : p - 1 + k \in 1..(Len(code) + n + m)
  BY <1>8, <1>9
<1>13. \A k \in 1..m : p + n + k \in 1..(Len(code) + n + m)
  BY <1>8, <1>9
<1>14. ASSUME NEW r \in 1..(Len(code) + n + m)
       PROVE  \/ \E q \in 1..Len(code) : r = Shift(p, n, m, q)
              \/ \E k \in 1..n : r = p - 1 + k
              \/ \E k \in 1..m : r = p + n + k
  <2>1. CASE r < p
    <3>1. r \in 1..Len(code) /\ r = Shift(p, n, m, r)
      BY <2>1, <1>8, <1>9 DEF Shift
    <3> QED
      BY <3>1
  <2>2. CASE r >= p /\ r < p + n
    <3>1. r - p + 1 \in 1..n /\ r = p - 1 + (r - p + 1)
      BY <2>2, <1>8, <1>9
    <3> QED
      BY <3>1
  <2>3. CASE r = p + n
    BY <2>3, <1>8, <1>9 DEF Shift
  <2>4. CASE r > p + n /\ r <= p + n + m
    <3>1. r - p - n \in 1..m /\ r = p + n + (r - p - n)
      BY <2>4, <1>8, <1>9
    <3> QED
      BY <3>1
  <2>5. CASE r > p + n + m
    <3>1. r - n - m \in 1..Len(code) /\ r = Shift(p, n, m, r - n - m)
      BY <2>5, <1>8, <1>9 DEF Shift
    <3> QED
      BY <3>1
  <2> QED
    <3>1. \/ r < p
          \/ r >= p /\ r < p + n
          \/ r = p + n
          \/ r > p + n /\ r <= p + n + m
          \/ r > p + n + m
      BY <1>8, <1>9
    <3> QED
      BY <2>1, <2>2, <2>3, <2>4, <2>5, <3>1, Zenon
<1>15. DOMAIN code' = 1..(Len(code) + n + m) /\ \E T : code' \in Seq(T)
  BY <1>6, <1>7, <1>9
<1>16. \A q \in DOMAIN code : /\ Shift(p, n, m, q) \in DOMAIN code'
                              /\ code'[Shift(p, n, m, q)] = code[q]
  BY <1>6, <1>7, <1>8, <1>10, <1>15
<1>17. \A k \in 1..n : p - 1 + k \in DOMAIN code' /\ code'[p - 1 + k] = before[k]
  BY <1>6, <1>7, <1>8, <1>12, <1>15
<1>18. \A k \in 1..m : p + n + k \in DOMAIN code' /\ code'[p + n + k] = after[k]
  BY <1>6, <1>7, <1>8, <1>13, <1>15
<1>19. \A r \in DOMAIN code' : \/ \E q \in DOMAIN code : r = Shift(p, n, m, q)
                               \/ \E k \in 1..n : r = p - 1 + k
                               \/ \E k \in 1..m : r = p + n + k
  <2> TAKE r \in DOMAIN code'
  <2>1. r \in 1..(Len(code) + n + m)
    BY <1>15
  <2> QED
    BY <2>1, <1>8, <1>14
<1>20. \A q, r \in DOMAIN code : q < r => Shift(p, n, m, q) < Shift(p, n, m, r)
  BY <1>8, <1>11, Zenon
<1> QED
  BY <1>8, <1>9, <1>15, <1>16, <1>17, <1>18, <1>19, <1>20, Zenon DEF Grows

\* The function stays embedded.
Moved(at, p, n, m) == [i \in DOMAIN at |-> Shift(p, n, m, at[i])]
LEMMA StaysEmbedded ==
    ASSUME NEW f, NEW at, Embeds(f, at), NEW p, NEW before, NEW after, Inserts(p, before, after),
           NEW at2, at2 = Moved(at, p, Len(before), Len(after))
    PROVE  Embeds(f, at2)'
<1>0. PICK n, m : n = Len(before) /\ m = Len(after)
  OBVIOUS
<1>1. Grows(p, before, after, n, m)
  BY <1>0, InsertFacts
<1> DEFINE sh(q) == Shift(p, n, m, q)
<1>2. f \in Program /\ at \in [DOMAIN f -> DOMAIN code]
  BY DEF Embeds
<1>3. at2 \in [DOMAIN f -> DOMAIN code'] /\ \A i \in DOMAIN f : at2[i] = sh(at[i])
  BY <1>0, <1>1, <1>2 DEF Moved, Grows
<1>4. \A i \in DOMAIN f : code'[at2[i]] = f[i]
  BY <1>1, <1>2, <1>3 DEF Embeds, Grows
<1>5. \A i, j \in DOMAIN f : i < j => at2[i] < at2[j]
  BY <1>1, <1>2, <1>3 DEF Embeds, Grows
<1>6. ASSUME NEW r \in DOMAIN code'
      PROVE  Inserted(code'[r]) \/ \E i \in DOMAIN f : at2[i] = r
  <2>1. ASSUME NEW q \in DOMAIN code, r = sh(q)
        PROVE  Inserted(code'[r]) \/ \E i \in DOMAIN f : at2[i] = r
    <3>1. code'[r] = code[q]
      BY <2>1, <1>1 DEF Grows
    <3>2. Inserted(code[q]) \/ \E i \in DOMAIN f : at[i] = q
      BY DEF Embeds
    <3> QED
      BY <2>1, <3>1, <3>2, <1>3
  <2>2. ASSUME NEW k \in 1..n, r = p - 1 + k
        PROVE  Inserted(code'[r])
    BY <2>2, <1>1 DEF Inserts, Grows
  <2>3. ASSUME NEW k \in 1..m, r = p + n + k
        PROVE  Inserted(code'[r])
    BY <2>3, <1>1 DEF Inserts, Grows
  <2> QED
    BY <2>1, <2>2, <2>3, <1>1 DEF Grows
<1>7. \E S : code' \in Seq(S)
  BY <1>1 DEF Grows
<1> QED
  BY <1>2, <1>3, <1>4, <1>5, <1>6, <1>7 DEF Embeds

-----------------------------------------------------------------------------
(* Uses and alternatives.                                                  *)

LEMMA UsesAre ==
    ASSUME NEW v, NEW u
    PROVE  u \in Uses(v) <=> \E q \in DOMAIN code : \E k \in DOMAIN code[q].args :
                                 u = <<q, k>> /\ code[q].args[k] = v
  BY DEF Uses

LEMMA ProgramUsesAre ==
    ASSUME NEW f, NEW at, Embeds(f, at), NEW v, NEW u
    PROVE  u \in ProgramUses(v) <=> \E i \in DOMAIN f : \E k \in DOMAIN f[i].args :
                                        u = <<at[i], k>> /\ f[i].args[k] = v
<1>1. ASSUME u \in ProgramUses(v)
      PROVE  \E i \in DOMAIN f : \E k \in DOMAIN f[i].args : u = <<at[i], k>> /\ f[i].args[k] = v
  <2>1. PICK q, k : /\ q \in DOMAIN code /\ k \in DOMAIN code[q].args
                     /\ u = <<q, k>> /\ code[q].args[k] = v
    BY <1>1, UsesAre DEF ProgramUses
  <2>2. code[q].op # "hook"
    BY <1>1, <2>1 DEF ProgramUses
  <2>3. code[q].op = "aux" /\ code[q].args = <<>> => FALSE
    BY <2>1
  <2>4. PICK i \in DOMAIN f : at[i] = q
    BY <2>1, <2>2, <2>3 DEF Embeds, Inserted
  <2>5. code[q] = f[i]
    BY <2>4 DEF Embeds
  <2> QED
    BY <2>1, <2>4, <2>5
<1>2. ASSUME NEW i \in DOMAIN f, NEW k \in DOMAIN f[i].args, u = <<at[i], k>>, f[i].args[k] = v
      PROVE  u \in ProgramUses(v)
  <2>1. at[i] \in DOMAIN code /\ code[at[i]] = f[i]
    BY DEF Embeds
  <2>2. f[i].op \in InstructionOp
    BY ProgramValid DEF Embeds, Instruction
  <2>3. u \in Uses(v)
    BY <1>2, <2>1, UsesAre
  <2>4. code[u[1]].op # "hook"
    BY <1>2, <2>1, <2>2 DEF InstructionOp
  <2> QED
    BY <2>3, <2>4 DEF ProgramUses
<1> QED
  BY <1>1, <1>2

\* One select uses the value in f, and nothing else does.
OnlyUse(f, v, j, k) ==
    /\ j \in DOMAIN f /\ k \in DOMAIN f[j].args /\ f[j].args[k] = v
    /\ \A i \in DOMAIN f : \A n \in DOMAIN f[i].args : f[i].args[n] = v => i = j /\ n = k
AltIn(f, v) == \E j, k : OnlyUse(f, v, j, k) /\ f[j].op = "select"

\* What is an alternative of one select is so whatever has been inserted.
LEMMA AlternativeIn ==
    ASSUME NEW f, NEW at, Embeds(f, at), NEW v
    PROVE  Alternative(v) <=> AltIn(f, v)
<1>1. \A i, j \in DOMAIN f : at[i] = at[j] => i = j
  <2>1. \A i, j \in DOMAIN f : i < j \/ i = j \/ j < i
    BY ProgramValid DEF Embeds
  <2>2. \A i \in DOMAIN f : at[i] \in Nat
    BY DEF Embeds
  <2>3. \A i, j \in DOMAIN f : i < j => at[i] < at[j]
    BY DEF Embeds
  <2> QED
    BY <2>1, <2>2, <2>3
<1>2. ASSUME Alternative(v)
      PROVE  AltIn(f, v)
  <2>1. PICK u \in ProgramUses(v) : ProgramUses(v) = {u} /\ code[u[1]].op = "select"
    BY <1>2 DEF Alternative
  <2>2. PICK j, k : /\ j \in DOMAIN f /\ k \in DOMAIN f[j].args
                     /\ u = <<at[j], k>> /\ f[j].args[k] = v
    BY <2>1, ProgramUsesAre
  <2>3. f[j].op = "select"
    BY <2>1, <2>2 DEF Embeds
  <2>4. ASSUME NEW i \in DOMAIN f, NEW n \in DOMAIN f[i].args, f[i].args[n] = v
        PROVE  i = j /\ n = k
    <3>1. <<at[i], n>> \in ProgramUses(v)
      BY <2>4, ProgramUsesAre
    <3>2. <<at[i], n>> = <<at[j], k>>
      BY <3>1, <2>1, <2>2
    <3> QED
      BY <2>2, <3>2, <1>1
  <2>5. OnlyUse(f, v, j, k)
    BY <2>2, <2>4 DEF OnlyUse
  <2> QED
    BY <2>3, <2>5 DEF AltIn
<1>3. ASSUME AltIn(f, v)
      PROVE  Alternative(v)
  <2>1. PICK j, k : OnlyUse(f, v, j, k) /\ f[j].op = "select"
    BY <1>3 DEF AltIn
  <2>2. <<at[j], k>> \in ProgramUses(v)
    BY <2>1, ProgramUsesAre DEF OnlyUse
  <2>3. ASSUME NEW u \in ProgramUses(v)
        PROVE  u = <<at[j], k>>
    <3>1. PICK i, n : /\ i \in DOMAIN f /\ n \in DOMAIN f[i].args
                     /\ u = <<at[i], n>> /\ f[i].args[n] = v
      BY ProgramUsesAre
    <3> QED
      BY <3>1, <2>1 DEF OnlyUse
  <2>4. code[<<at[j], k>>[1]].op = "select"
    BY <2>1 DEF OnlyUse, Embeds
  <2>5. ProgramUses(v) = {<<at[j], k>>}
    BY <2>2, <2>3
  <2> QED
    BY <2>2, <2>4, <2>5 DEF Alternative
<1> QED
  BY <1>2, <1>3

\* As long as no hook uses a value, the passes see what uses it in the program.
LEMMA SelectedIn ==
    ASSUME NEW f, NEW at, Embeds(f, at), NEW v,
           \A q \in Hooks : \A k \in DOMAIN code[q].args : code[q].args[k] # v
    PROVE  /\ SelectedBasedOnCondition(v) <=> AltIn(f, v)
           /\ \A j, k : OnlyUse(f, v, j, k) => SelectOf(v) = f[j]
<1>1. ProgramUses(v) = Uses(v)
  <2>1. ASSUME NEW u \in Uses(v)
        PROVE  code[u[1]].op # "hook"
    <3>1. PICK q, k : /\ q \in DOMAIN code /\ k \in DOMAIN code[q].args
                     /\ u = <<q, k>> /\ code[q].args[k] = v
      BY UsesAre
    <3> QED
      BY <3>1 DEF Hooks
  <2> QED
    BY <2>1 DEF ProgramUses
<1>2. SelectedBasedOnCondition(v) <=> Alternative(v)
  BY <1>1 DEF SelectedBasedOnCondition, Alternative
<1>3. ASSUME NEW j, NEW k, OnlyUse(f, v, j, k)
      PROVE  SelectOf(v) = f[j]
  <2>1. <<at[j], k>> \in Uses(v)
    BY <1>1, <1>3, ProgramUsesAre DEF OnlyUse
  <2>2. ASSUME NEW u \in Uses(v)
        PROVE  u[1] = at[j]
    <3>1. PICK i, n : /\ i \in DOMAIN f /\ n \in DOMAIN f[i].args
                     /\ u = <<at[i], n>> /\ f[i].args[n] = v
      BY <1>1, ProgramUsesAre
    <3> QED
      BY <3>1, <1>3 DEF OnlyUse
  <2>3. (CHOOSE u \in Uses(v) : TRUE) \in Uses(v)
    BY <2>1
  <2>4. (CHOOSE u \in Uses(v) : TRUE)[1] = at[j]
    BY <2>2, <2>3
  <2>5. code[at[j]] = f[j]
    BY <1>3 DEF Embeds, OnlyUse
  <2> QED
    BY <2>4, <2>5 DEF SelectOf
<1> QED
  BY <1>2, <1>3, AlternativeIn

-----------------------------------------------------------------------------
(* Names.                                                                  *)

Numbered(p) == {q \in 1..p : TakesNumber(code[q])}

\* What a value is printed as.
Names(f, at) ==
    /\ Ref(Literal) = NoRef
    /\ \A n \in DOMAIN Param : Ref(Param[n]) = [val |-> Param[n], num |-> n]
    /\ \A i \in DOMAIN f :
           Ref(f[i].id) = [val |-> f[i].id,
                           num |-> Len(Param) + f[i].bb + Cardinality(Numbered(at[i]))]
LEMMA RefIs ==
    ASSUME NEW f, NEW at, Embeds(f, at)
    PROVE  Names(f, at)
<1>1. Ref(Literal) = NoRef
  BY DEF Ref
<1>2. ASSUME NEW n \in DOMAIN Param
      PROVE  Ref(Param[n]) = [val |-> Param[n], num |-> n]
  <2>1. Param[n] # Literal /\ IsParam(Param[n])
    BY LlvmAssumption DEF IsParam
  <2>2. (CHOOSE i \in DOMAIN Param : Param[i] = Param[n]) = n
    BY LlvmAssumption
  <2> QED
    BY <2>1, <2>2 DEF Ref
<1>3. ASSUME NEW i \in DOMAIN f
      PROVE  Ref(f[i].id) = [val |-> f[i].id,
                             num |-> Len(Param) + f[i].bb + Cardinality(Numbered(at[i]))]
  <2>1. f[i].id # Literal /\ ~IsParam(f[i].id)
    BY ProgramValid DEF Embeds, IsParam, IsParameter
  <2>2. Place(f[i].id) = at[i] /\ ItemOf(f[i].id) = f[i]
    BY Placed
  <2> QED
    BY <2>1, <2>2 DEF Ref, Numbered
<1> QED
  BY <1>1, <1>2, <1>3 DEF Names

\* It is so in every state.
AllNames == \A f, at : Embeds(f, at) => Names(f, at)
LEMMA RefAlwaysIs == []AllNames
<1>1. AllNames
  BY RefIs DEF AllNames
<1> QED
  BY <1>1, PTL

\* A place is a finite number of results from the start.
LEMMA NumberedFinite ==
    ASSUME NEW p \in Nat
    PROVE  IsFiniteSet(Numbered(p)) /\ Cardinality(Numbered(p)) \in Nat
<1>1. IsFiniteSet(1..p)
  BY FS_Interval
<1>2. Numbered(p) \in SUBSET (1..p)
  BY DEF Numbered
<1> QED
  BY <1>1, <1>2, FS_Subset, FS_CardinalityType

\* No two results or parameters have one number.
LEMMA NumbersDiffer ==
    ASSUME NEW f, NEW at, Embeds(f, at)
    PROVE  /\ \A i, j \in DOMAIN f :
                  f[i].ty # "void" /\ f[j].ty # "void" /\ Ref(f[i].id).num = Ref(f[j].id).num => i = j
           /\ \A i \in DOMAIN f : \A n \in DOMAIN Param : Ref(f[i].id).num # Ref(Param[n]).num
<1>1. /\ Len(Param) \in Nat /\ DOMAIN Param = 1..Len(Param)
  BY LlvmAssumption
<1>2. /\ f \in Program /\ DOMAIN f = 1..Len(f) /\ Len(f) \in Nat
      /\ \A i \in DOMAIN f : f[i].bb \in Nat \ {0}
      /\ \A i, j \in DOMAIN f : i <= j => f[i].bb <= f[j].bb
  BY ProgramValid DEF Embeds, Instruction
<1>3. \A i \in DOMAIN f : at[i] \in DOMAIN code /\ at[i] \in Nat \ {0} /\ code[at[i]] = f[i]
  BY DEF Embeds
<1>4. ASSUME NEW i \in DOMAIN f
      PROVE  /\ Cardinality(Numbered(at[i])) \in Nat
             /\ Ref(f[i].id).num = Len(Param) + f[i].bb + Cardinality(Numbered(at[i]))
             /\ Ref(f[i].id).num \in Nat /\ Ref(f[i].id).num > Len(Param)
  <2>1. PICK p : p = at[i] /\ p \in Nat
    BY <1>3
  <2>2. PICK c : c = Cardinality(Numbered(p)) /\ c \in Nat
    BY <2>1, NumberedFinite
  <2>3. Ref(f[i].id) = [val |-> f[i].id, num |-> Len(Param) + f[i].bb + c]
    BY <2>1, <2>2, RefIs DEF Names
  <2> QED
    BY <2>1, <2>2, <2>3, <1>1, <1>2
<1>5. ASSUME NEW i \in DOMAIN f, NEW j \in DOMAIN f, i < j, f[j].ty # "void"
      PROVE  Ref(f[i].id).num < Ref(f[j].id).num
  <2>1. at[i] < at[j]
    BY <1>5 DEF Embeds
  <2>2. Numbered(at[i]) \in SUBSET Numbered(at[j])
    BY <1>3, <2>1 DEF Numbered
  <2>3. at[j] \in Numbered(at[j]) /\ at[j] \notin Numbered(at[i])
    BY <1>3, <1>5, <2>1 DEF Numbered, TakesNumber
  <2>4. Cardinality(Numbered(at[i])) < Cardinality(Numbered(at[j]))
    <3>1. IsFiniteSet(Numbered(at[j]))
      BY <1>3, NumberedFinite
    <3>2. /\ Cardinality(Numbered(at[i])) <= Cardinality(Numbered(at[j]))
          /\ Cardinality(Numbered(at[i])) = Cardinality(Numbered(at[j]))
               => Numbered(at[j]) = Numbered(at[i])
      BY <3>1, <2>2, FS_Subset
    <3> QED
      BY <3>2, <2>3, <1>4
  <2>5. PICK a, b : a = Cardinality(Numbered(at[i])) /\ b = Cardinality(Numbered(at[j]))
    OBVIOUS
  <2>6. a \in Nat /\ b \in Nat /\ a < b
    BY <1>4, <2>4, <2>5
  <2>7. Ref(f[i].id).num = Len(Param) + f[i].bb + a /\ Ref(f[j].id).num = Len(Param) + f[j].bb + b
    BY <1>4, <2>5
  <2>8. f[i].bb \in Nat /\ f[j].bb \in Nat /\ f[i].bb <= f[j].bb
    BY <1>2, <1>5
  <2> QED
    BY <1>1, <2>6, <2>7, <2>8
<1>6. ASSUME NEW i \in DOMAIN f, NEW j \in DOMAIN f,
             f[i].ty # "void", f[j].ty # "void", Ref(f[i].id).num = Ref(f[j].id).num
      PROVE  i = j
  <2>1. i < j \/ i = j \/ j < i
    BY <1>2
  <2>2. Ref(f[i].id).num \in Nat /\ Ref(f[j].id).num \in Nat
    BY <1>4
  <2>3. ~(i < j)
    BY <1>5, <1>6, <2>2
  <2>4. ~(j < i)
    BY <1>5, <1>6, <2>2
  <2> QED
    BY <2>1, <2>3, <2>4
<1>7. ASSUME NEW i \in DOMAIN f, NEW n \in DOMAIN Param
      PROVE  Ref(f[i].id).num # Ref(Param[n]).num
  <2>1. Ref(Param[n]).num = n
    BY RefIs DEF Names
  <2> QED
    BY <2>1, <1>1, <1>4
<1>8. \A i, j \in DOMAIN f :
         f[i].ty # "void" /\ f[j].ty # "void" /\ Ref(f[i].id).num = Ref(f[j].id).num => i = j
  BY <1>6
<1>9. \A i \in DOMAIN f : \A n \in DOMAIN Param : Ref(f[i].id).num # Ref(Param[n]).num
  BY <1>7
<1> QED
  BY <1>8, <1>9, Zenon

\* An insertion that takes no number before a value leaves its name.
LEMMA NumberKept ==
    ASSUME NEW f, NEW at, Embeds(f, at), NEW p, NEW before, NEW after, Inserts(p, before, after),
           NEW i \in DOMAIN f,
           p <= at[i] => \A k \in DOMAIN before : ~TakesNumber(before[k]),
           p < at[i] => \A k \in DOMAIN after : ~TakesNumber(after[k])
    PROVE  Ref(f[i].id)' = Ref(f[i].id)
<1>1. PICK n, m : n = Len(before) /\ m = Len(after)
  OBVIOUS
<1>2. Grows(p, before, after, n, m)
  BY <1>1, InsertFacts
<1> DEFINE sh(q) == Shift(p, n, m, q)
<1>3. PICK at2 : at2 = Moved(at, p, n, m)
  OBVIOUS
<1>4. Embeds(f, at2)'
  BY <1>1, <1>3, StaysEmbedded
<1>5. at[i] \in DOMAIN code /\ at[i] \in Nat /\ at2[i] = sh(at[i])
  BY <1>2, <1>3 DEF Embeds, Moved, Grows
<1>6. PICK P, P2 : P = at[i] /\ P2 = at2[i]
  OBVIOUS
<1>7. PICK A, B : A = Numbered(P) /\ B = Numbered(P2)'
  OBVIOUS
<1>8. \A q : q \in A <=> q \in 1..P /\ TakesNumber(code[q])
  BY <1>7 DEF Numbered
<1>9. \A q : q \in B <=> q \in 1..P2 /\ TakesNumber(code'[q])
  BY <1>7 DEF Numbered, TakesNumber
<1>10. /\ P \in DOMAIN code /\ P2 = sh(P) /\ P2 \in DOMAIN code'
       /\ DOMAIN code \in SUBSET Nat /\ P \in Nat /\ P2 \in Nat
       /\ \A q \in 1..P : q \in DOMAIN code
       /\ \A q \in 1..P2 : q \in DOMAIN code'
  BY <1>2, <1>5, <1>6 DEF Grows
<1>11. ASSUME NEW q \in A
       PROVE  sh(q) \in B
  <2>1. q \in 1..P /\ TakesNumber(code[q]) /\ q \in DOMAIN code
    BY <1>8, <1>10
  <2>2. sh(q) \in DOMAIN code' /\ code'[sh(q)] = code[q]
    BY <2>1, <1>2 DEF Grows
  <2>3. q < P \/ q = P
    BY <2>1, <1>10
  <2>4. sh(q) \in 1..P2
    <3>1. sh(q) \in Nat \ {0}
      BY <2>2, <1>2 DEF Grows
    <3>2. sh(q) < sh(P) \/ sh(q) = sh(P)
      BY <2>1, <2>3, <1>2, <1>10 DEF Grows
    <3> QED
      BY <3>1, <3>2, <1>10
  <2> QED
    BY <2>1, <2>2, <2>4, <1>9
<1>12. ASSUME NEW q \in A, NEW r \in A, sh(q) = sh(r)
       PROVE  q = r
  <2>1. q \in DOMAIN code /\ r \in DOMAIN code /\ q \in Nat /\ r \in Nat
    BY <1>8, <1>10
  <2>2. q < r => sh(q) < sh(r)
    BY <2>1, <1>2 DEF Grows
  <2>3. r < q => sh(r) < sh(q)
    BY <2>1, <1>2 DEF Grows
  <2>4. sh(q) \in Nat
    BY <2>1, <1>2 DEF Grows
  <2> QED
    BY <2>1, <2>2, <2>3, <2>4, <1>12
<1>13. ASSUME NEW r \in B
       PROVE  \E q \in A : r = sh(q)
  <2>1. r \in 1..P2 /\ TakesNumber(code'[r]) /\ r \in DOMAIN code'
    BY <1>9, <1>10
  <2>2. ASSUME NEW q \in DOMAIN code, r = sh(q)
        PROVE  q \in A
    <3>1. code'[r] = code[q]
      BY <2>2, <1>2 DEF Grows
    <3>2. q \in Nat \ {0}
      BY <1>2 DEF Grows
    <3>3. ~(P < q)
      <4>1. P < q => sh(P) < sh(q)
        BY <1>2, <1>10 DEF Grows
      <4> QED
        BY <4>1, <2>1, <2>2, <1>10
    <3> QED
      BY <3>1, <3>2, <3>3, <2>1, <1>8, <1>10
  <2>3. ASSUME NEW k \in 1..n, r = p - 1 + k
        PROVE  FALSE
    <3>1. p <= at[i]
      BY <2>1, <2>3, <1>2, <1>6, <1>10 DEF Shift, Grows
    <3>2. code'[r] = before[k] /\ k \in DOMAIN before
      BY <2>3, <1>2 DEF Grows
    <3> QED
      BY <3>1, <3>2, <2>1
  <2>4. ASSUME NEW k \in 1..m, r = p + n + k
        PROVE  FALSE
    <3>1. p < at[i]
      BY <2>1, <2>4, <1>2, <1>6, <1>10 DEF Shift, Grows
    <3>2. code'[r] = after[k] /\ k \in DOMAIN after
      BY <2>4, <1>2 DEF Grows
    <3> QED
      BY <3>1, <3>2, <2>1
  <2> QED
    BY <2>1, <2>2, <2>3, <2>4, <1>2 DEF Grows
<1>14. IsFiniteSet(A)
  BY <1>7, <1>10, NumberedFinite
<1>15. ExistsBijection(A, B)
  <2> DEFINE g == [q \in A |-> sh(q)]
  <2>1. g \in [A -> B] /\ \A q \in A : g[q] = sh(q)
    BY <1>11
  <2>2. g \in Injection(A, B)
    BY <2>1, <1>12 DEF Injection, IsInjective
  <2>3. g \in Surjection(A, B)
    <3>1. \A r \in B : \E q \in A : g[q] = r
      BY <2>1, <1>13
    <3> QED
      BY <2>1, <3>1 DEF Surjection
  <2> HIDE DEF g
  <2> QED
    BY <2>2, <2>3 DEF ExistsBijection, Bijection
<1>16. Cardinality(B) = Cardinality(A)
  BY <1>14, <1>15, FS_Bijection
<1>17. Ref(f[i].id) = [val |-> f[i].id, num |-> Len(Param) + f[i].bb + Cardinality(A)]
  BY <1>6, <1>7, RefIs DEF Names
<1>18. Ref(f[i].id)' = [val |-> f[i].id, num |-> Len(Param) + f[i].bb + Cardinality(B)]
  <2>1. AllNames'
    BY RefAlwaysIs, PTL
  <2>2. Names(f, at2)'
    BY <2>1, <1>4 DEF AllNames
  <2> QED
    BY <2>2, <1>6, <1>7 DEF Names
<1> QED
  BY <1>16, <1>17, <1>18

-----------------------------------------------------------------------------
(* Positions in order.                                                     *)

UpTo(K, k) == {j \in K : j <= k}
LEMMA UpToFinite ==
    ASSUME NEW K \in SUBSET Nat, IsFiniteSet(K), NEW k
    PROVE  IsFiniteSet(UpTo(K, k)) /\ Cardinality(UpTo(K, k)) \in Nat
<1>1. UpTo(K, k) \in SUBSET K
  BY DEF UpTo
<1> QED
  BY <1>1, FS_Subset, FS_CardinalityType

\* Every number up to the size of the set is the rank of an element.
LEMMA RankExists ==
    ASSUME NEW K \in SUBSET Nat, IsFiniteSet(K), NEW n \in 1..Cardinality(K)
    PROVE  \E k \in K : Cardinality(UpTo(K, k)) = n
<1> DEFINE Missing == {i \in 1..Cardinality(K) : \A k \in K : Cardinality(UpTo(K, k)) # i}
<1> SUFFICES ASSUME Missing # {} PROVE FALSE
  OBVIOUS
<1>0. Cardinality(K) \in Nat
  BY FS_CardinalityType
<1>1. PICK i \in Missing : \A j \in Missing : i <= j
  <2>1. Missing \in SUBSET Nat
    BY <1>0
  <2> HIDE DEF Missing
  <2> QED
    BY <2>1, Least
<1>2. /\ i \in 1..Cardinality(K) /\ \A k \in K : Cardinality(UpTo(K, k)) # i
      /\ i \in Nat
  BY <1>0, <1>1
\* The elements with a smaller rank: those up to the one with rank i - 1.
<1>3. PICK L : /\ L \in SUBSET K /\ IsFiniteSet(L) /\ Cardinality(L) = i - 1
               /\ \A a \in K \ L : \A e \in L : e < a
  <2>1. CASE i = 1
    <3>1. IsFiniteSet({}) /\ Cardinality({}) = 0
      BY FS_EmptySet
    <3> QED
      BY <2>1, <3>1
  <2>2. CASE i # 1
    <3>1. i - 1 \in 1..Cardinality(K)
      BY <1>0, <1>2, <2>2
    <3>2. i - 1 \notin Missing
      BY <1>1, <1>2
    <3>3. PICK k \in K : Cardinality(UpTo(K, k)) = i - 1
      BY <3>1, <3>2
    <3>4. IsFiniteSet(UpTo(K, k))
      BY UpToFinite
    <3>5. UpTo(K, k) \in SUBSET K /\ \A a \in K \ UpTo(K, k) : \A e \in UpTo(K, k) : e < a
      BY DEF UpTo
    <3> QED
      BY <3>3, <3>4, <3>5
  <2> QED
    BY <2>1, <2>2
<1>4. K \ L # {}
  <2>1. SUFFICES ASSUME K \ L = {} PROVE FALSE
    OBVIOUS
  <2>2. K = L
    BY <1>3, <2>1
  <2> QED
    BY <2>2, <1>0, <1>2, <1>3
<1>5. PICK a \in K \ L : \A e \in K \ L : a <= e
  <2>1. K \ L \in SUBSET Nat
    OBVIOUS
  <2> QED
    BY <1>4, <2>1, Least
<1>6. UpTo(K, a) = L \cup {a}
  <2>1. ASSUME NEW j \in K
        PROVE  j <= a <=> j \in L \/ j = a
    <3>1. j \in Nat /\ a \in Nat
      BY <1>5
    <3>2. j \in L => j < a
      BY <1>3, <1>5
    <3>3. j \notin L => a <= j
      BY <1>5
    <3> QED
      BY <3>1, <3>2, <3>3
  <2> QED
    BY <2>1, <1>3, <1>5 DEF UpTo
<1>7. Cardinality(L \cup {a}) = Cardinality(L) + 1
  BY <1>3, <1>5, FS_AddElement
<1> QED
  BY <1>2, <1>3, <1>5, <1>6, <1>7

LEMMA OrderedIn ==
    ASSUME NEW K \in SUBSET Nat, IsFiniteSet(K)
    PROVE  /\ Cardinality(K) \in Nat
           /\ Ordered(K) \in [1..Cardinality(K) -> K]
<1>1. Cardinality(K) \in Nat
  BY FS_CardinalityType
<1>2. ASSUME NEW n \in 1..Cardinality(K)
      PROVE  (CHOOSE k \in K : Cardinality({j \in K : j <= k}) = n) \in K
  <2>1. PICK k \in K : Cardinality({j \in K : j <= k}) = n
    BY RankExists DEF UpTo
  <2> QED
    BY <2>1
<1> QED
  BY <1>1, <1>2 DEF Ordered

LEMMA MaxIn ==
    ASSUME NEW S \in SUBSET Nat, S # {}, NEW n \in Nat, \A e \in S : e <= n
    PROVE  Max(S) \in S
<1> DEFINE D == {i \in Nat : \E e \in S : i = n - e}
<1>1. D \in SUBSET Nat /\ D # {}
  <2>1. PICK e \in S : TRUE
    OBVIOUS
  <2>2. n - e \in Nat
    BY <2>1
  <2> QED
    BY <2>1, <2>2
<1>2. PICK i \in D : \A j \in D : i <= j
  BY <1>1, Least
<1>3. PICK d \in S : i = n - d
  BY <1>2
<1>4. ASSUME NEW e \in S
      PROVE  d >= e
  <2>1. n - e \in D
    OBVIOUS
  <2>2. i <= n - e
    BY <1>2, <2>1
  <2> QED
    BY <1>3, <2>2
<1> QED
  BY <1>4 DEF Max

\* An insertion of nothing.
LEMMA NothingSpliced ==
    ASSUME NEW S, code \in Seq(S), NEW p \in DOMAIN code
    PROVE  Spliced(p, <<>>, <<>>) = code
<1>1. PICK c : c = Spliced(p, <<>>, <<>>)
  OBVIOUS
<1>2. Result(c, S, p, <<>>, <<>>)
  <2>1. PICK e \in Seq(S) : e = <<>>
    BY EmptySeq
  <2>2. c = Spliced(p, e, e)
    BY <1>1, <2>1
  <2>3. Result(c, S, p, e, e)
    BY <2>2, SplicedFacts
  <2> QED
    BY <2>1, <2>3
<1>3. c \in Seq(S) /\ Len(c) = Len(code) /\ p \in Nat /\ Len(code) \in Nat
  BY <1>2 DEF Result
<1>4. \A q \in 1..Len(code) : Shift(p, 0, 0, q) = q
  BY <1>3 DEF Shift
<1>5. \A q \in 1..Len(code) : c[q] = code[q]
  BY <1>2, <1>4 DEF Result
<1> QED
  BY <1>1, <1>3, <1>5

-----------------------------------------------------------------------------
(* What is true of the hooks in the code.                                  *)

\* A value of the first m instructions, a parameter or a literal, in front of
\* position b.
Seen(f, at, m, v, b) == \/ v = Literal \/ IsParameter(v)
                        \/ \E j \in DOMAIN f : j <= m /\ v = f[j].id /\ at[j] < b

\* A value with a number, by the name it has now.
Named(f, m, r) == \/ r = NoRef
                  \/ \E n \in DOMAIN Param : r = [val |-> Param[n], num |-> n]
                  \/ \E j \in DOMAIN f : j <= m /\ r = Ref(f[j].id) /\ f[j].ty # "void"

\* An item of the code (a hook, if anything) whose place divides the code at b
\* uses and names what it may.
Fits(f, at, m, c, b) ==
    c.op = "hook" =>
        /\ \A k \in DOMAIN c.args : Seen(f, at, m, c.args[k], b)
        /\ Seen(f, at, Len(f), c.cond, b)
        /\ Named(f, m, c.writes) /\ \A k \in DOMAIN c.reads : Named(f, m, c.reads[k])
AllFit(f, at, m) == \A q \in DOMAIN code : Fits(f, at, m, code[q], q)

\* The reads and writes that must be in order: all but those of what only a
\* select uses, and those of parameters unless full.
Exempt(f, full, v) == v = Literal \/ AltIn(f, v) \/ (IsParameter(v) /\ ~full)
Reading(f, full, c, v) == /\ c.op = "hook" /\ c.hook # "phi" /\ ~Exempt(f, full, v)
                          /\ \E k \in DOMAIN c.reads : v = c.reads[k].val
Writing(c, v) == c.op = "hook" /\ c.writes.val = v

\* A hook reads what stands in front of it and is recorded there; what it
\* records is recorded before anything of the program that uses it.
ReadsFit(f, at, full, c, b) ==
    \A v : Reading(f, full, c, v) =>
        /\ Seen(f, at, Len(f), v, b)
        /\ \A w \in DOMAIN code : Writing(code[w], v) => w < b
UsesParam(i, v) == IsParameter(v) /\ \E k \in DOMAIN i.args : i.args[k] = v
WritesFit(f, at, full, c, b) ==
    \A v : Writing(c, v) /\ ~Exempt(f, full, v) =>
        \A i \in DOMAIN f :
            /\ UsesParam(f[i], v) => b <= at[i]
            /\ \A j \in DOMAIN f : v = f[j].id /\ f[j].op # "phi" /\ j < i => b <= at[i]
InOrder(f, at, full) ==
    \A q \in DOMAIN code : /\ ReadsFit(f, at, full, code[q], q)
                           /\ WritesFit(f, at, full, code[q], q)

\* What is inserted divides the old code at b.
Puts(p, before, after, c, b) == \/ \E k \in DOMAIN before : c = before[k] /\ b = p
                                \/ \E k \in DOMAIN after : c = after[k] /\ b = p + 1

\* An item of the new code is an old one or divides the old ones where it is put.
LEMMA OldOrPut ==
    ASSUME NEW p, NEW before, NEW after, NEW n, NEW m, Grows(p, before, after, n, m),
           NEW r \in DOMAIN code'
    PROVE  \/ \E q \in DOMAIN code : r = Shift(p, n, m, q) /\ code'[r] = code[q]
           \/ \E b : /\ Puts(p, before, after, code'[r], b)
                     /\ \A q \in DOMAIN code : /\ q < b => Shift(p, n, m, q) < r
                                               /\ b <= q => r < Shift(p, n, m, q)
<1>1. /\ p \in Nat \ {0} /\ n \in Nat /\ m \in Nat /\ \A q \in DOMAIN code : q \in Nat
      /\ DOMAIN before = 1..n /\ DOMAIN after = 1..m
  BY DEF Grows
<1>2. CASE \E q \in DOMAIN code : r = Shift(p, n, m, q)
  BY <1>2 DEF Grows
<1>3. ASSUME NEW k \in 1..n, r = p - 1 + k
      PROVE  /\ Puts(p, before, after, code'[r], p)
             /\ \A q \in DOMAIN code : /\ q < p => Shift(p, n, m, q) < r
                                       /\ p <= q => r < Shift(p, n, m, q)
  <2>1. code'[r] = before[k]
    BY <1>3 DEF Grows
  <2>2. Puts(p, before, after, code'[r], p)
    BY <1>1, <2>1 DEF Puts
  <2>3. ASSUME NEW q \in DOMAIN code
        PROVE  /\ q < p => Shift(p, n, m, q) < r
               /\ p <= q => r < Shift(p, n, m, q)
    BY <1>1, <1>3 DEF Shift
  <2> QED
    BY <2>2, <2>3
<1>4. ASSUME NEW k \in 1..m, r = p + n + k
      PROVE  /\ Puts(p, before, after, code'[r], p + 1)
             /\ \A q \in DOMAIN code : /\ q < p + 1 => Shift(p, n, m, q) < r
                                       /\ p + 1 <= q => r < Shift(p, n, m, q)
  <2>1. code'[r] = after[k]
    BY <1>4 DEF Grows
  <2>2. Puts(p, before, after, code'[r], p + 1)
    BY <1>1, <2>1 DEF Puts
  <2>3. ASSUME NEW q \in DOMAIN code
        PROVE  /\ q < p + 1 => Shift(p, n, m, q) < r
               /\ p + 1 <= q => r < Shift(p, n, m, q)
    BY <1>1, <1>4 DEF Shift
  <2> QED
    BY <2>2, <2>3
<1>5. \/ \E q \in DOMAIN code : r = Shift(p, n, m, q)
      \/ \E k \in 1..n : r = p - 1 + k
      \/ \E k \in 1..m : r = p + n + k
  BY DEF Grows
<1> QED
  BY <1>2, <1>3, <1>4, <1>5

\* An insertion that renames nothing up to m2 leaves what fits, and what it
\* adds fits.
LEMMA FitsKept ==
    ASSUME NEW f, NEW at, Embeds(f, at), NEW p, NEW before, NEW after, Inserts(p, before, after),
           NEW at2, at2 = Moved(at, p, Len(before), Len(after)),
           NEW m \in Nat, NEW m2 \in Nat, m <= m2, AllFit(f, at, m),
           \A k \in DOMAIN before : ~TakesNumber(before[k]),
           \A k \in DOMAIN after : TakesNumber(after[k]) =>
                                       \A j \in DOMAIN f : p < at[j] => j > m2,
           \A c, b : Puts(p, before, after, c, b) => Fits(f, at, m2, c, b)
    PROVE  AllFit(f, at2, m2)'
<1>1. PICK n, k2 : n = Len(before) /\ k2 = Len(after)
  OBVIOUS
<1>2. Grows(p, before, after, n, k2)
  BY <1>1, InsertFacts
<1>3. f \in Program /\ at \in [DOMAIN f -> DOMAIN code] /\ DOMAIN f = 1..Len(f) /\ Len(f) \in Nat
  BY ProgramValid DEF Embeds
<1>4. \A j \in DOMAIN f : at2[j] = Shift(p, n, k2, at[j])
  BY <1>1, <1>3 DEF Moved
<1>5. Embeds(f, at2)'
  BY StaysEmbedded
<1>6. ASSUME NEW j \in DOMAIN f, j <= m2
      PROVE  Ref(f[j].id)' = Ref(f[j].id)
  <2>1. p < at[j] => \A k \in DOMAIN after : ~TakesNumber(after[k])
    BY <1>3, <1>6
  <2> QED
    BY <2>1, NumberKept
<1>8. ASSUME NEW i, i \in {m, m2}, NEW r, Named(f, i, r)
      PROVE  Named(f, m2, r)'
  <2>1. CASE r = NoRef
    BY <2>1 DEF Named
  <2>2. CASE \E k \in DOMAIN Param : r = [val |-> Param[k], num |-> k]
    BY <2>2 DEF Named
  <2>3. CASE \E j \in DOMAIN f : j <= i /\ r = Ref(f[j].id) /\ f[j].ty # "void"
    <3>1. PICK j \in DOMAIN f : j <= i /\ r = Ref(f[j].id) /\ f[j].ty # "void"
      BY <2>3
    <3>2. j <= m2
      BY <3>1, <1>3, <1>8
    <3>3. r = Ref(f[j].id)'
      BY <3>1, <3>2, <1>6
    <3> QED
      BY <3>1, <3>2, <3>3 DEF Named
  <2> QED
    BY <1>8, <2>1, <2>2, <2>3 DEF Named
<1>9. ASSUME NEW i, i \in {m, m2}, NEW c, NEW b, Fits(f, at, i, c, b), NEW r,
             \A q \in DOMAIN code : q < b => Shift(p, n, k2, q) < r
      PROVE  Fits(f, at2, m2, c, r)'
  <2> SUFFICES ASSUME c.op = "hook"
               PROVE  Fits(f, at2, m2, c, r)'
    BY DEF Fits
  <2>1. ASSUME NEW v, NEW u, NEW u2, Seen(f, at, u, v, b), \A j \in DOMAIN f : j <= u => j <= u2
        PROVE  Seen(f, at2, u2, v, r)
    <3>1. CASE v = Literal \/ IsParameter(v)
      BY <3>1 DEF Seen
    <3>2. CASE \E j \in DOMAIN f : j <= u /\ v = f[j].id /\ at[j] < b
      <4>1. PICK j \in DOMAIN f : j <= u /\ v = f[j].id /\ at[j] < b
        BY <3>2
      <4>2. at2[j] < r
        BY <4>1, <1>3, <1>4, <1>9
      <4> QED
        BY <4>1, <4>2, <2>1 DEF Seen
    <3> QED
      BY <2>1, <3>1, <3>2 DEF Seen
  <2>2. \A j \in DOMAIN f : j <= i => j <= m2
    BY <1>3, <1>9
  <2>3. \A k \in DOMAIN c.args : Seen(f, at2, m2, c.args[k], r)
    BY <1>9, <2>1, <2>2 DEF Fits
  <2>4. Seen(f, at2, Len(f), c.cond, r)
    BY <1>9, <2>1 DEF Fits
  <2>5. Named(f, m2, c.writes)' /\ \A k \in DOMAIN c.reads : Named(f, m2, c.reads[k])'
    BY <1>8, <1>9 DEF Fits
  <2> QED
    BY <2>3, <2>4, <2>5 DEF Fits, Seen
<1>10. ASSUME NEW r \in DOMAIN code', NEW c, c = code'[r]
       PROVE  Fits(f, at2, m2, c, r)'
  <2>1. CASE \E q \in DOMAIN code : r = Shift(p, n, k2, q) /\ code'[r] = code[q]
    <3>1. PICK q \in DOMAIN code : r = Shift(p, n, k2, q) /\ c = code[q]
      BY <1>10, <2>1
    <3>2. Fits(f, at, m, c, q)
      BY <3>1 DEF AllFit
    <3>3. \A s \in DOMAIN code : s < q => Shift(p, n, k2, s) < r
      BY <1>2, <3>1 DEF Grows
    <3> QED
      BY <1>9, <3>2, <3>3
  <2>2. CASE \E b : /\ Puts(p, before, after, code'[r], b)
                    /\ \A q \in DOMAIN code : /\ q < b => Shift(p, n, k2, q) < r
                                              /\ b <= q => r < Shift(p, n, k2, q)
    <3>1. PICK b : /\ Puts(p, before, after, c, b)
                   /\ \A q \in DOMAIN code : q < b => Shift(p, n, k2, q) < r
      BY <1>10, <2>2
    <3> QED
      BY <1>9, <3>1
  <2> QED
    BY <2>1, <2>2, <1>2, OldOrPut
<1> QED
  BY <1>10 DEF AllFit, Fits, Seen, Named

\* An insertion whose reads and writes are in order with the others' leaves all
\* reads and writes in order.
LEMMA OrderKept ==
    ASSUME NEW f, NEW at, Embeds(f, at), NEW p, NEW before, NEW after, Inserts(p, before, after),
           NEW at2, at2 = Moved(at, p, Len(before), Len(after)),
           NEW full, InOrder(f, at, full),
           \A c, b : Puts(p, before, after, c, b) =>
               ReadsFit(f, at, full, c, b) /\ WritesFit(f, at, full, c, b),
           \A c, b, v : Puts(p, before, after, c, b) /\ Writing(c, v) =>
               \A q \in DOMAIN code : Reading(f, full, code[q], v) => b <= q,
           \A c, b, d, e, v : Puts(p, before, after, c, b) /\ Puts(p, before, after, d, e) =>
               ~(Reading(f, full, c, v) /\ Writing(d, v))
    PROVE  InOrder(f, at2, full)'
<1>1. PICK n, m : n = Len(before) /\ m = Len(after)
  OBVIOUS
<1>2. Grows(p, before, after, n, m)
  BY <1>1, InsertFacts
<1> DEFINE sh(q) == Shift(p, n, m, q)
           Old(r, c, q) == q \in DOMAIN code /\ r = sh(q) /\ c = code[q]
           Put(r, c, b) == /\ Puts(p, before, after, c, b)
                           /\ \A q \in DOMAIN code : (q < b => sh(q) < r) /\ (b <= q => r < sh(q))
<1>3. ASSUME NEW r \in DOMAIN code', NEW c, c = code'[r]
      PROVE  (\E q : Old(r, c, q)) \/ (\E b : Put(r, c, b))
  <2>1. \/ \E q \in DOMAIN code : r = Shift(p, n, m, q) /\ code'[r] = code[q]
        \/ \E b : /\ Puts(p, before, after, code'[r], b)
                  /\ \A q \in DOMAIN code : /\ q < b => Shift(p, n, m, q) < r
                                            /\ b <= q => r < Shift(p, n, m, q)
    BY <1>2, OldOrPut
  <2> QED
    BY <2>1, <1>3
<1>4. /\ f \in Program /\ at \in [DOMAIN f -> DOMAIN code]
      /\ \A j \in DOMAIN f : at2[j] = sh(at[j]) /\ at[j] \in DOMAIN code
  BY <1>1 DEF Moved, Embeds
<1>5. \A q, s \in DOMAIN code : q < s => sh(q) < sh(s)
  BY <1>2 DEF Grows
<1>6. \A q, s \in DOMAIN code : q <= s => sh(q) <= sh(s)
  <2>1. \A q \in DOMAIN code : q \in Nat /\ sh(q) \in Nat
    BY <1>2 DEF Grows
  <2> QED
    BY <2>1, <1>5
<1>7. ASSUME NEW r \in DOMAIN code', NEW c, c = code'[r], NEW v, Reading(f, full, c, v)
      PROVE  /\ Seen(f, at2, Len(f), v, r)
             /\ \A w \in DOMAIN code' : Writing(code'[w], v) => w < r
  <2>1. ASSUME NEW b, Seen(f, at, Len(f), v, b), \A q \in DOMAIN code : q < b => sh(q) < r
        PROVE  Seen(f, at2, Len(f), v, r)
    BY <1>4, <2>1 DEF Seen
  <2>2. ASSUME NEW q, Old(r, c, q), NEW w \in DOMAIN code', NEW d, d = code'[w], Writing(d, v)
        PROVE  w < r
    <3>1. ASSUME NEW s, Old(w, d, s)
          PROVE  w < r
      <4>1. s < q
        BY <1>7, <2>2, <3>1 DEF InOrder, ReadsFit
      <4> QED
        BY <4>1, <2>2, <3>1, <1>5
    <3>2. ASSUME NEW e, Put(w, d, e)
          PROVE  w < r
      <4>1. e <= q
        BY <1>7, <2>2, <3>2
      <4> QED
        BY <4>1, <2>2, <3>2
    <3> QED
      BY <1>3, <2>2, <3>1, <3>2
  <2>3. ASSUME NEW b, Put(r, c, b), NEW w \in DOMAIN code', NEW d, d = code'[w], Writing(d, v)
        PROVE  w < r
    <3>1. ASSUME NEW s, Old(w, d, s)
          PROVE  w < r
      <4>1. ReadsFit(f, at, full, c, b)
        BY <2>3
      <4>2. s < b
        BY <4>1, <1>7, <2>3, <3>1 DEF ReadsFit
      <4> QED
        BY <4>2, <2>3, <3>1
    <3>2. ASSUME NEW e, Put(w, d, e)
          PROVE  FALSE
      BY <1>7, <2>3, <3>2
    <3> QED
      BY <1>3, <2>3, <3>1, <3>2
  <2>4. CASE \E q : Old(r, c, q)
    <3>1. PICK q : Old(r, c, q)
      BY <2>4
    <3>2. Seen(f, at, Len(f), v, q)
      BY <3>1, <1>7 DEF InOrder, ReadsFit
    <3> QED
      BY <3>1, <3>2, <2>1, <2>2, <1>5
  <2>5. CASE \E b : Put(r, c, b)
    <3>1. PICK b : Put(r, c, b)
      BY <2>5
    <3>2. Seen(f, at, Len(f), v, b)
      BY <3>1, <1>7 DEF ReadsFit
    <3> QED
      BY <3>1, <3>2, <2>1, <2>3
  <2> QED
    BY <1>3, <1>7, <2>4, <2>5
<1>8. ASSUME NEW r \in DOMAIN code', NEW c, c = code'[r]
      PROVE  WritesFit(f, at2, full, c, r)
  <2>1. ASSUME NEW b, WritesFit(f, at, full, c, b), \A i \in DOMAIN f : b <= at[i] => r <= at2[i]
        PROVE  WritesFit(f, at2, full, c, r)
    BY <2>1 DEF WritesFit
  <2>2. CASE \E q : Old(r, c, q)
    <3>1. PICK q : Old(r, c, q)
      BY <2>2
    <3>2. WritesFit(f, at, full, c, q)
      BY <3>1 DEF InOrder
    <3> QED
      BY <3>1, <3>2, <2>1, <1>4, <1>6
  <2>3. CASE \E b : Put(r, c, b)
    <3>1. PICK b : Put(r, c, b)
      BY <2>3
    <3>2. WritesFit(f, at, full, c, b)
      BY <3>1
    <3>3. r \in Nat /\ \A q \in DOMAIN code : sh(q) \in Nat
      BY <1>2, <1>8 DEF Grows
    <3> QED
      BY <3>1, <3>2, <3>3, <2>1, <1>4
  <2> QED
    BY <1>3, <1>8, <2>2, <2>3
<1>9. ASSUME NEW r \in DOMAIN code', NEW c, c = code'[r]
      PROVE  ReadsFit(f, at2, full, c, r)'
  BY <1>7, <1>9 DEF ReadsFit
<1> QED
  BY <1>8, <1>9 DEF InOrder, ReadsFit

\* No PHI node has been recorded.
PhisWait(f) == \A q \in DOMAIN code : \A j \in DOMAIN f :
                   Writing(code[q], f[j].id) => f[j].op # "phi"
LEMMA PhisWaitKept ==
    ASSUME NEW f, NEW at, Embeds(f, at), NEW p, NEW before, NEW after, Inserts(p, before, after),
           PhisWait(f),
           \A c, b : Puts(p, before, after, c, b) =>
               \A j \in DOMAIN f : Writing(c, f[j].id) => f[j].op # "phi"
    PROVE  PhisWait(f)'
<1>1. PICK n, m : n = Len(before) /\ m = Len(after)
  OBVIOUS
<1>2. Grows(p, before, after, n, m)
  BY <1>1, InsertFacts
<1>3. ASSUME NEW r \in DOMAIN code', NEW c, c = code'[r], NEW j \in DOMAIN f, Writing(c, f[j].id)
      PROVE  f[j].op # "phi"
  <2>1. \/ \E q \in DOMAIN code : c = code[q]
        \/ \E b : Puts(p, before, after, c, b)
    BY <1>2, <1>3, OldOrPut
  <2> QED
    BY <2>1, <1>3 DEF PhisWait
<1> QED
  BY <1>3 DEF PhisWait

-----------------------------------------------------------------------------
(* Steps of the passes.                                                    *)

LEMMA ArgIs ==
    ASSUME NEW f \in Program, NEW i \in DOMAIN f, NEW n \in DOMAIN f[i].args
    PROVE  /\ \/ f[i].args[n] = Literal \/ IsParameter(f[i].args[n])
              \/ \E j \in DOMAIN f : f[i].args[n] = f[j].id /\ f[j].ty # "void"
           /\ InLayoutOrder /\ f[i].op # "phi" =>
                 \/ f[i].args[n] = Literal \/ IsParameter(f[i].args[n])
                 \/ \E j \in DOMAIN f : j < i /\ f[i].args[n] = f[j].id /\ f[j].ty # "void"
<1>1. Valid(f)
  BY LlvmAssumption
<1>2. \/ f[i].args[n] = Literal \/ IsParameter(f[i].args[n])
      \/ \E j \in DOMAIN f : f[i].args[n] = f[j].id /\ f[j].ty # "void"
  BY <1>1 DEF Valid, IsParameter
<1>3. \A j, k \in DOMAIN f : f[j].id = f[k].id => j = k
  BY ProgramValid
<1>4. ASSUME InLayoutOrder, f[i].op # "phi"
      PROVE  \/ f[i].args[n] = Literal \/ IsParameter(f[i].args[n])
             \/ \E j \in DOMAIN f : j < i /\ f[i].args[n] = f[j].id
  BY <1>4 DEF InLayoutOrder, IsParam, IsParameter
<1>5. ASSUME InLayoutOrder, f[i].op # "phi"
      PROVE  \/ f[i].args[n] = Literal \/ IsParameter(f[i].args[n])
             \/ \E j \in DOMAIN f : j < i /\ f[i].args[n] = f[j].id /\ f[j].ty # "void"
  <2>1. \/ f[i].args[n] = Literal \/ IsParameter(f[i].args[n])
        \/ \E j \in DOMAIN f : j < i /\ f[i].args[n] = f[j].id
    BY <1>4, <1>5
  <2>2. ASSUME NEW j \in DOMAIN f, j < i, f[i].args[n] = f[j].id
        PROVE  f[i].args[n] = Literal \/ IsParameter(f[i].args[n]) \/ f[j].ty # "void"
    BY <1>2, <1>3, <2>2
  <2> QED
    BY <2>1, <2>2
<1> QED
  BY <1>2, <1>5

\* A name tells the value, and is that of a value with a number.
LEMMA RefNames ==
    ASSUME NEW f, NEW at, Embeds(f, at), NEW m, NEW v,
           \/ v = Literal \/ IsParameter(v)
           \/ \E j \in DOMAIN f : j <= m /\ v = f[j].id /\ f[j].ty # "void"
    PROVE  Ref(v).val = v /\ Named(f, m, Ref(v))
<1>1. Names(f, at)
  BY RefIs
<1>2. CASE v = Literal
  BY <1>1, <1>2 DEF Names, Named, NoRef
<1>3. CASE IsParameter(v)
  BY <1>1, <1>3 DEF Names, Named, IsParameter
<1>4. CASE \E j \in DOMAIN f : j <= m /\ v = f[j].id /\ f[j].ty # "void"
  <2>1. PICK j \in DOMAIN f : j <= m /\ v = f[j].id /\ f[j].ty # "void"
    BY <1>4
  <2>2. Ref(v) = [val |-> v, num |-> Len(Param) + f[j].bb + Cardinality(Numbered(at[j]))]
    BY <1>1, <2>1 DEF Names
  <2>3. Ref(v).val = v
    BY <2>2
  <2> QED
    BY <2>1, <2>3 DEF Named
<1> QED
  BY <1>2, <1>3, <1>4

\* In the walk, a hook for instruction i that divides the code behind p.
HookFor(f, at, i, p, c) ==
    /\ c.op = "hook" /\ c.ty = "void" /\ c.hook # "phi" /\ f[i].op # "phi"
    /\ \A k \in DOMAIN c.reads : \E n \in DOMAIN f[i].args : c.reads[k] = Ref(f[i].args[n])
    /\ \A k \in DOMAIN c.args :
           c.args[k] = f[i].id \/ \E n \in DOMAIN f[i].args : c.args[k] = f[i].args[n]
    /\ Seen(f, at, Len(f), c.cond, p + 1)
    /\ c.writes = NoRef \/ (c.writes = Ref(f[i].id) /\ f[i].ty # "void")
FrontHookFor(f, at, i, p, c) == /\ HookFor(f, at, i, p, c)
                                /\ c.args = <<>> /\ c.cond = Literal /\ c.writes = NoRef

\* A step of the walk: instruction m + 1 gets hooks in front of it, behind it
\* or, if a select alone uses it, behind the select; and helpers behind it.
LEMMA WalkStep ==
    ASSUME InLayoutOrder, NEW f, NEW at, Embeds(f, at),
           NEW m \in Nat, NEW i, i = m + 1, i \in DOMAIN f,
           AllFit(f, at, m), NEW full, InOrder(f, at, full), PhisWait(f),
           NEW p, NEW before, NEW after, Inserts(p, before, after),
           at[i] <= p, p # at[i] => AltIn(f, f[i].id),
           \A k \in DOMAIN before : FrontHookFor(f, at, i, p, before[k]),
           \A k \in DOMAIN after : \/ after[k].op = "aux" /\ p = at[i]
                                   \/ HookFor(f, at, i, p, after[k])
    PROVE  \E at2 : /\ Embeds(f, at2)'
                    /\ AllFit(f, at2, i)' /\ InOrder(f, at2, full)' /\ PhisWait(f)'
<1>1. PICK at2 : at2 = Moved(at, p, Len(before), Len(after))
  OBVIOUS
<1>2. /\ f \in Program /\ DOMAIN f = 1..Len(f) /\ Len(f) \in Nat
      /\ i \in Nat /\ m <= i /\ \A j \in DOMAIN f : j \in Nat
      /\ \A j \in DOMAIN f : at[j] \in Nat \ {0}
      /\ \A j, k \in DOMAIN f : j < k => at[j] < at[k]
      /\ p \in Nat /\ \A j, k \in DOMAIN f : f[j].id = f[k].id => j = k
  BY ProgramValid DEF Embeds, Inserts
<1>3. \A j \in DOMAIN f : /\ j <= i => at[j] <= p /\ at[j] < p + 1
                          /\ j < i => at[j] < at[i] /\ at[j] < p
  <2> TAKE j \in DOMAIN f
  <2>1. j < i => at[j] < at[i]
    BY <1>2
  <2>2. j <= i => j < i \/ j = i
    BY <1>2
  <2> QED
    BY <1>2, <2>1, <2>2
<1>4. ASSUME NEW c, NEW b, Puts(p, before, after, c, b)
      PROVE  /\ b \in {p, p + 1}
             /\ \/ c.op = "aux" /\ p = at[i] /\ b = p + 1
                \/ HookFor(f, at, i, p, c) /\ (b = p => FrontHookFor(f, at, i, p, c))
  BY <1>2, <1>4 DEF Puts, FrontHookFor
\* What a hook of the step reads and records.
<1>5. ASSUME NEW c, HookFor(f, at, i, p, c), NEW k \in DOMAIN c.reads
      PROVE  /\ Named(f, m, c.reads[k])
             /\ LET v == c.reads[k].val
                IN  /\ \/ v = Literal \/ IsParameter(v)
                       \/ \E j \in DOMAIN f : j < i /\ v = f[j].id
                    /\ \E n \in DOMAIN f[i].args : v = f[i].args[n]
  <2>1. PICK n \in DOMAIN f[i].args : c.reads[k] = Ref(f[i].args[n])
    BY <1>5 DEF HookFor
  <2>2. PICK v : v = f[i].args[n]
    OBVIOUS
  <2>3. \/ v = Literal \/ IsParameter(v)
        \/ \E j \in DOMAIN f : j < i /\ v = f[j].id /\ f[j].ty # "void"
    <3>1. f[i].op # "phi"
      BY <1>5 DEF HookFor
    <3>2. \/ f[i].args[n] = Literal \/ IsParameter(f[i].args[n])
          \/ \E j \in DOMAIN f : j < i /\ f[i].args[n] = f[j].id /\ f[j].ty # "void"
      BY <3>1, <1>2, ArgIs
    <3> QED
      BY <3>2, <2>2
  <2>4. \A j \in DOMAIN f : j < i => j <= m
    BY <1>2
  <2>5. \/ v = Literal \/ IsParameter(v)
        \/ \E j \in DOMAIN f : j <= m /\ v = f[j].id /\ f[j].ty # "void"
    BY <2>3, <2>4
  <2>6. Ref(v).val = v /\ Named(f, m, Ref(v))
    BY <2>5, RefNames
  <2> QED
    BY <2>1, <2>2, <2>3, <2>6
<1>6. ASSUME NEW c, HookFor(f, at, i, p, c), c.writes # NoRef
      PROVE  c.writes.val = f[i].id /\ Named(f, i, c.writes)
  <2>1. c.writes = Ref(f[i].id) /\ f[i].ty # "void"
    BY <1>6 DEF HookFor
  <2>2. Ref(f[i].id).val = f[i].id /\ Named(f, i, Ref(f[i].id))
    <3>1. PICK v : v = f[i].id
      OBVIOUS
    <3>2. \E j \in DOMAIN f : j <= i /\ v = f[j].id /\ f[j].ty # "void"
      BY <3>1, <2>1, <1>2
    <3>3. Ref(v).val = v /\ Named(f, i, Ref(v))
      BY <3>2, RefNames
    <3> QED
      BY <3>1, <3>3
  <2> QED
    BY <2>1, <2>2
<1>7. f[i].id # Literal /\ ~IsParameter(f[i].id)
  BY <1>2, ProgramValid
<1>8. ASSUME NEW c, HookFor(f, at, i, p, c), NEW v, ~Exempt(f, full, v), Writing(c, v)
      PROVE  v = f[i].id /\ c.writes # NoRef
  BY <1>6, <1>8 DEF Writing, Exempt, NoRef
<1>9. ASSUME NEW r, Named(f, m, r)
      PROVE  Named(f, i, r)
  BY <1>2, <1>9 DEF Named
\* They fit, ...
<1>10. ASSUME NEW c, NEW b, Puts(p, before, after, c, b)
       PROVE  Fits(f, at, i, c, b)
  <2> SUFFICES ASSUME c.op = "hook"
               PROVE  Fits(f, at, i, c, b)
    BY DEF Fits
  <2>1. HookFor(f, at, i, p, c)
    BY <1>4, <1>10
  <2>2. Named(f, i, c.writes) /\ \A k \in DOMAIN c.reads : Named(f, i, c.reads[k])
    BY <2>1, <1>5, <1>6, <1>9 DEF Named
  <2>3. CASE b = p
    <3>1. c.args = <<>> /\ c.cond = Literal
      BY <2>3, <1>2, <1>4, <1>10 DEF FrontHookFor
    <3> QED
      BY <2>2, <3>1 DEF Fits, Seen
  <2>4. CASE b = p + 1
    <3>1. ASSUME NEW k \in DOMAIN c.args
          PROVE  Seen(f, at, i, c.args[k], b)
      <4>1. CASE c.args[k] = f[i].id
        BY <4>1, <2>4, <1>2, <1>3 DEF Seen
      <4>2. CASE \E n \in DOMAIN f[i].args : c.args[k] = f[i].args[n]
        <5>1. PICK n \in DOMAIN f[i].args : c.args[k] = f[i].args[n]
          BY <4>2
        <5>2. \/ f[i].args[n] = Literal \/ IsParameter(f[i].args[n])
              \/ \E j \in DOMAIN f : j < i /\ f[i].args[n] = f[j].id
          BY <2>1, <1>2, ArgIs DEF HookFor
        <5>3. \A j \in DOMAIN f : j < i => j <= i /\ at[j] < b
          BY <2>4, <1>2, <1>3
        <5> QED
          BY <5>1, <5>2, <5>3 DEF Seen
      <4> QED
        BY <2>1, <4>1, <4>2 DEF HookFor
    <3>2. Seen(f, at, Len(f), c.cond, b)
      BY <2>1, <2>4 DEF HookFor
    <3> QED
      BY <2>2, <3>1, <3>2 DEF Fits
  <2> QED
    BY <2>3, <2>4, <1>4, <1>10
\* ... read what has been recorded, ...
<1>11. ASSUME NEW c, NEW b, Puts(p, before, after, c, b), NEW v, Reading(f, full, c, v)
       PROVE  /\ HookFor(f, at, i, p, c)
              /\ \/ IsParameter(v) /\ full
                 \/ \E j \in DOMAIN f : j < i /\ v = f[j].id
              /\ \E n \in DOMAIN f[i].args : v = f[i].args[n]
  <2>1. HookFor(f, at, i, p, c)
    BY <1>4, <1>11 DEF Reading
  <2>2. PICK k \in DOMAIN c.reads : v = c.reads[k].val
    BY <1>11 DEF Reading
  <2> QED
    BY <2>1, <2>2, <1>5, <1>11 DEF Reading, Exempt
<1>12. ASSUME NEW c, NEW b, Puts(p, before, after, c, b)
       PROVE  ReadsFit(f, at, full, c, b)
  <2> SUFFICES ASSUME NEW v, Reading(f, full, c, v)
               PROVE  /\ Seen(f, at, Len(f), v, b)
                      /\ \A w \in DOMAIN code : Writing(code[w], v) => w < b
    BY DEF ReadsFit
  <2>1. b \in {p, p + 1}
    BY <1>4, <1>12
  <2>2. Seen(f, at, Len(f), v, b)
    <3>1. \A j \in DOMAIN f : j < i => j <= Len(f) /\ at[j] < b
      BY <2>1, <1>2, <1>3
    <3> QED
      BY <3>1, <1>11, <1>12 DEF Seen
  <2>3. ASSUME NEW w \in DOMAIN code, Writing(code[w], v)
        PROVE  w < b
    <3>1. WritesFit(f, at, full, code[w], w) /\ ~Exempt(f, full, v)
      BY DEF InOrder, Reading
    <3>2. w <= at[i]
      <4>1. CASE IsParameter(v)
        BY <4>1, <3>1, <2>3, <1>11, <1>12 DEF WritesFit, UsesParam
      <4>2. CASE \E j \in DOMAIN f : j < i /\ v = f[j].id
        <5>1. PICK j \in DOMAIN f : j < i /\ v = f[j].id
          BY <4>2
        <5>2. f[j].op # "phi"
          BY <5>1, <2>3 DEF PhisWait
        <5> QED
          BY <5>1, <5>2, <3>1, <2>3 DEF WritesFit
      <4> QED
        BY <4>1, <4>2, <1>11, <1>12
    <3>3. w # at[i]
      <4>1. code[at[i]] = f[i] /\ f[i].op # "hook"
        BY <1>2, ProgramValid DEF Embeds, Instruction, InstructionOp
      <4> QED
        BY <4>1, <2>3 DEF Writing
    <3> QED
      BY <3>2, <3>3, <2>1, <1>2 DEF Embeds
  <2> QED
    BY <2>2, <2>3
\* ... and record what has not been read.
<1>13. ASSUME NEW c, NEW b, Puts(p, before, after, c, b), NEW v, Writing(c, v), ~Exempt(f, full, v)
       PROVE  v = f[i].id /\ b = p + 1 /\ p = at[i] /\ f[i].op # "phi"
  <2>1. HookFor(f, at, i, p, c) /\ (b = p => FrontHookFor(f, at, i, p, c))
    BY <1>4, <1>13 DEF Writing
  <2>2. v = f[i].id /\ c.writes # NoRef
    BY <1>8, <1>13, <2>1
  <2>3. b # p
    BY <2>1, <2>2 DEF FrontHookFor
  <2>4. p = at[i]
    BY <2>2, <1>13 DEF Exempt
  <2> QED
    BY <2>1, <2>2, <2>3, <2>4, <1>4, <1>13 DEF HookFor
<1>14. ASSUME NEW c, NEW b, Puts(p, before, after, c, b)
       PROVE  WritesFit(f, at, full, c, b)
  <2> SUFFICES ASSUME NEW v, Writing(c, v), ~Exempt(f, full, v), NEW k \in DOMAIN f
               PROVE  /\ UsesParam(f[k], v) => b <= at[k]
                      /\ \A j \in DOMAIN f : v = f[j].id /\ f[j].op # "phi" /\ j < k => b <= at[k]
    BY DEF WritesFit
  <2>1. v = f[i].id /\ b = p + 1 /\ p = at[i]
    BY <1>13, <1>14
  <2>2. ~UsesParam(f[k], v)
    BY <2>1, <1>7 DEF UsesParam
  <2>3. ASSUME NEW j \in DOMAIN f, v = f[j].id, j < k
        PROVE  b <= at[k]
    <3>1. j = i /\ at[i] < at[k]
      BY <2>1, <2>3, <1>2
    <3> QED
      BY <3>1, <2>1, <1>2
  <2> QED
    BY <2>2, <2>3
<1>15. ASSUME NEW q \in DOMAIN code, NEW v, Reading(f, full, code[q], v)
       PROVE  v # f[i].id
  <2>1. PICK k \in DOMAIN code[q].reads : v = code[q].reads[k].val
    BY <1>15 DEF Reading
  <2>2. Named(f, m, code[q].reads[k])
    BY <1>15 DEF AllFit, Fits, Reading
  <2>3. PICK r : r = code[q].reads[k]
    OBVIOUS
  <2>4. CASE r = NoRef
    BY <2>1, <2>3, <2>4, <1>7 DEF NoRef
  <2>5. CASE \E n \in DOMAIN Param : r = [val |-> Param[n], num |-> n]
    BY <2>1, <2>3, <2>5, <1>7 DEF IsParameter
  <2>6. CASE \E j \in DOMAIN f : j <= m /\ r = Ref(f[j].id) /\ f[j].ty # "void"
    <3>1. PICK j \in DOMAIN f : j <= m /\ r = Ref(f[j].id) /\ f[j].ty # "void"
      BY <2>6
    <3>2. Ref(f[j].id).val = f[j].id
      BY <3>1, RefNames
    <3>3. j # i
      BY <3>1, <1>2
    <3> QED
      BY <2>1, <2>3, <3>1, <3>2, <3>3, <1>2
  <2> QED
    BY <2>2, <2>3, <2>4, <2>5, <2>6 DEF Named
<1>16. AllFit(f, at2, i)'
  <2>1. \A k \in DOMAIN before : ~TakesNumber(before[k])
    BY DEF FrontHookFor, HookFor, TakesNumber
  <2>2. \A k \in DOMAIN after : TakesNumber(after[k]) =>
            \A j \in DOMAIN f : p < at[j] => j > i
    <3>1. ASSUME NEW j \in DOMAIN f, p < at[j]
          PROVE  j > i
      BY <3>1, <1>2, <1>3
    <3> QED
      BY <3>1
  <2> QED
    BY <2>1, <2>2, <1>1, <1>2, <1>10, FitsKept
<1>17. InOrder(f, at2, full)'
  <2>1. ASSUME NEW c, NEW b, NEW v, Puts(p, before, after, c, b), Writing(c, v),
               NEW q \in DOMAIN code, Reading(f, full, code[q], v)
        PROVE  b <= q
    BY <2>1, <1>13, <1>15 DEF Reading
  <2>2. ASSUME NEW c, NEW b, NEW d, NEW e, NEW v, Puts(p, before, after, c, b),
               Puts(p, before, after, d, e), Reading(f, full, c, v), Writing(d, v)
        PROVE  FALSE
    <3>1. v = f[i].id
      BY <2>2, <1>13 DEF Reading
    <3>2. PICK j \in DOMAIN f : j < i /\ v = f[j].id
      BY <2>2, <3>1, <1>7, <1>11
    <3>3. j = i
      BY <3>1, <3>2, <1>2
    <3> QED
      BY <3>2, <3>3, <1>2
  <2> QED
    BY <2>1, <2>2, <1>1, <1>12, <1>14, OrderKept
<1>18. PhisWait(f)'
  <2>1. ASSUME NEW c, NEW b, Puts(p, before, after, c, b), NEW j \in DOMAIN f, Writing(c, f[j].id)
        PROVE  f[j].op # "phi"
    <3>1. HookFor(f, at, i, p, c)
      BY <2>1, <1>4 DEF Writing
    <3>2. f[j].id # Literal
      BY <1>2, ProgramValid
    <3>3. f[j].id = f[i].id
      BY <2>1, <3>1, <3>2, <1>6 DEF Writing, NoRef
    <3> QED
      BY <3>1, <3>3, <1>2 DEF HookFor
  <2> QED
    BY <2>1, PhisWaitKept
<1> QED
  BY <1>1, <1>16, <1>17, <1>18, StaysEmbedded

\* Outside the walk, a hook that divides the code in front of p: it uses nothing
\* and reads nothing, or is that of a PHI node.
TailHook(f, at, full, m, p, c) ==
    /\ c.op = "hook" /\ c.ty = "void" /\ c.args = <<>> /\ c.cond = Literal
    /\ Named(f, m, c.writes) /\ \A k \in DOMAIN c.reads : Named(f, m, c.reads[k])
    /\ c.hook = "phi" \/ c.reads = <<>>
    /\ \A v : Writing(c, v) /\ ~Exempt(f, full, v) =>
           /\ \A q \in DOMAIN code : Reading(f, full, code[q], v) => p <= q
           /\ \A i \in DOMAIN f : UsesParam(f[i], v) => p <= at[i]
           /\ \A j \in DOMAIN f : v = f[j].id => f[j].op = "phi"

\* A step of the other loops.
LEMMA TailStep ==
    ASSUME NEW f, NEW at, Embeds(f, at), NEW m \in Nat, AllFit(f, at, m),
           NEW full, InOrder(f, at, full),
           NEW p, NEW before, NEW after, Inserts(p, before, after), after = <<>>,
           \A k \in DOMAIN before : TailHook(f, at, full, m, p, before[k])
    PROVE  \E at2 : Embeds(f, at2)' /\ AllFit(f, at2, m)' /\ InOrder(f, at2, full)'
<1>1. PICK at2 : at2 = Moved(at, p, Len(before), Len(after))
  OBVIOUS
<1>2. ASSUME NEW c, NEW b, Puts(p, before, after, c, b)
      PROVE  b = p /\ TailHook(f, at, full, m, p, c)
  BY <1>2 DEF Puts
<1>3. ASSUME NEW c, NEW b, Puts(p, before, after, c, b)
      PROVE  Fits(f, at, m, c, b)
  BY <1>2, <1>3 DEF TailHook, Fits, Seen
<1>4. ASSUME NEW c, NEW b, Puts(p, before, after, c, b), NEW v
      PROVE  ~Reading(f, full, c, v)
  BY <1>2, <1>4 DEF TailHook, Reading
<1>5. ASSUME NEW c, NEW b, Puts(p, before, after, c, b)
      PROVE  ReadsFit(f, at, full, c, b)
  BY <1>4, <1>5 DEF ReadsFit
<1>6. ASSUME NEW c, NEW b, Puts(p, before, after, c, b)
      PROVE  WritesFit(f, at, full, c, b)
  BY <1>2, <1>6 DEF TailHook, WritesFit
<1>7. AllFit(f, at2, m)'
  <2>1. \A k \in DOMAIN before : ~TakesNumber(before[k])
    BY DEF TailHook, TakesNumber
  <2>2. \A k \in DOMAIN after : FALSE
    OBVIOUS
  <2> QED
    BY <2>1, <2>2, <1>1, <1>3, FitsKept
<1>8. InOrder(f, at2, full)'
  <2>1. ASSUME NEW c, NEW b, NEW v, Puts(p, before, after, c, b), Writing(c, v),
               NEW q \in DOMAIN code, Reading(f, full, code[q], v)
        PROVE  b <= q
    BY <2>1, <1>2 DEF TailHook, Reading
  <2> QED
    BY <2>1, <1>1, <1>4, <1>5, <1>6, OrderKept
<1> QED
  BY <1>1, <1>7, <1>8, StaysEmbedded

\* A step that inserts nothing.
LEMMA NoStep ==
    ASSUME NEW f, NEW at, Embeds(f, at)
    PROVE  /\ \E p : Inserts(p, <<>>, <<>>) <=> code' = code
           /\ \A p \in DOMAIN code : code' = code => Inserts(p, <<>>, <<>>)
<1>1. PICK S : code \in Seq(S)
  BY DEF Embeds
<1>2. \A p \in DOMAIN code : Spliced(p, <<>>, <<>>) = code
  BY <1>1, NothingSpliced
<1>3. <<>> \in Seq({})
  BY EmptySeq
<1>4. \A p \in DOMAIN code : code' = code <=> Inserts(p, <<>>, <<>>)
  BY <1>2, <1>3 DEF Inserts
<1>5. \E p : p \in DOMAIN code
  <2>1. f \in Program /\ at \in [DOMAIN f -> DOMAIN code]
    BY DEF Embeds
  <2>2. 1 \in DOMAIN f
    BY <2>1, ProgramValid
  <2> QED
    BY <2>1, <2>2
<1> QED
  BY <1>4, <1>5

-----------------------------------------------------------------------------
(* The invariant of the error pass.                                        *)

\* No instruction that uses a parameter stands in front of the one where the
\* parameters' errors are popped.
ParamsFirst == \A i \in DOMAIN code : (\E v : UsesParam(code[i], v)) => FirstWithFile <= i
PopsFirst == phase = "pops" => ParamsFirst

\* How far the pass is: in the walk, behind the first m instructions.
Progress(f, m, full) ==
    /\ m \in Nat /\ m <= Len(f) /\ todo \in Seq(Nat)
    /\ phase \in {"pops", "walk"} => PhisWait(f)
    /\ phase = "pops" => code = f /\ m = 0
    /\ phase = "walk" => /\ Len(todo) = Len(f) - m
                         /\ \A k \in DOMAIN todo : todo[k] = f[m + k].id
    /\ phase \notin {"pops", "walk"} =>
           /\ m = Len(f)
           /\ \A k \in DOMAIN todo : \E j \in DOMAIN f :
                  todo[k] = f[j].id /\ (phase = "phis" => f[j].op = "phi" /\ f[j].ty # "void")

HInv(full) == \E f, at, m : /\ Embeds(f, at) /\ AllFit(f, at, m) /\ InOrder(f, at, full)
                            /\ Progress(f, m, full)

\* What is left to visit of a function are its instructions behind the first m.
Left(f, m) == /\ m \in Nat /\ m <= Len(f) /\ todo \in Seq(Nat) /\ Len(todo) = Len(f) - m
              /\ \A k \in DOMAIN todo : todo[k] = f[m + k].id
LEMMA NextLeft ==
    ASSUME NEW f \in Program, NEW m, Left(f, m), todo # <<>>, NEW i, i = m + 1
    PROVE  /\ m \in Nat /\ i \in DOMAIN f /\ Head(todo) = f[i].id
           /\ todo' = Tail(todo) => Left(f, i)'
<1>1. DOMAIN f = 1..Len(f) /\ Len(f) \in Nat
  BY ProgramValid
<1>2. /\ m \in Nat /\ todo \in Seq(Nat) /\ Len(todo) = Len(f) - m
      /\ \A k \in DOMAIN todo : todo[k] = f[m + k].id
  BY DEF Left
<1>3. /\ Len(todo) \in Nat \ {0} /\ DOMAIN todo = 1..Len(todo) /\ Head(todo) = todo[1]
      /\ Tail(todo) \in Seq(Nat) /\ Len(Tail(todo)) = Len(todo) - 1
      /\ \A k \in 1..(Len(todo) - 1) : Tail(todo)[k] = todo[k + 1]
  BY <1>2
<1>4. PICK t, n : t = Len(todo) /\ n = Len(f)
  OBVIOUS
<1>5. t \in Nat \ {0} /\ n \in Nat /\ t = n - m /\ i \in Nat /\ i <= n /\ n - i = t - 1
  <2>1. t \in Nat \ {0} /\ n \in Nat /\ t = n - m /\ m \in Nat
    BY <1>1, <1>2, <1>3, <1>4
  <2> QED
    BY <2>1
<1>6. i \in DOMAIN f /\ Head(todo) = f[i].id
  <2>1. 1 \in DOMAIN todo /\ i \in 1..n
    BY <1>2, <1>3, <1>4, <1>5
  <2> QED
    BY <2>1, <1>1, <1>2, <1>3, <1>4
<1>7. ASSUME todo' = Tail(todo)
      PROVE  Left(f, i)'
  <2>1. i \in Nat /\ i <= Len(f) /\ todo' \in Seq(Nat) /\ Len(todo') = Len(f) - i
    BY <1>3, <1>4, <1>5, <1>7
  <2>2. ASSUME NEW k \in DOMAIN todo'
        PROVE  todo'[k] = f[i + k].id
    <3>1. k \in 1..(Len(todo) - 1) /\ k + 1 \in DOMAIN todo /\ m + (k + 1) = i + k
      <4>1. DOMAIN todo' = 1..(t - 1)
        BY <1>3, <1>4, <1>7
      <4>2. k \in 1..(t - 1) /\ k + 1 \in 1..t
        BY <4>1, <1>5
      <4> QED
        BY <4>2, <1>2, <1>3, <1>4
    <3>2. todo'[k] = todo[k + 1] /\ todo[k + 1] = f[m + (k + 1)].id
      BY <3>1, <1>2, <1>3, <1>7
    <3> QED
      BY <3>1, <3>2
  <2> QED
    BY <2>1, <2>2 DEF Left
<1> QED
  BY <1>2, <1>6, <1>7

\* The instruction a step of the walk visits.
LEMMA Visited ==
    ASSUME NEW full, NEW f, NEW at, NEW m, Embeds(f, at), Progress(f, m, full),
           phase = "walk", todo # <<>>, NEW i, i = m + 1
    PROVE  /\ m \in Nat /\ i \in DOMAIN f /\ x = f[i] /\ px = at[i] /\ px \in DOMAIN code
           /\ todo' = Tail(todo) /\ phase' = phase /\ PhisWait(f)' => Progress(f, i, full)'
<1>1. f \in Program /\ at \in [DOMAIN f -> DOMAIN code]
  BY DEF Embeds
<1>2. Left(f, m)
  BY DEF Progress, Left
<1>3. m \in Nat /\ i \in DOMAIN f /\ Head(todo) = f[i].id
  BY <1>1, <1>2, NextLeft
<1>4. x = f[i] /\ px = at[i]
  BY <1>3, Placed DEF x, px
<1>5. ASSUME todo' = Tail(todo), phase' = phase, PhisWait(f)'
      PROVE  Progress(f, i, full)'
  <2>1. Left(f, i)'
    BY <1>1, <1>2, <1>5, NextLeft
  <2> QED
    BY <2>1, <1>5 DEF Progress, Left
<1> QED
  BY <1>1, <1>3, <1>4, <1>5

\* A visit keeps the invariant.
LEMMA VisitKeeps ==
    ASSUME InLayoutOrder, NEW full, NEW f, NEW at, NEW m,
           Embeds(f, at), AllFit(f, at, m), InOrder(f, at, full), Progress(f, m, full),
           phase = "walk", todo # <<>>, todo' = Tail(todo), phase' = phase,
           NEW i, i = m + 1, NEW p, NEW before, NEW after, Inserts(p, before, after),
           at[i] <= p, p # at[i] => AltIn(f, f[i].id),
           \A k \in DOMAIN before : FrontHookFor(f, at, i, p, before[k]),
           \A k \in DOMAIN after : \/ after[k].op = "aux" /\ p = at[i]
                                   \/ HookFor(f, at, i, p, after[k])
    PROVE  HInv(full)'
<1>1. m \in Nat /\ i \in DOMAIN f
  BY Visited
<1>2. PhisWait(f)
  BY DEF Progress
<1>3. PICK at2 : Embeds(f, at2)' /\ AllFit(f, at2, i)' /\ InOrder(f, at2, full)' /\ PhisWait(f)'
  BY <1>1, <1>2, WalkStep
<1>4. Progress(f, i, full)'
  BY <1>3, Visited
<1> QED
  BY <1>3, <1>4 DEF HInv

\* What calls and helpers are.
LEMMA HookIs ==
    ASSUME NEW h, NEW i, NEW args, NEW reads, NEW writes,
           NEW c, c = Hook(h, i, args, reads, writes)
    PROVE  /\ Inserted(c) /\ c.op = "hook" /\ c.ty = "void" /\ c.hook = h /\ c.args = args
           /\ c.reads = reads /\ c.writes = writes /\ c.cond = Literal
  BY DEF Hook, Inserted

LEMMA AuxIs ==
    ASSUME NEW i, NEW k, NEW c, c = Aux(i, k)
    PROVE  Inserted(c) /\ c.op = "aux"
  BY DEF Aux, Hook, Inserted

\* The visits that insert nothing.
LEMMA NothingKeeps ==
    ASSUME InLayoutOrder, NEW full, HInv(full), phase = "walk", todo # <<>>,
           todo' = Tail(todo), phase' = phase,
           code' = code \/ code' = Spliced(px, <<>>, <<>>)
    PROVE  HInv(full)'
<1>1. PICK f, at, m : /\ Embeds(f, at) /\ AllFit(f, at, m) /\ InOrder(f, at, full)
                      /\ Progress(f, m, full)
  BY DEF HInv
<1>2. PICK i : i = m + 1
  OBVIOUS
<1>3. m \in Nat /\ i \in DOMAIN f /\ px = at[i] /\ px \in DOMAIN code
  BY <1>1, <1>2, Visited
<1>4. code' = code
  <2>1. PICK S : code \in Seq(S)
    BY <1>1 DEF Embeds
  <2> QED
    BY <2>1, <1>3, NothingSpliced
<1>5. PICK p : p = px
  OBVIOUS
<1>6. Inserts(p, <<>>, <<>>)
  BY <1>1, <1>3, <1>4, <1>5, NoStep
<1>7. PICK before : before = <<>> /\ \A k \in DOMAIN before : FALSE
  OBVIOUS
<1>8. Inserts(p, before, before) /\ p = at[i] /\ at[i] <= p
  <2>1. p \in Nat
    BY <1>1, <1>3, <1>5 DEF Embeds
  <2> QED
    BY <2>1, <1>3, <1>5, <1>6, <1>7
<1> QED
  BY <1>1, <1>2, <1>7, <1>8, VisitKeeps

\* A visit that inserts in front of the instruction and behind it.
VisitItems(f, at, i, before, after) ==
    /\ \A k \in DOMAIN before : Inserted(before[k]) /\ FrontHookFor(f, at, i, at[i], before[k])
    /\ \A k \in DOMAIN after : /\ Inserted(after[k])
                               /\ after[k].op = "aux" \/ HookFor(f, at, i, at[i], after[k])
LEMMA VisitActs ==
    ASSUME InLayoutOrder, NEW full, NEW f, NEW at, NEW m,
           Embeds(f, at), AllFit(f, at, m), InOrder(f, at, full), Progress(f, m, full),
           phase = "walk", todo # <<>>, NEW i, i = m + 1,
           NEW S, NEW before \in Seq(S), NEW after \in Seq(S), Visit(before, after),
           VisitItems(f, at, i, before, after)
    PROVE  HInv(full)'
<1>1. m \in Nat /\ i \in DOMAIN f /\ px = at[i] /\ px \in DOMAIN code
  BY Visited
<1>2. PICK p : p = px
  OBVIOUS
<1>3. Inserts(p, before, after) /\ todo' = Tail(todo) /\ phase' = phase
  BY <1>1, <1>2 DEF Inserts, Visit, VisitItems
<1>4. at[i] <= p /\ p = at[i]
  BY <1>1, <1>2 DEF Embeds
<1> QED
  BY <1>3, <1>4, VisitKeeps DEF VisitItems

\* What a hook for an instruction may be given.
Given(f, i, h, args, reads, writes) ==
    /\ f[i].op # "phi" /\ h # "phi"
    /\ \A k \in DOMAIN reads : \E n \in DOMAIN f[i].args : reads[k] = Ref(f[i].args[n])
    /\ \A k \in DOMAIN args :
           args[k] = f[i].id \/ \E n \in DOMAIN f[i].args : args[k] = f[i].args[n]
    /\ writes = NoRef \/ (writes = Ref(f[i].id) /\ f[i].ty # "void")

\* The hooks of a visit.
LEMMA VisitHook ==
    ASSUME NEW f, NEW at, NEW i, NEW p, NEW h, NEW z, NEW args, NEW reads, NEW writes,
           Given(f, i, h, args, reads, writes), NEW c, c = Hook(h, z, args, reads, writes)
    PROVE  /\ Inserted(c) /\ HookFor(f, at, i, p, c)
           /\ args = <<>> /\ writes = NoRef => FrontHookFor(f, at, i, p, c)
<1>1. /\ Inserted(c) /\ c.op = "hook" /\ c.ty = "void" /\ c.hook = h /\ c.args = args
      /\ c.reads = reads /\ c.writes = writes /\ c.cond = Literal
  BY HookIs
<1> QED
  BY <1>1 DEF HookFor, FrontHookFor, Seen, Given

\* A function's store has a value, and only results of other types are void.
LEMMA StoreArgs ==
    ASSUME NEW f \in Program, NEW i \in DOMAIN f, f[i].op = "store"
    PROVE  1 \in DOMAIN f[i].args
<1>1. Valid(f) /\ f[i] \in Instruction
  BY LlvmAssumption, ProgramValid
<1>2. f[i].args \in Seq(Nat)
  BY <1>1 DEF Instruction
<1>3. Len(f[i].args) = 2
  BY <1>1 DEF Valid
<1> QED
  BY <1>2, <1>3

\* What the walk knows at an instruction.
AtVisit(full, f, at, m, i) ==
    /\ Embeds(f, at) /\ AllFit(f, at, m) /\ InOrder(f, at, full) /\ Progress(f, m, full)
    /\ i = m + 1 /\ m \in Nat /\ f \in Program /\ i \in DOMAIN f
    /\ x = f[i] /\ px = at[i] /\ px \in DOMAIN code
LEMMA VisitStarts ==
    ASSUME NEW full, HInv(full), phase = "walk", todo # <<>>
    PROVE  \E f, at, m, i : AtVisit(full, f, at, m, i)
<1>1. PICK f, at, m : /\ Embeds(f, at) /\ AllFit(f, at, m) /\ InOrder(f, at, full)
                      /\ Progress(f, m, full)
  BY DEF HInv
<1>2. PICK i : i = m + 1
  OBVIOUS
<1>3. m \in Nat /\ i \in DOMAIN f /\ x = f[i] /\ px = at[i] /\ px \in DOMAIN code
  BY <1>1, <1>2, Visited
<1>4. f \in Program
  BY <1>1 DEF Embeds
<1> QED
  BY <1>1, <1>2, <1>3, <1>4 DEF AtVisit

LEMMA VisitEnds ==
    ASSUME InLayoutOrder, NEW full, NEW f, NEW at, NEW m, NEW i, AtVisit(full, f, at, m, i),
           phase = "walk", todo # <<>>,
           NEW S, NEW before \in Seq(S), NEW after \in Seq(S), Visit(before, after),
           VisitItems(f, at, i, before, after)
    PROVE  HInv(full)'
  BY VisitActs DEF AtVisit

\* A visit that puts a hook behind the instruction, and helpers.
LEMMA HookBehind ==
    ASSUME InLayoutOrder, NEW full, NEW f, NEW at, NEW m, NEW i, AtVisit(full, f, at, m, i),
           phase = "walk", todo # <<>>,
           NEW h, NEW args, NEW reads, NEW writes, Given(f, i, h, args, reads, writes),
           NEW a, a = Helper, NEW c, c = Hook(h, x, args, reads, writes),
           NEW after \in Seq({a, c}), Visit(<<>>, after)
    PROVE  HInv(full)'
<1>1. Inserted(a) /\ a.op = "aux"
  BY AuxIs DEF Helper
<1>2. Inserted(c) /\ HookFor(f, at, i, at[i], c)
  BY VisitHook
<1>3. PICK S, before : S = {a, c} /\ before = <<>>
  OBVIOUS
<1>4. before \in Seq(S) /\ after \in Seq(S) /\ \A k \in DOMAIN before : FALSE
  BY <1>3, EmptySeq
<1>5. \A k \in DOMAIN after : after[k] \in {a, c}
  OBVIOUS
<1>6. VisitItems(f, at, i, before, after)
  BY <1>1, <1>2, <1>4, <1>5 DEF VisitItems
<1>7. Visit(before, after)
  BY <1>3
<1> QED
  BY <1>4, <1>6, <1>7, VisitEnds

LEMMA StoreKeeps ==
    ASSUME InLayoutOrder, NEW full, HInv(full), Store
    PROVE  HInv(full)'
<1>0. phase = "walk" /\ todo # <<>> /\ x.op = "store"
  BY DEF Store, Visits
<1>1. PICK f, at, m, i : AtVisit(full, f, at, m, i)
  BY <1>0, VisitStarts
<1>2. x = f[i] /\ f[i].op = "store" /\ f \in Program /\ i \in DOMAIN f
  BY <1>0, <1>1 DEF AtVisit
<1>3. CASE Visit(<<>>, <<>>)
  BY <1>0, <1>3, NothingKeeps DEF Visit
<1>4. CASE Visit(<<>>, <<Hook("store", x, <<>>, <<Ref(x.args[1])>>, NoRef)>>)
  <2>1. PICK reads : reads = <<Ref(f[i].args[1])>>
    OBVIOUS
  <2>2. PICK a, c : a = Helper /\ c = Hook("store", x, <<>>, reads, NoRef)
    OBVIOUS
  <2>3. Given(f, i, "store", <<>>, reads, NoRef)
    BY <1>2, <2>1, StoreArgs DEF Given
  <2>4. PICK after : after \in Seq({a, c}) /\ Visit(<<>>, after)
    <3>1. <<c>> \in Seq({a, c})
      OBVIOUS
    <3> QED
      BY <3>1, <1>2, <1>4, <2>1, <2>2
  <2> QED
    BY <1>0, <1>1, <2>2, <2>3, <2>4, HookBehind
<1> QED
  BY <1>3, <1>4 DEF Store

LEMMA LoadKeeps ==
    ASSUME InLayoutOrder, NEW full, HInv(full), Load
    PROVE  HInv(full)'
<1>0. phase = "walk" /\ todo # <<>> /\ x.op = "load"
  BY DEF Load, Visits
<1>1. PICK f, at, m, i : AtVisit(full, f, at, m, i)
  BY <1>0, VisitStarts
<1>2. x = f[i]
  BY <1>1 DEF AtVisit
<1>3. CASE Visit(<<>>, <<>>)
  BY <1>0, <1>3, NothingKeeps DEF Visit
<1>4. CASE x.ty \in FP /\ Visit(<<>>, <<Helper, Hook("load", x, <<>>, <<>>, Ref(x.id))>>)
  <2>1. PICK writes : writes = Ref(f[i].id)
    OBVIOUS
  <2>2. PICK a, c : a = Helper /\ c = Hook("load", x, <<>>, <<>>, writes)
    OBVIOUS
  <2>3. Given(f, i, "load", <<>>, <<>>, writes)
    BY <1>0, <1>2, <1>4, <2>1 DEF Given, FP
  <2>4. PICK after : after \in Seq({a, c}) /\ Visit(<<>>, after)
    <3>1. <<a, c>> \in Seq({a, c})
      OBVIOUS
    <3> QED
      BY <3>1, <1>2, <1>4, <2>1, <2>2
  <2> QED
    BY <1>0, <1>1, <2>2, <2>3, <2>4, HookBehind
<1> QED
  BY <1>3, <1>4 DEF Load

LEMMA CopyKeeps ==
    ASSUME InLayoutOrder, NEW full, HInv(full), Copy \/ MPICall
    PROVE  HInv(full)'
<1>0. phase = "walk" /\ todo # <<>> /\ x.op \in {"copy", "mpi"}
  BY DEF Copy, MPICall, Visits
<1>1. PICK f, at, m, i : AtVisit(full, f, at, m, i)
  BY <1>0, VisitStarts
<1>2. x = f[i]
  BY <1>1 DEF AtVisit
<1>3. PICK a, c : a = Helper /\ c = Hook("copy", x, <<>>, <<>>, NoRef)
  OBVIOUS
<1>4. Given(f, i, "copy", <<>>, <<>>, NoRef)
  BY <1>0, <1>2 DEF Given
<1>5. PICK after : after \in Seq({a, c}) /\ Visit(<<>>, after)
  <2>1. <<a, a, c>> \in Seq({a, c}) /\ <<a, a, a, a, c>> \in Seq({a, c})
    OBVIOUS
  <2> QED
    BY <1>3, <2>1 DEF Copy, MPICall
<1> QED
  BY <1>0, <1>1, <1>3, <1>4, <1>5, HookBehind

\* The results and the operands of an instruction.
LEMMA OperandsOf ==
    ASSUME NEW v, NEW args, NEW S, args \in Seq(S),
           NEW all, all = <<v>> \o args
    PROVE  \A k \in DOMAIN all : all[k] = v \/ \E n \in DOMAIN args : all[k] = args[n]
<1>1. PICK T : v \in T /\ args \in Seq(T)
  <2>1. args \in Seq(S \cup {v})
    OBVIOUS
  <2> QED
    BY <2>1
<1>2. PICK s \in Seq(T) : s = <<v>> /\ Len(s) = 1 /\ s[1] = v
  <2>1. <<v>> \in Seq(T) /\ Len(<<v>>) = 1 /\ <<v>>[1] = v
    BY <1>1
  <2> QED
    BY <2>1
<1>3. /\ all \in Seq(T) /\ Len(all) = Len(s) + Len(args)
      /\ \A q \in 1..Len(s) : all[q] = s[q]
      /\ \A k \in 1..Len(args) : all[Len(s) + k] = args[k]
  <2>1. PICK t \in Seq(T) : t = args
    BY <1>1
  <2>2. /\ s \o t \in Seq(T) /\ Len(s \o t) = Len(s) + Len(t)
        /\ \A q \in 1..Len(s) : (s \o t)[q] = s[q]
        /\ \A k \in 1..Len(t) : (s \o t)[Len(s) + k] = t[k]
    BY Concatenated
  <2> QED
    BY <1>2, <2>1, <2>2
<1>4. Len(args) \in Nat /\ DOMAIN args = 1..Len(args) /\ DOMAIN all = 1..(1 + Len(args))
  BY <1>1, <1>2, <1>3
<1>5. ASSUME NEW k \in DOMAIN all
      PROVE  all[k] = v \/ \E n \in DOMAIN args : all[k] = args[n]
  <2>1. CASE k = 1
    BY <2>1, <1>2, <1>3
  <2>2. CASE k # 1
    <3>1. k - 1 \in DOMAIN args /\ k = 1 + (k - 1)
      BY <2>2, <1>4
    <3> QED
      BY <3>1, <1>2, <1>3, <1>4
  <2> QED
    BY <2>1, <2>2
<1> QED
  BY <1>5

LEMMA MathKeeps ==
    ASSUME InLayoutOrder, NEW full, HInv(full), Math
    PROVE  HInv(full)'
<1>0. phase = "walk" /\ todo # <<>> /\ x.op = "math"
  BY DEF Math, Visits
<1>1. PICK f, at, m, i : AtVisit(full, f, at, m, i)
  BY <1>0, VisitStarts
<1>2. x = f[i] /\ f[i] \in Instruction
  BY <1>1, ProgramValid DEF AtVisit
<1>3. CASE Visit(<<>>, <<>>)
  BY <1>0, <1>3, NothingKeeps DEF Visit
<1>4. CASE /\ x.ty = "f32"
           /\ Visit(<<>>, <<Hook("math", x, <<x.id>> \o x.args,
                                 [k \in DOMAIN x.args |-> Ref(x.args[k])], Ref(x.id))>>)
  <2>1. PICK args, reads, writes : /\ args = <<f[i].id>> \o f[i].args
                                   /\ reads = [k \in DOMAIN f[i].args |-> Ref(f[i].args[k])]
                                   /\ writes = Ref(f[i].id)
    OBVIOUS
  <2>2. PICK a, c : a = Helper /\ c = Hook("math", x, args, reads, writes)
    OBVIOUS
  <2>3. Given(f, i, "math", args, reads, writes)
    <3>1. f[i].args \in Seq(Nat)
      BY <1>2 DEF Instruction
    <3>2. \A k \in DOMAIN args :
              args[k] = f[i].id \/ \E n \in DOMAIN f[i].args : args[k] = f[i].args[n]
      <4>1. PICK s, v : s = f[i].args /\ v = f[i].id
        OBVIOUS
      <4> QED
        BY <2>1, <3>1, <4>1, OperandsOf
    <3> QED
      BY <1>0, <1>2, <1>4, <2>1, <3>2 DEF Given
  <2>4. PICK after : after \in Seq({a, c}) /\ Visit(<<>>, after)
    <3>1. <<c>> \in Seq({a, c})
      OBVIOUS
    <3> QED
      BY <3>1, <1>2, <1>4, <2>1, <2>2
  <2> QED
    BY <1>0, <1>1, <2>2, <2>3, <2>4, HookBehind
<1> QED
  BY <1>3, <1>4 DEF Math

LEMMA RetKeeps ==
    ASSUME InLayoutOrder, NEW full, HInv(full), Ret
    PROVE  HInv(full)'
<1>0. phase = "walk" /\ todo # <<>> /\ x.op = "ret"
  BY DEF Ret, Visits
<1>1. PICK f, at, m, i : AtVisit(full, f, at, m, i)
  BY <1>0, VisitStarts
<1>2. x = f[i] /\ f[i] \in Instruction
  BY <1>1, ProgramValid DEF AtVisit
<1>3. CASE Visit(<<>>, <<>>)
  BY <1>0, <1>3, NothingKeeps DEF Visit
<1>4. CASE /\ x.args # <<>>
           /\ Visit(<<Hook("push_ret", x, <<>>, <<Ref(x.args[1])>>, NoRef)>>, <<>>)
  <2>1. PICK reads : reads = <<Ref(f[i].args[1])>>
    OBVIOUS
  <2>2. PICK c : c = Hook("push_ret", x, <<>>, reads, NoRef)
    OBVIOUS
  <2>3. Given(f, i, "push_ret", <<>>, reads, NoRef)
    <3>1. f[i].args \in Seq(Nat)
      BY <1>2 DEF Instruction
    <3>2. 1 \in DOMAIN f[i].args
      BY <3>1, <1>2, <1>4
    <3> QED
      BY <3>2, <1>0, <1>2, <2>1 DEF Given
  <2>4. Inserted(c) /\ FrontHookFor(f, at, i, at[i], c)
    BY <2>2, <2>3, VisitHook
  <2>5. PICK S, before, after : /\ S = {c} /\ before \in Seq(S) /\ after \in Seq(S)
                                /\ after = <<>> /\ Visit(before, after)
    <3>1. <<c>> \in Seq({c}) /\ <<>> \in Seq({c})
      OBVIOUS
    <3> QED
      BY <3>1, <1>2, <1>4, <2>1, <2>2
  <2>6. VisitItems(f, at, i, before, after)
    BY <2>4, <2>5 DEF VisitItems
  <2> QED
    BY <1>0, <1>1, <2>5, <2>6, VisitEnds
<1> QED
  BY <1>3, <1>4 DEF Ret

LEMMA OtherKeeps ==
    ASSUME InLayoutOrder, NEW full, HInv(full), Other
    PROVE  HInv(full)'
<1>1. phase = "walk" /\ todo # <<>> /\ Visit(<<>>, <<>>)
  BY DEF Other, Visits
<1> QED
  BY <1>1, NothingKeeps DEF Visit

\* The float operands of a call are operands of it.
LEMMA FPArgsAre ==
    ASSUME NEW args, args \in Seq(Nat), x.args = args
    PROVE  \E n \in Nat : /\ DOMAIN FPArgs = 1..n
                          /\ \A j \in 1..n : \E k \in DOMAIN args : FPArgs[j] = args[k]
<1>1. PICK K : K = {k \in DOMAIN args : TypeOf(args[k]) \in FP}
  OBVIOUS
<1>2. K \in SUBSET Nat /\ K \in SUBSET (1..Len(args)) /\ Len(args) \in Nat
  BY <1>1
<1>3. IsFiniteSet(K)
  <2>1. PICK l \in Nat : l = Len(args)
    BY <1>2
  <2>2. IsFiniteSet(1..l)
    BY <2>1, FS_Interval
  <2> QED
    BY <2>1, <2>2, <1>2, FS_Subset
<1>4. PICK n : n = Cardinality(K) /\ n \in Nat /\ Ordered(K) \in [1..n -> K]
  BY <1>2, <1>3, OrderedIn
<1>5. PICK found : found = Ordered(K) /\ found \in [1..n -> K]
  BY <1>4
<1>6. FPArgs = [j \in DOMAIN found |-> args[found[j]]]
  BY <1>1, <1>5 DEF FPArgs
<1>7. DOMAIN FPArgs = 1..n /\ \A j \in 1..n : FPArgs[j] = args[found[j]] /\ found[j] \in K
  BY <1>5, <1>6
<1>8. \A k \in K : k \in DOMAIN args
  BY <1>1
<1> QED
  BY <1>4, <1>7, <1>8

LEMMA CallKeeps ==
    ASSUME InLayoutOrder, NEW full, HInv(full), Call
    PROVE  HInv(full)'
<1>0. phase = "walk" /\ todo # <<>> /\ x.op = "call"
  BY DEF Call, Visits
<1>1. PICK f, at, m, i : AtVisit(full, f, at, m, i)
  BY <1>0, VisitStarts
<1>2. x = f[i] /\ f[i] \in Instruction
  BY <1>1, ProgramValid DEF AtVisit
<1>3. PICK n \in Nat : /\ DOMAIN FPArgs = 1..n
                       /\ \A j \in 1..n : \E k \in DOMAIN f[i].args : FPArgs[j] = f[i].args[k]
  <2>1. f[i].args \in Seq(Nat) /\ x.args = f[i].args
    BY <1>2 DEF Instruction
  <2>2. PICK args : args = f[i].args
    OBVIOUS
  <2> QED
    BY <2>1, <2>2, FPArgsAre
<1>4. PICK before : before = [j \in DOMAIN FPArgs |->
                                 Hook("push_arg", x, <<>>, <<Ref(FPArgs[j])>>, NoRef)]
  OBVIOUS
<1>5. DOMAIN before = 1..n
  BY <1>3, <1>4
<1>6. ASSUME NEW j \in DOMAIN before
      PROVE  Inserted(before[j]) /\ FrontHookFor(f, at, i, at[i], before[j])
  <2>1. PICK reads : reads = <<Ref(FPArgs[j])>>
    OBVIOUS
  <2>2. PICK c : c = Hook("push_arg", x, <<>>, reads, NoRef)
    OBVIOUS
  <2>3. Given(f, i, "push_arg", <<>>, reads, NoRef)
    BY <1>0, <1>2, <1>3, <1>5, <2>1 DEF Given
  <2>4. Inserted(c) /\ FrontHookFor(f, at, i, at[i], c)
    BY <2>2, <2>3, VisitHook
  <2> QED
    BY <1>3, <1>4, <1>5, <2>1, <2>2, <2>4
<1>7. PICK after, c : /\ Visit(before, after)
                      /\ \/ after = <<>>
                         \/ after = <<c>> /\ c = Hook("pop_ret", x, <<>>, <<>>, Ref(x.id)) /\ x.ty \in FP
  BY <1>4 DEF Call
<1>8. ASSUME NEW j \in DOMAIN after
      PROVE  Inserted(after[j]) /\ HookFor(f, at, i, at[i], after[j])
  <2>1. after[j] = c /\ c = Hook("pop_ret", x, <<>>, <<>>, Ref(x.id)) /\ x.ty \in FP
    BY <1>7
  <2>2. PICK writes : writes = Ref(f[i].id)
    OBVIOUS
  <2>3. Given(f, i, "pop_ret", <<>>, <<>>, writes)
    BY <1>0, <1>2, <2>1, <2>2 DEF Given, FP
  <2>4. c = Hook("pop_ret", x, <<>>, <<>>, writes)
    BY <1>2, <2>1, <2>2
  <2>5. Inserted(c) /\ HookFor(f, at, i, at[i], c)
    BY <2>3, <2>4, VisitHook
  <2> QED
    BY <2>1, <2>5
<1>9. VisitItems(f, at, i, before, after)
  BY <1>6, <1>8 DEF VisitItems
<1>10. PICK S : before \in Seq(S) /\ after \in Seq(S)
  <2> DEFINE T == {before[j] : j \in 1..n} \cup {c}
  <2>1. before \in [1..n -> T]
    BY <1>4, <1>5
  <2>2. before \in Seq(T)
    BY <2>1
  <2>3. <<>> \in Seq(T) /\ <<c>> \in Seq(T)
    OBVIOUS
  <2>4. after \in Seq(T)
    BY <2>3, <1>7
  <2> HIDE DEF T
  <2> QED
    BY <2>2, <2>4
<1> QED
  BY <1>0, <1>1, <1>7, <1>9, <1>10, VisitEnds

\* What an instruction uses stands in front of it.
LEMMA OperandSeen ==
    ASSUME InLayoutOrder, NEW f, NEW at, Embeds(f, at), NEW i \in DOMAIN f, f[i].op # "phi",
           NEW n \in DOMAIN f[i].args, NEW b \in Nat, at[i] < b
    PROVE  Seen(f, at, Len(f), f[i].args[n], b)
<1>1. f \in Program /\ DOMAIN f = 1..Len(f) /\ at \in [DOMAIN f -> DOMAIN code]
  BY ProgramValid DEF Embeds
<1>2. \/ f[i].args[n] = Literal \/ IsParameter(f[i].args[n])
      \/ \E j \in DOMAIN f : j < i /\ f[i].args[n] = f[j].id
  BY <1>1, ArgIs
<1>3. ASSUME NEW j \in DOMAIN f, j < i
      PROVE  j <= Len(f) /\ at[j] < b
  <2>1. at[j] < at[i] /\ at[j] \in Nat /\ at[i] \in Nat
    BY <1>3 DEF Embeds
  <2>2. j <= Len(f)
    BY <1>1
  <2> QED
    BY <2>1, <2>2
<1> QED
  BY <1>2, <1>3 DEF Seen

\* A select has a condition.
LEMMA SelectArgs ==
    ASSUME NEW f \in Program, NEW i \in DOMAIN f, f[i].op = "select"
    PROVE  DOMAIN f[i].args = 1..3
<1>1. Valid(f) /\ f[i] \in Instruction
  BY LlvmAssumption, ProgramValid
<1>2. f[i].args \in Seq(Nat)
  BY <1>1 DEF Instruction
<1>3. Len(f[i].args) = 3
  BY <1>1 DEF Valid
<1> QED
  BY <1>2, <1>3

\* A result that has not been visited is used by no hook.
LEMMA NotUsedYet ==
    ASSUME NEW f, NEW at, Embeds(f, at), NEW m \in Nat, AllFit(f, at, m),
           NEW i \in DOMAIN f, i = m + 1
    PROVE  \A q \in Hooks : \A k \in DOMAIN code[q].args : code[q].args[k] # f[i].id
<1> SUFFICES ASSUME NEW q \in Hooks, NEW k \in DOMAIN code[q].args
             PROVE  code[q].args[k] # f[i].id
  OBVIOUS
<1>1. /\ DOMAIN f = 1..Len(f) /\ f[i].id # Literal /\ ~IsParameter(f[i].id)
      /\ \A j \in DOMAIN f : f[j].id = f[i].id => j = i
  BY ProgramValid DEF Embeds
<1>2. Seen(f, at, m, code[q].args[k], q)
  BY DEF Hooks, AllFit, Fits
<1>3. \A j \in DOMAIN f : j <= m => j # i
  BY <1>1
<1> QED
  BY <1>1, <1>2, <1>3 DEF Seen

LEMMA ArithKeeps ==
    ASSUME InLayoutOrder, NEW full, HInv(full), Arith
    PROVE  HInv(full)'
<1>0. /\ phase = "walk" /\ todo # <<>> /\ x.op \in {"arith", "select"}
      /\ todo' = Tail(todo) /\ phase' = phase
  BY DEF Arith, Visits
<1>1. PICK f, at, m, i : AtVisit(full, f, at, m, i)
  BY <1>0, VisitStarts
<1>2. /\ x = f[i] /\ f[i] \in Instruction /\ f \in Program /\ i \in DOMAIN f
      /\ Embeds(f, at) /\ m \in Nat /\ i = m + 1 /\ f[i].op # "phi"
  BY <1>0, <1>1, ProgramValid DEF AtVisit
<1>3. CASE code' = code
  BY <1>0, <1>3, NothingKeeps
<1>4. CASE /\ x.ty = "f32"
           /\ code' = Spliced(Behind, <<>>, <<[OpHook EXCEPT !.bb = code[Behind].bb]>>)
  <2>1. PICK v, s : v = f[i].id /\ s = SelectedBasedOnCondition(x.id)
    OBVIOUS
  <2>2. /\ s <=> AltIn(f, v)
        /\ \A j, k : OnlyUse(f, v, j, k) => SelectOf(v) = f[j]
    <3>1. \A q \in Hooks : \A k \in DOMAIN code[q].args : code[q].args[k] # f[i].id
      BY <1>1, <1>2, NotUsedYet DEF AtVisit
    <3>2. /\ SelectedBasedOnCondition(v) <=> AltIn(f, v)
          /\ \A j, k : OnlyUse(f, v, j, k) => SelectOf(v) = f[j]
      BY <3>1, <2>1, <1>2, SelectedIn
    <3> QED
      BY <3>2, <2>1, <1>2
  <2>3. PICK p, cond : /\ p = Behind
                       /\ cond = IF s THEN SelectOf(x.id).args[1]
                                 ELSE IF x.op = "select" THEN x.args[1] ELSE Literal
    OBVIOUS
  <2>4. at[i] \in Nat /\ at[i] \in DOMAIN code
    BY <1>2 DEF Embeds
  \* Where it goes, and that its condition is known there.
  <2>5. /\ p \in DOMAIN code /\ at[i] <= p /\ (p # at[i] => AltIn(f, v))
        /\ Seen(f, at, Len(f), cond, p + 1)
    <3>1. CASE AltIn(f, v)
      <4>1. PICK j, k : OnlyUse(f, v, j, k) /\ f[j].op = "select"
        BY <3>1 DEF AltIn
      <4>2. /\ j \in DOMAIN f /\ k \in DOMAIN f[j].args /\ f[j].args[k] = f[i].id
        BY <4>1, <2>1 DEF OnlyUse
      <4>3. SelectOf(x.id) = f[j]
        BY <4>1, <2>1, <2>2, <1>2
      <4>4. p = at[j]
        <5>1. Place(f[j].id) = at[j]
          BY <4>2, <1>2, Placed
        <5> QED
          BY <5>1, <4>3, <3>1, <2>1, <2>2, <2>3 DEF Behind
      <4>5. i < j
        <5>1. \/ f[j].args[k] = Literal \/ IsParameter(f[j].args[k])
              \/ \E l \in DOMAIN f : l < j /\ f[j].args[k] = f[l].id
          BY <4>1, <4>2, <1>2, ArgIs
        <5>2. f[i].id # Literal /\ ~IsParameter(f[i].id) /\ \A l \in DOMAIN f : f[l].id = f[i].id => l = i
          BY <1>2, ProgramValid
        <5> QED
          BY <4>2, <5>1, <5>2
      <4>6. at[j] \in DOMAIN code /\ at[j] \in Nat /\ at[i] < at[j]
        BY <1>2, <4>2, <4>5 DEF Embeds
      <4>7. 1 \in DOMAIN f[j].args
        BY <1>2, <4>1, <4>2, SelectArgs
      <4>8. Seen(f, at, Len(f), f[j].args[1], p + 1)
        BY <1>2, <4>1, <4>2, <4>4, <4>6, <4>7, OperandSeen
      <4>9. cond = f[j].args[1]
        BY <4>3, <3>1, <2>2, <2>3
      <4> QED
        BY <3>1, <2>4, <4>4, <4>6, <4>8, <4>9
    <3>2. CASE ~AltIn(f, v)
      <4>1. p = at[i]
        BY <3>2, <2>1, <2>2, <2>3, <1>1 DEF Behind, AtVisit
      <4>2. cond = Literal \/ (f[i].op = "select" /\ cond = f[i].args[1])
        BY <3>2, <2>2, <2>3, <1>2
      <4>3. f[i].op = "select" => 1 \in DOMAIN f[i].args
        BY <1>2, SelectArgs
      <4>4. f[i].op = "select" => Seen(f, at, Len(f), f[i].args[1], p + 1)
        BY <1>2, <2>4, <4>1, <4>3, OperandSeen
      <4>5. Seen(f, at, Len(f), cond, p + 1)
        BY <4>2, <4>4 DEF Seen
      <4> QED
        BY <2>4, <4>1, <4>5
    <3> QED
      BY <3>1, <3>2
  <2>6. PICK c : c = [OpHook EXCEPT !.bb = code[Behind].bb]
    OBVIOUS
  <2>7. PICK args, reads, writes : /\ args = <<f[i].id>> \o f[i].args
                                   /\ reads = [k \in DOMAIN f[i].args |-> Ref(f[i].args[k])]
                                   /\ writes = Ref(f[i].id)
    OBVIOUS
  <2>8. /\ Inserted(c) /\ c.op = "hook" /\ c.ty = "void" /\ c.hook = "op" /\ c.args = args
        /\ c.reads = reads /\ c.writes = writes /\ c.cond = cond
    BY <1>2, <2>1, <2>3, <2>6, <2>7 DEF OpHook, Hook, Inserted
  <2>9. \A k \in DOMAIN args :
            args[k] = f[i].id \/ \E n \in DOMAIN f[i].args : args[k] = f[i].args[n]
    <3>1. f[i].args \in Seq(Nat)
      BY <1>2 DEF Instruction
    <3>2. PICK a : a = f[i].args
      OBVIOUS
    <3> QED
      BY <2>1, <2>7, <3>1, <3>2, OperandsOf
  <2>10. HookFor(f, at, i, p, c)
    <3>1. \A k \in DOMAIN reads : \E n \in DOMAIN f[i].args : reads[k] = Ref(f[i].args[n])
      BY <2>7
    <3>2. f[i].ty # "void"
      BY <1>2, <1>4
    <3> QED
      BY <1>2, <2>5, <2>7, <2>8, <2>9, <3>1, <3>2 DEF HookFor
  <2>11. PICK S, before, after : /\ S = {c} /\ before \in Seq(S) /\ after \in Seq(S)
                                 /\ before = <<>> /\ after = <<c>>
    <3>1. <<c>> \in Seq({c}) /\ <<>> \in Seq({c})
      OBVIOUS
    <3> QED
      BY <3>1
  <2>12. (\A k \in DOMAIN before : FALSE) /\ (\A k \in DOMAIN after : after[k] = c)
    BY <2>11
  <2>13. Inserts(p, before, after)
    <3>1. code' = Spliced(p, before, after)
      BY <1>4, <2>3, <2>6, <2>11
    <3> QED
      BY <2>5, <2>8, <2>11, <2>12, <3>1 DEF Inserts
  <2>14. /\ \A k \in DOMAIN before : FrontHookFor(f, at, i, p, before[k])
         /\ \A k \in DOMAIN after : \/ after[k].op = "aux" /\ p = at[i]
                                    \/ HookFor(f, at, i, p, after[k])
    BY <2>10, <2>12
  <2>15. /\ AllFit(f, at, m) /\ InOrder(f, at, full) /\ Progress(f, m, full)
    BY <1>1 DEF AtVisit
  <2> QED
    BY <1>0, <1>2, <2>1, <2>5, <2>13, <2>14, <2>15, VisitKeeps
<1> QED
  BY <1>3, <1>4 DEF Arith

-----------------------------------------------------------------------------
(* The other loops.                                                        *)

\* A list of instructions to visit is a list of the function's.
Listed(f, ids) == ids \in Seq(Nat) /\ \A k \in DOMAIN ids : \E j \in DOMAIN f : ids[k] = f[j].id

LEMMA IdsAre ==
    ASSUME NEW f, NEW at, Embeds(f, at), NEW K, K \in SUBSET DOMAIN code,
           \A q \in K : ~Inserted(code[q]),
           NEW ids, ids = [n \in DOMAIN Ordered(K) |-> code[Ordered(K)[n]].id]
    PROVE  /\ Listed(f, ids)
           /\ \A k \in DOMAIN ids : \E q \in K : ids[k] = code[q].id
<1>1. PICK S : code \in Seq(S)
  BY DEF Embeds
<1>2. K \in SUBSET Nat /\ K \in SUBSET (1..Len(code)) /\ Len(code) \in Nat
  BY <1>1
<1>3. IsFiniteSet(K)
  <2>1. PICK l \in Nat : l = Len(code)
    BY <1>2
  <2>2. IsFiniteSet(1..l)
    <3>1. 1 \in Int /\ l \in Int
      OBVIOUS
    <3> QED
      BY <3>1, FS_Interval
  <2> QED
    BY <2>1, <2>2, <1>2, FS_Subset
<1>4. PICK n : n = Cardinality(K) /\ n \in Nat /\ Ordered(K) \in [1..n -> K]
  BY <1>2, <1>3, OrderedIn
<1>5. PICK found : found = Ordered(K) /\ found \in [1..n -> K]
  BY <1>4
<1>6. ids = [k \in 1..n |-> code[found[k]].id]
  BY <1>5
<1>7. \A k \in 1..n : found[k] \in K /\ ids[k] = code[found[k]].id
  BY <1>5, <1>6
<1>8. ASSUME NEW q \in K
      PROVE  \E j \in DOMAIN f : code[q].id = f[j].id
  <2>1. PICK j \in DOMAIN f : at[j] = q
    BY DEF Embeds
  <2>2. code[q] = f[j]
    BY <2>1 DEF Embeds
  <2> QED
    BY <2>2
<1>9. \A j \in DOMAIN f : f[j].id \in Nat
  BY ProgramValid DEF Embeds
<1>10. \A k \in 1..n : ids[k] \in Nat
  BY <1>7, <1>8, <1>9
<1>11. ids \in Seq(Nat) /\ DOMAIN ids = 1..n
  BY <1>4, <1>6, <1>10
<1> QED
  BY <1>7, <1>8, <1>11 DEF Listed

\* A visit of another loop.
LEMMA TailVisited ==
    ASSUME NEW full, NEW f, NEW at, NEW m, Embeds(f, at), Progress(f, m, full),
           phase \in {"phis", "branches", "main"}, todo # <<>>
    PROVE  /\ m = Len(f) /\ m \in Nat
           /\ \E j \in DOMAIN f : /\ x = f[j] /\ px = at[j] /\ px \in DOMAIN code
                                  /\ phase = "phis" => f[j].op = "phi" /\ f[j].ty # "void"
           /\ todo' = Tail(todo) /\ phase' \in {phase, "done"} => Progress(f, m, full)'
<1>1. f \in Program /\ at \in [DOMAIN f -> DOMAIN code]
  BY DEF Embeds
<1>2. /\ m \in Nat /\ m <= Len(f) /\ m = Len(f) /\ todo \in Seq(Nat)
      /\ \A k \in DOMAIN todo : \E j \in DOMAIN f :
             todo[k] = f[j].id /\ (phase = "phis" => f[j].op = "phi" /\ f[j].ty # "void")
  BY DEF Progress
<1>3. /\ Len(todo) \in Nat \ {0} /\ DOMAIN todo = 1..Len(todo) /\ Head(todo) = todo[1]
      /\ Tail(todo) \in Seq(Nat) /\ Len(Tail(todo)) = Len(todo) - 1
      /\ \A k \in 1..(Len(todo) - 1) : Tail(todo)[k] = todo[k + 1]
  BY <1>2
<1>4. PICK j \in DOMAIN f : /\ Head(todo) = f[j].id
                            /\ phase = "phis" => f[j].op = "phi" /\ f[j].ty # "void"
  <2>1. 1 \in DOMAIN todo
    BY <1>3
  <2> QED
    BY <2>1, <1>2, <1>3
<1>5. x = f[j] /\ px = at[j] /\ px \in DOMAIN code
  BY <1>1, <1>4, Placed DEF x, px
<1>6. ASSUME todo' = Tail(todo), phase' \in {phase, "done"}
      PROVE  Progress(f, m, full)'
  <2>1. ASSUME NEW k \in DOMAIN todo'
        PROVE  \E l \in DOMAIN f : /\ todo'[k] = f[l].id
                                   /\ phase' = "phis" => f[l].op = "phi" /\ f[l].ty # "void"
    <3>1. PICK t : t = Len(todo) /\ t \in Nat \ {0}
      BY <1>3
    <3>2. DOMAIN todo' = 1..(t - 1)
      BY <3>1, <1>3, <1>6
    <3>3. k \in 1..(t - 1) /\ k + 1 \in 1..t
      BY <3>1, <3>2
    <3>4. todo'[k] = todo[k + 1] /\ k + 1 \in DOMAIN todo
      BY <3>1, <3>3, <1>3, <1>6
    <3>5. phase' = "phis" => phase = "phis"
      BY <1>6
    <3> QED
      BY <3>4, <3>5, <1>2
  <2>2. phase' \notin {"pops", "walk"} /\ todo' \in Seq(Nat)
    BY <1>3, <1>6
  <2> QED
    BY <1>2, <2>1, <2>2 DEF Progress
<1> QED
  BY <1>2, <1>4, <1>5, <1>6

\* A step outside the walk keeps the invariant.
LEMMA TailKeeps ==
    ASSUME NEW full, NEW f, NEW at, NEW m,
           Embeds(f, at), AllFit(f, at, m), InOrder(f, at, full), Progress(f, m, full),
           NEW p, NEW before, NEW after, Inserts(p, before, after), after = <<>>,
           \A k \in DOMAIN before : TailHook(f, at, full, m, p, before[k]),
           Progress(f, m, full)'
    PROVE  HInv(full)'
<1>1. m \in Nat
  BY DEF Progress
<1>2. \E at2 : Embeds(f, at2)' /\ AllFit(f, at2, m)' /\ InOrder(f, at2, full)'
  BY <1>1, TailStep
<1> QED
  BY <1>2 DEF HInv

\* Steps that only list what comes next.
LEMMA ListKeeps ==
    ASSUME NEW full, NEW f, NEW at, NEW m,
           Embeds(f, at), AllFit(f, at, m), InOrder(f, at, full), Progress(f, m, full),
           code' = code, Progress(f, m, full)'
    PROVE  HInv(full)'
<1>1. PICK before : before = <<>>
  OBVIOUS
<1>2. \E p : p \in DOMAIN code
  <2>1. f \in Program /\ at \in [DOMAIN f -> DOMAIN code]
    BY DEF Embeds
  <2>2. 1 \in DOMAIN f
    BY <2>1, ProgramValid
  <2> QED
    BY <2>1, <2>2
<1>3. PICK p : Inserts(p, before, before)
  BY <1>1, <1>2, NoStep
<1>4. \A k \in DOMAIN before : TailHook(f, at, full, m, p, before[k])
  BY <1>1
<1> QED
  BY <1>1, <1>3, <1>4, TailKeeps

LEMMA StartPhisKeeps ==
    ASSUME NEW full, HInv(full), StartPhis
    PROVE  HInv(full)'
<1>1. PICK f, at, m : /\ Embeds(f, at) /\ AllFit(f, at, m) /\ InOrder(f, at, full)
                      /\ Progress(f, m, full)
  BY DEF HInv
<1>2. phase = "walk" /\ todo = <<>> /\ todo' = Ids(IsPhi) /\ phase' = "phis" /\ code' = code
  BY DEF StartPhis
<1>3. m \in Nat /\ m = Len(f)
  <2>1. m \in Nat /\ Len(todo) = Len(f) - m
    BY <1>1, <1>2 DEF Progress
  <2>2. Len(todo) = 0 /\ Len(f) \in Nat
    BY <1>1, <1>2, ProgramValid DEF Embeds
  <2> QED
    BY <2>1, <2>2
<1>4. PICK K : K = {q \in DOMAIN code : IsPhi(code[q])}
  OBVIOUS
<1>5. PICK ids : ids = [n \in DOMAIN Ordered(K) |-> code[Ordered(K)[n]].id]
  OBVIOUS
<1>6. todo' = ids
  BY <1>2, <1>4, <1>5 DEF Ids
<1>7. \A q \in K : /\ ~Inserted(code[q]) /\ code[q].op = "phi" /\ code[q].ty # "void"
  BY <1>4 DEF IsPhi, Inserted, FP
<1>8. Listed(f, ids) /\ \A k \in DOMAIN ids : \E q \in K : ids[k] = code[q].id
  <2>1. K \in SUBSET DOMAIN code /\ \A q \in K : ~Inserted(code[q])
    BY <1>4, <1>7
  <2> QED
    BY <2>1, <1>1, <1>5, IdsAre
<1>9. ASSUME NEW k \in DOMAIN ids
      PROVE  \E j \in DOMAIN f : ids[k] = f[j].id /\ f[j].op = "phi" /\ f[j].ty # "void"
  <2>1. PICK q \in K : ids[k] = code[q].id
    BY <1>8
  <2>2. q \in DOMAIN code
    BY <1>4
  <2>3. PICK j \in DOMAIN f : at[j] = q
    BY <2>2, <1>1, <1>7 DEF Embeds
  <2>4. code[q] = f[j]
    BY <2>3, <1>1 DEF Embeds
  <2> QED
    BY <2>1, <2>4, <1>7
<1>10. Progress(f, m, full)'
  BY <1>2, <1>3, <1>6, <1>8, <1>9 DEF Progress, Listed
<1> QED
  BY <1>1, <1>2, <1>10, ListKeeps

LEMMA StartBranchesKeeps ==
    ASSUME NEW full, HInv(full), StartBranches
    PROVE  HInv(full)'
<1>1. PICK f, at, m : /\ Embeds(f, at) /\ AllFit(f, at, m) /\ InOrder(f, at, full)
                      /\ Progress(f, m, full)
  BY DEF HInv
<1>2. phase = "phis" /\ phase' = "branches" /\ code' = code
  BY DEF StartBranches
<1>3. m \in Nat /\ m = Len(f)
  BY <1>1, <1>2 DEF Progress
<1>4. PICK K : K = {q \in DOMAIN code : code[q].op = "br"}
  OBVIOUS
<1>5. PICK ids : ids = [n \in DOMAIN Ordered(K) |-> code[Ordered(K)[n]].id]
  OBVIOUS
<1>6. todo' = ids
  BY <1>4, <1>5 DEF StartBranches, Ids
<1>7. \A q \in K : ~Inserted(code[q])
  BY <1>4 DEF Inserted
<1>8. Listed(f, ids)
  BY <1>1, <1>4, <1>5, <1>7, IdsAre
<1>9. Progress(f, m, full)'
  BY <1>2, <1>3, <1>6, <1>8 DEF Progress, Listed
<1> QED
  BY <1>1, <1>2, <1>9, ListKeeps

\* The first item behind a position of the function that is no PHI node.
LEMMA FirstNonPhiIs ==
    ASSUME NEW f, NEW at, Embeds(f, at), NEW j \in DOMAIN f, NEW b, b = at[j]
    PROVE  /\ FirstNonPhi(b) \in DOMAIN code
           /\ \A q \in DOMAIN code : b <= q /\ code[q].op # "phi" => FirstNonPhi(b) <= q
<1>1. /\ f \in Program /\ at \in [DOMAIN f -> DOMAIN code]
      /\ DOMAIN f = 1..Len(f) /\ Len(f) \in Nat \ {0}
  BY ProgramValid DEF Embeds
<1>2. PICK n \in Nat : n = Len(code) /\ DOMAIN code = 1..n
  BY DEF Embeds
<1>3. b \in 1..n
  BY <1>1, <1>2
<1> DEFINE D == {q \in b..n : code[q].op # "phi"}
<1>4. D \in SUBSET Nat /\ D # {}
  <2>1. PICK l \in DOMAIN f : l = Len(f)
    BY <1>1
  <2>2. f[l].op # "phi"
    BY <1>1, <2>1, LlvmAssumption DEF Valid
  <2>3. j = l \/ j < l
    BY <1>1, <2>1
  <2>4. at[j] <= at[l] /\ at[l] \in 1..n
    BY <1>1, <1>2, <2>3 DEF Embeds
  <2>5. at[l] \in D
    BY <1>3, <2>2, <2>4 DEF Embeds
  <2> QED
    BY <2>5, <1>3
<1>5. PICK d \in D : \A e \in D : d <= e
  <2> HIDE DEF D
  <2> QED
    BY <1>4, Least
<1>6. d \in b..n /\ code[d].op # "phi" /\ \A r \in b..(d - 1) : code[r].op = "phi"
  <2>1. d \in b..n /\ code[d].op # "phi"
    BY <1>5
  <2>2. ASSUME NEW r \in b..(d - 1)
        PROVE  code[r].op = "phi"
    <3>1. r \in b..n /\ ~(d <= r)
      BY <1>3, <2>1
    <3> QED
      BY <3>1, <1>5
  <2> QED
    BY <2>1, <2>2
<1>7. PICK s : s = FirstNonPhi(b)
  OBVIOUS
<1>8. s \in b..n /\ code[s].op # "phi" /\ \A r \in b..(s - 1) : code[r].op = "phi"
  BY <1>2, <1>6, <1>7 DEF FirstNonPhi
<1>9. ASSUME NEW q \in DOMAIN code, b <= q, code[q].op # "phi"
      PROVE  s <= q
  <2>1. q \in Nat /\ s \in Nat
    BY <1>2, <1>3, <1>8
  <2>2. q < s => q \in b..(s - 1)
    BY <2>1, <1>3, <1>9
  <2> QED
    BY <2>1, <2>2, <1>8, <1>9
<1>10. s \in DOMAIN code
  BY <1>2, <1>3, <1>8
<1> QED
  BY <1>7, <1>9, <1>10

LEMMA PhiKeeps ==
    ASSUME NEW full, HInv(full), Phi
    PROVE  HInv(full)'
<1>0. /\ phase = "phis" /\ todo # <<>> /\ todo' = Tail(todo) /\ phase' = phase
      /\ code' = Spliced(FirstNonPhi(px),
             <<Hook("phi", x, <<>>, [k \in DOMAIN x.args |-> Ref(x.args[k])], Ref(x.id))>>, <<>>)
  BY DEF Phi, PhiVisit
<1>1. PICK f, at, m : /\ Embeds(f, at) /\ AllFit(f, at, m) /\ InOrder(f, at, full)
                      /\ Progress(f, m, full)
  BY DEF HInv
<1>2. PICK j \in DOMAIN f : x = f[j] /\ px = at[j] /\ f[j].op = "phi" /\ f[j].ty # "void"
  BY <1>0, <1>1, TailVisited
<1>3. m = Len(f) /\ m \in Nat /\ Progress(f, m, full)'
  BY <1>0, <1>1, TailVisited
<1>4. /\ f \in Program /\ DOMAIN f = 1..Len(f)
      /\ f[j].id # Literal /\ ~IsParameter(f[j].id)
      /\ \A l \in DOMAIN f : f[l].id = f[j].id => l = j
  BY <1>1, ProgramValid DEF Embeds
<1>5. PICK p : /\ p = FirstNonPhi(px) /\ p \in DOMAIN code
               /\ \A q \in DOMAIN code : at[j] <= q /\ code[q].op # "phi" => p <= q
  BY <1>1, <1>2, FirstNonPhiIs
<1>6. PICK reads, writes : /\ reads = [k \in DOMAIN f[j].args |-> Ref(f[j].args[k])]
                           /\ writes = Ref(f[j].id)
  OBVIOUS
<1>7. PICK c : c = Hook("phi", x, <<>>, reads, writes)
  OBVIOUS
<1>8. /\ Inserted(c) /\ c.op = "hook" /\ c.ty = "void" /\ c.hook = "phi" /\ c.args = <<>>
      /\ c.reads = reads /\ c.writes = writes /\ c.cond = Literal
  BY <1>7, HookIs
<1>9. \A l \in DOMAIN f : l <= m
  BY <1>3, <1>4
<1>10. ASSUME NEW k \in DOMAIN reads
       PROVE  Named(f, m, reads[k])
  <2>1. PICK v : v = f[j].args[k]
    OBVIOUS
  <2>2. \/ v = Literal \/ IsParameter(v)
        \/ \E l \in DOMAIN f : v = f[l].id /\ f[l].ty # "void"
    BY <1>4, <1>6, <2>1, ArgIs
  <2>3. \/ v = Literal \/ IsParameter(v)
        \/ \E l \in DOMAIN f : l <= m /\ v = f[l].id /\ f[l].ty # "void"
    BY <1>9, <2>2
  <2>4. Named(f, m, Ref(v))
    BY <1>1, <2>3, RefNames
  <2> QED
    BY <1>6, <2>1, <2>4
<1>11. writes.val = f[j].id /\ Named(f, m, writes)
  <2>1. PICK v : v = f[j].id
    OBVIOUS
  <2>2. \E l \in DOMAIN f : l <= m /\ v = f[l].id /\ f[l].ty # "void"
    BY <1>2, <1>9, <2>1
  <2>3. Ref(v).val = v /\ Named(f, m, Ref(v))
    BY <1>1, <2>2, RefNames
  <2> QED
    BY <1>6, <2>1, <2>3
\* The hooks that read the PHI node's error stand behind it.
<1>12. ASSUME NEW v, v = f[j].id, NEW q \in DOMAIN code, Reading(f, full, code[q], v)
       PROVE  p <= q
  <2>1. Seen(f, at, Len(f), v, q) /\ code[q].op = "hook"
    BY <1>1, <1>12 DEF InOrder, ReadsFit, Reading
  <2>2. at[j] < q
    BY <2>1, <1>4, <1>12 DEF Seen
  <2>3. at[j] \in Nat /\ q \in Nat
    BY <1>1, <1>12 DEF Embeds
  <2> QED
    BY <2>1, <2>2, <2>3, <1>5
<1>13. TailHook(f, at, full, m, p, c)
  <2>1. ASSUME NEW v, Writing(c, v)
        PROVE  v = f[j].id
    BY <2>1, <1>8, <1>11 DEF Writing
  <2>2. ASSUME NEW i \in DOMAIN f, NEW v, v = f[j].id
        PROVE  ~UsesParam(f[i], v)
    BY <2>2, <1>4 DEF UsesParam
  <2> QED
    BY <2>1, <2>2, <1>2, <1>4, <1>8, <1>10, <1>11, <1>12 DEF TailHook
<1>14. PICK S, before, after : /\ S = {c} /\ before \in Seq(S) /\ after \in Seq(S)
                               /\ after = <<>> /\ before = <<c>>
  <2>1. <<c>> \in Seq({c}) /\ <<>> \in Seq({c})
    OBVIOUS
  <2> QED
    BY <2>1
<1>15. Inserts(p, before, after)
  <2>1. code' = Spliced(p, before, after)
    BY <1>0, <1>2, <1>5, <1>6, <1>7, <1>14
  <2>2. (\A k \in DOMAIN before : before[k] = c) /\ (\A k \in DOMAIN after : FALSE)
    BY <1>14
  <2>3. \E T : before \in Seq(T) /\ after \in Seq(T)
    BY <1>14
  <2> QED
    BY <2>2, <2>3, <2>1, <1>5, <1>8 DEF Inserts
<1>16. \A k \in DOMAIN before : TailHook(f, at, full, m, p, before[k])
  BY <1>13, <1>14
<1> QED
  BY <1>1, <1>3, <1>14, <1>15, <1>16, TailKeeps

\* A step that puts one call in front of p which reads and records nothing.
LEMMA PlainKeeps ==
    ASSUME NEW full, NEW f, NEW at, NEW m,
           Embeds(f, at), AllFit(f, at, m), InOrder(f, at, full), Progress(f, m, full),
           NEW p \in DOMAIN code, NEW h, NEW z,
           code' = Spliced(p, <<Hook(h, z, <<>>, <<>>, NoRef)>>, <<>>),
           Progress(f, m, full)'
    PROVE  HInv(full)'
<1>1. PICK c : c = Hook(h, z, <<>>, <<>>, NoRef)
  OBVIOUS
<1>2. /\ Inserted(c) /\ c.op = "hook" /\ c.ty = "void" /\ c.args = <<>>
      /\ c.reads = <<>> /\ c.writes = NoRef /\ c.cond = Literal
  BY <1>1, HookIs
<1>3. \A v : Writing(c, v) => Exempt(f, full, v)
  BY <1>2 DEF Writing, Exempt, NoRef
<1>4. TailHook(f, at, full, m, p, c)
  BY <1>2, <1>3 DEF TailHook, Named
<1>5. PICK S, before, after : /\ S = {c} /\ before \in Seq(S) /\ after \in Seq(S)
                              /\ after = <<>> /\ before = <<c>>
  <2>1. <<c>> \in Seq({c}) /\ <<>> \in Seq({c})
    OBVIOUS
  <2> QED
    BY <2>1
<1>6. Inserts(p, before, after)
  <2>1. code' = Spliced(p, before, after)
    BY <1>1, <1>5
  <2>2. (\A k \in DOMAIN before : before[k] = c) /\ (\A k \in DOMAIN after : FALSE)
    BY <1>5
  <2>3. \E T : before \in Seq(T) /\ after \in Seq(T)
    BY <1>5
  <2> QED
    BY <2>2, <2>3, <2>1, <1>2 DEF Inserts
<1>7. \A k \in DOMAIN before : TailHook(f, at, full, m, p, before[k])
  BY <1>4, <1>5
<1> QED
  BY <1>5, <1>6, <1>7, TailKeeps

LEMMA BranchKeeps ==
    ASSUME NEW full, HInv(full), Branch \/ WriteReport
    PROVE  HInv(full)'
<1>1. PICK f, at, m : /\ Embeds(f, at) /\ AllFit(f, at, m) /\ InOrder(f, at, full)
                      /\ Progress(f, m, full)
  BY DEF HInv
<1>2. PICK h : /\ phase \in {"phis", "branches", "main"} /\ todo # <<>>
               /\ todo' = Tail(todo) /\ phase' \in {phase, "done"}
               /\ code' = Spliced(px, <<Hook(h, x, <<>>, <<>>, NoRef)>>, <<>>)
  BY DEF Branch, WriteReport
<1>3. px \in DOMAIN code /\ Progress(f, m, full)'
  BY <1>1, <1>2, TailVisited
<1>4. PICK p, z : p = px /\ z = x
  OBVIOUS
<1>5. p \in DOMAIN code /\ code' = Spliced(p, <<Hook(h, z, <<>>, <<>>, NoRef)>>, <<>>)
  BY <1>2, <1>3, <1>4
<1> QED
  BY <1>1, <1>3, <1>5, PlainKeeps

LEMMA StartMainKeeps ==
    ASSUME NEW full, HInv(full), StartMain
    PROVE  HInv(full)'
<1>1. PICK f, at, m : /\ Embeds(f, at) /\ AllFit(f, at, m) /\ InOrder(f, at, full)
                      /\ Progress(f, m, full)
  BY DEF HInv
<1>2. phase = "branches" /\ phase' \in {"done", "main"}
  BY DEF StartMain
<1>3. m \in Nat /\ m = Len(f)
  BY <1>1, <1>2 DEF Progress
<1>4. CASE ~InMain
  <2>1. code' = code /\ todo' = <<>>
    BY <1>4 DEF StartMain
  <2>2. Progress(f, m, full)'
    BY <1>2, <1>3, <2>1 DEF Progress
  <2> QED
    BY <1>1, <2>1, <2>2, ListKeeps
<1>5. CASE InMain
  <2>1. PICK K : K = {q \in DOMAIN code : Leaves(code[q])}
    OBVIOUS
  <2>2. PICK ids : ids = [n \in DOMAIN Ordered(K) |-> code[Ordered(K)[n]].id]
    OBVIOUS
  <2>3. todo' = ids
    BY <1>5, <2>1, <2>2 DEF StartMain, Ids
  <2>4. K \in SUBSET DOMAIN code /\ \A q \in K : ~Inserted(code[q])
    BY <2>1 DEF Inserted, Leaves
  <2>5. Listed(f, ids)
    BY <1>1, <2>2, <2>4, IdsAre
  <2>6. Progress(f, m, full)'
    BY <1>2, <1>3, <2>3, <2>5 DEF Progress, Listed
  <2>7. 1 \in DOMAIN code
    <3>1. f \in Program /\ at \in [DOMAIN f -> DOMAIN code] /\ \E S : code \in Seq(S)
      BY <1>1 DEF Embeds
    <3>2. 1 \in DOMAIN f
      BY <3>1, ProgramValid
    <3> QED
      BY <3>1, <3>2
  <2>8. PICK z : z = code[1]
    OBVIOUS
  <2>9. code' = Spliced(1, <<Hook("init", z, <<>>, <<>>, NoRef)>>, <<>>)
    BY <1>5, <2>8 DEF StartMain
  <2> QED
    BY <1>1, <2>6, <2>7, <2>9, PlainKeeps
<1> QED
  BY <1>4, <1>5

-----------------------------------------------------------------------------
(* The start.                                                              *)

\* In the program itself, instructions are where they are.
LEMMA Identity ==
    ASSUME NEW f \in Program, code = f, NEW at, Embeds(f, at)
    PROVE  \A i \in DOMAIN f : at[i] = i
<1> SUFFICES ASSUME NEW i \in DOMAIN f
             PROVE  at[i] = i
  OBVIOUS
<1>1. at[i] \in DOMAIN f /\ f[at[i]] = f[i]
  BY DEF Embeds
<1>2. \A j, k \in DOMAIN f : f[j].id = f[k].id => j = k
  BY ProgramValid
<1> QED
  BY <1>1, <1>2

LEMMA FirstWithFileIn ==
    ASSUME NEW f \in Program, code = f
    PROVE  FirstWithFile \in DOMAIN code
<1>1. /\ DOMAIN code = 1..Len(code) /\ Len(code) \in Nat \ {0} /\ code[1].bb = 1
  BY LlvmAssumption, ProgramValid DEF Valid
<1>2. PICK n : n = Len(code)
  OBVIOUS
<1>3. PICK K : K = {i \in 1..n : code[i].bb = 1 /\ FileOf(Place(code[i].id)) # ""}
  OBVIOUS
<1>4. PICK K2 : K2 = {i \in 1..n : code[i].bb = 1}
  OBVIOUS
<1>5. /\ K \in SUBSET Nat /\ K2 \in SUBSET Nat /\ K2 # {} /\ n \in Nat
      /\ \A i \in K : i \in DOMAIN code /\ i # 0
      /\ \A i \in K2 : i \in DOMAIN code /\ i <= n
  <2>1. n \in Nat /\ n # 0 /\ DOMAIN code = 1..n /\ code[1].bb = 1
    BY <1>1, <1>2
  <2>2. 1 \in 1..n
    BY <2>1
  <2>3. 1 \in K2
    BY <2>1, <2>2, <1>4
  <2>4. K \subseteq 1..n /\ K2 \subseteq 1..n
    BY <1>3, <1>4
  <2>5. \A i \in 1..n : i \in Nat /\ i # 0 /\ i <= n
    BY <2>1
  <2>6. \A i \in K : i \in DOMAIN code /\ i # 0 /\ i \in Nat
    BY <2>1, <2>4, <2>5
  <2>7. \A i \in K2 : i \in DOMAIN code /\ i <= n /\ i \in Nat
    BY <2>1, <2>4, <2>5
  <2> QED
    BY <2>1, <2>3, <2>6, <2>7
<1>6. FirstWithFile = IF K # {} /\ Min(K) # 0 THEN Min(K) ELSE Max(K2)
  <2>1. SelectInSeq(code, LAMBDA i : i.bb = 1 /\ FileOf(Place(i.id)) # "")
            = IF K # {} THEN Min(K) ELSE 0
    BY <1>2, <1>3 DEF SelectInSeq
  <2>2. SelectLastInSeq(code, LAMBDA i : i.bb = 1) = Max(K2)
    BY <1>2, <1>4, <1>5 DEF SelectLastInSeq
  <2> QED
    BY <2>1, <2>2 DEF FirstWithFile
<1>7. K # {} => Min(K) \in K
  BY <1>5, MinIn
<1>8. Max(K2) \in K2
  BY <1>5, MaxIn
<1> QED
  BY <1>5, <1>6, <1>7, <1>8

LEMMA PopParamsKeeps ==
    ASSUME NEW full, HInv(full), PopParams, full => ParamsFirst
    PROVE  HInv(full)'
<1>1. PICK f, at, m : /\ Embeds(f, at) /\ AllFit(f, at, m) /\ InOrder(f, at, full)
                      /\ Progress(f, m, full)
  BY DEF HInv
<1>2. /\ phase = "pops" /\ phase' = "walk" /\ todo' = [i \in DOMAIN code |-> code[i].id]
  BY DEF PopParams
<1>3. /\ f \in Program /\ code = f /\ m = 0 /\ PhisWait(f) /\ (full => ParamsFirst)
  BY <1>1, <1>2 DEF Progress, Embeds
<1>4. \A i \in DOMAIN f : at[i] = i
  BY <1>1, <1>3, Identity
<1>5. PICK p : p = FirstWithFile /\ p \in DOMAIN code
  BY <1>3, FirstWithFileIn
<1>6. PICK before, after, n : /\ before = [i \in DOMAIN Param |->
                                   Hook("pop_arg", code[FirstWithFile], <<>>, <<>>, Ref(Param[i]))]
                              /\ after = <<>> /\ n = Len(Param)
  OBVIOUS
<1>7. Param \in Seq(Nat \ {Literal}) /\ n \in Nat /\ DOMAIN Param = 1..n
  BY <1>6, LlvmAssumption
<1>8. ASSUME NEW k \in DOMAIN before, NEW c, c = before[k]
      PROVE  /\ k \in DOMAIN Param /\ Inserted(c)
             /\ c.op = "hook" /\ c.ty = "void" /\ c.args = <<>> /\ c.reads = <<>>
             /\ c.writes = [val |-> Param[k], num |-> k] /\ c.cond = Literal
  <2>1. k \in DOMAIN Param
    BY <1>6
  <2>2. Ref(Param[k]) = [val |-> Param[k], num |-> k]
    BY <1>1, <2>1, RefIs DEF Names
  <2>3. PICK z, w : z = code[FirstWithFile] /\ w = [val |-> Param[k], num |-> k]
    OBVIOUS
  <2>4. c = Hook("pop_arg", z, <<>>, <<>>, w)
    BY <1>6, <1>8, <2>1, <2>2, <2>3
  <2> QED
    BY <2>1, <2>3, <2>4, HookIs
<1>9. \A q \in DOMAIN code : code[q].op # "hook"
  BY <1>3, ProgramValid DEF Instruction, InstructionOp
<1>10. \A j \in DOMAIN f : ~IsParameter(f[j].id)
  BY <1>3, ProgramValid
<1>11. ASSUME NEW k \in DOMAIN before
       PROVE  TailHook(f, at, full, m, p, before[k])
  <2>1. PICK c : c = before[k]
    OBVIOUS
  <2>2. /\ k \in DOMAIN Param
        /\ c.op = "hook" /\ c.ty = "void" /\ c.args = <<>> /\ c.reads = <<>>
        /\ c.writes = [val |-> Param[k], num |-> k] /\ c.cond = Literal
    BY <1>8, <2>1
  <2>3. Named(f, m, c.writes)
    BY <2>2 DEF Named
  <2>4. ASSUME NEW v, Writing(c, v), ~Exempt(f, full, v)
        PROVE  /\ \A q \in DOMAIN code : ~Reading(f, full, code[q], v)
               /\ \A i \in DOMAIN f : UsesParam(f[i], v) => p <= at[i]
               /\ \A j \in DOMAIN f : v # f[j].id
    <3>1. v = Param[k] /\ IsParameter(v) /\ full
      BY <2>2, <2>4 DEF Writing, Exempt, IsParameter
    <3>2. \A i \in DOMAIN f : UsesParam(f[i], v) => p <= at[i]
      BY <3>1, <1>3, <1>4, <1>5 DEF ParamsFirst
    <3>3. \A q \in DOMAIN code : ~Reading(f, full, code[q], v)
      BY <1>9 DEF Reading
    <3> QED
      BY <3>1, <3>2, <3>3, <1>10
  <2>5. TailHook(f, at, full, m, p, c)
    BY <2>2, <2>3, <2>4 DEF TailHook
  <2> QED
    BY <2>1, <2>5
<1>12. Inserts(p, before, after)
  <2>1. PICK S : S = {before[k] : k \in DOMAIN Param}
    OBVIOUS
  <2>2. before \in [1..n -> S]
    BY <1>6, <1>7, <2>1
  <2>3. before \in Seq(S) /\ after \in Seq(S) /\ \A k \in DOMAIN after : FALSE
    BY <2>2, <1>6, <1>7, EmptySeq
  <2>4. code' = Spliced(p, before, after)
    BY <1>5, <1>6 DEF PopParams
  <2>5. \A k \in DOMAIN before : Inserted(before[k])
    BY <1>8
  <2> QED
    BY <1>5, <2>3, <2>4, <2>5 DEF Inserts
<1>13. m \in Nat
  BY <1>3
<1>14. PICK at2 : Embeds(f, at2)' /\ AllFit(f, at2, m)' /\ InOrder(f, at2, full)'
  BY <1>1, <1>6, <1>11, <1>12, <1>13, TailStep
<1>15. PhisWait(f)'
  <2>1. ASSUME NEW c, NEW b, Puts(p, before, after, c, b), NEW j \in DOMAIN f, Writing(c, f[j].id)
        PROVE  f[j].op # "phi"
    <3>1. PICK k \in DOMAIN before : c = before[k]
      BY <2>1, <1>6 DEF Puts
    <3>2. k \in DOMAIN Param /\ c.writes = [val |-> Param[k], num |-> k]
      BY <3>1, <1>8
    <3>3. f[j].id = Param[k]
      BY <3>2, <2>1 DEF Writing
    <3> QED
      BY <3>2, <3>3, <1>10 DEF IsParameter
  <2> QED
    BY <2>1, <1>1, <1>3, <1>12, PhisWaitKept
<1>16. Progress(f, m, full)'
  <2>1. /\ DOMAIN f = 1..Len(f) /\ Len(f) \in Nat /\ \A i \in DOMAIN f : f[i].id \in Nat
    BY <1>3, ProgramValid
  <2>2. PICK l, ids : l = Len(f) /\ ids = [i \in 1..l |-> f[i].id]
    OBVIOUS
  <2>3. todo' = ids /\ ids \in [1..l -> Nat] /\ l \in Nat
    BY <1>2, <1>3, <2>1, <2>2
  <2>4. ids \in Seq(Nat) /\ Len(ids) = l /\ DOMAIN ids = 1..l
    BY <2>2, <2>3
  <2>5. Len(todo') = Len(f) - m /\ m <= Len(f)
    BY <1>3, <2>2, <2>3, <2>4
  <2>6. \A k \in DOMAIN todo' : todo'[k] = f[m + k].id
    BY <1>3, <2>2, <2>3, <2>4
  <2> QED
    BY <1>2, <1>13, <1>15, <2>3, <2>4, <2>5, <2>6 DEF Progress
<1> QED
  BY <1>14, <1>16 DEF HInv

LEMMA HInitOK ==
    ASSUME NEW full, HInit
    PROVE  HInv(full)
<1>1. code \in Program /\ todo = <<>> /\ phase = "pops"
  BY DEF HInit
<1>2. PICK f : f = code
  OBVIOUS
<1>3. /\ f \in Program /\ f \in Seq(Instruction) /\ DOMAIN f = 1..Len(f) /\ Len(f) \in Nat
  BY <1>1, <1>2, ProgramValid
<1>4. PICK at : at = [i \in DOMAIN f |-> i]
  OBVIOUS
<1>5. Embeds(f, at)
  BY <1>2, <1>3, <1>4 DEF Embeds
<1>6. \A q \in DOMAIN code : code[q].op # "hook"
  BY <1>2, <1>3, ProgramValid DEF Instruction, InstructionOp
<1>7. AllFit(f, at, 0)
  BY <1>6 DEF AllFit, Fits
<1>8. InOrder(f, at, full) /\ PhisWait(f)
  BY <1>6 DEF InOrder, ReadsFit, WritesFit, Reading, Writing, PhisWait
<1>9. Progress(f, 0, full)
  BY <1>1, <1>2, <1>3, <1>8 DEF Progress
<1> QED
  BY <1>5, <1>7, <1>8, <1>9 DEF HInv

LEMMA NextKeeps ==
    ASSUME InLayoutOrder, NEW full, HInv(full), [HNext]_ir, full => PopsFirst
    PROVE  HInv(full)'
<1>1. CASE PopParams
  BY <1>1, PopParamsKeeps DEF PopParams, PopsFirst
<1>2. CASE Store
  BY <1>2, StoreKeeps
<1>3. CASE Load
  BY <1>3, LoadKeeps
<1>4. CASE Copy \/ MPICall
  BY <1>4, CopyKeeps
<1>5. CASE Call
  BY <1>5, CallKeeps
<1>6. CASE Math
  BY <1>6, MathKeeps
<1>7. CASE Arith
  BY <1>7, ArithKeeps
<1>8. CASE Ret
  BY <1>8, RetKeeps
<1>9. CASE Other
  BY <1>9, OtherKeeps
<1>10. CASE StartPhis
  BY <1>10, StartPhisKeeps
<1>11. CASE Phi
  BY <1>11, PhiKeeps
<1>12. CASE StartBranches
  BY <1>12, StartBranchesKeeps
<1>13. CASE Branch \/ WriteReport
  BY <1>13, BranchKeeps
<1>14. CASE StartMain
  BY <1>14, StartMainKeeps
<1>15. CASE UNCHANGED ir
  <2>1. PICK f, at, m : /\ Embeds(f, at) /\ AllFit(f, at, m) /\ InOrder(f, at, full)
                        /\ Progress(f, m, full)
    BY DEF HInv
  <2>2. code' = code /\ todo' = todo /\ phase' = phase
    BY <1>15 DEF ir
  <2>4. PhisWait(f) => PhisWait(f)'
    BY <2>2 DEF PhisWait
  <2>6. Progress(f, m, full)'
    BY <2>1, <2>2, <2>4 DEF Progress
  <2> QED
    BY <2>1, <2>2, <2>6, ListKeeps
<1> QED
  BY <1>1, <1>2, <1>3, <1>4, <1>5, <1>6, <1>7, <1>8, <1>9, <1>10, <1>11, <1>12, <1>13, <1>14,
     <1>15 DEF HNext

-----------------------------------------------------------------------------
(* What follows from it.                                                   *)

\* Two names with a number in one state.
LEMMA NamesDiffer ==
    ASSUME NEW f, NEW at, Embeds(f, at), NEW m, NEW r, NEW s, Named(f, m, r), Named(f, m, s),
           r # NoRef, s # NoRef
    PROVE  r.val = s.val <=> r.num = s.num
<1>1. Names(f, at)
  BY RefIs
<1>2. /\ \A i \in DOMAIN f : Ref(f[i].id).val = f[i].id /\ ~IsParameter(f[i].id)
      /\ \A n \in DOMAIN Param : Ref(Param[n]).num = n
  <2>1. ASSUME NEW i \in DOMAIN f
        PROVE  Ref(f[i].id).val = f[i].id
    <3>1. PICK n : Ref(f[i].id) = [val |-> f[i].id, num |-> n]
      BY <1>1 DEF Names
    <3> QED
      BY <3>1
  <2>2. \A i \in DOMAIN f : ~IsParameter(f[i].id)
    BY ProgramValid DEF Embeds
  <2>3. \A n \in DOMAIN Param : Ref(Param[n]).num = n
    BY <1>1 DEF Names
  <2> QED
    BY <2>1, <2>2, <2>3
<1>3. /\ \A i, j \in DOMAIN f :
             f[i].ty # "void" /\ f[j].ty # "void" /\ Ref(f[i].id).num = Ref(f[j].id).num => i = j
      /\ \A i \in DOMAIN f : \A n \in DOMAIN Param : Ref(f[i].id).num # Ref(Param[n]).num
  BY NumbersDiffer
<1>4. \A i, j \in DOMAIN f : f[i].id = f[j].id => i = j
  BY ProgramValid DEF Embeds
<1>5. \A n, k \in DOMAIN Param : Param[n] = Param[k] => n = k
  BY LlvmAssumption
<1>6. CASE \E n, k \in DOMAIN Param : /\ r = [val |-> Param[n], num |-> n]
                                      /\ s = [val |-> Param[k], num |-> k]
  BY <1>5, <1>6
<1>7. CASE \E i, j \in DOMAIN f : /\ r = Ref(f[i].id) /\ f[i].ty # "void"
                                  /\ s = Ref(f[j].id) /\ f[j].ty # "void"
  BY <1>2, <1>3, <1>4, <1>7
<1>8. CASE \E i \in DOMAIN f : \E n \in DOMAIN Param :
               /\ r = Ref(f[i].id) /\ s = [val |-> Param[n], num |-> n]
  BY <1>2, <1>3, <1>8 DEF IsParameter
<1>9. CASE \E i \in DOMAIN f : \E n \in DOMAIN Param :
               /\ s = Ref(f[i].id) /\ r = [val |-> Param[n], num |-> n]
  BY <1>2, <1>3, <1>9 DEF IsParameter
<1> QED
  BY <1>6, <1>7, <1>8, <1>9 DEF Named

LEMMA InvNames ==
    ASSUME NEW full, HInv(full)
    PROVE  NamesAgree
<1>1. PICK f, at, m : Embeds(f, at) /\ AllFit(f, at, m)
  BY DEF HInv
<1>2. ASSUME NEW p \in Hooks, NEW r \in RefsOf(p)
      PROVE  Named(f, m, r) /\ r # NoRef
  BY <1>1, <1>2 DEF AllFit, Fits, Hooks, RefsOf
<1>3. ASSUME NEW p \in Hooks, NEW q \in Hooks, NEW r \in RefsOf(p), NEW s \in RefsOf(q)
      PROVE  r.val = s.val <=> r.num = s.num
  BY <1>1, <1>2, <1>3, NamesDiffer
<1> QED
  BY <1>3 DEF NamesAgree

LEMMA SeenPlace ==
    ASSUME NEW f, NEW at, Embeds(f, at), NEW m, NEW v, NEW p \in DOMAIN code, Seen(f, at, m, v, p)
    PROVE  Place(v) < p
<1>1. p \in Nat \ {0}
  BY DEF Embeds
<1>2. /\ \A i \in DOMAIN f : Place(f[i].id) = at[i]
      /\ \A u : u = Literal \/ IsParameter(u) => Place(u) = 0
  BY Placed
<1>3. CASE v = Literal \/ IsParameter(v)
  BY <1>1, <1>2, <1>3
<1>4. CASE \E j \in DOMAIN f : v = f[j].id /\ at[j] < p
  BY <1>2, <1>4
<1> QED
  BY <1>3, <1>4 DEF Seen

LEMMA InvUses ==
    ASSUME NEW full, HInv(full)
    PROVE  UsesDefined
<1>1. PICK f, at, m : Embeds(f, at) /\ AllFit(f, at, m)
  BY DEF HInv
<1>2. ASSUME NEW p \in Hooks, NEW k \in DOMAIN code[p].args
      PROVE  Place(code[p].args[k]) < p /\ Place(code[p].cond) < p
  <2>1. p \in DOMAIN code /\ code[p].op = "hook"
    BY DEF Hooks
  <2>2. Seen(f, at, m, code[p].args[k], p) /\ Seen(f, at, Len(f), code[p].cond, p)
    BY <1>1, <2>1 DEF AllFit, Fits
  <2> QED
    BY <1>1, <2>1, <2>2, SeenPlace
<1> QED
  BY <1>2 DEF UsesDefined

LEMMA InvRecords ==
    ASSUME HInv(TRUE)
    PROVE  RecordsFirst
<1>1. PICK f, at, m : Embeds(f, at) /\ InOrder(f, at, TRUE)
  BY DEF HInv
<1>2. ASSUME NEW p \in Hooks, code[p].hook # "phi", NEW k \in DOMAIN code[p].reads,
             ~Alternative(code[p].reads[k].val)
      PROVE  ReadsInOrder(p, code[p].reads[k].val)
  <2>1. PICK v : v = code[p].reads[k].val
    OBVIOUS
  <2>2. ~AltIn(f, v)
    BY <1>1, <1>2, <2>1, AlternativeIn
  <2>3. SUFFICES ASSUME v # Literal, NEW q \in HooksOf(v)
                 PROVE  q < p
    BY <2>1 DEF ReadsInOrder
  <2>4. p \in DOMAIN code /\ Reading(f, TRUE, code[p], v)
    BY <1>2, <2>1, <2>2, <2>3 DEF Reading, Exempt, Hooks
  <2>5. q \in DOMAIN code /\ Writing(code[q], v)
    BY <2>3 DEF HooksOf, Hooks, Writing
  <2> QED
    BY <1>1, <2>4, <2>5 DEF InOrder, ReadsFit
<1> QED
  BY <1>2 DEF RecordsFirst

-----------------------------------------------------------------------------
(* Theorems.  The functions the pass is given list an instruction behind   *)
(* what it uses (InLayoutOrder), as compilers lay them out; a function     *)
(* whose blocks are in another order is beyond what is proved.             *)

\* Whatever function the error pass instruments and however far it is, its hooks
\* agree on the name of every register, and no two registers share one, although
\* each helper that is inserted renumbers the results behind it.
THEOREM NamesAlwaysAgree ==
    ASSUME InLayoutOrder
    PROVE  HSpec => []NamesAgree
<1>1. HInit => HInv(FALSE)
  BY HInitOK
<1>2. HInv(FALSE) /\ [HNext]_ir => HInv(FALSE)'
  BY NextKeeps
<1>3. HInv(FALSE) => NamesAgree
  BY InvNames
<1> QED
  BY <1>1, <1>2, <1>3, PTL DEF HSpec

\* A hook stands behind all it computes with, the condition of a select included:
\* the instrumented function is valid whenever the original is.
THEOREM ValuesComputed ==
    ASSUME InLayoutOrder
    PROVE  HSpec => []UsesDefined
<1>1. HInit => HInv(FALSE)
  BY HInitOK
<1>2. HInv(FALSE) /\ [HNext]_ir => HInv(FALSE)'
  BY NextKeeps
<1>3. HInv(FALSE) => UsesDefined
  BY InvUses
<1> QED
  BY <1>1, <1>2, <1>3, PTL DEF HSpec

\* Once the function is instrumented, a hook reads the error of a register behind
\* the hooks that record it, unless the register is only ever an alternative of a
\* select.  Parameters are recorded where instrumentation finds the first known
\* file of the entry block: nothing may use one before that (PopsFirst).
THEOREM RecordsComeFirst ==
    ASSUME InLayoutOrder
    PROVE  HSpec /\ []PopsFirst => []RecordsFirst
<1>1. HInit => HInv(TRUE)
  BY HInitOK
<1>2. HInv(TRUE) /\ PopsFirst /\ [HNext]_ir => HInv(TRUE)'
  BY NextKeeps
<1>3. HInv(TRUE) => RecordsFirst
  BY InvRecords
<1> QED
  BY <1>1, <1>2, <1>3, PTL DEF HSpec

-----------------------------------------------------------------------------
(* The exception pass.  A check is inserted when its operation is visited, *)
(* and so far no check uses the operation's result: the pass sees what     *)
(* uses it in the program.                                                 *)

\* The condition of a check of an operation, which is no comparison: that of the
\* one select that uses its result, if there is one.
CheckOK(f, c) ==
    \E i \in DOMAIN f :
        /\ c.of = f[i].id
        /\ f[i].op # "fcmp" =>
               /\ f[i].op = "arith" /\ c.neg \in BOOLEAN
               /\ ~AltIn(f, f[i].id) => c.cond = Literal
               /\ \A j, k : OnlyUse(f, f[i].id, j, k) /\ f[j].op = "select" =>
                      c.cond = f[j].args[1] /\ (c.neg <=> f[j].args[2] # f[i].id)

CheckFits(f, m, c) ==
    /\ c.op = "hook" => \A k \in DOMAIN c.args : \A i \in DOMAIN f : m < i => c.args[k] # f[i].id
    /\ c.hook = "check" => CheckOK(f, c)
AllChecksFit(f, m) == \A q \in DOMAIN code : CheckFits(f, m, code[q])

CInv == \E f, at, m : Embeds(f, at) /\ Left(f, m) /\ AllChecksFit(f, m)

LEMMA CheckFitsOn ==
    ASSUME NEW f \in Program, NEW m \in Nat, NEW i, i = m + 1, NEW c, CheckFits(f, m, c)
    PROVE  CheckFits(f, i, c)
<1>1. \A j \in DOMAIN f : i < j => m < j
  BY ProgramValid
<1> QED
  BY <1>1 DEF CheckFits

\* An item that fits may be inserted.
LEMMA CheckStep ==
    ASSUME NEW f, NEW at, Embeds(f, at), NEW m, Left(f, m), todo # <<>>, todo' = Tail(todo),
           NEW i, i = m + 1, AllChecksFit(f, m),
           NEW p, NEW before, NEW after, Inserts(p, before, after), before = <<>>,
           \A k \in DOMAIN after : CheckFits(f, i, after[k])
    PROVE  CInv'
<1>1. f \in Program /\ m \in Nat /\ Left(f, i)'
  BY NextLeft DEF Embeds
<1>2. PICK at2 : at2 = Moved(at, p, Len(before), Len(after))
  OBVIOUS
<1>3. Embeds(f, at2)'
  BY <1>2, StaysEmbedded
<1>4. PICK n, l : n = Len(before) /\ l = Len(after)
  OBVIOUS
<1>5. Grows(p, before, after, n, l)
  BY <1>4, InsertFacts
<1>6. ASSUME NEW r \in DOMAIN code', NEW c, c = code'[r]
      PROVE  CheckFits(f, i, c)
  <2>1. \/ \E q \in DOMAIN code : c = code[q]
        \/ \E b : Puts(p, before, after, c, b)
    BY <1>5, <1>6, OldOrPut
  <2>2. CASE \E q \in DOMAIN code : c = code[q]
    BY <1>1, <2>2, CheckFitsOn DEF AllChecksFit
  <2>3. CASE \E b : Puts(p, before, after, c, b)
    BY <2>3 DEF Puts
  <2> QED
    BY <2>1, <2>2, <2>3
<1>7. AllChecksFit(f, i)'
  BY <1>6 DEF AllChecksFit
<1> QED
  BY <1>1, <1>3, <1>7 DEF CInv

\* A visit that inserts no check.
LEMMA NoCheckKeeps ==
    ASSUME CInv, code' = code, todo # <<>>, todo' = Tail(todo)
    PROVE  CInv'
<1>1. PICK f, at, m : Embeds(f, at) /\ Left(f, m) /\ AllChecksFit(f, m)
  BY DEF CInv
<1>2. PICK p : Inserts(p, <<>>, <<>>)
  <2>1. \E p : p \in DOMAIN code
    <3>1. f \in Program /\ at \in [DOMAIN f -> DOMAIN code]
      BY <1>1 DEF Embeds
    <3>2. 1 \in DOMAIN f
      BY <3>1, ProgramValid
    <3> QED
      BY <3>1, <3>2
  <2> QED
    BY <2>1, <1>1, NoStep
<1>3. PICK i : i = m + 1
  OBVIOUS
<1>4. PICK before, after : before = <<>> /\ after = <<>>
  OBVIOUS
<1>5. Inserts(p, before, after) /\ \A k \in DOMAIN after : CheckFits(f, i, after[k])
  BY <1>2, <1>4
<1> QED
  BY <1>1, <1>3, <1>4, <1>5, CheckStep

\* What a check of instruction i uses has been visited.
LEMMA CheckArgs ==
    ASSUME InLayoutOrder, NEW f \in Program, NEW i \in DOMAIN f, f[i].op # "phi",
           NEW args, args = f[i].args \/ args = <<f[i].id>> \o f[i].args
    PROVE  \A k \in DOMAIN args : \A l \in DOMAIN f : i < l => args[k] # f[l].id
<1>1. /\ f[i].args \in Seq(Nat) /\ DOMAIN f = 1..Len(f) /\ Len(f) \in Nat
      /\ \A l \in DOMAIN f : f[l].id # Literal /\ ~IsParameter(f[l].id)
      /\ \A l, j \in DOMAIN f : f[l].id = f[j].id => l = j
  BY ProgramValid DEF Instruction
<1>2. PICK a, v : a = f[i].args /\ v = f[i].id
  OBVIOUS
<1>3. \A k \in DOMAIN args : args[k] = v \/ \E n \in DOMAIN a : args[k] = a[n]
  <2>1. CASE args = a
    BY <2>1
  <2>2. CASE args = <<v>> \o a
    BY <1>1, <1>2, <2>2, OperandsOf
  <2> QED
    BY <1>2, <2>1, <2>2
<1>4. ASSUME NEW n \in DOMAIN a, NEW l \in DOMAIN f, i < l
      PROVE  a[n] # f[l].id
  <2>1. \/ a[n] = Literal \/ IsParameter(a[n])
        \/ \E j \in DOMAIN f : j < i /\ a[n] = f[j].id
    BY <1>2, <1>4, ArgIs
  <2>2. \A j \in DOMAIN f : j < i => j # l
    BY <1>1, <1>4
  <2> QED
    BY <2>1, <2>2, <1>1
<1>5. ASSUME NEW l \in DOMAIN f, i < l
      PROVE  v # f[l].id
  <2>1. i # l
    BY <1>1, <1>5
  <2> QED
    BY <2>1, <1>1, <1>2
<1> QED
  BY <1>3, <1>4, <1>5

LEMMA CheckedKeeps ==
    ASSUME InLayoutOrder, CInv, todo # <<>>, todo' = Tail(todo), IsFPOperation, code' = Checked
    PROVE  CInv'
<1>1. PICK f, at, m : Embeds(f, at) /\ Left(f, m) /\ AllChecksFit(f, m)
  BY DEF CInv
<1>2. PICK i : i = m + 1
  OBVIOUS
<1>3. f \in Program /\ m \in Nat /\ i \in DOMAIN f /\ Head(todo) = f[i].id
  BY <1>1, <1>2, NextLeft DEF Embeds
<1>4. y = f[i] /\ py = at[i] /\ y.op \in {"arith", "fcmp"} /\ at[i] \in DOMAIN code
  <2>1. y = f[i] /\ py = at[i]
    BY <1>1, <1>3, Placed DEF y, py
  <2>2. y.op \in {"arith", "fcmp"}
    BY DEF IsFPOperation
  <2>3. at[i] \in DOMAIN code
    BY <1>1, <1>3 DEF Embeds
  <2> QED
    BY <2>1, <2>2, <2>3
<1>5. PICK v, s : v = f[i].id /\ s = SelectedBasedOnCondition(y.id)
  OBVIOUS
<1>6. /\ s <=> AltIn(f, v)
      /\ \A j, k : OnlyUse(f, v, j, k) => SelectOf(v) = f[j]
  <2>1. \A l \in DOMAIN f : l = i => m < l
    BY <1>2, <1>3
  <2>2. \A q \in Hooks : \A k \in DOMAIN code[q].args : code[q].args[k] # f[i].id
    BY <1>1, <1>3, <2>1 DEF Hooks, AllChecksFit, CheckFits
  <2>3. /\ SelectedBasedOnCondition(v) <=> AltIn(f, v)
        /\ \A j, k : OnlyUse(f, v, j, k) => SelectOf(v) = f[j]
    BY <1>1, <1>5, <2>2, SelectedIn
  <2> QED
    BY <1>4, <1>5, <2>3
<1>7. PICK p, cond, neg, args :
          /\ p = IF s THEN Place(SelectOf(v).id) ELSE at[i]
          /\ cond = IF s THEN SelectOf(v).args[1] ELSE Literal
          /\ neg = (s /\ SelectOf(v).args[2] # v)
          /\ args = IF f[i].op = "fcmp" THEN f[i].args ELSE <<f[i].id>> \o f[i].args
  OBVIOUS
<1>8. p \in DOMAIN code
  <2>1. CASE AltIn(f, v)
    <3>1. PICK j, k : OnlyUse(f, v, j, k)
      BY <2>1 DEF AltIn
    <3>2. p = at[j] /\ j \in DOMAIN f
      BY <1>1, <1>6, <1>7, <2>1, <3>1, Placed DEF OnlyUse
    <3> QED
      BY <1>1, <3>2 DEF Embeds
  <2> QED
    BY <1>4, <1>6, <1>7, <2>1
<1>9. PICK c : c = [Hook("check", f[i], args, <<>>, NoRef) EXCEPT
                       !.bb = code[p].bb, !.cond = cond, !.neg = neg]
  OBVIOUS
<1>10. code' = Spliced(p, <<>>, <<c>>)
  BY <1>4, <1>5, <1>7, <1>9 DEF Checked, Inverted
<1>11. /\ Inserted(c) /\ c.op = "hook" /\ c.hook = "check" /\ c.args = args
       /\ c.of = f[i].id /\ c.cond = cond /\ c.neg = neg
  BY <1>9 DEF Hook, Inserted
<1>12. CheckOK(f, c)
  <2>1. neg \in BOOLEAN /\ (~AltIn(f, v) => cond = Literal)
    BY <1>6, <1>7
  <2>2. ASSUME NEW j, NEW k, OnlyUse(f, v, j, k), f[j].op = "select"
        PROVE  cond = f[j].args[1] /\ (neg <=> f[j].args[2] # v)
    <3>1. s /\ SelectOf(v) = f[j]
      BY <1>6, <2>2 DEF AltIn
    <3> QED
      BY <1>7, <3>1
  <2>3. f[i].op # "fcmp" => f[i].op = "arith"
    BY <1>4
  <2> QED
    BY <1>3, <1>5, <1>11, <2>1, <2>2, <2>3 DEF CheckOK
<1>13. CheckFits(f, i, c)
  <2>1. \A k \in DOMAIN args : \A l \in DOMAIN f : i < l => args[k] # f[l].id
    <3>1. f[i].op # "phi"
      BY <1>4
    <3>2. args = f[i].args \/ args = <<f[i].id>> \o f[i].args
      BY <1>7
    <3> QED
      BY <1>3, <3>1, <3>2, CheckArgs
  <2> QED
    BY <1>11, <1>12, <2>1 DEF CheckFits
<1>14. PICK S, before, after : /\ S = {c} /\ before \in Seq(S) /\ after \in Seq(S)
                               /\ before = <<>> /\ after = <<c>>
  <2>1. <<c>> \in Seq({c}) /\ <<>> \in Seq({c})
    OBVIOUS
  <2> QED
    BY <2>1
<1>15. (\A k \in DOMAIN before : FALSE) /\ (\A k \in DOMAIN after : after[k] = c)
  BY <1>14
<1>16. Inserts(p, before, after)
  <2>1. code' = Spliced(p, before, after)
    BY <1>10, <1>14
  <2> QED
    BY <1>8, <1>11, <1>14, <1>15, <2>1 DEF Inserts
<1>17. before = <<>> /\ \A k \in DOMAIN after : CheckFits(f, i, after[k])
  BY <1>13, <1>14, <1>15
<1> QED
  BY <1>1, <1>2, <1>16, <1>17, CheckStep

LEMMA CInitOK ==
    ASSUME CInit
    PROVE  CInv
<1>1. PICK f : f = code
  OBVIOUS
<1>2. /\ f \in Program /\ f \in Seq(Instruction) /\ DOMAIN f = 1..Len(f) /\ Len(f) \in Nat
      /\ \A i \in DOMAIN f : f[i].id \in Nat /\ f[i] \in Instruction
  BY <1>1, ProgramValid DEF CInit
<1>3. PICK at : at = [i \in DOMAIN f |-> i]
  OBVIOUS
<1>4. Embeds(f, at)
  BY <1>1, <1>2, <1>3 DEF Embeds
<1>5. Left(f, 0)
  <2>1. PICK l, ids : l = Len(f) /\ ids = [i \in 1..l |-> f[i].id]
    OBVIOUS
  <2>2. todo = ids /\ ids \in [1..l -> Nat] /\ l \in Nat
    BY <1>1, <1>2, <2>1 DEF CInit
  <2>3. ids \in Seq(Nat) /\ Len(ids) = l /\ DOMAIN ids = 1..l
    BY <2>1, <2>2
  <2>4. \A k \in 1..l : 0 + k = k
    BY <2>2
  <2>5. \A k \in DOMAIN todo : todo[k] = f[0 + k].id
    BY <2>1, <2>2, <2>3, <2>4
  <2>6. l = l - 0 /\ 0 <= l
    BY <2>2
  <2> QED
    BY <2>1, <2>2, <2>3, <2>5, <2>6 DEF Left
<1>6. AllChecksFit(f, 0)
  BY <1>1, <1>2 DEF AllChecksFit, CheckFits, Instruction, InstructionOp
<1> QED
  BY <1>4, <1>5, <1>6 DEF CInv

LEMMA CNextKeeps ==
    ASSUME InLayoutOrder, CInv, [CNext]_<<ir, fileName>>
    PROVE  CInv'
<1>1. CASE CheckVisit
  <2>1. todo # <<>> /\ todo' = Tail(todo)
    BY <1>1 DEF CheckVisit
  <2>2. CASE IsFPOperation /\ code' = Checked
    BY <2>1, <2>2, CheckedKeeps
  <2>3. CASE code' = code
    BY <2>1, <2>3, NoCheckKeeps
  <2> QED
    BY <1>1, <2>2, <2>3 DEF CheckVisit
<1>2. CASE UNCHANGED <<ir, fileName>>
  <2>1. code' = code /\ todo' = todo
    BY <1>2 DEF ir
  <2>2. PICK f, at, m : Embeds(f, at) /\ Left(f, m) /\ AllChecksFit(f, m)
    BY DEF CInv
  <2>3. Embeds(f, at)' /\ Left(f, m)' /\ AllChecksFit(f, m)'
    BY <2>1, <2>2 DEF Embeds, Left, AllChecksFit
  <2> QED
    BY <2>3 DEF CInv
<1> QED
  BY <1>1, <1>2 DEF CNext

\* The check of an alternative of a select counts when the select takes it.
LEMMA InvFollows ==
    ASSUME CInv
    PROVE  ChecksFollowUse
<1>1. PICK f, at, m : Embeds(f, at) /\ AllChecksFit(f, m)
  BY DEF CInv
<1>2. SUFFICES ASSUME NEW p \in Checks, NEW holds \in BOOLEAN, NEW u \in ProgramUses(code[p].of),
                      ItemOf(code[p].of).op # "fcmp"
               PROVE  IF Alternative(code[p].of)
                      THEN /\ code[p].cond = code[u[1]].args[1]
                           /\ (holds # code[p].neg) <=> TakenIf(u, holds)
                      ELSE code[p].cond = Literal
  BY DEF ChecksFollowUse
<1>3. PICK c : c = code[p]
  OBVIOUS
<1>4. CheckOK(f, c)
  BY <1>1, <1>3 DEF Checks, AllChecksFit, CheckFits
<1>5. PICK i \in DOMAIN f :
          /\ c.of = f[i].id
          /\ f[i].op # "fcmp" =>
                 /\ f[i].op = "arith" /\ c.neg \in BOOLEAN
                 /\ ~AltIn(f, f[i].id) => c.cond = Literal
                 /\ \A j, k : OnlyUse(f, f[i].id, j, k) /\ f[j].op = "select" =>
                        c.cond = f[j].args[1] /\ (c.neg <=> f[j].args[2] # f[i].id)
  BY <1>4 DEF CheckOK
<1>6. PICK v : v = f[i].id
  OBVIOUS
<1>7. ItemOf(v) = f[i]
  BY <1>1, <1>6, Placed
<1>8. f[i].op = "arith" /\ c.neg \in BOOLEAN /\ (~AltIn(f, v) => c.cond = Literal)
  BY <1>2, <1>3, <1>5, <1>6, <1>7
<1>9. PICK l, n : /\ l \in DOMAIN f /\ n \in DOMAIN f[l].args
                  /\ u = <<at[l], n>> /\ f[l].args[n] = v
  BY <1>1, <1>2, <1>3, <1>5, <1>6, ProgramUsesAre
<1>10. Alternative(v) <=> AltIn(f, v)
  BY <1>1, AlternativeIn
<1>11. ASSUME AltIn(f, v)
       PROVE  /\ c.cond = code[u[1]].args[1]
              /\ (holds # c.neg) <=> TakenIf(u, holds)
  <2>1. PICK j, k : OnlyUse(f, v, j, k) /\ f[j].op = "select"
    BY <1>11 DEF AltIn
  <2>2. l = j /\ n = k /\ j \in DOMAIN f /\ f[j].args[k] = v
    BY <1>9, <2>1 DEF OnlyUse
  <2>3. c.cond = f[j].args[1] /\ (c.neg <=> f[j].args[2] # v)
    BY <1>2, <1>5, <1>6, <1>8, <2>1
  <2>4. code[u[1]] = f[j] /\ u[2] = k
    BY <1>1, <1>9, <2>2 DEF Embeds
  <2>5. f \in Program /\ Valid(f)
    BY <1>1, LlvmAssumption DEF Embeds
  <2>6. DOMAIN f[j].args = 1..3
    BY <2>1, <2>2, <2>5, SelectArgs
  <2>7. k # 1
    <3>1. f[i].ty \in {"f32", "f64"}
      BY <1>8, <2>5 DEF Valid
    <3>2. f[i].id = f[j].args[1] => f[i].ty \notin {"f32", "f64"}
      BY <2>1, <2>2, <2>5 DEF Valid
    <3> QED
      BY <3>1, <3>2, <2>2, <1>6
  <2>8. k = 2 \/ k = 3
    BY <1>9, <2>2, <2>6, <2>7
  <2>9. f[j].args[2] = v => k = 2
    BY <2>1, <2>6 DEF OnlyUse
  <2>10. c.neg <=> k = 3
    BY <2>2, <2>3, <2>8, <2>9
  <2>11. (holds # c.neg) <=> TakenIf(u, holds)
    BY <1>8, <2>4, <2>8, <2>10 DEF TakenIf
  <2> QED
    BY <2>3, <2>4, <2>11
<1> QED
  BY <1>3, <1>5, <1>6, <1>8, <1>10, <1>11

\* Whatever function the exception pass instruments, a check of a result counts
\* exactly when the program uses the result, although the pass asks which
\* instructions use it while its own checks, inserted so far, use results too.
THEOREM ChecksCountUse ==
    ASSUME InLayoutOrder
    PROVE  CSpec => []ChecksFollowUse
<1>1. CInit => CInv
  BY CInitOK
<1>2. CInv /\ [CNext]_<<ir, fileName>> => CInv'
  BY CNextKeeps
<1>3. CInv => ChecksFollowUse
  BY InvFollows
<1> QED
  BY <1>1, <1>2, <1>3, PTL DEF CSpec
=============================================================================
