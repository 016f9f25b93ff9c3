------------------------------- MODULE WireProofs -------------------------------
(***************************************************************************)
(* What the reader makes of the cells a runtime wrote, for whatever rows   *)
(* there are in a block and whatever comes after an object: the proofs of  *)
(* Wire; and what the objects of a poll are to it, one after another.      *)
(***************************************************************************)
EXTENDS Readings, FoldFacts, SequenceTheorems

----------------------------------------------------------------------------
(* The largest of numbers.                                                 *)

\* Some numbers up to n have a largest one.
LEMMA MaxIsMember ==
  ASSUME NEW n \in Nat, NEW s \in SUBSET (1 .. n), s # {}
  PROVE  Max(s) \in s
<1>. DEFINE top(r) == \E x \in r : \A y \in r : x >= y
            good == {k \in Nat : \A r \in SUBSET (1 .. k) : r # {} => top(r)}
<1>1. 0 \in good
  BY 1 .. 0 = {}
<1>2. ASSUME NEW k \in Nat, k \in good PROVE k + 1 \in good
  <2>1. ASSUME NEW r \in SUBSET (1 .. k + 1), r # {} PROVE top(r)
    <3>1. CASE k + 1 \in r
      BY <3>1
    <3>2. CASE k + 1 \notin r
      <4>1. r \in SUBSET (1 .. k)
        BY <3>2
      <4>. QED  BY <1>2, <2>1, <4>1
    <3>. QED  BY <3>1, <3>2
  <2>. HIDE DEF top
  <2>. QED  BY <2>1
<1>3. Nat \subseteq good
  <2>. HIDE DEF good
  <2>. QED  BY <1>1, <1>2, NumbersByInduction
<1>4. top(s)
  <2>. HIDE DEF top
  <2>. QED  BY <1>3
<1>. QED  BY <1>4 DEF Max

\* The larger of two numbers.
LEMMA MaxOfTwo ==
  ASSUME NEW a \in Int, NEW b \in Int
  PROVE  Max({a, b}) = IF a >= b THEN a ELSE b
BY DEF Max

\* The smaller of two numbers.
LEMMA MinOfTwo ==
  ASSUME NEW a \in Int, NEW b \in Int
  PROVE  Min({a, b}) = IF a <= b THEN a ELSE b
BY DEF Min

\* The largest of some numbers up to one that is among them.
LEMMA MaxIsLast ==
  ASSUME NEW k \in Nat, NEW s \in SUBSET (1 .. k + 1), k + 1 \in s
  PROVE  Max(s) = k + 1
<1>1. \A y \in s : k + 1 >= y
  OBVIOUS
<1>2. \A x \in s : (\A y \in s : x >= y) => x = k + 1
  OBVIOUS
<1>. QED  BY <1>1, <1>2 DEF Max

\* The largest of the first numbers.
LEMMA MaxOfFirst ==
  ASSUME NEW k \in Nat \ {0}
  PROVE  Max(1 .. k) = k
<1>1. k \in 1 .. k /\ \A y \in 1 .. k : k >= y
  OBVIOUS
<1>2. \A x \in 1 .. k : (\A y \in 1 .. k : x >= y) => x = k
  OBVIOUS
<1>. QED  BY <1>1, <1>2 DEF Max

----------------------------------------------------------------------------
(* Cells that lie among others.                                            *)

\* s is in c, after its first at.
Lies(s, c, at) == at + Len(s) <= Len(c) /\ \A k \in 1 .. Len(s) : c[at + k] = s[k]

\* One sequence after another lies where the first ends.
LEMMA LiesInParts ==
  ASSUME NEW T, NEW s \in Seq(T), NEW t \in Seq(T), NEW c, Len(c) \in Nat, NEW at \in Nat,
         Lies(s \o t, c, at)
  PROVE  /\ Lies(s, c, at) /\ Lies(t, c, at + Len(s))
         /\ s \o t \in Seq(T) /\ Len(s \o t) = Len(s) + Len(t)
<1>. DEFINE m == Len(s)
            n == Len(t)
            u == s \o t
<1>1. m \in Nat /\ n \in Nat
  BY LenProperties
<1>2. /\ Len(u) = m + n /\ u \in Seq(T)
      /\ \A i \in 1 .. m + n : u[i] = IF i <= m THEN s[i] ELSE t[i - m]
  <2>. HIDE DEF m, n, u
  <2>. QED  BY ConcatProperties DEF m, n, u
<1>3. at + Len(u) <= Len(c) /\ \A k \in 1 .. Len(u) : c[at + k] = u[k]
  BY DEF Lies
<1>. HIDE DEF m, n, u
<1>4. at + m <= Len(c) /\ (at + m) + n <= Len(c)
  BY <1>1, <1>2, <1>3
<1>5. ASSUME NEW k \in 1 .. m PROVE c[at + k] = s[k]
  <2>1. k \in 1 .. m + n /\ k <= m
    BY <1>1
  <2>. QED  BY <1>2, <1>3, <2>1
<1>6. ASSUME NEW k \in 1 .. n PROVE c[(at + m) + k] = t[k]
  <2>1. m + k \in 1 .. m + n /\ ~(m + k <= m) /\ (m + k) - m = k /\ (at + m) + k = at + (m + k)
    BY <1>1
  <2>. QED  BY <1>2, <1>3, <2>1
<1>. QED  BY <1>2, <1>4, <1>5, <1>6 DEF Lies, m, n, u

\* What lies in a part lies in the whole.
LEMMA LiesWithin ==
  ASSUME NEW s, Len(s) \in Nat, NEW c, Len(c) \in Nat, NEW at \in Nat, Lies(s, c, at),
         NEW d, Len(d) \in Nat, NEW from \in Nat, Lies(c, d, from)
  PROVE  Lies(s, d, from + at)
<1>. DEFINE m == Len(s)
            n == Len(c)
<1>1. /\ at + m <= n /\ \A k \in 1 .. m : c[at + k] = s[k]
      /\ from + n <= Len(d) /\ \A k \in 1 .. n : d[from + k] = c[k]
      /\ m \in Nat /\ n \in Nat
  BY DEF Lies
<1>. HIDE DEF m, n
<1>2. (from + at) + m <= Len(d)
  BY <1>1
<1>3. ASSUME NEW k \in 1 .. m PROVE d[(from + at) + k] = s[k]
  <2>1. at + k \in 1 .. n /\ (from + at) + k = from + (at + k)
    BY <1>1
  <2>. QED  BY <1>1, <2>1
<1>. QED  BY <1>2, <1>3 DEF Lies, m

\* A sequence lies in itself, also when more comes before it and after.
LEMMA LiesInItself ==
  ASSUME NEW s, Len(s) \in Nat
  PROVE  Lies(s, s, 0)
BY DEF Lies

LEMMA LiesBetween ==
  ASSUME NEW T, NEW s \in Seq(T), NEW t \in Seq(T)
  PROVE  Lies(s, s \o t, 0) /\ Lies(t, s \o t, Len(s))
<1>. DEFINE u == s \o t
<1>1. u \in Seq(T)
  BY ConcatProperties
<1>2. Len(u) \in Nat
  BY <1>1, LenProperties
<1>3. Lies(u, u, 0)
  BY <1>2, LiesInItself
<1>4. Lies(s, u, 0) /\ Lies(t, u, 0 + Len(s))
  <2>. HIDE DEF u
  <2>1. Lies(s \o t, u, 0)
    BY <1>3 DEF u
  <2>. QED  BY <1>2, <2>1, LiesInParts
<1>5. 0 + Len(s) = Len(s)
  BY LenProperties
<1>. QED  BY <1>4, <1>5

\* The part in which a sequence lies is that sequence.
LEMMA LiesIsPart ==
  ASSUME NEW T, NEW s \in Seq(T), NEW c, NEW at \in Nat, Len(c) \in Nat, Lies(s, c, at)
  PROVE  SubSeq(c, at + 1, at + Len(s)) = s
<1>. DEFINE n == Len(s)
            part == SubSeq(c, at + 1, at + n)
<1>1. n \in Nat /\ \A k \in 1 .. n : c[at + k] = s[k]
  BY LenProperties DEF Lies
<1>2. \A i \in at + 1 .. at + n : c[i] \in T
  <2>1. ASSUME NEW i \in at + 1 .. at + n PROVE c[i] \in T
    <3>. HIDE DEF n
    <3>1. i - at \in 1 .. n /\ at + (i - at) = i
      BY <1>1
    <3>2. s[i - at] \in T
      BY <3>1, ElementOfSeq DEF n
    <3>. QED  BY <1>1, <3>1, <3>2
  <2>. QED  BY <2>1
<1>. HIDE DEF n
<1>3. at + 1 \in Int /\ at + n \in Int
  BY <1>1
<1>4. /\ part \in Seq(T)
      /\ Len(part) = IF at + 1 <= at + n THEN (at + n) - (at + 1) + 1 ELSE 0
      /\ \A i \in 1 .. (at + n) - (at + 1) + 1 : part[i] = c[(at + 1) + i - 1]
  BY <1>2, <1>3, SubSeqProperties
<1>. HIDE DEF part
<1>5. Len(part) = n
  BY <1>1, <1>4
<1>6. ASSUME NEW i \in 1 .. n PROVE part[i] = s[i]
  <2>1. i \in 1 .. (at + n) - (at + 1) + 1 /\ (at + 1) + i - 1 = at + i
    BY <1>1
  <2>. QED  BY <1>1, <1>4, <2>1
<1>7. part = s
  BY <1>4, <1>5, <1>6, SeqEqual DEF n
<1>. QED  BY <1>7 DEF part, n

----------------------------------------------------------------------------
(* A sequence of numbers added up.                                         *)

\* What FoldLeft computes, for each set of places.
IsAdding(d, s) ==
  d = [u \in SUBSET DOMAIN s |-> IF u = {} THEN 0 ELSE d[u \ {Max(u)}] + s[Max(u)]]
Adding(s) == CHOOSE d : IsAdding(d, s)

\* FoldLeft is that computation for all the places.
LEMMA AddedUp ==
  ASSUME NEW s
  PROVE  FoldLeft(+, 0, s) = Adding(s)[DOMAIN s]
BY DEF FoldLeft, MapThenFoldSet, Adding, IsAdding

\* Numbers, n of them, and their running totals.
IntsOf(s, n) == DOMAIN s = 1 .. n /\ \A i \in 1 .. n : s[i] \in Int
AreTotals(t, s, n) ==
  t \in [0 .. n -> Int] /\ t[0] = 0 /\ \A k \in 1 .. n : t[k] = t[k - 1] + s[k]

\* The last running total is what they add up to.
LEMMA TotalsExist ==
  ASSUME NEW n \in Nat, NEW s, IntsOf(s, n)
  PROVE  \E t : AreTotals(t, s, n) /\ FoldLeft(+, 0, s) = t[n]
<1>0. DOMAIN s = 1 .. n /\ \A i \in 1 .. n : s[i] \in Int
  BY DEF IntsOf
<1>. DEFINE places == DOMAIN s
            next == [it \in places \X Int |-> it[2] + s[it[1]]]
            pick == [u \in SUBSET places |-> Max(u)]
<1>1. IsFiniteSet(places)
  BY <1>0, FS_Interval
<1>2. next \in [places \X Int -> Int]
  BY <1>0
<1>3. \A u \in SUBSET places : pick[u] = Max(u)
  OBVIOUS
<1>4. \A u \in SUBSET places : u # {} => pick[u] \in u
  <2>. HIDE DEF pick
  <2>. QED  BY <1>0, <1>3, MaxIsMember
<1>5. PICK d \in [SUBSET places -> Int] : IsFoldBy(d, places, 0, next, pick)
  <2>. HIDE DEF places, next, pick
  <2>. QED  BY <1>1, <1>2, <1>4, FoldByExists, 0 \in Int
<1>6. IsAdding(d, s)
  <2>1. ASSUME NEW u \in SUBSET places, u # {} PROVE d[u] = d[u \ {Max(u)}] + s[Max(u)]
    <3>. HIDE DEF places, pick, next
    <3>0. d[u] = next[<<pick[u], d[u \ {pick[u]}]>>]
      BY <1>5, <2>1, Zenon DEF IsFoldBy
    <3>1. d[u] = next[<<Max(u), d[u \ {Max(u)}]>>] /\ Max(u) \in places
      BY <1>3, <1>4, <2>1, <3>0
    <3>. USE DEF next
    <3>2. d[u \ {Max(u)}] \in Int
      OBVIOUS
    <3>. QED  BY <3>1, <3>2
  <2>2. \A u \in SUBSET places : u = {} => d[u] = 0
    <3>. HIDE DEF places, next, pick
    <3>. QED  BY <1>5 DEF IsFoldBy
  <2>3. d = [u \in SUBSET places |-> d[u]]
    OBVIOUS
  <2>. HIDE DEF next, pick
  <2>. QED  BY <2>1, <2>2, <2>3 DEF IsAdding
<1>. DEFINE D == Adding(s)
            t == [k \in 0 .. n |-> D[1 .. k]]
<1>7. IsAdding(D, s)
  BY <1>6 DEF Adding
<1>8. FoldLeft(+, 0, s) = D[1 .. n]
  BY <1>0, AddedUp
<1>. HIDE DEF D
<1>9. t[0] = 0
  <2>1. 1 .. 0 = {} /\ 0 \in 0 .. n
    OBVIOUS
  <2>. QED  BY <1>7, <2>1 DEF IsAdding
<1>10. ASSUME NEW k \in 1 .. n PROVE t[k] = t[k - 1] + s[k]
  <2>1. Max(1 .. k) = k
    <3>1. k \in 1 .. k /\ \A y \in 1 .. k : k >= y
      OBVIOUS
    <3>2. \A x \in 1 .. k : (\A y \in 1 .. k : x >= y) => x = k
      OBVIOUS
    <3>. QED  BY <3>1, <3>2 DEF Max
  <2>2. (1 .. k) \ {k} = 1 .. k - 1 /\ 1 .. k \in SUBSET DOMAIN s /\ 1 .. k # {}
    BY <1>0
  <2>3. D[1 .. k] = D[1 .. k - 1] + s[k]
    BY <1>7, <2>1, <2>2 DEF IsAdding
  <2>. QED  BY <2>3
<1>11. \A k \in 0 .. n : t[k] \in Int
  <2>. DEFINE good == {k \in Nat : k <= n => t[k] \in Int}
  <2>. HIDE DEF t
  <2>1. 0 \in good
    BY <1>9
  <2>2. ASSUME NEW k \in Nat, k \in good PROVE k + 1 \in good
    <3>. SUFFICES ASSUME k + 1 <= n PROVE t[k + 1] \in Int
      OBVIOUS
    <3>1. k + 1 \in 1 .. n /\ (k + 1) - 1 = k /\ t[k] \in Int
      BY <2>2
    <3>2. t[k + 1] = t[k] + s[k + 1] /\ s[k + 1] \in Int
      BY <1>0, <1>10, <3>1
    <3>. QED  BY <3>1, <3>2
  <2>3. Nat \subseteq good
    <3>. HIDE DEF good
    <3>. QED  BY <2>1, <2>2, NumbersByInduction
  <2>. QED  BY <2>3
<1>12. t \in [0 .. n -> Int] /\ t[n] = D[1 .. n]
  <2>1. t = [k \in 0 .. n |-> t[k]] /\ n \in 0 .. n
    OBVIOUS
  <2>. QED  BY <1>11, <2>1
<1>. HIDE DEF t
<1>. QED  BY <1>8, <1>9, <1>10, <1>12 DEF AreTotals

\* Up to three numbers.
LEMMA AddedOne ==
  ASSUME NEW s, IntsOf(s, 1)
  PROVE  FoldLeft(+, 0, s) = s[1]
<1>. DEFINE total == FoldLeft(+, 0, s)
<1>1. PICK t : AreTotals(t, s, 1) /\ total = t[1]
  BY TotalsExist
<1>. HIDE DEF total
<1>2. t[1] = t[0] + s[1] /\ t[0] = 0
  <2>1. 1 \in 1 .. 1 /\ 1 - 1 = 0
    OBVIOUS
  <2>2. t[1] = t[1 - 1] + s[1] /\ t[0] = 0
    BY <1>1, <2>1 DEF AreTotals
  <2>. QED  BY <2>1, <2>2
<1>3. s[1] \in Int
  BY DEF IntsOf
<1>4. total = s[1]
  BY <1>1, <1>2, <1>3
<1>. QED  BY <1>4 DEF total

\* Two numbers.
LEMMA AddedTwo ==
  ASSUME NEW s, IntsOf(s, 2)
  PROVE  FoldLeft(+, 0, s) = s[1] + s[2]
<1>. DEFINE total == FoldLeft(+, 0, s)
<1>1. PICK t : AreTotals(t, s, 2) /\ total = t[2]
  BY TotalsExist
<1>. HIDE DEF total
<1>2. t[1] = t[0] + s[1] /\ t[2] = t[1] + s[2] /\ t[0] = 0
  <2>1. 1 \in 1 .. 2 /\ 2 \in 1 .. 2 /\ 1 - 1 = 0 /\ 2 - 1 = 1
    OBVIOUS
  <2>2. t[1] = t[1 - 1] + s[1] /\ t[2] = t[2 - 1] + s[2] /\ t[0] = 0
    BY <1>1, <2>1 DEF AreTotals
  <2>. QED  BY <2>1, <2>2
<1>3. s[1] \in Int /\ s[2] \in Int
  BY DEF IntsOf
<1>4. total = s[1] + s[2]
  BY <1>1, <1>2, <1>3
<1>. QED  BY <1>4 DEF total

\* Three numbers.
LEMMA AddedThree ==
  ASSUME NEW s, IntsOf(s, 3)
  PROVE  FoldLeft(+, 0, s) = s[1] + s[2] + s[3]
<1>. DEFINE total == FoldLeft(+, 0, s)
<1>1. PICK t : AreTotals(t, s, 3) /\ total = t[3]
  BY TotalsExist
<1>. HIDE DEF total
<1>2. t[1] = t[0] + s[1] /\ t[2] = t[1] + s[2] /\ t[3] = t[2] + s[3] /\ t[0] = 0
  <2>1. /\ 1 \in 1 .. 3 /\ 2 \in 1 .. 3 /\ 3 \in 1 .. 3
        /\ 1 - 1 = 0 /\ 2 - 1 = 1 /\ 3 - 1 = 2
    OBVIOUS
  <2>2. t[1] = t[1 - 1] + s[1] /\ t[2] = t[2 - 1] + s[2] /\ t[3] = t[3 - 1] + s[3] /\ t[0] = 0
    BY <1>1, <2>1 DEF AreTotals
  <2>. QED  BY <2>1, <2>2
<1>3. s[1] \in Int /\ s[2] \in Int /\ s[3] \in Int
  BY DEF IntsOf
<1>4. total = s[1] + s[2] + s[3]
  BY <1>1, <1>2, <1>3
<1>. QED  BY <1>4 DEF total

----------------------------------------------------------------------------
(* Varuints.                                                               *)

\* The first cells of some.
LEMMA Shortened ==
  ASSUME NEW c \in Seq(Nat), NEW m \in Nat, m <= Len(c)
  PROVE  Len(SubSeq(c, 1, m)) = m /\ \A j \in 1 .. m : SubSeq(c, 1, m)[j] = c[j]
OBVIOUS

\* The cells of a varuint, lowest digit first.
AreCells(c) == c \in Seq(Nat) /\ Len(c) \in 1 .. 3
DigitAt(c, j) == (c[j] % Digit) * (Digit ^ (j - 1))
ValueOf(c) ==
  IF Len(c) = 1 THEN DigitAt(c, 1)
  ELSE IF Len(c) = 2 THEN DigitAt(c, 1) + DigitAt(c, 2)
  ELSE DigitAt(c, 1) + DigitAt(c, 2) + DigitAt(c, 3)

\* The digits add up to the value.
LEMMA DigitsAddUp ==
  ASSUME NEW s, AreCells(s), NEW low,
         low = [j \in 1 .. Len(s) |-> (s[j] % Digit) * (Digit ^ (j - 1))]
  PROVE  FoldLeft(+, 0, low) = ValueOf(s)
<1>. DEFINE n == Len(s)
<1>1. n \in 1 .. 3
  BY DEF AreCells
<1>5. \A j \in 1 .. n : low[j] = DigitAt(s, j) /\ low[j] \in Int
  <2>1. ASSUME NEW j \in 1 .. n PROVE low[j] = DigitAt(s, j)
    BY DEF DigitAt
  <2>2. ASSUME NEW j \in 1 .. n PROVE DigitAt(s, j) \in Int
    <3>1. s[j] \in Nat
      BY DEF AreCells
    <3>2. j = 1 \/ j = 2 \/ j = 3
      BY <1>1
    <3>3. 1 - 1 = 0 /\ 2 - 1 = 1 /\ 3 - 1 = 2
      OBVIOUS
    <3>. QED  BY <3>1, <3>2, <3>3 DEF DigitAt, Digit
  <2>. QED  BY <2>1, <2>2
<1>6. IntsOf(low, n)
  <2>1. DOMAIN low = 1 .. n
    OBVIOUS
  <2>. HIDE DEF n
  <2>. QED  BY <1>5, <2>1 DEF IntsOf
<1>. HIDE DEF n
<1>7. CASE n = 1
  <2>1. FoldLeft(+, 0, low) = low[1]
    BY <1>6, <1>7, AddedOne
  <2>2. 1 \in 1 .. n
    BY <1>7
  <2>. QED  BY <1>5, <1>7, <2>1, <2>2 DEF ValueOf, n
<1>8. CASE n = 2
  <2>1. FoldLeft(+, 0, low) = low[1] + low[2]
    BY <1>6, <1>8, AddedTwo
  <2>2. 1 \in 1 .. n /\ 2 \in 1 .. n
    BY <1>8
  <2>3. low[1] = DigitAt(s, 1) /\ low[2] = DigitAt(s, 2)
    BY <1>5, <2>2
  <2>4. ValueOf(s) = DigitAt(s, 1) + DigitAt(s, 2)
    <3>1. Len(s) = 2
      BY <1>8 DEF n
    <3>. QED  BY <3>1 DEF ValueOf
  <2>. QED  BY <2>1, <2>3, <2>4
<1>9. CASE n = 3
  <2>1. FoldLeft(+, 0, low) = low[1] + low[2] + low[3]
    BY <1>6, <1>9, AddedThree
  <2>2. 1 \in 1 .. n /\ 2 \in 1 .. n /\ 3 \in 1 .. n
    BY <1>9
  <2>3. low[1] = DigitAt(s, 1) /\ low[2] = DigitAt(s, 2) /\ low[3] = DigitAt(s, 3)
    BY <1>5, <2>2
  <2>4. ValueOf(s) = DigitAt(s, 1) + DigitAt(s, 2) + DigitAt(s, 3)
    <3>1. Len(s) = 3
      BY <1>9 DEF n
    <3>. QED  BY <3>1 DEF ValueOf
  <2>. QED  BY <2>1, <2>3, <2>4
<1>10. n = 1 \/ n = 2 \/ n = 3
  BY <1>1
<1>. QED  BY <1>7, <1>8, <1>9, <1>10

\* Cells that end with the only one without a continuation.
IsVarUint(s) ==
  AreCells(s) /\ s[Len(s)] < Digit /\ \A j \in 1 .. Len(s) - 1 : ~(s[j] < Digit)

\* A varuint ends at the first cell without a continuation, whatever follows.
LEMMA VarUintOf ==
  ASSUME NEW s, IsVarUint(s), NEW c, Len(c) \in Nat, NEW at \in Nat, Lies(s, c, at),
         NEW digits \in 1 .. 3, Len(s) <= digits, NEW word
  PROVE  VarUint(c, at, digits, word) = ReadAs(ValueOf(s) % word, at + Len(s))
<1>. DEFINE n == Len(s)
            last == {k \in 1 .. digits : at + k <= Len(c) /\ c[at + k] < Digit}
            low == [j \in 1 .. n |-> (c[at + j] % Digit) * (Digit ^ (j - 1))]
<1>1. /\ n \in 1 .. 3 /\ n <= digits /\ at + n <= Len(c) /\ s[n] < Digit
      /\ \A j \in 1 .. n : c[at + j] = s[j]
      /\ \A j \in 1 .. n - 1 : ~(s[j] < Digit)
  BY DEF IsVarUint, AreCells, Lies
<1>. HIDE DEF n
<1>2. n \in last
  BY <1>1
<1>3. ASSUME NEW k \in last PROVE n <= k
  <2>. SUFFICES ASSUME k < n PROVE FALSE
    BY <1>1
  <2>1. k \in 1 .. n - 1 /\ k \in 1 .. n
    BY <1>1
  <2>. QED  BY <1>1, <2>1
<1>4. Min(last) = n
  <2>1. last \subseteq Int
    OBVIOUS
  <2>. HIDE DEF last
  <2>2. \A x \in last : (\A y \in last : x <= y) => x = n
    BY <1>1, <1>2, <1>3, <2>1
  <2>. QED  BY <1>2, <1>3, <2>2 DEF Min
<1>5. FoldLeft(+, 0, low) = ValueOf(s)
  <2>1. low = [j \in 1 .. n |-> (s[j] % Digit) * (Digit ^ (j - 1))]
    BY <1>1
  <2>. HIDE DEF low
  <2>. QED  BY <2>1, DigitsAddUp DEF IsVarUint, n
<1>6. VarUint(c, at, digits, word) =
        IF last = {} THEN NotRead
        ELSE ReadAs(FoldLeft(+, 0, [j \in 1 .. Min(last) |->
                      (c[at + j] % Digit) * (Digit ^ (j - 1))]) % word, at + Min(last))
  BY DEF VarUint
<1>. HIDE DEF last
<1>7. VarUint(c, at, digits, word) = ReadAs(FoldLeft(+, 0, low) % word, at + n)
  BY <1>2, <1>4, <1>6 DEF low
<1>. HIDE DEF low
<1>. QED  BY <1>5, <1>7 DEF n

\* One without an end is not read.
LEMMA VarUintCut ==
  ASSUME NEW c, NEW digits \in Nat, NEW word, Len(c) \in Nat,
         \A j \in 1 .. Len(c) : ~(c[j] < Digit)
  PROVE  VarUint(c, 0, digits, word) = NotRead
<1>1. {k \in 1 .. digits : 0 + k <= Len(c) /\ c[0 + k] < Digit} = {}
  OBVIOUS
<1>. QED  BY <1>1 DEF VarUint

\* What is written of a number that three digits can hold is a varuint of that number.
LEMMA WrittenIs ==
  ASSUME NEW n \in Nat, n < 4096
  PROVE  /\ IsVarUint(Written(n)) /\ ValueOf(Written(n)) = n
         /\ n < 256 => Len(Written(n)) <= 2
<1>0. Digit = 16 /\ Digit ^ 2 = 256 /\ Digit ^ 3 = 4096 /\ Digit ^ 1 = 16 /\ Digit ^ 0 = 1
  BY DEF Digit
<1>. DEFINE c == Written(n)
<1>1. CASE n < 16
  <2>1. c = <<n>>
    BY <1>0, <1>1 DEF Written
  <2>2. Len(c) = 1 /\ c[1] = n /\ c \in Seq(Nat)
    BY <2>1
  <2>3. IsVarUint(c)
    BY <1>0, <1>1, <2>2 DEF IsVarUint, AreCells
  <2>4. ValueOf(c) = n
    <3>1. DigitAt(c, 1) = (n % 16) * 1
      BY <1>0, <2>2 DEF DigitAt
    <3>. QED  BY <1>1, <2>2, <3>1 DEF ValueOf
  <2>. QED  BY <2>2, <2>3, <2>4
<1>2. CASE n >= 16 /\ n < 256
  <2>. DEFINE low == 16 + (n % 16)
              high == n \div 16
  <2>1. c = <<low, high>>
    BY <1>0, <1>2 DEF Written
  <2>2. low \in Nat /\ low >= 16 /\ high \in Nat /\ high < 16
    BY <1>2
  <2>3. low % 16 = n % 16 /\ high % 16 = high /\ (n % 16) * 1 + high * 16 = n
    BY <1>2
  <2>. HIDE DEF low, high, c
  <2>4. Len(c) = 2 /\ c[1] = low /\ c[2] = high /\ c \in Seq(Nat)
    BY <2>1, <2>2
  <2>5. IsVarUint(c)
    BY <1>0, <2>2, <2>4 DEF IsVarUint, AreCells
  <2>6. DigitAt(c, 1) = (n % 16) * 1 /\ DigitAt(c, 2) = high * 16
    BY <1>0, <2>3, <2>4 DEF DigitAt
  <2>7. ValueOf(c) = n
    BY <2>3, <2>4, <2>6 DEF ValueOf
  <2>. QED  BY <2>4, <2>5, <2>7 DEF c
<1>3. CASE n >= 256
  <2>. DEFINE low == 16 + (n % 16)
              mid == 16 + ((n \div 16) % 16)
              high == n \div 256
              m == (n \div 16) % 16
  <2>1. c = <<low, mid, high>>
    BY <1>0, <1>3 DEF Written
  <2>2. /\ low \in Nat /\ low >= 16 /\ mid \in Nat /\ mid >= 16
        /\ high \in Nat /\ high < 16
    BY <1>3
  <2>3. /\ low % 16 = n % 16 /\ mid % 16 = m /\ high % 16 = high
        /\ (n % 16) * 1 + m * 16 + high * 256 = n
    BY <1>3
  <2>. HIDE DEF low, mid, high, m, c
  <2>4. Len(c) = 3 /\ c[1] = low /\ c[2] = mid /\ c[3] = high /\ c \in Seq(Nat)
    BY <2>1, <2>2
  <2>5. IsVarUint(c)
    BY <1>0, <2>2, <2>4 DEF IsVarUint, AreCells
  <2>6. /\ DigitAt(c, 1) = (n % 16) * 1 /\ DigitAt(c, 2) = m * 16
        /\ DigitAt(c, 3) = high * 256
    BY <1>0, <2>3, <2>4 DEF DigitAt
  <2>7. ValueOf(c) = n
    BY <2>3, <2>4, <2>6 DEF ValueOf
  <2>. QED  BY <1>3, <2>5, <2>7 DEF c
<1>. QED  BY <1>1, <1>2, <1>3

\* So it is read back wherever it lies, cut to its word.
LEMMA VarUintReadsBack ==
  ASSUME NEW n \in Nat, NEW c, Len(c) \in Nat, NEW at \in Nat, Lies(Written(n), c, at),
         NEW digits, NEW word,
         (n < 256 /\ digits = 2) \/ (n < 4096 /\ digits = 3)
  PROVE  VarUint(c, at, digits, word) = ReadAs(n % word, at + Len(Written(n)))
<1>1. n < 4096
  OBVIOUS
<1>. DEFINE s == Written(n)
            l == Len(s)
<1>2. IsVarUint(s) /\ ValueOf(s) = n /\ (n < 256 => l <= 2)
  BY <1>1, WrittenIs
<1>3. l \in 1 .. 3
  BY <1>2 DEF IsVarUint, AreCells
<1>. HIDE DEF s, l
<1>4. l <= digits /\ digits \in 1 .. 3
  BY <1>2, <1>3
<1>5. Lies(s, c, at)
  BY DEF s
<1>6. VarUint(c, at, digits, word) = ReadAs(ValueOf(s) % word, at + l)
  BY <1>2, <1>4, <1>5, VarUintOf DEF l
<1>. QED  BY <1>2, <1>6 DEF s, l

----------------------------------------------------------------------------
(* The fields of a header.                                                 *)

\* What a field makes of what has been read, if it is there.
Taken(c, flags, r, f) == IF Present(flags, f) THEN TakeField(c, r, f[1]) ELSE r

\* What the fold over the first n fields computes, for each set of their places.
IsTakingFields(d, n, c, flags, base) ==
  d = [s \in SUBSET (1 .. n) |->
         IF s = {} THEN base ELSE Taken(c, flags, d[s \ {Max(s)}], HeaderFields[Max(s)])]

\* There is such a computation.
LEMMA TakingFieldsExists ==
  ASSUME NEW n \in Nat, NEW c, NEW flags, NEW base
  PROVE  \E d : IsTakingFields(d, n, c, flags, base)
<1>. DEFINE good == {k \in Nat : \E d : IsTakingFields(d, k, c, flags, base)}
<1>1. 0 \in good
  <2>. DEFINE d == [s \in SUBSET (1 .. 0) |-> base]
  <2>1. \A s \in SUBSET (1 .. 0) : s = {}
    OBVIOUS
  <2>2. IsTakingFields(d, 0, c, flags, base)
    BY <2>1 DEF IsTakingFields
  <2>. QED  BY <2>2
<1>2. ASSUME NEW k \in Nat, k \in good PROVE k + 1 \in good
  <2>1. PICK d : IsTakingFields(d, k, c, flags, base)
    BY <1>2
  <2>. DEFINE last(s) == Taken(c, flags, d[s \ {k + 1}], HeaderFields[k + 1])
              g == [s \in SUBSET (1 .. k + 1) |-> IF k + 1 \in s THEN last(s) ELSE d[s]]
  <2>2. ASSUME NEW s \in SUBSET (1 .. k + 1), s # {}
        PROVE  g[s] = Taken(c, flags, g[s \ {Max(s)}], HeaderFields[Max(s)])
    <3>1. CASE k + 1 \in s
      <4>1. Max(s) = k + 1
        BY <3>1, MaxIsLast
      <4>2. s \ {k + 1} \in SUBSET (1 .. k + 1) /\ k + 1 \notin s \ {k + 1}
        OBVIOUS
      <4>3. g[s \ {k + 1}] = d[s \ {k + 1}]
        BY <4>2
      <4>4. g[s] = last(s)
        BY <3>1
      <4>. HIDE DEF g
      <4>. QED  BY <4>1, <4>3, <4>4
    <3>2. CASE k + 1 \notin s
      <4>1. s \in SUBSET (1 .. k)
        BY <3>2
      <4>2. Max(s) \in s
        BY <2>2, <4>1, MaxIsMember
      <4>3. d[s] = Taken(c, flags, d[s \ {Max(s)}], HeaderFields[Max(s)])
        BY <2>1, <2>2, <4>1 DEF IsTakingFields
      <4>4. s \ {Max(s)} \in SUBSET (1 .. k + 1) /\ k + 1 \notin s \ {Max(s)}
        BY <3>2
      <4>5. g[s] = d[s] /\ g[s \ {Max(s)}] = d[s \ {Max(s)}]
        BY <3>2, <4>4
      <4>. HIDE DEF g
      <4>. QED  BY <4>3, <4>5
    <3>. QED  BY <3>1, <3>2
  <2>3. g[{}] = base
    <3>1. d[{}] = base
      BY <2>1 DEF IsTakingFields
    <3>. QED  BY <3>1
  <2>4. g = [s \in SUBSET (1 .. k + 1) |-> g[s]]
    OBVIOUS
  <2>5. IsTakingFields(g, k + 1, c, flags, base)
    <3>. HIDE DEF g
    <3>. QED  BY <2>2, <2>3, <2>4 DEF IsTakingFields
  <2>. HIDE DEF g
  <2>. QED  BY <2>5
<1>3. Nat \subseteq good
  <2>. HIDE DEF good
  <2>. QED  BY <1>1, <1>2, NumbersByInduction
<1>. QED  BY <1>3

\* It takes the fields one after another.
LEMMA TakingFieldsGoes ==
  ASSUME NEW n \in Nat, NEW c, NEW flags, NEW base, NEW d, IsTakingFields(d, n, c, flags, base)
  PROVE  /\ d[1 .. 0] = base
         /\ \A k \in 1 .. n : d[1 .. k] = Taken(c, flags, d[1 .. k - 1], HeaderFields[k])
<1>1. IsTakingFields(d, n, c, flags, base)
  OBVIOUS
<1>2. d[1 .. 0] = base
  <2>1. 1 .. 0 = {}
    OBVIOUS
  <2>. QED  BY <1>1, <2>1 DEF IsTakingFields
<1>3. ASSUME NEW k \in 1 .. n PROVE d[1 .. k] = Taken(c, flags, d[1 .. k - 1], HeaderFields[k])
  <2>1. 1 .. k \in SUBSET (1 .. n) /\ 1 .. k # {} /\ (1 .. k) \ {k} = 1 .. k - 1
    OBVIOUS
  <2>2. Max(1 .. k) = k
    BY MaxOfFirst
  <2>. QED  BY <1>1, <2>1, <2>2 DEF IsTakingFields
<1>. QED  BY <1>2, <1>3

\* TakeFields is that computation for all ten.
LEMMA TakeFieldsIs ==
  ASSUME NEW c, NEW at, NEW header
  PROVE  LET base == [ok |-> TRUE, at |-> at + 1, header |-> header]
             d == CHOOSE e : IsTakingFields(e, 10, c, c[at + 1], base)
         IN TakeFields(c, at, header) = d[1 .. 10]
<1>. DEFINE base == [ok |-> TRUE, at |-> at + 1, header |-> header]
<1>1. DOMAIN HeaderFields = 1 .. 10
  BY DEF HeaderFields
<1>2. TakeFields(c, at, header)
        = (CHOOSE d : d = [s \in SUBSET DOMAIN HeaderFields |->
             IF s = {} THEN base ELSE Taken(c, c[at + 1], d[s \ {Max(s)}], HeaderFields[Max(s)])])
          [DOMAIN HeaderFields]
  BY DEF TakeFields, FoldLeft, MapThenFoldSet, Taken
<1>. HIDE DEF base
<1>3. TakeFields(c, at, header)
        = (CHOOSE d : IsTakingFields(d, 10, c, c[at + 1], base))[1 .. 10]
  BY <1>1, <1>2, Zenon DEF IsTakingFields
<1>. QED  BY <1>3 DEF base

\* A header of its fields.
HeaderOf(metadata_id, sequence, captured, processor, thread, stack, timestamp, activity,
         related, sorted, size) ==
  [metadata_id |-> metadata_id, sequence_number |-> sequence, capture_thread_id |-> captured,
   processor_number |-> processor, thread_id |-> thread, stack_id |-> stack,
   timestamp |-> timestamp, activity_id |-> activity, related_activity_id |-> related,
   is_sorted |-> sorted, payload_size |-> size]

\* A header whose numbers are within their words.
InWords(h) ==
  /\ h.metadata_id \in 0 .. Word32 - 1 /\ h.sequence_number \in 0 .. Word32 - 1
  /\ h.capture_thread_id \in 0 .. Word64 - 1 /\ h.processor_number \in 0 .. Word32 - 1
  /\ h.thread_id \in 0 .. Word64 - 1 /\ h.stack_id \in 0 .. Word32 - 1
  /\ h.timestamp \in 0 .. Word64 - 1
  /\ h.activity_id \in Nat /\ h.related_activity_id \in Nat
  /\ h.is_sorted \in BOOLEAN /\ h.payload_size \in 0 .. Word32 - 1
IsHeader(h) ==
  /\ InWords(h)
  /\ h = HeaderOf(h.metadata_id, h.sequence_number, h.capture_thread_id, h.processor_number,
                  h.thread_id, h.stack_id, h.timestamp, h.activity_id, h.related_activity_id,
                  h.is_sorted, h.payload_size)

\* A field as it is written, and a number that fits in it.
WrittenField(field, n) ==
  IF field \in {"activity_id", "related_activity_id"} THEN <<n>> ELSE Written(n)
FitsIn(field, n) ==
  /\ n \in Nat
  /\ field \in {"capture_thread_id", "thread_id", "timestamp"} => n < Word64
  /\ field \notin {"capture_thread_id", "thread_id", "timestamp",
                   "activity_id", "related_activity_id"} => n < Word32

LEMMA WordsAre == Word32 = 128 /\ Word64 = 2048 /\ Digits32 = 2 /\ Digits64 = 3
BY DEF Word32, Word64, Digits32, Digits64
LEMMA WordsAreNumbers == Word32 \in Nat \ {0} /\ Word64 \in Nat \ {0}
BY WordsAre

\* What is cut to a word is in it.
LEMMA CutToWord ==
  ASSUME NEW n \in Int
  PROVE  /\ n % Word32 \in Nat /\ n % Word32 < Word32
         /\ n % Word64 \in Nat /\ n % Word64 < Word64
BY WordsAre


\* A field that lies where it is looked for is read back.
LEMMA FieldReadsBack ==
  ASSUME NEW c, Len(c) \in Nat, NEW at \in Nat, NEW field, NEW n, FitsIn(field, n),
         Lies(WrittenField(field, n), c, at)
  PROVE  ReadField(c, at, field) = ReadAs(n, at + Len(WrittenField(field, n)))
<1>1. n \in Nat
  BY DEF FitsIn
<1>2. CASE field \in {"activity_id", "related_activity_id"}
  <2>1. WrittenField(field, n) = <<n>> /\ ReadField(c, at, field) = Fixed(c, at)
    BY <1>2 DEF WrittenField, ReadField
  <2>2. Lies(<<n>>, c, at)
    BY <2>1
  <2>3. at + 1 <= Len(c) /\ c[at + 1] = n /\ Len(<<n>>) = 1
    BY <2>2 DEF Lies
  <2>. QED  BY <2>1, <2>3 DEF Fixed
<1>3. CASE field \in {"capture_thread_id", "thread_id", "timestamp"}
  <2>1. /\ WrittenField(field, n) = Written(n) /\ n < Word64
        /\ ReadField(c, at, field) = VarUint(c, at, Digits64, Word64)
    BY <1>3 DEF WrittenField, ReadField, FitsIn
  <2>2. Lies(Written(n), c, at)
    BY <2>1
  <2>3. n < 4096 /\ Digits64 = 3 /\ n % Word64 = n
    BY <1>1, <2>1, WordsAre
  <2>4. VarUint(c, at, Digits64, Word64) = ReadAs(n % Word64, at + Len(Written(n)))
    BY <1>1, <2>2, <2>3, VarUintReadsBack
  <2>. QED  BY <2>1, <2>3, <2>4
<1>4. CASE field \notin {"capture_thread_id", "thread_id", "timestamp",
                         "activity_id", "related_activity_id"}
  <2>1. /\ WrittenField(field, n) = Written(n) /\ n < Word32
        /\ ReadField(c, at, field) = VarUint(c, at, Digits32, Word32)
    BY <1>4 DEF WrittenField, ReadField, FitsIn
  <2>2. Lies(Written(n), c, at)
    BY <2>1
  <2>3. n < 256 /\ Digits32 = 2 /\ n % Word32 = n
    BY <1>1, <2>1, WordsAre
  <2>4. VarUint(c, at, Digits32, Word32) = ReadAs(n % Word32, at + Len(Written(n)))
    BY <1>1, <2>2, <2>3, VarUintReadsBack
  <2>. QED  BY <2>1, <2>3, <2>4
<1>. QED  BY <1>2, <1>3, <1>4

\* What has been read of a header, so far.
SoFar(at, header) == [ok |-> TRUE, at |-> at, header |-> header]

\* A field makes of the header h the header g: it is there and carried forward to
\* its new value, or that is the value it has.
Takes(c, at, flags, f, n, piece, h, g, old, new) ==
  /\ Len(c) \in Nat /\ at \in Nat /\ FitsIn(f[1], n)
  /\ piece = IF Present(flags, f) THEN WrittenField(f[1], n) ELSE <<>>
  /\ Lies(piece, c, at)
  /\ h[f[1]] = old /\ g = [h EXCEPT ![f[1]] = new]
  /\ old = new => g = h
  /\ Present(flags, f) => Carried(f[1], old, n) = new
  /\ ~Present(flags, f) => old = new

LEMMA FieldIsTaken ==
  ASSUME NEW c, NEW at, NEW flags, NEW f, NEW n, NEW piece, NEW h, NEW g, NEW old, NEW new,
         Takes(c, at, flags, f, n, piece, h, g, old, new)
  PROVE  Taken(c, flags, SoFar(at, h), f) = SoFar(at + Len(piece), g)
<1>0. /\ Len(c) \in Nat /\ at \in Nat /\ FitsIn(f[1], n)
      /\ piece = IF Present(flags, f) THEN WrittenField(f[1], n) ELSE <<>>
      /\ Lies(piece, c, at)
      /\ h[f[1]] = old /\ g = [h EXCEPT ![f[1]] = new]
      /\ old = new => g = h
      /\ Present(flags, f) => Carried(f[1], old, n) = new
      /\ ~Present(flags, f) => old = new
  BY Zenon DEF Takes
<1>1. CASE Present(flags, f)
  <2>1. piece = WrittenField(f[1], n)
    BY <1>0, <1>1
  <2>2. ReadField(c, at, f[1]) = ReadAs(n, at + Len(piece))
    BY <1>0, <2>1, FieldReadsBack
  <2>. DEFINE r == SoFar(at, h)
              end == at + Len(piece)
              field == f[1]
  <2>3. r.ok = TRUE /\ r.at = at /\ r.header = h
    BY DEF SoFar
  <2>4. Taken(c, flags, r, f) = Into(r, field, ReadAs(n, end))
    BY <1>1, <2>2, <2>3 DEF Taken, TakeField
  <2>5. ReadAs(n, end).ok = TRUE /\ ReadAs(n, end).value = n /\ ReadAs(n, end).at = end
    BY DEF ReadAs
  <2>. HIDE DEF r, end, field
  <2>6. Into(r, field, ReadAs(n, end))
          = [ok |-> TRUE, at |-> end,
             header |-> [h EXCEPT ![field] = Carried(field, h[field], n)]]
    BY <2>3, <2>5 DEF Into
  <2>7. Carried(field, h[field], n) = new
    BY <1>0, <1>1 DEF field
  <2>8. g = [h EXCEPT ![field] = new]
    BY <1>0 DEF field
  <2>. QED  BY <2>4, <2>6, <2>7, <2>8 DEF SoFar, r, end
<1>2. CASE ~Present(flags, f)
  <2>1. piece = <<>> /\ g = h
    BY <1>0, <1>2
  <2>2. Len(<<>>) = 0 /\ at + 0 = at
    BY <1>0
  <2>. QED  BY <1>2, <2>1, <2>2 DEF Taken
<1>. QED  BY <1>1, <1>2

\* The bits of a flags byte.
LEMMA BitsOf ==
  ASSUME NEW b0 \in {0, 1}, NEW b1 \in {0, 1}, NEW b2 \in {0, 1}, NEW b3 \in {0, 1},
         NEW b4 \in {0, 1}, NEW b5 \in {0, 1}, NEW b6 \in {0, 1}, NEW b7 \in {0, 1},
         NEW flags,
         flags = b0 + 2 * b1 + 4 * b2 + 8 * b3 + 16 * b4 + 32 * b5 + 64 * b6 + 128 * b7
  PROVE  /\ Bit(flags, 0) <=> b0 = 1
         /\ Bit(flags, 1) <=> b1 = 1
         /\ Bit(flags, 2) <=> b2 = 1
         /\ Bit(flags, 3) <=> b3 = 1
         /\ Bit(flags, 4) <=> b4 = 1
         /\ Bit(flags, 5) <=> b5 = 1
         /\ Bit(flags, 6) <=> b6 = 1
         /\ Bit(flags, 7) <=> b7 = 1
<1>0. /\ 2 ^ 0 = 1 /\ 2 ^ 1 = 2 /\ 2 ^ 2 = 4 /\ 2 ^ 3 = 8
      /\ 2 ^ 4 = 16 /\ 2 ^ 5 = 32 /\ 2 ^ 6 = 64 /\ 2 ^ 7 = 128
  OBVIOUS
<1>1. Bit(flags, 0) <=> b0 = 1
  <2>. DEFINE low == 0
              high == b1 + 2 * b2 + 4 * b3 + 8 * b4 + 16 * b5 + 32 * b6 + 64 * b7
  <2>1. low \in Nat /\ low < 1 /\ high \in Nat /\ flags = low + 1 * (b0 + 2 * high)
    OBVIOUS
  <2>. HIDE DEF low, high
  <2>2. flags \div 1 = b0 + 2 * high
    BY <2>1
  <2>3. (b0 + 2 * high) % 2 = b0
    BY <2>1
  <2>. QED  BY <1>0, <2>2, <2>3 DEF Bit
<1>2. Bit(flags, 1) <=> b1 = 1
  <2>. DEFINE low == b0
              high == b2 + 2 * b3 + 4 * b4 + 8 * b5 + 16 * b6 + 32 * b7
  <2>1. low \in Nat /\ low < 2 /\ high \in Nat /\ flags = low + 2 * (b1 + 2 * high)
    OBVIOUS
  <2>. HIDE DEF low, high
  <2>2. flags \div 2 = b1 + 2 * high
    BY <2>1
  <2>3. (b1 + 2 * high) % 2 = b1
    BY <2>1
  <2>. QED  BY <1>0, <2>2, <2>3 DEF Bit
<1>3. Bit(flags, 2) <=> b2 = 1
  <2>. DEFINE low == b0 + 2 * b1
              high == b3 + 2 * b4 + 4 * b5 + 8 * b6 + 16 * b7
  <2>1. low \in Nat /\ low < 4 /\ high \in Nat /\ flags = low + 4 * (b2 + 2 * high)
    OBVIOUS
  <2>. HIDE DEF low, high
  <2>2. flags \div 4 = b2 + 2 * high
    BY <2>1
  <2>3. (b2 + 2 * high) % 2 = b2
    BY <2>1
  <2>. QED  BY <1>0, <2>2, <2>3 DEF Bit
<1>4. Bit(flags, 3) <=> b3 = 1
  <2>. DEFINE low == b0 + 2 * b1 + 4 * b2
              high == b4 + 2 * b5 + 4 * b6 + 8 * b7
  <2>1. low \in Nat /\ low < 8 /\ high \in Nat /\ flags = low + 8 * (b3 + 2 * high)
    OBVIOUS
  <2>. HIDE DEF low, high
  <2>2. flags \div 8 = b3 + 2 * high
    BY <2>1
  <2>3. (b3 + 2 * high) % 2 = b3
    BY <2>1
  <2>. QED  BY <1>0, <2>2, <2>3 DEF Bit
<1>5. Bit(flags, 4) <=> b4 = 1
  <2>. DEFINE low == b0 + 2 * b1 + 4 * b2 + 8 * b3
              high == b5 + 2 * b6 + 4 * b7
  <2>1. low \in Nat /\ low < 16 /\ high \in Nat /\ flags = low + 16 * (b4 + 2 * high)
    OBVIOUS
  <2>. HIDE DEF low, high
  <2>2. flags \div 16 = b4 + 2 * high
    BY <2>1
  <2>3. (b4 + 2 * high) % 2 = b4
    BY <2>1
  <2>. QED  BY <1>0, <2>2, <2>3 DEF Bit
<1>6. Bit(flags, 5) <=> b5 = 1
  <2>. DEFINE low == b0 + 2 * b1 + 4 * b2 + 8 * b3 + 16 * b4
              high == b6 + 2 * b7
  <2>1. low \in Nat /\ low < 32 /\ high \in Nat /\ flags = low + 32 * (b5 + 2 * high)
    OBVIOUS
  <2>. HIDE DEF low, high
  <2>2. flags \div 32 = b5 + 2 * high
    BY <2>1
  <2>3. (b5 + 2 * high) % 2 = b5
    BY <2>1
  <2>. QED  BY <1>0, <2>2, <2>3 DEF Bit
<1>7. Bit(flags, 6) <=> b6 = 1
  <2>. DEFINE low == b0 + 2 * b1 + 4 * b2 + 8 * b3 + 16 * b4 + 32 * b5
              high == b7
  <2>1. low \in Nat /\ low < 64 /\ high \in Nat /\ flags = low + 64 * (b6 + 2 * high)
    OBVIOUS
  <2>. HIDE DEF low, high
  <2>2. flags \div 64 = b6 + 2 * high
    BY <2>1
  <2>3. (b6 + 2 * high) % 2 = b6
    BY <2>1
  <2>. QED  BY <1>0, <2>2, <2>3 DEF Bit
<1>8. Bit(flags, 7) <=> b7 = 1
  <2>. DEFINE low == b0 + 2 * b1 + 4 * b2 + 8 * b3 + 16 * b4 + 32 * b5 + 64 * b6
              high == 0
  <2>1. low \in Nat /\ low < 128 /\ high \in Nat /\ flags = low + 128 * (b7 + 2 * high)
    OBVIOUS
  <2>. HIDE DEF low, high
  <2>2. flags \div 128 = b7 + 2 * high
    BY <2>1
  <2>3. (b7 + 2 * high) % 2 = b7
    BY <2>1
  <2>. QED  BY <1>0, <2>2, <2>3 DEF Bit
<1>. QED  BY <1>1, <1>2, <1>3, <1>4, <1>5, <1>6, <1>7, <1>8

\* The flags of a header say which of its fields are there.
LEMMA FlagsSay ==
  ASSUME NEW before, NEW row
  PROVE  LET flag(k) == IF Differs(before, row, k) THEN 1 ELSE 0
             flags == flag(0) + 2 * flag(1) + 4 * flag(2) + 8 * flag(3)
                        + 16 * flag(4) + 32 * flag(5) + 64 * flag(6) + 128 * flag(7)
         IN /\ flags \in Nat
            /\ Bit(flags, 0) <=> Differs(before, row, 0)
            /\ Bit(flags, 1) <=> Differs(before, row, 1)
            /\ Bit(flags, 2) <=> Differs(before, row, 2)
            /\ Bit(flags, 3) <=> Differs(before, row, 3)
            /\ Bit(flags, 4) <=> Differs(before, row, 4)
            /\ Bit(flags, 5) <=> Differs(before, row, 5)
            /\ Bit(flags, 6) <=> Differs(before, row, 6)
            /\ Bit(flags, 7) <=> Differs(before, row, 7)
<1>. DEFINE flag(k) == IF Differs(before, row, k) THEN 1 ELSE 0
            flags == flag(0) + 2 * flag(1) + 4 * flag(2) + 8 * flag(3)
                        + 16 * flag(4) + 32 * flag(5) + 64 * flag(6) + 128 * flag(7)
<1>1. \A k : flag(k) \in {0, 1} /\ (flag(k) = 1 <=> Differs(before, row, k))
  OBVIOUS
<1>2. flags \in Nat
  <2>. HIDE DEF flag
  <2>. QED  BY <1>1
<1>3. /\ Bit(flags, 0) <=> flag(0) = 1
      /\ Bit(flags, 1) <=> flag(1) = 1
      /\ Bit(flags, 2) <=> flag(2) = 1
      /\ Bit(flags, 3) <=> flag(3) = 1
      /\ Bit(flags, 4) <=> flag(4) = 1
      /\ Bit(flags, 5) <=> flag(5) = 1
      /\ Bit(flags, 6) <=> flag(6) = 1
      /\ Bit(flags, 7) <=> flag(7) = 1
  <2>1. flags = flag(0) + 2 * flag(1) + 4 * flag(2) + 8 * flag(3)
                  + 16 * flag(4) + 32 * flag(5) + 64 * flag(6) + 128 * flag(7)
    OBVIOUS
  <2>. HIDE DEF flag, flags
  <2>. QED  BY <1>1, <2>1, BitsOf
<1>. HIDE DEF flag
<1>. QED  BY <1>1, <1>2, <1>3 DEF flag

\* The number written for each field of a header.
NumberOf(before, row, k) ==
  CASE k = 1 -> row.metadata_id
    [] k = 2 -> (row.sequence_number - before.sequence_number - 1) % Word32
    [] k = 3 -> row.capture_thread_id
    [] k = 4 -> row.processor_number
    [] k = 5 -> row.thread_id
    [] k = 6 -> row.stack_id
    [] k = 7 -> (row.timestamp - before.timestamp) % Word64
    [] k = 8 -> row.activity_id
    [] k = 9 -> row.related_activity_id
    [] k = 10 -> row.payload_size

\* A field as it is written, if it is there.
PieceOf(before, row, k) ==
  IF HeaderFields[k][2] = Always \/ Differs(before, row, HeaderFields[k][2])
  THEN WrittenField(HeaderFields[k][1], NumberOf(before, row, k)) ELSE <<>>

\* What is written of a number is in cells.
LEMMA WrittenFieldIsCells ==
  ASSUME NEW field, NEW n, FitsIn(field, n)
  PROVE  WrittenField(field, n) \in Seq(Nat) /\ Len(WrittenField(field, n)) \in Nat \ {0}
<1>1. n \in Nat
  BY DEF FitsIn
<1>2. CASE field \in {"activity_id", "related_activity_id"}
  <2>1. WrittenField(field, n) = <<n>>
    BY <1>2 DEF WrittenField
  <2>. QED  BY <1>1, <2>1
<1>3. CASE field \notin {"activity_id", "related_activity_id"}
  <2>1. WrittenField(field, n) = Written(n)
    BY <1>3 DEF WrittenField
  <2>2. n < 4096
    BY <1>1, <1>3, WordsAre DEF FitsIn
  <2>3. IsVarUint(Written(n))
    BY <1>1, <2>2, WrittenIs
  <2>. QED  BY <2>1, <2>3 DEF IsVarUint, AreCells
<1>. QED  BY <1>2, <1>3

\* The fields of a header, by number.
LEMMA FieldsAre ==
  /\ HeaderFields[1] = <<"metadata_id", 0>>
  /\ HeaderFields[2] = <<"sequence_number", 1>>
  /\ HeaderFields[3] = <<"capture_thread_id", 1>>
  /\ HeaderFields[4] = <<"processor_number", 1>>
  /\ HeaderFields[5] = <<"thread_id", 2>>
  /\ HeaderFields[6] = <<"stack_id", 3>>
  /\ HeaderFields[7] = <<"timestamp", Always>>
  /\ HeaderFields[8] = <<"activity_id", 4>>
  /\ HeaderFields[9] = <<"related_activity_id", 5>>
  /\ HeaderFields[10] = <<"payload_size", 7>>
BY DEF HeaderFields

\* Each field of a header fits in its cells.
LEMMA NumbersFit ==
  ASSUME NEW before, IsHeader(before), NEW row, IsHeader(row), NEW k \in 1 .. 10
  PROVE  FitsIn(HeaderFields[k][1], NumberOf(before, row, k))
<1>0. /\ Word32 \in Nat /\ Word64 \in Nat
      /\ InWords(before) /\ InWords(row)
  BY WordsAreNumbers DEF IsHeader
<1>1. CASE k = 1
  <2>0. row.metadata_id \in 0 .. Word32 - 1
    BY <1>0, Zenon DEF InWords
  <2>1. row.metadata_id \in Nat /\ row.metadata_id < Word32
    BY <1>0, <2>0
  <2>2. HeaderFields[k][1] = "metadata_id" /\ NumberOf(before, row, k) = row.metadata_id
    BY <1>1, FieldsAre DEF NumberOf
  <2>. QED  BY <2>1, <2>2 DEF FitsIn
<1>2. CASE k = 2
  <2>. DEFINE n == (row.sequence_number - before.sequence_number - 1) % Word32
  <2>0. before.sequence_number \in 0 .. Word32 - 1 /\ row.sequence_number \in 0 .. Word32 - 1
    BY <1>0, Zenon DEF InWords
  <2>1. before.sequence_number \in Int /\ row.sequence_number \in Int
    BY <1>0, <2>0
  <2>2. n \in Nat /\ n < Word32
    <3>1. row.sequence_number - before.sequence_number - 1 \in Int
      BY <2>1
    <3>. QED  BY <3>1, CutToWord
  <2>3. HeaderFields[k][1] = "sequence_number" /\ NumberOf(before, row, k) = n
    BY <1>2, FieldsAre DEF NumberOf
  <2>. HIDE DEF n
  <2>. QED  BY <2>2, <2>3 DEF FitsIn
<1>3. CASE k = 3
  <2>0. row.capture_thread_id \in 0 .. Word64 - 1
    BY <1>0, Zenon DEF InWords
  <2>1. row.capture_thread_id \in Nat /\ row.capture_thread_id < Word64
    BY <1>0, <2>0
  <2>2. HeaderFields[k][1] = "capture_thread_id" /\ NumberOf(before, row, k) = row.capture_thread_id
    BY <1>3, FieldsAre DEF NumberOf
  <2>. QED  BY <2>1, <2>2 DEF FitsIn
<1>4. CASE k = 4
  <2>0. row.processor_number \in 0 .. Word32 - 1
    BY <1>0, Zenon DEF InWords
  <2>1. row.processor_number \in Nat /\ row.processor_number < Word32
    BY <1>0, <2>0
  <2>2. HeaderFields[k][1] = "processor_number" /\ NumberOf(before, row, k) = row.processor_number
    BY <1>4, FieldsAre DEF NumberOf
  <2>. QED  BY <2>1, <2>2 DEF FitsIn
<1>5. CASE k = 5
  <2>0. row.thread_id \in 0 .. Word64 - 1
    BY <1>0, Zenon DEF InWords
  <2>1. row.thread_id \in Nat /\ row.thread_id < Word64
    BY <1>0, <2>0
  <2>2. HeaderFields[k][1] = "thread_id" /\ NumberOf(before, row, k) = row.thread_id
    BY <1>5, FieldsAre DEF NumberOf
  <2>. QED  BY <2>1, <2>2 DEF FitsIn
<1>6. CASE k = 6
  <2>0. row.stack_id \in 0 .. Word32 - 1
    BY <1>0, Zenon DEF InWords
  <2>1. row.stack_id \in Nat /\ row.stack_id < Word32
    BY <1>0, <2>0
  <2>2. HeaderFields[k][1] = "stack_id" /\ NumberOf(before, row, k) = row.stack_id
    BY <1>6, FieldsAre DEF NumberOf
  <2>. QED  BY <2>1, <2>2 DEF FitsIn
<1>7. CASE k = 7
  <2>. DEFINE n == (row.timestamp - before.timestamp) % Word64
  <2>0. before.timestamp \in 0 .. Word64 - 1 /\ row.timestamp \in 0 .. Word64 - 1
    BY <1>0, Zenon DEF InWords
  <2>1. before.timestamp \in Int /\ row.timestamp \in Int
    BY <1>0, <2>0
  <2>2. n \in Nat /\ n < Word64
    <3>1. row.timestamp - before.timestamp \in Int
      BY <2>1
    <3>. QED  BY <3>1, CutToWord
  <2>3. HeaderFields[k][1] = "timestamp" /\ NumberOf(before, row, k) = n
    BY <1>7, FieldsAre DEF NumberOf
  <2>. HIDE DEF n
  <2>. QED  BY <2>2, <2>3 DEF FitsIn
<1>8. CASE k = 8
  <2>0. row.activity_id \in Nat
    BY <1>0, Zenon DEF InWords
  <2>1. row.activity_id \in Nat
    BY <1>0, <2>0
  <2>2. HeaderFields[k][1] = "activity_id" /\ NumberOf(before, row, k) = row.activity_id
    BY <1>8, FieldsAre DEF NumberOf
  <2>. QED  BY <2>1, <2>2 DEF FitsIn
<1>9. CASE k = 9
  <2>0. row.related_activity_id \in Nat
    BY <1>0, Zenon DEF InWords
  <2>1. row.related_activity_id \in Nat
    BY <1>0, <2>0
  <2>2. HeaderFields[k][1] = "related_activity_id" /\ NumberOf(before, row, k) = row.related_activity_id
    BY <1>9, FieldsAre DEF NumberOf
  <2>. QED  BY <2>1, <2>2 DEF FitsIn
<1>10. CASE k = 10
  <2>0. row.payload_size \in 0 .. Word32 - 1
    BY <1>0, Zenon DEF InWords
  <2>1. row.payload_size \in Nat /\ row.payload_size < Word32
    BY <1>0, <2>0
  <2>2. HeaderFields[k][1] = "payload_size" /\ NumberOf(before, row, k) = row.payload_size
    BY <1>10, FieldsAre DEF NumberOf
  <2>. QED  BY <2>1, <2>2 DEF FitsIn
<1>11. k \in {1, 2, 3, 4, 5, 6, 7, 8, 9, 10}
  OBVIOUS
<1>. QED  BY <1>1, <1>2, <1>3, <1>4, <1>5, <1>6, <1>7, <1>8, <1>9, <1>10, <1>11

\* So each piece of a header is in cells.
LEMMA PiecesAreCells ==
  ASSUME NEW before, IsHeader(before), NEW row, IsHeader(row), NEW k \in 1 .. 10
  PROVE  PieceOf(before, row, k) \in Seq(Nat) /\ Len(PieceOf(before, row, k)) \in Nat
<1>. DEFINE piece == WrittenField(HeaderFields[k][1], NumberOf(before, row, k))
<1>1. piece \in Seq(Nat) /\ Len(piece) \in Nat
  BY NumbersFit, WrittenFieldIsCells
<1>2. PieceOf(before, row, k) = piece \/ PieceOf(before, row, k) = <<>>
  BY DEF PieceOf
<1>3. <<>> \in Seq(Nat) /\ Len(<<>>) \in Nat
  OBVIOUS
<1>. HIDE DEF piece
<1>. QED  BY <1>1, <1>2, <1>3

\* The flags a writer sets.
FlagsOf(before, row) ==
  LET flag(k) == IF Differs(before, row, k) THEN 1 ELSE 0
  IN flag(0) + 2 * flag(1) + 4 * flag(2) + 8 * flag(3)
       + 16 * flag(4) + 32 * flag(5) + 64 * flag(6) + 128 * flag(7)

\* A header is its flags and its pieces.
LEMMA HeaderIsPieces ==
  ASSUME NEW before, NEW row
  PROVE  WrittenHeader(before, row)
           = <<FlagsOf(before, row)>> \o PieceOf(before, row, 1)
               \o (IF Differs(before, row, 1)
                   THEN PieceOf(before, row, 2) \o PieceOf(before, row, 3)
                          \o PieceOf(before, row, 4)
                   ELSE <<>>)
               \o PieceOf(before, row, 5) \o PieceOf(before, row, 6) \o PieceOf(before, row, 7)
               \o PieceOf(before, row, 8) \o PieceOf(before, row, 9) \o PieceOf(before, row, 10)
<1>0. /\ Always = 8
      /\ \A n : WrittenField("activity_id", n) = <<n>> /\ WrittenField("related_activity_id", n) = <<n>>
  BY DEF Always, WrittenField
<1>1. PieceOf(before, row, 1) = IF Differs(before, row, 0) THEN Written(row.metadata_id) ELSE <<>>
  <2>1. HeaderFields[1] = <<"metadata_id", 0>> /\ NumberOf(before, row, 1) = row.metadata_id
    BY FieldsAre DEF NumberOf
  <2>2. \A n : WrittenField("metadata_id", n) = Written(n)
    BY DEF WrittenField
  <2>. QED  BY <1>0, <2>1, <2>2 DEF PieceOf
<1>2. PieceOf(before, row, 2) = IF Differs(before, row, 1) THEN Written((row.sequence_number - before.sequence_number - 1) % Word32) ELSE <<>>
  <2>1. HeaderFields[2] = <<"sequence_number", 1>> /\ NumberOf(before, row, 2) = (row.sequence_number - before.sequence_number - 1) % Word32
    BY FieldsAre DEF NumberOf
  <2>2. \A n : WrittenField("sequence_number", n) = Written(n)
    BY DEF WrittenField
  <2>. QED  BY <1>0, <2>1, <2>2 DEF PieceOf
<1>3. PieceOf(before, row, 3) = IF Differs(before, row, 1) THEN Written(row.capture_thread_id) ELSE <<>>
  <2>1. HeaderFields[3] = <<"capture_thread_id", 1>> /\ NumberOf(before, row, 3) = row.capture_thread_id
    BY FieldsAre DEF NumberOf
  <2>2. \A n : WrittenField("capture_thread_id", n) = Written(n)
    BY DEF WrittenField
  <2>. QED  BY <1>0, <2>1, <2>2 DEF PieceOf
<1>4. PieceOf(before, row, 4) = IF Differs(before, row, 1) THEN Written(row.processor_number) ELSE <<>>
  <2>1. HeaderFields[4] = <<"processor_number", 1>> /\ NumberOf(before, row, 4) = row.processor_number
    BY FieldsAre DEF NumberOf
  <2>2. \A n : WrittenField("processor_number", n) = Written(n)
    BY DEF WrittenField
  <2>. QED  BY <1>0, <2>1, <2>2 DEF PieceOf
<1>5. PieceOf(before, row, 5) = IF Differs(before, row, 2) THEN Written(row.thread_id) ELSE <<>>
  <2>1. HeaderFields[5] = <<"thread_id", 2>> /\ NumberOf(before, row, 5) = row.thread_id
    BY FieldsAre DEF NumberOf
  <2>2. \A n : WrittenField("thread_id", n) = Written(n)
    BY DEF WrittenField
  <2>. QED  BY <1>0, <2>1, <2>2 DEF PieceOf
<1>6. PieceOf(before, row, 6) = IF Differs(before, row, 3) THEN Written(row.stack_id) ELSE <<>>
  <2>1. HeaderFields[6] = <<"stack_id", 3>> /\ NumberOf(before, row, 6) = row.stack_id
    BY FieldsAre DEF NumberOf
  <2>2. \A n : WrittenField("stack_id", n) = Written(n)
    BY DEF WrittenField
  <2>. QED  BY <1>0, <2>1, <2>2 DEF PieceOf
<1>7. PieceOf(before, row, 7) = Written((row.timestamp - before.timestamp) % Word64)
  <2>1. HeaderFields[7] = <<"timestamp", Always>> /\ NumberOf(before, row, 7) = (row.timestamp - before.timestamp) % Word64
    BY FieldsAre DEF NumberOf
  <2>2. \A n : WrittenField("timestamp", n) = Written(n)
    BY DEF WrittenField
  <2>. QED  BY <1>0, <2>1, <2>2 DEF PieceOf
<1>8. PieceOf(before, row, 8) = IF Differs(before, row, 4) THEN <<row.activity_id>> ELSE <<>>
  <2>1. HeaderFields[8] = <<"activity_id", 4>> /\ NumberOf(before, row, 8) = row.activity_id
    BY FieldsAre DEF NumberOf
  <2>. QED  BY <1>0, <2>1 DEF PieceOf
<1>9. PieceOf(before, row, 9) = IF Differs(before, row, 5) THEN <<row.related_activity_id>> ELSE <<>>
  <2>1. HeaderFields[9] = <<"related_activity_id", 5>> /\ NumberOf(before, row, 9) = row.related_activity_id
    BY FieldsAre DEF NumberOf
  <2>. QED  BY <1>0, <2>1 DEF PieceOf
<1>10. PieceOf(before, row, 10) = IF Differs(before, row, 7) THEN Written(row.payload_size) ELSE <<>>
  <2>1. HeaderFields[10] = <<"payload_size", 7>> /\ NumberOf(before, row, 10) = row.payload_size
    BY FieldsAre DEF NumberOf
  <2>2. \A n : WrittenField("payload_size", n) = Written(n)
    BY DEF WrittenField
  <2>. QED  BY <1>0, <2>1, <2>2 DEF PieceOf
<1>. DEFINE w1 == IF Differs(before, row, 0) THEN Written(row.metadata_id) ELSE <<>>
            wm == IF Differs(before, row, 1)
                  THEN Written((row.sequence_number - before.sequence_number - 1) % Word32)
                         \o Written(row.capture_thread_id) \o Written(row.processor_number)
                  ELSE <<>>
            w5 == IF Differs(before, row, 2) THEN Written(row.thread_id) ELSE <<>>
            w6 == IF Differs(before, row, 3) THEN Written(row.stack_id) ELSE <<>>
            w7 == Written((row.timestamp - before.timestamp) % Word64)
            w8 == IF Differs(before, row, 4) THEN <<row.activity_id>> ELSE <<>>
            w9 == IF Differs(before, row, 5) THEN <<row.related_activity_id>> ELSE <<>>
            w10 == IF Differs(before, row, 7) THEN Written(row.payload_size) ELSE <<>>
            pm == IF Differs(before, row, 1)
                  THEN PieceOf(before, row, 2) \o PieceOf(before, row, 3)
                         \o PieceOf(before, row, 4)
                  ELSE <<>>
            flags == <<FlagsOf(before, row)>>
<1>11. wm = pm
  <2>1. CASE Differs(before, row, 1)
    BY <1>2, <1>3, <1>4, <2>1
  <2>2. CASE ~Differs(before, row, 1)
    BY <2>2
  <2>. QED  BY <2>1, <2>2
<1>12. WrittenHeader(before, row)
         = flags \o w1 \o wm \o w5 \o w6 \o w7 \o w8 \o w9 \o w10
  BY DEF WrittenHeader, FlagsOf
<1>13. /\ PieceOf(before, row, 1) = w1
       /\ PieceOf(before, row, 5) = w5
       /\ PieceOf(before, row, 6) = w6
       /\ PieceOf(before, row, 7) = w7
       /\ PieceOf(before, row, 8) = w8
       /\ PieceOf(before, row, 9) = w9
       /\ PieceOf(before, row, 10) = w10
  BY <1>1, <1>5, <1>6, <1>7, <1>8, <1>9, <1>10
<1>. HIDE DEF w1, wm, w5, w6, w7, w8, w9, w10, pm, flags
<1>. SUFFICES WrittenHeader(before, row)
                = flags \o PieceOf(before, row, 1) \o pm
                    \o PieceOf(before, row, 5) \o PieceOf(before, row, 6) \o PieceOf(before, row, 7)
                    \o PieceOf(before, row, 8) \o PieceOf(before, row, 9) \o PieceOf(before, row, 10)
  BY DEF pm, flags
<1>. QED  BY <1>11, <1>12, <1>13, Zenon

----------------------------------------------------------------------------
(* A compressed header is read back.                                       *)

\* One sequence of cells after another.
LEMMA CellsAfterCells ==
  ASSUME NEW s \in Seq(Nat), NEW t \in Seq(Nat)
  PROVE  s \o t \in Seq(Nat) /\ Len(s \o t) = Len(s) + Len(t)
BY ConcatProperties

\* What is written of a header after the row before.
MiddleOf(before, row) ==
  IF Differs(before, row, 1)
  THEN PieceOf(before, row, 2) \o PieceOf(before, row, 3) \o PieceOf(before, row, 4)
  ELSE <<>>

\* The middle of a header is its second, third and fourth piece.
LEMMA MiddleLies ==
  ASSUME NEW before, IsHeader(before), NEW row, IsHeader(row),
         NEW c, Len(c) \in Nat, NEW at \in Nat, Lies(MiddleOf(before, row), c, at)
  PROVE  LET a == at + Len(PieceOf(before, row, 2))
             b == a + Len(PieceOf(before, row, 3))
         IN /\ Lies(PieceOf(before, row, 2), c, at)
            /\ Lies(PieceOf(before, row, 3), c, a)
            /\ Lies(PieceOf(before, row, 4), c, b)
            /\ at + Len(MiddleOf(before, row)) = b + Len(PieceOf(before, row, 4))
<1>. DEFINE P(k) == PieceOf(before, row, k)
<1>0. \A k \in 1 .. 10 : P(k) \in Seq(Nat) /\ Len(P(k)) \in Nat
  BY PiecesAreCells
<1>1. CASE Differs(before, row, 1)
  <2>1. MiddleOf(before, row) = (P(2) \o P(3)) \o P(4)
    BY <1>1 DEF MiddleOf
  <2>. HIDE DEF P
  <2>2. /\ P(2) \in Seq(Nat) /\ P(3) \in Seq(Nat) /\ P(4) \in Seq(Nat)
        /\ Len(P(2)) \in Nat /\ Len(P(3)) \in Nat /\ Len(P(4)) \in Nat
    BY <1>0
  <2>3. P(2) \o P(3) \in Seq(Nat)
    BY <2>2, CellsAfterCells
  <2>4. Lies((P(2) \o P(3)) \o P(4), c, at)
    BY <2>1, Zenon
  <2>5. /\ Lies(P(2) \o P(3), c, at) /\ Lies(P(4), c, at + Len(P(2) \o P(3)))
        /\ Len((P(2) \o P(3)) \o P(4)) = Len(P(2) \o P(3)) + Len(P(4))
    BY <2>2, <2>3, <2>4, LiesInParts
  <2>6. /\ Lies(P(2), c, at) /\ Lies(P(3), c, at + Len(P(2)))
        /\ Len(P(2) \o P(3)) = Len(P(2)) + Len(P(3))
    BY <2>2, <2>5, LiesInParts
  <2>7. at + Len(P(2) \o P(3)) = (at + Len(P(2))) + Len(P(3))
    BY <2>2, <2>6
  <2>8. at + Len(MiddleOf(before, row)) = ((at + Len(P(2))) + Len(P(3))) + Len(P(4))
    BY <2>1, <2>2, <2>5, <2>6
  <2>. QED  BY <2>5, <2>6, <2>7, <2>8 DEF P
<1>2. CASE ~Differs(before, row, 1)
  <2>1. Always # 1
    BY DEF Always
  <2>2. P(2) = <<>> /\ P(3) = <<>> /\ P(4) = <<>>
    BY <1>2, <2>1, FieldsAre DEF PieceOf
  <2>3. MiddleOf(before, row) = <<>>
    BY <1>2 DEF MiddleOf
  <2>. HIDE DEF P
  <2>4. Len(<<>>) = 0 /\ at + 0 = at
    OBVIOUS
  <2>5. Lies(<<>>, c, at)
    BY <2>3
  <2>. QED  BY <2>2, <2>3, <2>4, <2>5 DEF P
<1>. QED  BY <1>1, <1>2

\* The beginnings of a header: up to its flags, and to each of its pieces.
UpTo0(before, row) == <<FlagsOf(before, row)>>
UpTo1(before, row) == UpTo0(before, row) \o PieceOf(before, row, 1)
UpTo4(before, row) == UpTo1(before, row) \o MiddleOf(before, row)
UpTo5(before, row) == UpTo4(before, row) \o PieceOf(before, row, 5)
UpTo6(before, row) == UpTo5(before, row) \o PieceOf(before, row, 6)
UpTo7(before, row) == UpTo6(before, row) \o PieceOf(before, row, 7)
UpTo8(before, row) == UpTo7(before, row) \o PieceOf(before, row, 8)
UpTo9(before, row) == UpTo8(before, row) \o PieceOf(before, row, 9)
UpTo10(before, row) == UpTo9(before, row) \o PieceOf(before, row, 10)

\* A header is the last of its beginnings, and each of them is in cells.
LEMMA HeaderIsCells ==
  ASSUME NEW before, IsHeader(before), NEW row, IsHeader(row)
  PROVE  /\ WrittenHeader(before, row) = UpTo10(before, row)
         /\ MiddleOf(before, row) \in Seq(Nat)
         /\ UpTo0(before, row) \in Seq(Nat)
         /\ UpTo1(before, row) \in Seq(Nat)
         /\ UpTo4(before, row) \in Seq(Nat)
         /\ UpTo5(before, row) \in Seq(Nat)
         /\ UpTo6(before, row) \in Seq(Nat)
         /\ UpTo7(before, row) \in Seq(Nat)
         /\ UpTo8(before, row) \in Seq(Nat)
         /\ UpTo9(before, row) \in Seq(Nat)
         /\ UpTo10(before, row) \in Seq(Nat)
         /\ Len(UpTo0(before, row)) = 1 /\ Len(WrittenHeader(before, row)) \in Nat \ {0}
<1>. DEFINE P(k) == PieceOf(before, row, k)
            M == MiddleOf(before, row)
<1>1. WrittenHeader(before, row) = UpTo10(before, row)
  <2>1. WrittenHeader(before, row)
          = UpTo0(before, row) \o P(1) \o M \o P(5) \o P(6) \o P(7) \o P(8) \o P(9) \o P(10)
    BY HeaderIsPieces, Zenon DEF MiddleOf, UpTo0
  <2>. HIDE DEF P, M
  <2>. QED  BY <2>1, Zenon DEF UpTo10, UpTo9, UpTo8, UpTo7, UpTo6, UpTo5, UpTo4, UpTo1, P, M
<1>2. \A k \in 1 .. 10 : P(k) \in Seq(Nat) /\ Len(P(k)) \in Nat
  BY PiecesAreCells
<1>3. M \in Seq(Nat)
  <2>1. P(2) \in Seq(Nat) /\ P(3) \in Seq(Nat) /\ P(4) \in Seq(Nat)
    BY <1>2
  <2>2. M = P(2) \o P(3) \o P(4) \/ M = <<>>
    BY DEF MiddleOf
  <2>. HIDE DEF P, M
  <2>3. P(2) \o P(3) \in Seq(Nat)
    BY <2>1, CellsAfterCells
  <2>4. P(2) \o P(3) \o P(4) \in Seq(Nat)
    BY <2>1, <2>3, CellsAfterCells
  <2>5. <<>> \in Seq(Nat)
    OBVIOUS
  <2>. QED  BY <2>2, <2>4, <2>5
<1>4. UpTo0(before, row) \in Seq(Nat) /\ Len(UpTo0(before, row)) = 1
  <2>. DEFINE n == FlagsOf(before, row)
  <2>1. n \in Nat
    BY FlagsSay DEF FlagsOf
  <2>. HIDE DEF n
  <2>2. <<n>> \in Seq(Nat) /\ Len(<<n>>) = 1
    BY <2>1
  <2>. QED  BY <2>2 DEF UpTo0, n
<1>. HIDE DEF P, M
<1>5. UpTo1(before, row) \in Seq(Nat) /\ Len(UpTo1(before, row)) = Len(UpTo0(before, row)) + Len(P(1))
  <2>1. UpTo1(before, row) = UpTo0(before, row) \o P(1) /\ P(1) \in Seq(Nat)
    BY <1>2 DEF UpTo1, P
  <2>. QED  BY <1>4, <2>1, CellsAfterCells
<1>6. UpTo4(before, row) \in Seq(Nat) /\ Len(UpTo4(before, row)) = Len(UpTo1(before, row)) + Len(M)
  <2>1. UpTo4(before, row) = UpTo1(before, row) \o M /\ M \in Seq(Nat)
    BY <1>3 DEF UpTo4, M
  <2>. QED  BY <1>5, <2>1, CellsAfterCells
<1>7. UpTo5(before, row) \in Seq(Nat) /\ Len(UpTo5(before, row)) = Len(UpTo4(before, row)) + Len(P(5))
  <2>1. UpTo5(before, row) = UpTo4(before, row) \o P(5) /\ P(5) \in Seq(Nat)
    BY <1>2 DEF UpTo5, P
  <2>. QED  BY <1>6, <2>1, CellsAfterCells
<1>8. UpTo6(before, row) \in Seq(Nat) /\ Len(UpTo6(before, row)) = Len(UpTo5(before, row)) + Len(P(6))
  <2>1. UpTo6(before, row) = UpTo5(before, row) \o P(6) /\ P(6) \in Seq(Nat)
    BY <1>2 DEF UpTo6, P
  <2>. QED  BY <1>7, <2>1, CellsAfterCells
<1>9. UpTo7(before, row) \in Seq(Nat) /\ Len(UpTo7(before, row)) = Len(UpTo6(before, row)) + Len(P(7))
  <2>1. UpTo7(before, row) = UpTo6(before, row) \o P(7) /\ P(7) \in Seq(Nat)
    BY <1>2 DEF UpTo7, P
  <2>. QED  BY <1>8, <2>1, CellsAfterCells
<1>10. UpTo8(before, row) \in Seq(Nat) /\ Len(UpTo8(before, row)) = Len(UpTo7(before, row)) + Len(P(8))
  <2>1. UpTo8(before, row) = UpTo7(before, row) \o P(8) /\ P(8) \in Seq(Nat)
    BY <1>2 DEF UpTo8, P
  <2>. QED  BY <1>9, <2>1, CellsAfterCells
<1>11. UpTo9(before, row) \in Seq(Nat) /\ Len(UpTo9(before, row)) = Len(UpTo8(before, row)) + Len(P(9))
  <2>1. UpTo9(before, row) = UpTo8(before, row) \o P(9) /\ P(9) \in Seq(Nat)
    BY <1>2 DEF UpTo9, P
  <2>. QED  BY <1>10, <2>1, CellsAfterCells
<1>12. UpTo10(before, row) \in Seq(Nat) /\ Len(UpTo10(before, row)) = Len(UpTo9(before, row)) + Len(P(10))
  <2>1. UpTo10(before, row) = UpTo9(before, row) \o P(10) /\ P(10) \in Seq(Nat)
    BY <1>2 DEF UpTo10, P
  <2>. QED  BY <1>11, <2>1, CellsAfterCells
<1>13. Len(WrittenHeader(before, row)) \in Nat \ {0}
  <2>1. /\ Len(P(1)) \in Nat /\ Len(M) \in Nat /\ Len(P(5)) \in Nat /\ Len(P(6)) \in Nat
        /\ Len(P(7)) \in Nat /\ Len(P(8)) \in Nat /\ Len(P(9)) \in Nat /\ Len(P(10)) \in Nat
    BY <1>2, <1>3, LenProperties
  <2>2. Len(UpTo4(before, row)) \in Nat \ {0}
    BY <1>4, <1>5, <1>6, <2>1
  <2>3. Len(UpTo7(before, row)) \in Nat \ {0}
    BY <1>7, <1>8, <1>9, <2>1, <2>2, SMTT(30)
  <2>4. Len(UpTo10(before, row)) \in Nat \ {0}
    BY <1>10, <1>11, <1>12, <2>1, <2>3, SMTT(30)
  <2>. QED  BY <1>1, <2>4, Zenon
<1>. QED  BY <1>1, <1>3, <1>4, <1>5, <1>6, <1>7, <1>8, <1>9, <1>10, <1>11, <1>12, <1>13 DEF M

\* Where the pieces of a header lie: piece k from the end of the one before it.
PiecesLie(a, before, row, c, at) ==
  /\ a \in [0 .. 10 -> Nat]
  /\ a[0] = at + 1 /\ a[10] = at + Len(WrittenHeader(before, row))
  /\ \A k \in 1 .. 10 :
       /\ Lies(PieceOf(before, row, k), c, a[k - 1])
       /\ a[k] = a[k - 1] + Len(PieceOf(before, row, k))

LEMMA HeaderLies ==
  ASSUME NEW before, IsHeader(before), NEW row, IsHeader(row),
         NEW c, Len(c) \in Nat, NEW at \in Nat, Lies(WrittenHeader(before, row), c, at)
  PROVE  /\ c[at + 1] = FlagsOf(before, row)
         /\ \E a : PiecesLie(a, before, row, c, at)
<1>. DEFINE P(k) == PieceOf(before, row, k)
            M == MiddleOf(before, row)
            S0 == UpTo0(before, row)
            S1 == UpTo1(before, row)
            S4 == UpTo4(before, row)
            S5 == UpTo5(before, row)
            S6 == UpTo6(before, row)
            S7 == UpTo7(before, row)
            S8 == UpTo8(before, row)
            S9 == UpTo9(before, row)
            S10 == UpTo10(before, row)
<1>1. \A k \in 1 .. 10 : P(k) \in Seq(Nat) /\ Len(P(k)) \in Nat
  BY PiecesAreCells
<1>2. /\ M \in Seq(Nat) /\ Len(S0) = 1 /\ WrittenHeader(before, row) = S10
      /\ S0 \in Seq(Nat)
      /\ S1 \in Seq(Nat)
      /\ S4 \in Seq(Nat)
      /\ S5 \in Seq(Nat)
      /\ S6 \in Seq(Nat)
      /\ S7 \in Seq(Nat)
      /\ S8 \in Seq(Nat)
      /\ S9 \in Seq(Nat)
      /\ S10 \in Seq(Nat)
  BY HeaderIsCells
<1>3. Lies(S10, c, at)
  BY <1>2, Zenon
<1>4. /\ Lies(S9, c, at) /\ Lies(P(10), c, at + Len(S9))
      /\ Len(S10) = Len(S9) + Len(P(10))
  <2>1. S10 = S9 \o P(10)
    BY DEF UpTo10
  <2>2. S9 \in Seq(Nat) /\ P(10) \in Seq(Nat)
    BY <1>1, <1>2
  <2>. HIDE DEF S10, S9, P, M
  <2>3. Lies(S9 \o P(10), c, at)
    BY <1>3, <2>1, Zenon
  <2>4. /\ Lies(S9, c, at) /\ Lies(P(10), c, at + Len(S9))
        /\ Len(S9 \o P(10)) = Len(S9) + Len(P(10))
    BY <2>2, <2>3, LiesInParts
  <2>. QED  BY <2>1, <2>4, Zenon
<1>5. /\ Lies(S8, c, at) /\ Lies(P(9), c, at + Len(S8))
      /\ Len(S9) = Len(S8) + Len(P(9))
  <2>1. S9 = S8 \o P(9)
    BY DEF UpTo9
  <2>2. S8 \in Seq(Nat) /\ P(9) \in Seq(Nat)
    BY <1>1, <1>2
  <2>. HIDE DEF S9, S8, P, M
  <2>3. Lies(S8 \o P(9), c, at)
    BY <1>4, <2>1, Zenon
  <2>4. /\ Lies(S8, c, at) /\ Lies(P(9), c, at + Len(S8))
        /\ Len(S8 \o P(9)) = Len(S8) + Len(P(9))
    BY <2>2, <2>3, LiesInParts
  <2>. QED  BY <2>1, <2>4, Zenon
<1>6. /\ Lies(S7, c, at) /\ Lies(P(8), c, at + Len(S7))
      /\ Len(S8) = Len(S7) + Len(P(8))
  <2>1. S8 = S7 \o P(8)
    BY DEF UpTo8
  <2>2. S7 \in Seq(Nat) /\ P(8) \in Seq(Nat)
    BY <1>1, <1>2
  <2>. HIDE DEF S8, S7, P, M
  <2>3. Lies(S7 \o P(8), c, at)
    BY <1>5, <2>1, Zenon
  <2>4. /\ Lies(S7, c, at) /\ Lies(P(8), c, at + Len(S7))
        /\ Len(S7 \o P(8)) = Len(S7) + Len(P(8))
    BY <2>2, <2>3, LiesInParts
  <2>. QED  BY <2>1, <2>4, Zenon
<1>7. /\ Lies(S6, c, at) /\ Lies(P(7), c, at + Len(S6))
      /\ Len(S7) = Len(S6) + Len(P(7))
  <2>1. S7 = S6 \o P(7)
    BY DEF UpTo7
  <2>2. S6 \in Seq(Nat) /\ P(7) \in Seq(Nat)
    BY <1>1, <1>2
  <2>. HIDE DEF S7, S6, P, M
  <2>3. Lies(S6 \o P(7), c, at)
    BY <1>6, <2>1, Zenon
  <2>4. /\ Lies(S6, c, at) /\ Lies(P(7), c, at + Len(S6))
        /\ Len(S6 \o P(7)) = Len(S6) + Len(P(7))
    BY <2>2, <2>3, LiesInParts
  <2>. QED  BY <2>1, <2>4, Zenon
<1>8. /\ Lies(S5, c, at) /\ Lies(P(6), c, at + Len(S5))
      /\ Len(S6) = Len(S5) + Len(P(6))
  <2>1. S6 = S5 \o P(6)
    BY DEF UpTo6
  <2>2. S5 \in Seq(Nat) /\ P(6) \in Seq(Nat)
    BY <1>1, <1>2
  <2>. HIDE DEF S6, S5, P, M
  <2>3. Lies(S5 \o P(6), c, at)
    BY <1>7, <2>1, Zenon
  <2>4. /\ Lies(S5, c, at) /\ Lies(P(6), c, at + Len(S5))
        /\ Len(S5 \o P(6)) = Len(S5) + Len(P(6))
    BY <2>2, <2>3, LiesInParts
  <2>. QED  BY <2>1, <2>4, Zenon
<1>9. /\ Lies(S4, c, at) /\ Lies(P(5), c, at + Len(S4))
      /\ Len(S5) = Len(S4) + Len(P(5))
  <2>1. S5 = S4 \o P(5)
    BY DEF UpTo5
  <2>2. S4 \in Seq(Nat) /\ P(5) \in Seq(Nat)
    BY <1>1, <1>2
  <2>. HIDE DEF S5, S4, P, M
  <2>3. Lies(S4 \o P(5), c, at)
    BY <1>8, <2>1, Zenon
  <2>4. /\ Lies(S4, c, at) /\ Lies(P(5), c, at + Len(S4))
        /\ Len(S4 \o P(5)) = Len(S4) + Len(P(5))
    BY <2>2, <2>3, LiesInParts
  <2>. QED  BY <2>1, <2>4, Zenon
<1>10. /\ Lies(S1, c, at) /\ Lies(M, c, at + Len(S1))
      /\ Len(S4) = Len(S1) + Len(M)
  <2>1. S4 = S1 \o M
    BY DEF UpTo4
  <2>2. S1 \in Seq(Nat) /\ M \in Seq(Nat)
    BY <1>1, <1>2
  <2>. HIDE DEF S4, S1, P, M
  <2>3. Lies(S1 \o M, c, at)
    BY <1>9, <2>1, Zenon
  <2>4. /\ Lies(S1, c, at) /\ Lies(M, c, at + Len(S1))
        /\ Len(S1 \o M) = Len(S1) + Len(M)
    BY <2>2, <2>3, LiesInParts
  <2>. QED  BY <2>1, <2>4, Zenon
<1>11. /\ Lies(S0, c, at) /\ Lies(P(1), c, at + Len(S0))
      /\ Len(S1) = Len(S0) + Len(P(1))
  <2>1. S1 = S0 \o P(1)
    BY DEF UpTo1
  <2>2. S0 \in Seq(Nat) /\ P(1) \in Seq(Nat)
    BY <1>1, <1>2
  <2>. HIDE DEF S1, S0, P, M
  <2>3. Lies(S0 \o P(1), c, at)
    BY <1>10, <2>1, Zenon
  <2>4. /\ Lies(S0, c, at) /\ Lies(P(1), c, at + Len(S0))
        /\ Len(S0 \o P(1)) = Len(S0) + Len(P(1))
    BY <2>2, <2>3, LiesInParts
  <2>. QED  BY <2>1, <2>4, Zenon
<1>12. c[at + 1] = FlagsOf(before, row)
  <2>1. \A k \in 1 .. Len(S0) : c[at + k] = S0[k]
    BY <1>11 DEF Lies
  <2>2. c[at + 1] = S0[1]
    <3>. HIDE DEF S0
    <3>. QED  BY <1>2, <2>1
  <2>. QED  BY <2>2 DEF UpTo0
<1>. DEFINE m == at + Len(S1)
            a2 == m + Len(P(2))
            a3 == a2 + Len(P(3))
<1>13. m \in Nat
  <2>. HIDE DEF S1
  <2>. QED  BY <1>2, LenProperties
<1>14. Lies(P(2), c, m) /\ Lies(P(3), c, a2) /\ Lies(P(4), c, a3) /\ m + Len(M) = a3 + Len(P(4))
  <2>1. Lies(M, c, m)
    BY <1>10
  <2>. HIDE DEF m
  <2>. QED  BY <1>13, <2>1, MiddleLies
<1>. DEFINE a == [k \in 0 .. 10 |-> IF k = 0 THEN at + 1 ELSE IF k = 1 THEN at + Len(S1)
                      ELSE IF k = 2 THEN a2 ELSE IF k = 3 THEN a3
                      ELSE IF k = 4 THEN at + Len(S4) ELSE IF k = 5 THEN at + Len(S5)
                      ELSE IF k = 6 THEN at + Len(S6) ELSE IF k = 7 THEN at + Len(S7)
                      ELSE IF k = 8 THEN at + Len(S8) ELSE IF k = 9 THEN at + Len(S9)
                      ELSE at + Len(S10)]
<1>15. /\ a[0] = at + 1 /\ a[1] = at + Len(S1) /\ a[2] = a2 /\ a[3] = a3 /\ a[4] = at + Len(S4)
      /\ a[5] = at + Len(S5) /\ a[6] = at + Len(S6) /\ a[7] = at + Len(S7) /\ a[8] = at + Len(S8)
      /\ a[9] = at + Len(S9) /\ a[10] = at + Len(S10)
  <2>. HIDE DEF a2, a3, S0, S1, S4, S5, S6, S7, S8, S9, S10
  <2>. QED  OBVIOUS
<1>16. /\ Len(S1) \in Nat /\ Len(S4) \in Nat /\ Len(S5) \in Nat /\ Len(S6) \in Nat /\ Len(S7) \in Nat
      /\ Len(S8) \in Nat /\ Len(S9) \in Nat /\ Len(S10) \in Nat
  <2>. HIDE DEF S0, S1, S4, S5, S6, S7, S8, S9, S10
  <2>. QED  BY <1>2, LenProperties
<1>17. a2 \in Nat /\ a3 \in Nat
  <2>1. Len(P(2)) \in Nat /\ Len(P(3)) \in Nat
    BY <1>1
  <2>. HIDE DEF m, P
  <2>. QED  BY <1>13, <2>1
<1>18. a \in [0 .. 10 -> Nat]
  <2>. HIDE DEF a2, a3, S0, S1, S4, S5, S6, S7, S8, S9, S10
  <2>. QED  BY <1>16, <1>17
<1>. HIDE DEF a
<1>19. Lies(P(1), c, a[0]) /\ a[1] = a[0] + Len(P(1))
  <2>1. Len(P(1)) \in Nat
    BY <1>1
  <2>. HIDE DEF S1, S0, P
  <2>. QED  BY <1>2, <1>15, <1>11, <2>1
<1>20. Lies(P(2), c, a[1]) /\ a[2] = a[1] + Len(P(2))
  <2>. HIDE DEF m, S1
  <2>. QED  BY <1>14, <1>15 DEF m, a2, a3
<1>21. Lies(P(3), c, a[2]) /\ a[3] = a[2] + Len(P(3))
  <2>. HIDE DEF a2
  <2>. QED  BY <1>14, <1>15
<1>22. Lies(P(4), c, a[3]) /\ a[4] = a[3] + Len(P(4))
  <2>1. Len(M) \in Nat /\ Len(P(4)) \in Nat /\ a3 \in Nat
    BY <1>1, <1>2, <1>17, LenProperties
  <2>2. at + Len(S4) = m + Len(M)
    <3>. HIDE DEF S1, S4, M
    <3>. QED  BY <1>16, <1>10, <2>1
  <2>. HIDE DEF m, a3, M, S4
  <2>. QED  BY <1>14, <1>15, <2>2
<1>23. Lies(P(5), c, a[4]) /\ a[5] = a[4] + Len(P(5))
  <2>1. Len(P(5)) \in Nat
    BY <1>1
  <2>. HIDE DEF S5, S4, P
  <2>. QED  BY <1>15, <1>16, <1>9, <2>1
<1>24. Lies(P(6), c, a[5]) /\ a[6] = a[5] + Len(P(6))
  <2>1. Len(P(6)) \in Nat
    BY <1>1
  <2>. HIDE DEF S6, S5, P
  <2>. QED  BY <1>15, <1>16, <1>8, <2>1
<1>25. Lies(P(7), c, a[6]) /\ a[7] = a[6] + Len(P(7))
  <2>1. Len(P(7)) \in Nat
    BY <1>1
  <2>. HIDE DEF S7, S6, P
  <2>. QED  BY <1>15, <1>16, <1>7, <2>1
<1>26. Lies(P(8), c, a[7]) /\ a[8] = a[7] + Len(P(8))
  <2>1. Len(P(8)) \in Nat
    BY <1>1
  <2>. HIDE DEF S8, S7, P
  <2>. QED  BY <1>15, <1>16, <1>6, <2>1
<1>27. Lies(P(9), c, a[8]) /\ a[9] = a[8] + Len(P(9))
  <2>1. Len(P(9)) \in Nat
    BY <1>1
  <2>. HIDE DEF S9, S8, P
  <2>. QED  BY <1>15, <1>16, <1>5, <2>1
<1>28. Lies(P(10), c, a[9]) /\ a[10] = a[9] + Len(P(10))
  <2>1. Len(P(10)) \in Nat
    BY <1>1
  <2>. HIDE DEF S10, S9, P
  <2>. QED  BY <1>15, <1>16, <1>4, <2>1
<1>29. ASSUME NEW k \in 1 .. 10 PROVE Lies(P(k), c, a[k - 1]) /\ a[k] = a[k - 1] + Len(P(k))
  <2>. HIDE DEF P
  <2>1. CASE k = 1
    BY <1>19, <2>1
  <2>2. CASE k = 2
    BY <1>20, <2>2
  <2>3. CASE k = 3
    BY <1>21, <2>3
  <2>4. CASE k = 4
    BY <1>22, <2>4
  <2>5. CASE k = 5
    BY <1>23, <2>5
  <2>6. CASE k = 6
    BY <1>24, <2>6
  <2>7. CASE k = 7
    BY <1>25, <2>7
  <2>8. CASE k = 8
    BY <1>26, <2>8
  <2>9. CASE k = 9
    BY <1>27, <2>9
  <2>10. CASE k = 10
    BY <1>28, <2>10
  <2>11. k \in {1, 2, 3, 4, 5, 6, 7, 8, 9, 10}
    OBVIOUS
  <2>. QED  BY <2>1, <2>2, <2>3, <2>4, <2>5, <2>6, <2>7, <2>8, <2>9, <2>10, <2>11
<1>30. PiecesLie(a, before, row, c, at)
  BY <1>2, <1>15, <1>18, <1>29 DEF PiecesLie
<1>. QED  BY <1>12, <1>30

\* What is carried forward by a difference cut to its word comes to what it was
\* taken from.
LEMMA CarriedForward ==
  ASSUME NEW word, word = 128 \/ word = 2048, NEW x \in 0 .. word - 1, NEW y \in 0 .. word - 1
  PROVE  /\ (x + ((y - x) % word)) % word = y
         /\ (x + ((y - x - 1) % word) + 1) % word = y
<1>1. CASE word = 128
  <2>1. x \in Int /\ x >= 0 /\ x < 128 /\ y \in Int /\ y >= 0 /\ y < 128
    BY <1>1
  <2>2. (x + ((y - x) % 128)) % 128 = y
    BY <2>1
  <2>3. (x + ((y - x - 1) % 128) + 1) % 128 = y
    BY <2>1
  <2>. QED  BY <1>1, <2>1, <2>2, <2>3
<1>2. CASE word = 2048
  <2>1. x \in Int /\ x >= 0 /\ x < 2048 /\ y \in Int /\ y >= 0 /\ y < 2048
    BY <1>2
  <2>2. (x + ((y - x) % 2048)) % 2048 = y
    BY <2>1
  <2>3. (x + ((y - x - 1) % 2048) + 1) % 2048 = y
    BY <2>1
  <2>. QED  BY <1>2, <2>1, <2>2, <2>3
<1>. QED  BY <1>1, <1>2

LEMMA NothingCut ==
  ASSUME NEW x \in 0 .. Word32 - 1
  PROVE  x % Word32 = x /\ x + 0 = x
<1>1. Word32 \in Nat \ {0}
  BY WordsAreNumbers
<1>. QED  BY <1>1

\* The sequence number once the fields have been read: the flags may move it on.
SequenceRead(before, row) ==
  IF Differs(before, row, 1) THEN row.sequence_number ELSE before.sequence_number

\* The header of row, k of its fields read after the header before.
Stage(before, row, k) ==
  HeaderOf(IF k >= 1 THEN row.metadata_id ELSE before.metadata_id,
           IF k >= 2 THEN SequenceRead(before, row) ELSE before.sequence_number,
           IF k >= 3 THEN row.capture_thread_id ELSE before.capture_thread_id,
           IF k >= 4 THEN row.processor_number ELSE before.processor_number,
           IF k >= 5 THEN row.thread_id ELSE before.thread_id,
           IF k >= 6 THEN row.stack_id ELSE before.stack_id,
           IF k >= 7 THEN row.timestamp ELSE before.timestamp,
           IF k >= 8 THEN row.activity_id ELSE before.activity_id,
           IF k >= 9 THEN row.related_activity_id ELSE before.related_activity_id,
           before.is_sorted,
           IF k >= 10 THEN row.payload_size ELSE before.payload_size)

\* Each field of a header is taken.
LEMMA StagesFollow ==
  ASSUME NEW before, IsHeader(before), NEW row, IsHeader(row),
         NEW c, Len(c) \in Nat, NEW at \in Nat,
         NEW a, PiecesLie(a, before, row, c, at), NEW k \in 1 .. 10
  PROVE  Taken(c, FlagsOf(before, row), SoFar(a[k - 1], Stage(before, row, k - 1)), HeaderFields[k])
           = SoFar(a[k], Stage(before, row, k))
<1>. DEFINE flags == FlagsOf(before, row)
            P(i) == PieceOf(before, row, i)
            N(i) == NumberOf(before, row, i)
            H(i) == Stage(before, row, i)
<1>1. \A i \in 1 .. 10 : FitsIn(HeaderFields[i][1], N(i))
  BY NumbersFit
<1>2. /\ \A i \in 0 .. 10 : a[i] \in Nat
      /\ \A i \in 1 .. 10 : Lies(P(i), c, a[i - 1]) /\ a[i] = a[i - 1] + Len(P(i))
  BY DEF PiecesLie
<1>3. Always = 8
  BY DEF Always
<1>4. /\ Bit(flags, 0) <=> Differs(before, row, 0)
      /\ Bit(flags, 1) <=> Differs(before, row, 1)
      /\ Bit(flags, 2) <=> Differs(before, row, 2)
      /\ Bit(flags, 3) <=> Differs(before, row, 3)
      /\ Bit(flags, 4) <=> Differs(before, row, 4)
      /\ Bit(flags, 5) <=> Differs(before, row, 5)
      /\ Bit(flags, 7) <=> Differs(before, row, 7)
  BY FlagsSay DEF FlagsOf
<1>. HIDE DEF flags
<1>5. \A i \in 1 .. 10 :
        P(i) = IF Present(flags, HeaderFields[i])
               THEN WrittenField(HeaderFields[i][1], N(i)) ELSE <<>>
  <2>1. ASSUME NEW i \in 1 .. 10
        PROVE  Present(flags, HeaderFields[i])
                 <=> HeaderFields[i][2] = Always \/ Differs(before, row, HeaderFields[i][2])
    <3>1. CASE i = 1
      BY <1>3, <1>4, <3>1, FieldsAre DEF Present
    <3>2. CASE i = 2
      BY <1>3, <1>4, <3>2, FieldsAre DEF Present
    <3>3. CASE i = 3
      BY <1>3, <1>4, <3>3, FieldsAre DEF Present
    <3>4. CASE i = 4
      BY <1>3, <1>4, <3>4, FieldsAre DEF Present
    <3>5. CASE i = 5
      BY <1>3, <1>4, <3>5, FieldsAre DEF Present
    <3>6. CASE i = 6
      BY <1>3, <1>4, <3>6, FieldsAre DEF Present
    <3>7. CASE i = 7
      BY <1>3, <1>4, <3>7, FieldsAre DEF Present
    <3>8. CASE i = 8
      BY <1>3, <1>4, <3>8, FieldsAre DEF Present
    <3>9. CASE i = 9
      BY <1>3, <1>4, <3>9, FieldsAre DEF Present
    <3>10. CASE i = 10
      BY <1>3, <1>4, <3>10, FieldsAre DEF Present
    <3>11. i \in {1, 2, 3, 4, 5, 6, 7, 8, 9, 10}
      OBVIOUS
    <3>. QED  BY <3>1, <3>2, <3>3, <3>4, <3>5, <3>6, <3>7, <3>8, <3>9, <3>10, <3>11
  <2>. QED  BY <2>1, Zenon DEF PieceOf
<1>6. /\ before.sequence_number \in 0 .. Word32 - 1 /\ row.sequence_number \in 0 .. Word32 - 1
      /\ before.timestamp \in 0 .. Word64 - 1 /\ row.timestamp \in 0 .. Word64 - 1
  BY Zenon DEF IsHeader, InWords
<1>. HIDE DEF N, P, H
<1>7. Taken(c, flags, SoFar(a[0], H(0)), HeaderFields[1]) = SoFar(a[1], H(1))
  <2>. DEFINE f == HeaderFields[1]
              old == before.metadata_id
              new == row.metadata_id
              h == H(0)
              g == H(1)
  <2>1. f[1] = "metadata_id" /\ f[2] = 0
    BY FieldsAre
  <2>2. h[f[1]] = old /\ g = [h EXCEPT ![f[1]] = new] /\ (old = new => g = h)
    BY <2>1 DEF H, Stage, HeaderOf
  <2>3. Present(flags, f) <=> Differs(before, row, 0)
    BY <1>3, <1>4, <2>1 DEF Present
  <2>4. Carried(f[1], old, N(1)) = new
    BY <2>1 DEF Carried, N, NumberOf
  <2>5. ~Present(flags, f) => old = new
    BY <2>3 DEF Differs
  <2>6. FitsIn(f[1], N(1))
    BY <1>1
  <2>7. /\ P(1) = IF Present(flags, f) THEN WrittenField(f[1], N(1)) ELSE <<>>
        /\ a[0] \in Nat /\ Lies(P(1), c, a[0]) /\ a[1] = a[0] + Len(P(1))
    BY <1>2, <1>5
  <2>. HIDE DEF f, old, new, h, g
  <2>8. Takes(c, a[0], flags, f, N(1), P(1), h, g, old, new)
    BY <2>2, <2>3, <2>4, <2>5, <2>6, <2>7, Zenon DEF Takes
  <2>9. Taken(c, flags, SoFar(a[0], h), f) = SoFar(a[0] + Len(P(1)), g)
    BY <2>8, FieldIsTaken
  <2>. QED  BY <2>7, <2>9, Zenon DEF f, h, g
<1>8. Taken(c, flags, SoFar(a[1], H(1)), HeaderFields[2]) = SoFar(a[2], H(2))
  <2>. DEFINE f == HeaderFields[2]
              old == before.sequence_number
              new == SequenceRead(before, row)
              h == H(1)
              g == H(2)
  <2>1. f[1] = "sequence_number" /\ f[2] = 1
    BY FieldsAre
  <2>2. h[f[1]] = old /\ g = [h EXCEPT ![f[1]] = new] /\ (old = new => g = h)
    BY <2>1 DEF H, Stage, HeaderOf
  <2>3. Present(flags, f) <=> Differs(before, row, 1)
    BY <1>3, <1>4, <2>1 DEF Present
  <2>4. Present(flags, f) => Carried(f[1], old, N(2)) = new
    <3>. SUFFICES ASSUME Present(flags, f) PROVE Carried(f[1], old, N(2)) = new
      OBVIOUS
    <3>. DEFINE y == row.sequence_number
    <3>1. Carried(f[1], old, N(2)) = (old + N(2) + 1) % Word32
      BY <2>1 DEF Carried
    <3>2. N(2) = (y - old - 1) % Word32
      BY DEF N, NumberOf
    <3>3. old \in 0 .. Word32 - 1 /\ y \in 0 .. Word32 - 1
      BY <1>6
    <3>4. new = y
      BY <2>3 DEF SequenceRead
    <3>. DEFINE moved == (y - old - 1) % Word32
    <3>5. (old + moved + 1) % Word32 = y
      <4>. HIDE DEF old, y
      <4>. QED  BY <3>3, WordsAre, CarriedForward
    <3>. HIDE DEF f, old, new, y, moved
    <3>6. N(2) = moved
      BY <3>2, Zenon DEF moved
    <3>. QED  BY <3>1, <3>4, <3>5, <3>6, Zenon
  <2>5. ~Present(flags, f) => old = new
    BY <2>3 DEF SequenceRead
  <2>6. FitsIn(f[1], N(2))
    BY <1>1
  <2>7. /\ P(2) = IF Present(flags, f) THEN WrittenField(f[1], N(2)) ELSE <<>>
        /\ a[1] \in Nat /\ Lies(P(2), c, a[1]) /\ a[2] = a[1] + Len(P(2))
    BY <1>2, <1>5
  <2>. HIDE DEF f, old, new, h, g
  <2>8. Takes(c, a[1], flags, f, N(2), P(2), h, g, old, new)
    BY <2>2, <2>3, <2>4, <2>5, <2>6, <2>7, Zenon DEF Takes
  <2>9. Taken(c, flags, SoFar(a[1], h), f) = SoFar(a[1] + Len(P(2)), g)
    BY <2>8, FieldIsTaken
  <2>. QED  BY <2>7, <2>9, Zenon DEF f, h, g
<1>9. Taken(c, flags, SoFar(a[2], H(2)), HeaderFields[3]) = SoFar(a[3], H(3))
  <2>. DEFINE f == HeaderFields[3]
              old == before.capture_thread_id
              new == row.capture_thread_id
              h == H(2)
              g == H(3)
  <2>1. f[1] = "capture_thread_id" /\ f[2] = 1
    BY FieldsAre
  <2>2. h[f[1]] = old /\ g = [h EXCEPT ![f[1]] = new] /\ (old = new => g = h)
    BY <2>1 DEF H, Stage, HeaderOf
  <2>3. Present(flags, f) <=> Differs(before, row, 1)
    BY <1>3, <1>4, <2>1 DEF Present
  <2>4. Carried(f[1], old, N(3)) = new
    BY <2>1 DEF Carried, N, NumberOf
  <2>5. ~Present(flags, f) => old = new
    BY <2>3 DEF Differs
  <2>6. FitsIn(f[1], N(3))
    BY <1>1
  <2>7. /\ P(3) = IF Present(flags, f) THEN WrittenField(f[1], N(3)) ELSE <<>>
        /\ a[2] \in Nat /\ Lies(P(3), c, a[2]) /\ a[3] = a[2] + Len(P(3))
    BY <1>2, <1>5
  <2>. HIDE DEF f, old, new, h, g
  <2>8. Takes(c, a[2], flags, f, N(3), P(3), h, g, old, new)
    BY <2>2, <2>3, <2>4, <2>5, <2>6, <2>7, Zenon DEF Takes
  <2>9. Taken(c, flags, SoFar(a[2], h), f) = SoFar(a[2] + Len(P(3)), g)
    BY <2>8, FieldIsTaken
  <2>. QED  BY <2>7, <2>9, Zenon DEF f, h, g
<1>10. Taken(c, flags, SoFar(a[3], H(3)), HeaderFields[4]) = SoFar(a[4], H(4))
  <2>. DEFINE f == HeaderFields[4]
              old == before.processor_number
              new == row.processor_number
              h == H(3)
              g == H(4)
  <2>1. f[1] = "processor_number" /\ f[2] = 1
    BY FieldsAre
  <2>2. h[f[1]] = old /\ g = [h EXCEPT ![f[1]] = new] /\ (old = new => g = h)
    BY <2>1 DEF H, Stage, HeaderOf
  <2>3. Present(flags, f) <=> Differs(before, row, 1)
    BY <1>3, <1>4, <2>1 DEF Present
  <2>4. Carried(f[1], old, N(4)) = new
    BY <2>1 DEF Carried, N, NumberOf
  <2>5. ~Present(flags, f) => old = new
    BY <2>3 DEF Differs
  <2>6. FitsIn(f[1], N(4))
    BY <1>1
  <2>7. /\ P(4) = IF Present(flags, f) THEN WrittenField(f[1], N(4)) ELSE <<>>
        /\ a[3] \in Nat /\ Lies(P(4), c, a[3]) /\ a[4] = a[3] + Len(P(4))
    BY <1>2, <1>5
  <2>. HIDE DEF f, old, new, h, g
  <2>8. Takes(c, a[3], flags, f, N(4), P(4), h, g, old, new)
    BY <2>2, <2>3, <2>4, <2>5, <2>6, <2>7, Zenon DEF Takes
  <2>9. Taken(c, flags, SoFar(a[3], h), f) = SoFar(a[3] + Len(P(4)), g)
    BY <2>8, FieldIsTaken
  <2>. QED  BY <2>7, <2>9, Zenon DEF f, h, g
<1>11. Taken(c, flags, SoFar(a[4], H(4)), HeaderFields[5]) = SoFar(a[5], H(5))
  <2>. DEFINE f == HeaderFields[5]
              old == before.thread_id
              new == row.thread_id
              h == H(4)
              g == H(5)
  <2>1. f[1] = "thread_id" /\ f[2] = 2
    BY FieldsAre
  <2>2. h[f[1]] = old /\ g = [h EXCEPT ![f[1]] = new] /\ (old = new => g = h)
    BY <2>1 DEF H, Stage, HeaderOf
  <2>3. Present(flags, f) <=> Differs(before, row, 2)
    BY <1>3, <1>4, <2>1 DEF Present
  <2>4. Carried(f[1], old, N(5)) = new
    BY <2>1 DEF Carried, N, NumberOf
  <2>5. ~Present(flags, f) => old = new
    BY <2>3 DEF Differs
  <2>6. FitsIn(f[1], N(5))
    BY <1>1
  <2>7. /\ P(5) = IF Present(flags, f) THEN WrittenField(f[1], N(5)) ELSE <<>>
        /\ a[4] \in Nat /\ Lies(P(5), c, a[4]) /\ a[5] = a[4] + Len(P(5))
    BY <1>2, <1>5
  <2>. HIDE DEF f, old, new, h, g
  <2>8. Takes(c, a[4], flags, f, N(5), P(5), h, g, old, new)
    BY <2>2, <2>3, <2>4, <2>5, <2>6, <2>7, Zenon DEF Takes
  <2>9. Taken(c, flags, SoFar(a[4], h), f) = SoFar(a[4] + Len(P(5)), g)
    BY <2>8, FieldIsTaken
  <2>. QED  BY <2>7, <2>9, Zenon DEF f, h, g
<1>12. Taken(c, flags, SoFar(a[5], H(5)), HeaderFields[6]) = SoFar(a[6], H(6))
  <2>. DEFINE f == HeaderFields[6]
              old == before.stack_id
              new == row.stack_id
              h == H(5)
              g == H(6)
  <2>1. f[1] = "stack_id" /\ f[2] = 3
    BY FieldsAre
  <2>2. h[f[1]] = old /\ g = [h EXCEPT ![f[1]] = new] /\ (old = new => g = h)
    BY <2>1 DEF H, Stage, HeaderOf
  <2>3. Present(flags, f) <=> Differs(before, row, 3)
    BY <1>3, <1>4, <2>1 DEF Present
  <2>4. Carried(f[1], old, N(6)) = new
    BY <2>1 DEF Carried, N, NumberOf
  <2>5. ~Present(flags, f) => old = new
    BY <2>3 DEF Differs
  <2>6. FitsIn(f[1], N(6))
    BY <1>1
  <2>7. /\ P(6) = IF Present(flags, f) THEN WrittenField(f[1], N(6)) ELSE <<>>
        /\ a[5] \in Nat /\ Lies(P(6), c, a[5]) /\ a[6] = a[5] + Len(P(6))
    BY <1>2, <1>5
  <2>. HIDE DEF f, old, new, h, g
  <2>8. Takes(c, a[5], flags, f, N(6), P(6), h, g, old, new)
    BY <2>2, <2>3, <2>4, <2>5, <2>6, <2>7, Zenon DEF Takes
  <2>9. Taken(c, flags, SoFar(a[5], h), f) = SoFar(a[5] + Len(P(6)), g)
    BY <2>8, FieldIsTaken
  <2>. QED  BY <2>7, <2>9, Zenon DEF f, h, g
<1>13. Taken(c, flags, SoFar(a[6], H(6)), HeaderFields[7]) = SoFar(a[7], H(7))
  <2>. DEFINE f == HeaderFields[7]
              old == before.timestamp
              new == row.timestamp
              h == H(6)
              g == H(7)
  <2>1. f[1] = "timestamp"
    BY FieldsAre
  <2>2. h[f[1]] = old /\ g = [h EXCEPT ![f[1]] = new] /\ (old = new => g = h)
    BY <2>1 DEF H, Stage, HeaderOf
  <2>3. Present(flags, f)
    BY FieldsAre DEF Present
  <2>4. Carried(f[1], old, N(7)) = new
    <3>1. Carried(f[1], old, N(7)) = (old + N(7)) % Word64
      BY <2>1 DEF Carried
    <3>2. N(7) = (new - old) % Word64
      BY DEF N, NumberOf
    <3>3. old \in 0 .. Word64 - 1 /\ new \in 0 .. Word64 - 1
      BY <1>6
    <3>. DEFINE moved == (new - old) % Word64
    <3>4. (old + moved) % Word64 = new
      <4>. HIDE DEF old, new
      <4>. QED  BY <3>3, WordsAre, CarriedForward
    <3>. HIDE DEF f, old, new, moved
    <3>5. N(7) = moved
      BY <3>2, Zenon DEF moved
    <3>. QED  BY <3>1, <3>4, <3>5, Zenon
  <2>6. FitsIn(f[1], N(7))
    BY <1>1
  <2>7. /\ P(7) = IF Present(flags, f) THEN WrittenField(f[1], N(7)) ELSE <<>>
        /\ a[6] \in Nat /\ Lies(P(7), c, a[6]) /\ a[7] = a[6] + Len(P(7))
    BY <1>2, <1>5
  <2>. HIDE DEF f, old, new, h, g
  <2>8. Takes(c, a[6], flags, f, N(7), P(7), h, g, old, new)
    BY <2>2, <2>3, <2>4, <2>6, <2>7, Zenon DEF Takes
  <2>9. Taken(c, flags, SoFar(a[6], h), f) = SoFar(a[6] + Len(P(7)), g)
    BY <2>8, FieldIsTaken
  <2>. QED  BY <2>7, <2>9, Zenon DEF f, h, g
<1>14. Taken(c, flags, SoFar(a[7], H(7)), HeaderFields[8]) = SoFar(a[8], H(8))
  <2>. DEFINE f == HeaderFields[8]
              old == before.activity_id
              new == row.activity_id
              h == H(7)
              g == H(8)
  <2>1. f[1] = "activity_id" /\ f[2] = 4
    BY FieldsAre
  <2>2. h[f[1]] = old /\ g = [h EXCEPT ![f[1]] = new] /\ (old = new => g = h)
    BY <2>1 DEF H, Stage, HeaderOf
  <2>3. Present(flags, f) <=> Differs(before, row, 4)
    BY <1>3, <1>4, <2>1 DEF Present
  <2>4. Carried(f[1], old, N(8)) = new
    BY <2>1 DEF Carried, N, NumberOf
  <2>5. ~Present(flags, f) => old = new
    BY <2>3 DEF Differs
  <2>6. FitsIn(f[1], N(8))
    BY <1>1
  <2>7. /\ P(8) = IF Present(flags, f) THEN WrittenField(f[1], N(8)) ELSE <<>>
        /\ a[7] \in Nat /\ Lies(P(8), c, a[7]) /\ a[8] = a[7] + Len(P(8))
    BY <1>2, <1>5
  <2>. HIDE DEF f, old, new, h, g
  <2>8. Takes(c, a[7], flags, f, N(8), P(8), h, g, old, new)
    BY <2>2, <2>3, <2>4, <2>5, <2>6, <2>7, Zenon DEF Takes
  <2>9. Taken(c, flags, SoFar(a[7], h), f) = SoFar(a[7] + Len(P(8)), g)
    BY <2>8, FieldIsTaken
  <2>. QED  BY <2>7, <2>9, Zenon DEF f, h, g
<1>15. Taken(c, flags, SoFar(a[8], H(8)), HeaderFields[9]) = SoFar(a[9], H(9))
  <2>. DEFINE f == HeaderFields[9]
              old == before.related_activity_id
              new == row.related_activity_id
              h == H(8)
              g == H(9)
  <2>1. f[1] = "related_activity_id" /\ f[2] = 5
    BY FieldsAre
  <2>2. h[f[1]] = old /\ g = [h EXCEPT ![f[1]] = new] /\ (old = new => g = h)
    BY <2>1 DEF H, Stage, HeaderOf
  <2>3. Present(flags, f) <=> Differs(before, row, 5)
    BY <1>3, <1>4, <2>1 DEF Present
  <2>4. Carried(f[1], old, N(9)) = new
    BY <2>1 DEF Carried, N, NumberOf
  <2>5. ~Present(flags, f) => old = new
    BY <2>3 DEF Differs
  <2>6. FitsIn(f[1], N(9))
    BY <1>1
  <2>7. /\ P(9) = IF Present(flags, f) THEN WrittenField(f[1], N(9)) ELSE <<>>
        /\ a[8] \in Nat /\ Lies(P(9), c, a[8]) /\ a[9] = a[8] + Len(P(9))
    BY <1>2, <1>5
  <2>. HIDE DEF f, old, new, h, g
  <2>8. Takes(c, a[8], flags, f, N(9), P(9), h, g, old, new)
    BY <2>2, <2>3, <2>4, <2>5, <2>6, <2>7, Zenon DEF Takes
  <2>9. Taken(c, flags, SoFar(a[8], h), f) = SoFar(a[8] + Len(P(9)), g)
    BY <2>8, FieldIsTaken
  <2>. QED  BY <2>7, <2>9, Zenon DEF f, h, g
<1>16. Taken(c, flags, SoFar(a[9], H(9)), HeaderFields[10]) = SoFar(a[10], H(10))
  <2>. DEFINE f == HeaderFields[10]
              old == before.payload_size
              new == row.payload_size
              h == H(9)
              g == H(10)
  <2>1. f[1] = "payload_size" /\ f[2] = 7
    BY FieldsAre
  <2>2. h[f[1]] = old /\ g = [h EXCEPT ![f[1]] = new] /\ (old = new => g = h)
    BY <2>1 DEF H, Stage, HeaderOf
  <2>3. Present(flags, f) <=> Differs(before, row, 7)
    BY <1>3, <1>4, <2>1 DEF Present
  <2>4. Carried(f[1], old, N(10)) = new
    BY <2>1 DEF Carried, N, NumberOf
  <2>5. ~Present(flags, f) => old = new
    BY <2>3 DEF Differs
  <2>6. FitsIn(f[1], N(10))
    BY <1>1
  <2>7. /\ P(10) = IF Present(flags, f) THEN WrittenField(f[1], N(10)) ELSE <<>>
        /\ a[9] \in Nat /\ Lies(P(10), c, a[9]) /\ a[10] = a[9] + Len(P(10))
    BY <1>2, <1>5
  <2>. HIDE DEF f, old, new, h, g
  <2>8. Takes(c, a[9], flags, f, N(10), P(10), h, g, old, new)
    BY <2>2, <2>3, <2>4, <2>5, <2>6, <2>7, Zenon DEF Takes
  <2>9. Taken(c, flags, SoFar(a[9], h), f) = SoFar(a[9] + Len(P(10)), g)
    BY <2>8, FieldIsTaken
  <2>. QED  BY <2>7, <2>9, Zenon DEF f, h, g
<1>. HIDE DEF flags, H
<1>17. CASE k = 1
  <2>1. k - 1 = 0
    BY <1>17
  <2>. QED  BY <1>7, <1>17, <2>1, Zenon DEF H, flags
<1>18. CASE k = 2
  <2>1. k - 1 = 1
    BY <1>18
  <2>. QED  BY <1>8, <1>18, <2>1, Zenon DEF H, flags
<1>19. CASE k = 3
  <2>1. k - 1 = 2
    BY <1>19
  <2>. QED  BY <1>9, <1>19, <2>1, Zenon DEF H, flags
<1>20. CASE k = 4
  <2>1. k - 1 = 3
    BY <1>20
  <2>. QED  BY <1>10, <1>20, <2>1, Zenon DEF H, flags
<1>21. CASE k = 5
  <2>1. k - 1 = 4
    BY <1>21
  <2>. QED  BY <1>11, <1>21, <2>1, Zenon DEF H, flags
<1>22. CASE k = 6
  <2>1. k - 1 = 5
    BY <1>22
  <2>. QED  BY <1>12, <1>22, <2>1, Zenon DEF H, flags
<1>23. CASE k = 7
  <2>1. k - 1 = 6
    BY <1>23
  <2>. QED  BY <1>13, <1>23, <2>1, Zenon DEF H, flags
<1>24. CASE k = 8
  <2>1. k - 1 = 7
    BY <1>24
  <2>. QED  BY <1>14, <1>24, <2>1, Zenon DEF H, flags
<1>25. CASE k = 9
  <2>1. k - 1 = 8
    BY <1>25
  <2>. QED  BY <1>15, <1>25, <2>1, Zenon DEF H, flags
<1>26. CASE k = 10
  <2>1. k - 1 = 9
    BY <1>26
  <2>. QED  BY <1>16, <1>26, <2>1, Zenon DEF H, flags
<1>27. k \in {1, 2, 3, 4, 5, 6, 7, 8, 9, 10}
  OBVIOUS
<1>. QED  BY <1>17, <1>18, <1>19, <1>20, <1>21, <1>22, <1>23, <1>24, <1>25, <1>26, <1>27

\* What the flags imply of a header that has been read.
LEMMA ImpliedIs ==
  ASSUME NEW flags, NEW end, NEW id, NEW seq, NEW captured, NEW processor, NEW thread, NEW stack,
         NEW timestamp, NEW activity, NEW related, NEW sorted, NEW size
  PROVE  Implied(flags, SoFar(end, HeaderOf(id, seq, captured, processor, thread, stack, timestamp,
                                            activity, related, sorted, size)))
           = SoFar(end, HeaderOf(id, IF ~Bit(flags, 1) /\ id # 0 THEN (seq + 1) % Word32 ELSE seq,
                                 captured, processor, thread, stack, timestamp, activity, related,
                                 Bit(flags, SortedFlag), size))
<1>. DEFINE h == HeaderOf(id, seq, captured, processor, thread, stack, timestamp,
                          activity, related, sorted, size)
            r == SoFar(end, h)
            next == ~Bit(flags, 1) /\ id # 0
            s == Bit(flags, SortedFlag)
            moved == IF next THEN (seq + 1) % Word32 ELSE seq
            h1 == HeaderOf(id, seq, captured, processor, thread, stack, timestamp,
                           activity, related, s, size)
            h2 == HeaderOf(id, moved, captured, processor, thread, stack, timestamp,
                           activity, related, s, size)
<1>1. /\ h.metadata_id = id /\ h.sequence_number = seq /\ h1.sequence_number = seq
      /\ [h EXCEPT !.is_sorted = s] = h1
      /\ [h1 EXCEPT !.sequence_number = moved] = h2
  <2>. HIDE DEF moved, s
  <2>1. h.metadata_id = id /\ h.sequence_number = seq /\ h1.sequence_number = seq
    BY DEF HeaderOf
  <2>2. [h EXCEPT !.is_sorted = s] = h1
    BY DEF HeaderOf
  <2>3. [h1 EXCEPT !.sequence_number = moved] = h2
    BY DEF HeaderOf
  <2>. QED  BY <2>1, <2>2, <2>3
<1>2. r.header = h
  <2>. HIDE DEF h
  <2>. QED  BY DEF SoFar
<1>5. Implied(flags, r) = [r EXCEPT !.header = h2]
  <2>. HIDE DEF h, s
  <2>1. r.header.metadata_id = id
    BY <1>1, <1>2
  <2>. HIDE DEF r
  <2>2. Implied(flags, r)
          = [r EXCEPT !.header = IF next THEN [h1 EXCEPT !.sequence_number = (@ + 1) % Word32]
                                 ELSE h1]
    BY <1>1, <1>2, <2>1, ZenonT(30) DEF Implied, s
  <2>3. next => [h1 EXCEPT !.sequence_number = (@ + 1) % Word32] = h2
    BY <1>1, Zenon
  <2>4. ~next => h1 = h2
    <3>. HIDE DEF next
    <3>. QED  BY Zenon
  <2>. HIDE DEF next, h1, h2
  <2>. QED  BY <2>2, <2>3, <2>4, Zenon
<1>6. [r EXCEPT !.header = h2] = SoFar(end, h2)
  <2>. DEFINE yes == TRUE
  <2>1. SoFar(end, h) = [ok |-> yes, at |-> end, header |-> h]
        /\ SoFar(end, h2) = [ok |-> yes, at |-> end, header |-> h2]
    BY Zenon DEF SoFar
  <2>. HIDE DEF h, h2, yes
  <2>2. [[ok |-> yes, at |-> end, header |-> h] EXCEPT !.header = h2]
          = [ok |-> yes, at |-> end, header |-> h2]
    OBVIOUS
  <2>. QED  BY <2>1, <2>2, Zenon
<1>. QED  BY <1>1, <1>5, <1>6, Zenon DEF s

\* A compressed header is read back, after the header it was written after.
LEMMA HeaderReadsBack ==
  ASSUME NEW before, IsHeader(before), NEW row, IsHeader(row),
         NEW c, Len(c) \in Nat, NEW at \in Nat, Lies(WrittenHeader(before, row), c, at)
  PROVE  ReadCompressed(c, at, before) = SoFar(at + Len(WrittenHeader(before, row)), row)
<1>. DEFINE flags == c[at + 1]
            base == [ok |-> TRUE, at |-> at + 1, header |-> before]
            H(k) == Stage(before, row, k)
<1>1. flags = FlagsOf(before, row) /\ \E a : PiecesLie(a, before, row, c, at)
  BY HeaderLies
<1>2. PICK a : PiecesLie(a, before, row, c, at)
  BY <1>1
<1>3. PICK d : IsTakingFields(d, 10, c, flags, base) /\ TakeFields(c, at, before) = d[1 .. 10]
  <2>. DEFINE e == CHOOSE d : IsTakingFields(d, 10, c, flags, base)
  <2>1. TakeFields(c, at, before) = e[1 .. 10]
    BY TakeFieldsIs
  <2>. HIDE DEF flags, base
  <2>2. IsTakingFields(e, 10, c, flags, base)
    BY TakingFieldsExists, 10 \in Nat
  <2>. HIDE DEF e
  <2>. QED  BY <2>1, <2>2
<1>4. d[1 .. 0] = base /\ \A k \in 1 .. 10 : d[1 .. k] = Taken(c, flags, d[1 .. k - 1], HeaderFields[k])
  <2>. HIDE DEF flags, base
  <2>1. 10 \in Nat /\ IsTakingFields(d, 10, c, flags, base)
    BY <1>3
  <2>2. d[1 .. 0] = base
    BY <2>1, TakingFieldsGoes
  <2>3. \A k \in 1 .. 10 : d[1 .. k] = Taken(c, flags, d[1 .. k - 1], HeaderFields[k])
    BY <2>1, TakingFieldsGoes
  <2>. QED  BY <2>2, <2>3, Zenon
<1>5. H(0) = before
  <2>1. before = HeaderOf(before.metadata_id, before.sequence_number, before.capture_thread_id,
                          before.processor_number, before.thread_id, before.stack_id,
                          before.timestamp, before.activity_id, before.related_activity_id,
                          before.is_sorted, before.payload_size)
    BY Zenon DEF IsHeader
  <2>2. H(0) = HeaderOf(before.metadata_id, before.sequence_number, before.capture_thread_id,
                        before.processor_number, before.thread_id, before.stack_id,
                        before.timestamp, before.activity_id, before.related_activity_id,
                        before.is_sorted, before.payload_size)
    BY DEF Stage
  <2>. QED  BY <2>1, <2>2, Zenon
<1>6. base = SoFar(a[0], H(0))
  <2>1. a[0] = at + 1
    BY <1>2 DEF PiecesLie
  <2>. HIDE DEF H
  <2>. QED  BY <1>5, <2>1 DEF SoFar
<1>. DEFINE read == {k \in Nat : k <= 10 => d[1 .. k] = SoFar(a[k], H(k))}
<1>. HIDE DEF base, H, flags
<1>7. 0 \in read
  BY <1>4, <1>6
<1>8. ASSUME NEW k \in Nat, k \in read PROVE k + 1 \in read
  <2>. SUFFICES ASSUME k + 1 <= 10 PROVE d[1 .. k + 1] = SoFar(a[k + 1], H(k + 1))
    OBVIOUS
  <2>1. k + 1 \in 1 .. 10 /\ (k + 1) - 1 = k /\ k <= 10
    OBVIOUS
  <2>2. d[1 .. k + 1] = Taken(c, flags, SoFar(a[k], H(k)), HeaderFields[k + 1])
    BY <1>4, <1>8, <2>1
  <2>3. Taken(c, FlagsOf(before, row), SoFar(a[(k + 1) - 1], H((k + 1) - 1)), HeaderFields[k + 1])
          = SoFar(a[k + 1], H(k + 1))
    BY <1>2, <2>1, StagesFollow DEF H
  <2>. QED  BY <1>1, <2>1, <2>2, <2>3
<1>9. Nat \subseteq read
  <2>. HIDE DEF read
  <2>. QED  BY <1>7, <1>8, NumbersByInduction
<1>10. d[1 .. 10] = SoFar(a[10], H(10))
  <2>1. 10 \in read /\ 10 <= 10
    <3>. HIDE DEF read
    <3>. QED  BY <1>9
  <2>. QED  BY <2>1
<1>11. a[10] = at + Len(WrittenHeader(before, row))
  BY <1>2 DEF PiecesLie
<1>12. H(10) = HeaderOf(row.metadata_id, SequenceRead(before, row), row.capture_thread_id,
                       row.processor_number, row.thread_id, row.stack_id, row.timestamp,
                       row.activity_id, row.related_activity_id, before.is_sorted, row.payload_size)
  BY DEF H, Stage
<1>13. /\ Bit(flags, 1) <=> Differs(before, row, 1)
       /\ Bit(flags, SortedFlag) = row.is_sorted
  <2>1. /\ Bit(FlagsOf(before, row), 1) <=> Differs(before, row, 1)
        /\ Bit(FlagsOf(before, row), 6) <=> Differs(before, row, 6)
    BY FlagsSay DEF FlagsOf
  <2>2. Differs(before, row, 6) <=> row.is_sorted
    BY DEF Differs
  <2>3. row.is_sorted \in BOOLEAN
    BY Zenon DEF IsHeader, InWords
  <2>4. SortedFlag = 6 /\ Bit(flags, 6) \in BOOLEAN
    BY DEF SortedFlag, Bit
  <2>5. Bit(flags, 6) <=> row.is_sorted
    BY <1>1, <2>1, <2>2, Zenon
  <2>. QED  BY <1>1, <2>1, <2>3, <2>4, <2>5
<1>. DEFINE next == ~Bit(flags, 1) /\ row.metadata_id # 0
            seq == SequenceRead(before, row)
            end == a[10]
            moved == IF next THEN (seq + 1) % Word32 ELSE seq
<1>14. moved = row.sequence_number
  <2>1. /\ before.sequence_number \in 0 .. Word32 - 1
        /\ row.sequence_number \in 0 .. Word32 - 1
    BY Zenon DEF IsHeader, InWords
  <2>2. CASE Differs(before, row, 1)
    BY <1>13, <2>2 DEF SequenceRead
  <2>3. CASE ~Differs(before, row, 1)
    <3>1. row.sequence_number
            = (before.sequence_number + (IF row.metadata_id # 0 THEN 1 ELSE 0)) % Word32
      BY <2>3 DEF Differs
    <3>2. seq = before.sequence_number /\ (next <=> row.metadata_id # 0)
      BY <1>13, <2>3 DEF SequenceRead
    <3>3. before.sequence_number % Word32 = before.sequence_number
      BY <2>1, NothingCut
    <3>4. before.sequence_number + 0 = before.sequence_number
      BY <2>1, NothingCut
    <3>. HIDE DEF next, seq
    <3>. QED  BY <3>1, <3>2, <3>3, <3>4
  <2>. QED  BY <2>2, <2>3
<1>15. Implied(flags, SoFar(end, H(10)))
         = SoFar(end, HeaderOf(row.metadata_id, moved, row.capture_thread_id,
                       row.processor_number, row.thread_id, row.stack_id, row.timestamp,
                       row.activity_id, row.related_activity_id, Bit(flags, SortedFlag), row.payload_size))
  <2>. DEFINE s == Bit(flags, SortedFlag)
  <2>. HIDE DEF s, seq, end
  <2>1. Implied(flags, SoFar(end, HeaderOf(row.metadata_id, seq, row.capture_thread_id,
                  row.processor_number, row.thread_id, row.stack_id, row.timestamp,
                  row.activity_id, row.related_activity_id, before.is_sorted, row.payload_size)))
         = SoFar(end, HeaderOf(row.metadata_id, moved, row.capture_thread_id,
                  row.processor_number, row.thread_id, row.stack_id, row.timestamp,
                  row.activity_id, row.related_activity_id, s, row.payload_size))
    BY ImpliedIs DEF s
  <2>. QED  BY <1>12, <2>1, Zenon DEF s, seq
<1>16. row = HeaderOf(row.metadata_id, row.sequence_number, row.capture_thread_id,
                      row.processor_number, row.thread_id, row.stack_id, row.timestamp,
                      row.activity_id, row.related_activity_id, row.is_sorted, row.payload_size)
  BY Zenon DEF IsHeader
<1>17. Implied(flags, SoFar(end, H(10))) = SoFar(end, row)
  <2>. HIDE DEF moved, end
  <2>. QED  BY <1>13, <1>14, <1>15, <1>16, Zenon
<1>. QED  BY <1>3, <1>10, <1>11, <1>17 DEF ReadCompressed, flags

\* What has been read of a block: the rows so far are a sequence.
IsReading(p) ==
  /\ p = [ok |-> p.ok, at |-> p.at, header |-> p.header, rows |-> p.rows]
  /\ IsSequence(p.rows)

\* Reading a row leaves a sequence of rows.
LEMMA NextRowReads ==
  ASSUME NEW c, NEW compressed, NEW p, IsReading(p)
  PROVE  IsReading(NextRow(c, compressed, p))
<1>1. ASSUME NEW r PROVE IsReading(WithRow(c, p, r))
  <2>. DEFINE end == r.at + r.header.payload_size
              row == RawEvent(r.header, SubSeq(c, r.at + 1, end))
              long == [ok |-> TRUE, at |-> end, header |-> r.header, rows |-> Append(p.rows, row)]
              no == FALSE
              failed == [p EXCEPT !.ok = no]
  <2>1. WithRow(c, p, r) = failed \/ WithRow(c, p, r) = long
    BY DEF WithRow
  <2>2. IsReading(failed)
    <3>1. PICK ok, at, header, rows :
            p = [ok |-> ok, at |-> at, header |-> header, rows |-> rows]
      BY DEF IsReading
    <3>. HIDE DEF no
    <3>2. failed.rows = p.rows /\ failed = [ok |-> failed.ok, at |-> failed.at,
                                             header |-> failed.header, rows |-> failed.rows]
      <4>1. failed = [ok |-> no, at |-> at, header |-> header, rows |-> rows]
        BY <3>1
      <4>. HIDE DEF failed
      <4>. QED  BY <3>1, <4>1
    <3>. HIDE DEF failed
    <3>. QED  BY <3>2 DEF IsReading
  <2>3. IsReading(long)
    <3>1. IsSequence(Append(p.rows, row))
      <4>. HIDE DEF row
      <4>. QED  BY AppendSequence DEF IsReading
    <3>. HIDE DEF row
    <3>. QED  BY <3>1 DEF IsReading
  <2>. HIDE DEF failed, long
  <2>. QED  BY <2>1, <2>2, <2>3
<1>. QED  BY <1>1 DEF NextRow

\* What ParseRows computes on the way, row by row.
IsParsing(f, c, compressed, p) ==
  f = [k \in 0 .. Len(c) |-> IF k = 0 THEN p ELSE NextRow(c, compressed, f[k - 1])]

\* There is such a computation.
LEMMA ParsingExists ==
  ASSUME NEW c, NEW compressed, NEW p, Len(c) \in Nat
  PROVE  \E f : IsParsing(f, c, compressed, p)
<1>. DEFINE n == Len(c)
            upto(f, k) == f = [j \in 0 .. k |-> IF j = 0 THEN p
                                                ELSE NextRow(c, compressed, f[j - 1])]
            good == {k \in Nat : \E f : upto(f, k)}
<1>. HIDE DEF n
<1>1. 0 \in good
  <2>1. upto([j \in 0 .. 0 |-> p], 0)
    OBVIOUS
  <2>. QED  BY <2>1
<1>2. ASSUME NEW k \in Nat, k \in good PROVE k + 1 \in good
  <2>1. PICK f : upto(f, k)
    BY <1>2
  <2>. DEFINE last == NextRow(c, compressed, f[k])
              g == [j \in 0 .. k + 1 |-> IF j = k + 1 THEN last ELSE f[j]]
  <2>2. ASSUME NEW j \in 0 .. k + 1
        PROVE  g[j] = IF j = 0 THEN p ELSE NextRow(c, compressed, g[j - 1])
    <3>1. CASE j = k + 1
      <4>1. g[j] = last /\ j # 0 /\ j - 1 = k /\ k \in 0 .. k + 1 /\ k # k + 1
        BY <3>1
      <4>2. g[k] = f[k]
        BY <4>1
      <4>. HIDE DEF g
      <4>. QED  BY <4>1, <4>2
    <3>2. CASE j # k + 1 /\ j # 0
      <4>1. j \in 0 .. k /\ j - 1 \in 0 .. k + 1 /\ j - 1 # k + 1
        BY <3>2
      <4>2. g[j] = f[j] /\ g[j - 1] = f[j - 1]
        BY <3>2, <4>1
      <4>3. f[j] = NextRow(c, compressed, f[j - 1])
        BY <2>1, <3>2, <4>1
      <4>. HIDE DEF g
      <4>. QED  BY <3>2, <4>2, <4>3
    <3>3. CASE j = 0
      <4>1. 0 \in 0 .. k /\ 0 # k + 1
        OBVIOUS
      <4>2. f[0] = p
        BY <2>1, <4>1
      <4>. QED  BY <3>3, <4>1, <4>2
    <3>. HIDE DEF g
    <3>. QED  BY <3>1, <3>2, <3>3
  <2>3. upto(g, k + 1)
    <3>1. g = [j \in 0 .. k + 1 |-> g[j]]
      OBVIOUS
    <3>. HIDE DEF g
    <3>. QED  BY <2>2, <3>1
  <2>. HIDE DEF g, upto
  <2>. QED  BY <2>3
<1>3. Nat \subseteq good
  <2>. HIDE DEF good
  <2>. QED  BY <1>1, <1>2, NumbersByInduction
<1>. QED  BY <1>3 DEF IsParsing, n

\* The rows of a block are a sequence.
LEMMA RowsAreASequence ==
  ASSUME NEW c, Len(c) \in Nat
  PROVE  IsSequence(ParseEventRows(c).rows)
<1>. DEFINE p == [ok |-> TRUE, at |-> c[1], header |-> ZeroHeader, rows |-> <<>>]
            compressed == Bit(c[2], 0)
            f == CHOOSE g : IsParsing(g, c, compressed, p)
            n == Len(c)
            m == CHOOSE k \in 0 .. n : UsedUp(c, f[k]) \/ k = n
            good == {k \in Nat : k <= n => IsReading(f[k])}
<1>1. IsParsing(f, c, compressed, p)
  <2>. HIDE DEF p, compressed
  <2>. QED  BY ParsingExists
<1>2. ParseRows(c, compressed, p) = f[m]
  BY DEF ParseRows, IsParsing
<1>3. IsReading(p)
  BY EmptySequence DEF IsReading
<1>. HIDE DEF p, compressed, f, m
<1>4. 0 \in good
  BY <1>1, <1>3 DEF IsParsing
<1>5. ASSUME NEW k \in Nat, k \in good PROVE k + 1 \in good
  <2>. SUFFICES ASSUME k + 1 <= n PROVE IsReading(f[k + 1])
    OBVIOUS
  <2>1. IsReading(f[k])
    BY <1>5
  <2>2. f[k + 1] = NextRow(c, compressed, f[k])
    <3>1. k + 1 \in 0 .. n /\ k + 1 # 0 /\ (k + 1) - 1 = k
      OBVIOUS
    <3>. QED  BY <1>1, <3>1 DEF IsParsing
  <2>. QED  BY <2>1, <2>2, NextRowReads
<1>6. Nat \subseteq good
  <2>. HIDE DEF good
  <2>. QED  BY <1>4, <1>5, NumbersByInduction
<1>7. IsReading(f[m])
  <2>1. m \in 0 .. n
    <3>1. n \in 0 .. n
      OBVIOUS
    <3>. QED  BY <3>1 DEF m
  <2>. QED  BY <1>6, <2>1
<1>. QED  BY <1>2, <1>7, EmptySequence DEF ParseEventRows, IsReading, p, compressed

\* An object is of one of five types, takes a number of cells, and has its rows in
\* a sequence.
IsObject(object) ==
  /\ object.type \in {"Malformed", "End", "Skipped", "MetadataBlock", "EventBlock"}
  /\ object.at \in Nat
  /\ IsSequence(object.rows)

\* A body of a number of cells is a sequence, and is followed by a cell.
IsBody(body) == body.ok => Len(body.value) \in Nat /\ body.at \in Nat

\* So is what is read of as many cells as asked for.
LEMMA ExactIsBody ==
  ASSUME NEW w, NEW at \in Nat, NEW n \in Nat
  PROVE  IsBody(ReadExact(w, at, n))
<1>1. Len(SubSeq(w, at + 1, at + n)) \in Nat
  <2>. DEFINE f == [i \in 1 .. n |-> w[i + at]]
  <2>1. SubSeq(w, at + 1, at + n) = f
    BY SMT
  <2>2. f = [i \in 1 .. n |-> f[i]]
    OBVIOUS
  <2>. HIDE DEF f
  <2>. QED  BY <2>1, <2>2, NumberedSequence DEF IsSequence
<1>2. NotRead.ok = FALSE
  BY DEF NotRead
<1>3. IsBody(NotRead)
  BY <1>2 DEF IsBody
<1>4. IsBody(ReadAs(SubSeq(w, at + 1, at + n), at + n))
  BY <1>1 DEF IsBody, ReadAs
<1>. QED  BY <1>3, <1>4 DEF ReadExact

\* An object has such a body, or none that could be read.
LEMMA BodyIsBody ==
  ASSUME NEW w, NEW at \in Nat, NEW type
  PROVE  IsBody(Body(w, at, type))
<1>1. IsBody(NotRead)
  BY DEF IsBody, NotRead
<1>2. IsBody(ReadExact(w, HeaderLength, TraceBody))
  BY ExactIsBody DEF HeaderLength, TraceBody
<1>3. IsBody(BlockContent(w, at))
  <2>. DEFINE n == w[HeaderLength + 1]
              start == HeaderLength + 1 + Padding(at + HeaderLength + 1)
  <2>1. start \in Nat
    BY DEF HeaderLength, Padding, Align
  <2>2. CASE n \in 0 .. MaxBlockSize
    <3>1. n \in Nat
      BY <2>2
    <3>2. IsBody(ReadExact(w, start, n))
      <4>. HIDE DEF n, start
      <4>. QED  BY <2>1, <3>1, ExactIsBody
    <3>. QED  BY <1>1, <3>2 DEF BlockContent
  <2>3. CASE n \notin 0 .. MaxBlockSize
    BY <1>1, <2>3 DEF BlockContent
  <2>. QED  BY <2>2, <2>3
<1>. QED  BY <1>2, <1>3 DEF Body

\* What next_events makes of the unread cells is an object, even if malformed.
LEMMA NextObjectIsObject ==
  ASSUME NEW w, NEW at \in Nat
  PROVE  IsObject(NextObject(w, at))
<1>1. IsObject(Failed)
  BY EmptySequence DEF IsObject, Failed, Parsed
<1>2. IsObject(Parsed("End", <<>>, 1))
  BY EmptySequence DEF IsObject, Parsed
<1>3. ASSUME NEW type, NEW body, IsBody(body) PROVE IsObject(ParsedObject(w, type, body))
  <2>1. CASE ~body.ok \/ body.at >= Len(w) \/ w[body.at + 1] # EndObject
    BY <1>1, <2>1 DEF ParsedObject
  <2>2. CASE ~(~body.ok \/ body.at >= Len(w) \/ w[body.at + 1] # EndObject)
    <3>1. Len(body.value) \in Nat /\ body.at + 1 \in Nat
      BY <1>3, <2>2 DEF IsBody
    <3>2. IsObject(Parsed("Skipped", <<>>, body.at + 1))
      BY <3>1, EmptySequence DEF IsObject, Parsed
    <3>3. CASE type \in {"EventBlock", "MetadataBlock"}
      <4>. DEFINE rows == ParseEventRows(body.value)
      <4>1. IsSequence(rows.rows)
        BY <3>1, RowsAreASequence
      <4>. HIDE DEF rows
      <4>2. IsObject(ParsedRows(type, rows, body.at + 1))
        BY <1>1, <3>1, <3>3, <4>1 DEF ParsedRows, IsObject, Parsed
      <4>3. ParsedObject(w, type, body) = ParsedRows(type, rows, body.at + 1)
        BY <2>2, <3>3 DEF ParsedObject, rows
      <4>. QED  BY <4>2, <4>3
    <3>. QED  BY <2>2, <3>2, <3>3 DEF ParsedObject
  <2>. QED  BY <2>1, <2>2
<1>. DEFINE type == ReadObjectHeader(w)
            body == Body(w, at, type)
<1>4. IsObject(ParsedObject(w, type, body))
  <2>1. IsBody(body)
    BY BodyIsBody
  <2>. HIDE DEF type, body
  <2>. QED  BY <1>3, <2>1
<1>. HIDE DEF type
<1>. QED  BY <1>1, <1>2, <1>4 DEF NextObject, type
----------------------------------------------------------------------------
(* Rows one after another.                                                 *)

\* What FlattenSeq computes on the way, sequence by sequence.
IsFlattening(f, seqs) ==
  f = [i \in 1 .. Len(seqs) |-> IF i = 1 THEN seqs[i] ELSE f[i - 1] \o seqs[i]]

\* There is such a computation.
LEMMA FlatteningExists ==
  ASSUME NEW seqs, Len(seqs) \in Nat
  PROVE  \E f : IsFlattening(f, seqs)
<1>. DEFINE n == Len(seqs)
            upto(f, k) == f = [i \in 1 .. k |-> IF i = 1 THEN seqs[i] ELSE f[i - 1] \o seqs[i]]
            good == {k \in Nat : \E f : upto(f, k)}
<1>. HIDE DEF n
<1>1. 0 \in good
  <2>1. upto([i \in 1 .. 0 |-> seqs[i]], 0)
    OBVIOUS
  <2>. QED  BY <2>1
<1>2. ASSUME NEW k \in Nat, k \in good PROVE k + 1 \in good
  <2>1. PICK f : upto(f, k)
    BY <1>2
  <2>. DEFINE last == IF k = 0 THEN seqs[1] ELSE f[k] \o seqs[k + 1]
              g == [i \in 1 .. k + 1 |-> IF i = k + 1 THEN last ELSE f[i]]
  <2>2. ASSUME NEW i \in 1 .. k + 1
        PROVE  g[i] = IF i = 1 THEN seqs[i] ELSE g[i - 1] \o seqs[i]
    <3>1. CASE i = k + 1
      <4>1. g[i] = last /\ (i = 1 <=> k = 0) /\ i - 1 = k
        BY <3>1
      <4>2. k # 0 => g[k] = f[k]
        OBVIOUS
      <4>. HIDE DEF g
      <4>. QED  BY <3>1, <4>1, <4>2
    <3>2. CASE i # k + 1
      <4>1. i \in 1 .. k /\ (i # 1 => i - 1 \in 1 .. k + 1 /\ i - 1 # k + 1)
        BY <3>2
      <4>2. g[i] = f[i] /\ (i # 1 => g[i - 1] = f[i - 1])
        BY <3>2, <4>1
      <4>3. f[i] = IF i = 1 THEN seqs[i] ELSE f[i - 1] \o seqs[i]
        BY <2>1, <4>1
      <4>. HIDE DEF g
      <4>. QED  BY <4>2, <4>3
    <3>. QED  BY <3>1, <3>2
  <2>3. upto(g, k + 1)
    <3>1. g = [i \in 1 .. k + 1 |-> g[i]]
      OBVIOUS
    <3>. HIDE DEF g
    <3>. QED  BY <2>2, <3>1
  <2>. HIDE DEF g, upto
  <2>. QED  BY <2>3
<1>3. Nat \subseteq good
  <2>. HIDE DEF good
  <2>. QED  BY <1>1, <1>2, NumbersByInduction
<1>. QED  BY <1>3 DEF IsFlattening, n

\* Where the parts of a flattened sequence lie: each at a[i - 1], the next at a[i].
PartsLie(a, seqs, c, at) ==
  /\ \A i \in 0 .. Len(seqs) : a[i] \in Nat
  /\ a[0] = at /\ a[Len(seqs)] = at + Len(FlattenSeq(seqs))
  /\ \A i \in 1 .. Len(seqs) : Lies(seqs[i], c, a[i - 1]) /\ a[i] = a[i - 1] + Len(seqs[i])

\* A flattened sequence is made of its parts.
LEMMA FlatIsParts ==
  ASSUME NEW seqs \in Seq(Seq(Nat)), NEW f, IsFlattening(f, seqs), NEW i \in 1 .. Len(seqs)
  PROVE  /\ f[i] \in Seq(Nat)
         /\ i = 1 => f[i] = seqs[1]
         /\ i # 1 => f[i] = f[i - 1] \o seqs[i] /\ f[i - 1] \in Seq(Nat)
<1>. DEFINE n == Len(seqs)
            good == {k \in Nat : k \in 1 .. n => f[k] \in Seq(Nat)}
<1>1. n \in Nat /\ \A k \in 1 .. n : seqs[k] \in Seq(Nat)
  BY LenProperties, ElementOfSeq
<1>2. \A k \in 1 .. n : f[k] = IF k = 1 THEN seqs[k] ELSE f[k - 1] \o seqs[k]
  BY Zenon DEF IsFlattening
<1>. HIDE DEF n
<1>3. 0 \in good
  OBVIOUS
<1>4. ASSUME NEW k \in Nat, k \in good PROVE k + 1 \in good
  <2>. SUFFICES ASSUME k + 1 \in 1 .. n PROVE f[k + 1] \in Seq(Nat)
    OBVIOUS
  <2>1. CASE k = 0
    <3>1. f[1] = seqs[1] /\ 1 \in 1 .. n
      BY <1>1, <1>2, <2>1
    <3>. QED  BY <1>1, <2>1, <3>1
  <2>2. CASE k # 0
    <3>1. k \in 1 .. n /\ k + 1 # 1 /\ (k + 1) - 1 = k
      BY <1>1, <2>2
    <3>2. f[k + 1] = f[k] \o seqs[k + 1]
      BY <1>2, <3>1
    <3>3. f[k] \in Seq(Nat) /\ seqs[k + 1] \in Seq(Nat)
      BY <1>1, <1>4, <3>1
    <3>. QED  BY <3>2, <3>3, CellsAfterCells
  <2>. QED  BY <2>1, <2>2
<1>5. Nat \subseteq good
  <2>. HIDE DEF good
  <2>. QED  BY <1>3, <1>4, NumbersByInduction
<1>6. i \in 1 .. n
  BY DEF n
<1>7. \A k \in 1 .. n : f[k] \in Seq(Nat)
  <2>. SUFFICES ASSUME NEW k \in 1 .. n PROVE f[k] \in Seq(Nat)
    OBVIOUS
  <2>1. k \in Nat
    BY <1>1
  <2>. QED  BY <1>5, <2>1
<1>8. i # 1 => i - 1 \in 1 .. n
  BY <1>1, <1>6
<1>. QED  BY <1>2, <1>6, <1>7, <1>8

\* So each of them lies where the one before it ends.
LEMMA FlattenedLies ==
  ASSUME NEW seqs \in Seq(Seq(Nat)), NEW c, Len(c) \in Nat, NEW at \in Nat,
         Lies(FlattenSeq(seqs), c, at)
  PROVE  \E a : PartsLie(a, seqs, c, at)
<1>. DEFINE n == Len(seqs)
            f == CHOOSE g : IsFlattening(g, seqs)
            a == [i \in 0 .. n |-> at + (IF i = 0 THEN 0 ELSE Len(f[i]))]
<1>1. n \in Nat
  BY LenProperties
<1>2. IsFlattening(f, seqs)
  <2>. HIDE DEF f
  <2>1. \E g : IsFlattening(g, seqs)
    BY <1>1, FlatteningExists
  <2>. QED  BY <2>1 DEF f
<1>3. FlattenSeq(seqs) = IF n = 0 THEN seqs ELSE f[n]
  BY DEF FlattenSeq, IsFlattening
<1>4. \A i \in 1 .. n :
        /\ f[i] \in Seq(Nat) /\ seqs[i] \in Seq(Nat)
        /\ i = 1 => f[i] = seqs[1]
        /\ i # 1 => f[i] = f[i - 1] \o seqs[i] /\ f[i - 1] \in Seq(Nat)
  <2>. SUFFICES ASSUME NEW i \in 1 .. n
                PROVE  /\ f[i] \in Seq(Nat) /\ seqs[i] \in Seq(Nat)
                       /\ i = 1 => f[i] = seqs[1]
                       /\ i # 1 => f[i] = f[i - 1] \o seqs[i] /\ f[i - 1] \in Seq(Nat)
    OBVIOUS
  <2>. HIDE DEF f
  <2>1. seqs[i] \in Seq(Nat)
    BY ElementOfSeq
  <2>. QED  BY <1>2, <2>1, FlatIsParts
<1>. HIDE DEF f
<1>5. /\ a[0] = at /\ \A i \in 1 .. n : a[i] = at + Len(f[i])
      /\ \A i \in 0 .. n : a[i] \in Nat
  <2>. HIDE DEF n
  <2>1. a[0] = at /\ \A i \in 1 .. n : a[i] = at + Len(f[i])
    BY <1>1
  <2>2. \A i \in 1 .. n : Len(f[i]) \in Nat
    BY <1>4, LenProperties
  <2>. HIDE DEF a
  <2>3. \A i \in 0 .. n : a[i] \in Nat
    BY <1>1, <2>1, <2>2
  <2>. QED  BY <2>1, <2>3
<1>. DEFINE lies == {j \in Nat : j < n => Lies(f[n - j], c, at)}
<1>. HIDE DEF n, a
<1>6. 0 \in lies
  <2>1. n > 0 => Lies(f[n], c, at)
    BY <1>1, <1>3
  <2>. QED  BY <1>1, <2>1
<1>7. ASSUME NEW j \in Nat, j \in lies PROVE j + 1 \in lies
  <2>. SUFFICES ASSUME j + 1 < n PROVE Lies(f[n - (j + 1)], c, at)
    OBVIOUS
  <2>1. n - j \in 1 .. n /\ n - j # 1 /\ (n - j) - 1 = n - (j + 1) /\ j < n
    BY <1>1
  <2>2. Lies(f[n - j], c, at)
    BY <1>7, <2>1
  <2>3. /\ f[n - j] = f[n - (j + 1)] \o seqs[n - j]
        /\ f[n - (j + 1)] \in Seq(Nat) /\ seqs[n - j] \in Seq(Nat)
    BY <1>4, <2>1
  <2>4. Lies(f[n - (j + 1)] \o seqs[n - j], c, at)
    BY <2>2, <2>3
  <2>. QED  BY <2>3, <2>4, LiesInParts
<1>8. Nat \subseteq lies
  <2>. HIDE DEF lies
  <2>. QED  BY <1>6, <1>7, NumbersByInduction
<1>9. \A i \in 1 .. n : Lies(f[i], c, at)
  <2>. SUFFICES ASSUME NEW i \in 1 .. n PROVE Lies(f[i], c, at)
    OBVIOUS
  <2>1. n - i \in Nat /\ n - i < n /\ n - (n - i) = i
    BY <1>1
  <2>2. n - i \in lies
    <3>. HIDE DEF lies
    <3>. QED  BY <1>8, <2>1
  <2>. QED  BY <2>1, <2>2
<1>10. ASSUME NEW i \in 1 .. n
       PROVE  Lies(seqs[i], c, a[i - 1]) /\ a[i] = a[i - 1] + Len(seqs[i])
  <2>1. CASE i = 1
    <3>0. 1 \in 1 .. n /\ i - 1 = 0
      BY <2>1
    <3>1. f[1] = seqs[1] /\ i - 1 = 0 /\ Lies(f[1], c, at)
      BY <1>4, <1>9, <3>0, Zenon
    <3>2. a[i] = at + Len(f[1]) /\ a[i - 1] = at
      BY <1>5, <2>1, <3>1
    <3>. QED  BY <2>1, <3>1, <3>2
  <2>2. CASE i # 1
    <3>0. i - 1 \in 1 .. n
      BY <1>1, <2>2
    <3>1. i - 1 \in 1 .. n /\ f[i] = f[i - 1] \o seqs[i] /\ f[i - 1] \in Seq(Nat)
          /\ seqs[i] \in Seq(Nat)
      BY <1>4, <2>2, <3>0, Zenon
    <3>2. Lies(f[i - 1] \o seqs[i], c, at)
      BY <1>9, <3>1
    <3>3. Lies(seqs[i], c, at + Len(f[i - 1]))
      BY <3>1, <3>2, LiesInParts
    <3>4. Len(f[i]) = Len(f[i - 1]) + Len(seqs[i])
      BY <3>1, <3>2, LiesInParts
    <3>5. a[i - 1] = at + Len(f[i - 1]) /\ a[i] = at + Len(f[i])
      BY <1>5, <3>1
    <3>6. Len(f[i - 1]) \in Nat /\ Len(seqs[i]) \in Nat
      BY <3>1, LenProperties
    <3>7. a[i] = a[i - 1] + Len(seqs[i])
      <4>. DEFINE x == Len(f[i - 1])
                  y == Len(seqs[i])
                  z == Len(f[i])
      <4>1. z = x + y /\ a[i - 1] = at + x /\ a[i] = at + z /\ x \in Nat /\ y \in Nat
        BY <3>4, <3>5, <3>6, Zenon
      <4>. HIDE DEF x, y, z
      <4>2. a[i] = a[i - 1] + y
        BY <4>1
      <4>. QED  BY <4>2, Zenon DEF y
    <3>. QED  BY <3>3, <3>5, <3>7, Zenon
  <2>. QED  BY <2>1, <2>2
<1>11. a[n] = at + Len(FlattenSeq(seqs))
  <2>1. CASE n = 0
    BY <1>3, <1>5, <2>1 DEF n
  <2>2. CASE n # 0
    <3>1. n \in 1 .. n
      BY <1>1, <2>2
    <3>. QED  BY <1>3, <1>5, <2>2, <3>1
  <2>. QED  BY <2>1, <2>2
<1>. HIDE DEF lies
<1>. QED  BY <1>5, <1>10, <1>11 DEF PartsLie, n

\* What is flattened is cells.
LEMMA FlattenedIsCells ==
  ASSUME NEW seqs \in Seq(Seq(Nat))
  PROVE  FlattenSeq(seqs) \in Seq(Nat)
<1>. DEFINE n == Len(seqs)
            f == CHOOSE g : IsFlattening(g, seqs)
<1>1. n \in Nat
  BY LenProperties
<1>2. IsFlattening(f, seqs)
  <2>. HIDE DEF f
  <2>1. \E g : IsFlattening(g, seqs)
    BY <1>1, FlatteningExists
  <2>. QED  BY <2>1 DEF f
<1>3. FlattenSeq(seqs) = IF n = 0 THEN seqs ELSE f[n]
  BY DEF FlattenSeq, IsFlattening
<1>4. CASE n = 0
  <2>1. seqs = <<>>
    BY <1>4, EmptySeq
  <2>. QED  BY <1>3, <1>4, <2>1
<1>5. CASE n # 0
  <2>1. n \in 1 .. n
    BY <1>1, <1>5
  <2>. HIDE DEF f
  <2>2. f[n] \in Seq(Nat)
    BY <1>2, <2>1, FlatIsParts
  <2>. QED  BY <1>3, <1>5, <2>2
<1>. QED  BY <1>4, <1>5

----------------------------------------------------------------------------
(* Rows.                                                                   *)

\* A row whose header says how long its payload is, and whose id leaves the high
\* bit of an uncompressed header's free.
IsRow(row) ==
  /\ IsHeader(row.header) /\ row.header.metadata_id < HighBit
  /\ row.payload \in Seq(Nat) /\ row.header.payload_size = Len(row.payload)

LEMMA ZeroIsHeader == IsHeader(ZeroHeader)
<1>1. 0 \in 0 .. Word32 - 1 /\ 0 \in 0 .. Word64 - 1
  BY WordsAreNumbers
<1>2. ZeroHeader = HeaderOf(0, 0, 0, 0, 0, 0, 0, 0, 0, FALSE, 0)
  BY Zenon DEF ZeroHeader, HeaderOf
<1>. DEFINE no == FALSE
            h == HeaderOf(0, 0, 0, 0, 0, 0, 0, 0, 0, no, 0)
<1>3. no \in BOOLEAN
  OBVIOUS
<1>. HIDE DEF no
<1>4. /\ h.metadata_id = 0 /\ h.sequence_number = 0 /\ h.capture_thread_id = 0
      /\ h.processor_number = 0 /\ h.thread_id = 0 /\ h.stack_id = 0 /\ h.timestamp = 0
      /\ h.activity_id = 0 /\ h.related_activity_id = 0 /\ h.is_sorted = no
      /\ h.payload_size = 0
  BY DEF HeaderOf
<1>5. h = HeaderOf(h.metadata_id, h.sequence_number, h.capture_thread_id, h.processor_number,
                  h.thread_id, h.stack_id, h.timestamp, h.activity_id, h.related_activity_id,
                  h.is_sorted, h.payload_size)
  BY <1>4, Zenon
<1>. HIDE DEF h
<1>6. InWords(h)
  <2>1. 0 \in Nat
    OBVIOUS
  <2>. QED  BY <1>1, <1>3, <1>4, <2>1, Zenon DEF InWords
<1>7. ZeroHeader = h
  BY <1>2, Zenon DEF h, no
<1>8. IsHeader(h)
  BY <1>5, <1>6, Zenon DEF IsHeader
<1>. QED  BY <1>7, <1>8

\* A header as it is written where headers are not compressed.
PlainHeader(h) ==
  <<10 + h.payload_size, h.metadata_id + (IF h.is_sorted THEN 0 ELSE HighBit),
    h.sequence_number, h.thread_id, h.capture_thread_id, h.processor_number, h.stack_id,
    h.timestamp, h.activity_id, h.related_activity_id, h.payload_size>>

\* It is read back.
LEMMA PlainReadsBack ==
  ASSUME NEW h, IsHeader(h), h.metadata_id < HighBit,
         NEW c, Len(c) \in Nat, NEW at \in Nat, Lies(PlainHeader(h), c, at)
  PROVE  ReadUncompressed(c, at) = SoFar(at + 11, h)
<1>. DEFINE s == PlainHeader(h)
            id == h.metadata_id
            cell == id + (IF h.is_sorted THEN 0 ELSE HighBit)
            low == c[at + 2] % HighBit
            sorted == c[at + 2] < HighBit
<1>1. id \in Nat /\ h.is_sorted \in BOOLEAN
  <2>1. id \in 0 .. Word32 - 1
    BY Zenon DEF IsHeader, InWords
  <2>2. \A w \in Nat : \A x \in 0 .. w - 1 : x \in Nat
    OBVIOUS
  <2>3. Word32 \in Nat
    BY WordsAreNumbers
  <2>4. id \in Nat
    BY <2>1, <2>2, <2>3, Zenon
  <2>5. h.is_sorted \in BOOLEAN
    BY Zenon DEF IsHeader, InWords
  <2>. QED  BY <2>4, <2>5, Zenon
<1>2. /\ Len(s) = 11 /\ s[2] = cell /\ s[3] = h.sequence_number /\ s[4] = h.thread_id
      /\ s[5] = h.capture_thread_id /\ s[6] = h.processor_number /\ s[7] = h.stack_id
      /\ s[8] = h.timestamp /\ s[9] = h.activity_id /\ s[10] = h.related_activity_id
      /\ s[11] = h.payload_size
  <2>. HIDE DEF cell
  <2>1. s = <<10 + h.payload_size, cell, h.sequence_number, h.thread_id, h.capture_thread_id,
              h.processor_number, h.stack_id, h.timestamp, h.activity_id,
              h.related_activity_id, h.payload_size>>
    BY Zenon DEF PlainHeader, cell
  <2>. HIDE DEF s
  <2>. QED  BY <2>1
<1>3. at + Len(s) <= Len(c) /\ \A k \in 1 .. Len(s) : c[at + k] = s[k]
  BY DEF Lies
<1>. HIDE DEF s
<1>4. /\ at + 11 <= Len(c)
      /\ c[at + 2] = cell /\ c[at + 3] = h.sequence_number /\ c[at + 4] = h.thread_id
      /\ c[at + 5] = h.capture_thread_id /\ c[at + 6] = h.processor_number
      /\ c[at + 7] = h.stack_id /\ c[at + 8] = h.timestamp /\ c[at + 9] = h.activity_id
      /\ c[at + 10] = h.related_activity_id /\ c[at + 11] = h.payload_size
  <2>1. at + 11 <= Len(c) /\ \A k \in 1 .. 11 : c[at + k] = s[k]
    BY <1>2, <1>3
  <2>2. c[at + 2] = s[2] /\ c[at + 3] = s[3] /\ c[at + 4] = s[4] /\ c[at + 5] = s[5]
    BY <2>1
  <2>3. c[at + 6] = s[6] /\ c[at + 7] = s[7] /\ c[at + 8] = s[8]
    BY <2>1
  <2>4. c[at + 9] = s[9] /\ c[at + 10] = s[10] /\ c[at + 11] = s[11]
    BY <2>1
  <2>. HIDE DEF cell
  <2>. QED  BY <1>2, <2>1, <2>2, <2>3, <2>4, Zenon
<1>5. HighBit = 64
  BY WordsAre DEF HighBit
<1>6. low = id /\ sorted = h.is_sorted
  <2>. HIDE DEF id
  <2>1. CASE h.is_sorted
    <3>1. cell = id /\ id \in Nat /\ id < 64
      BY <1>1, <1>5, <2>1 DEF id
    <3>. HIDE DEF cell
    <3>2. low = id /\ sorted
      BY <1>4, <1>5, <3>1
    <3>. QED  BY <1>1, <2>1, <3>2
  <2>2. CASE ~h.is_sorted
    <3>1. cell = id + 64 /\ id \in Nat /\ id < 64
      BY <1>1, <1>5, <2>2 DEF id
    <3>. HIDE DEF cell
    <3>2. low = id /\ ~sorted
      BY <1>4, <1>5, <3>1, SMTT(30)
    <3>. QED  BY <1>1, <2>2, <3>2
  <2>. QED  BY <2>1, <2>2
<1>. HIDE DEF cell
<1>7. ~(Len(c) - at < 11)
  BY <1>4
<1>8. ReadUncompressed(c, at)
        = SoFar(at + 11, HeaderOf(low, c[at + 3], c[at + 5], c[at + 6], c[at + 4], c[at + 7],
                                  c[at + 8], c[at + 9], c[at + 10], sorted, c[at + 11]))
  BY <1>7, Zenon DEF ReadUncompressed, SoFar, HeaderOf
<1>9. h = HeaderOf(h.metadata_id, h.sequence_number, h.capture_thread_id, h.processor_number,
                  h.thread_id, h.stack_id, h.timestamp, h.activity_id, h.related_activity_id,
                  h.is_sorted, h.payload_size)
  BY Zenon DEF IsHeader
<1>. HIDE DEF low, sorted
<1>. QED  BY <1>4, <1>6, <1>8, <1>9, Zenon

\* The header before the i-th, and the i-th as it is written.
HeaderBefore(rows, i) == IF i = 1 THEN ZeroHeader ELSE rows[i - 1].header
RowHeader(rows, compressed, i) ==
  IF compressed THEN WrittenHeader(HeaderBefore(rows, i), rows[i].header)
  ELSE PlainHeader(rows[i].header)
RowCells(rows, compressed) ==
  [i \in 1 .. Len(rows) |-> RowHeader(rows, compressed, i) \o rows[i].payload]

\* The rows of a block, in their order.
AreRows(rows) == IsSequence(rows) /\ \A i \in 1 .. Len(rows) : IsRow(rows[i])

\* A header as it is written is a few cells, and is read back as it was.
LEMMA RowHeaderIsCells ==
  ASSUME NEW rows, AreRows(rows), NEW compressed \in BOOLEAN, NEW i \in 1 .. Len(rows)
  PROVE  /\ RowHeader(rows, compressed, i) \in Seq(Nat)
         /\ Len(RowHeader(rows, compressed, i)) \in Nat \ {0}
         /\ rows[i].payload \in Seq(Nat)
         /\ IsHeader(HeaderBefore(rows, i))
<1>. DEFINE h == rows[i].header
<1>1. IsHeader(h) /\ rows[i].payload \in Seq(Nat)
  BY DEF AreRows, IsRow
<1>2. IsHeader(HeaderBefore(rows, i))
  <2>1. CASE i = 1
    BY <2>1, ZeroIsHeader DEF HeaderBefore
  <2>2. CASE i # 1
    <3>1. Len(rows) \in Nat
      BY LenProperties DEF AreRows, IsSequence
    <3>2. i - 1 \in 1 .. Len(rows)
      BY <2>2, <3>1
    <3>3. IsRow(rows[i - 1])
      BY <3>2 DEF AreRows
    <3>. QED  BY <2>2, <3>3, Zenon DEF HeaderBefore, IsRow
  <2>. QED  BY <2>1, <2>2
<1>3. CASE compressed
  <2>. DEFINE b == HeaderBefore(rows, i)
              s == WrittenHeader(b, h)
  <2>1. s \in Seq(Nat) /\ Len(s) \in Nat \ {0}
    <3>. HIDE DEF b, h
    <3>. QED  BY <1>1, <1>2, HeaderIsCells DEF b
  <2>2. RowHeader(rows, compressed, i) = s
    BY <1>3 DEF RowHeader
  <2>. HIDE DEF s
  <2>. QED  BY <1>1, <1>2, <2>1, <2>2
<1>4. CASE ~compressed
  <2>. DEFINE s == PlainHeader(h)
  <2>1. RowHeader(rows, compressed, i) = s
    BY <1>4 DEF RowHeader
  <2>2. /\ h.metadata_id \in Nat /\ h.sequence_number \in Nat /\ h.thread_id \in Nat
        /\ h.capture_thread_id \in Nat /\ h.processor_number \in Nat /\ h.stack_id \in Nat
        /\ h.timestamp \in Nat /\ h.activity_id \in Nat /\ h.related_activity_id \in Nat
        /\ h.payload_size \in Nat
    <3>1. \A x : x \in 0 .. Word32 - 1 => x \in Nat
      BY WordsAreNumbers
    <3>2. \A x : x \in 0 .. Word64 - 1 => x \in Nat
      BY WordsAreNumbers
    <3>3. InWords(h)
      BY <1>1 DEF IsHeader
    <3>. HIDE DEF h
    <3>. QED  BY <3>1, <3>2, <3>3, Zenon DEF InWords
  <2>. HIDE DEF h
  <2>3. HighBit \in Nat
    BY WordsAre DEF HighBit
  <2>4. s \in Seq(Nat) /\ Len(s) = 11
    <3>. DEFINE x == 10 + h.payload_size
                y == h.metadata_id + (IF h.is_sorted THEN 0 ELSE HighBit)
    <3>1. x \in Nat /\ y \in Nat
      BY <2>2, <2>3, SMTT(30)
    <3>2. s = <<x, y, h.sequence_number, h.thread_id, h.capture_thread_id, h.processor_number,
                h.stack_id, h.timestamp, h.activity_id, h.related_activity_id, h.payload_size>>
      BY Zenon DEF PlainHeader
    <3>. HIDE DEF x, y, s
    <3>. QED  BY <2>2, <3>1, <3>2
  <2>. HIDE DEF s
  <2>. QED  BY <1>1, <1>2, <2>1, <2>4
<1>. QED  BY <1>3, <1>4

LEMMA RowHeaderReadsBack ==
  ASSUME NEW rows, AreRows(rows), NEW compressed \in BOOLEAN, NEW i \in 1 .. Len(rows),
         NEW c, Len(c) \in Nat, NEW at \in Nat, Lies(RowHeader(rows, compressed, i), c, at)
  PROVE  (IF compressed THEN ReadCompressed(c, at, HeaderBefore(rows, i))
          ELSE ReadUncompressed(c, at))
           = SoFar(at + Len(RowHeader(rows, compressed, i)), rows[i].header)
<1>. DEFINE h == rows[i].header
            b == HeaderBefore(rows, i)
<1>1. IsHeader(h) /\ h.metadata_id < HighBit
  BY DEF AreRows, IsRow
<1>2. IsHeader(b)
  BY RowHeaderIsCells
<1>. HIDE DEF h, b
<1>3. CASE compressed
  <2>1. RowHeader(rows, compressed, i) = WrittenHeader(b, h)
    BY <1>3 DEF RowHeader, b, h
  <2>2. ReadCompressed(c, at, b) = SoFar(at + Len(WrittenHeader(b, h)), h)
    BY <1>1, <1>2, <2>1, HeaderReadsBack
  <2>. QED  BY <1>3, <2>1, <2>2, Zenon DEF b, h
<1>4. CASE ~compressed
  <2>1. RowHeader(rows, compressed, i) = PlainHeader(h)
    BY <1>4 DEF RowHeader, h
  <2>2. ReadUncompressed(c, at) = SoFar(at + 11, h)
    BY <1>1, <2>1, PlainReadsBack
  <2>3. Len(PlainHeader(h)) = 11
    BY DEF PlainHeader
  <2>. QED  BY <1>4, <2>1, <2>2, <2>3, Zenon DEF h
<1>. QED  BY <1>3, <1>4

\* The first k rows as they are read, and the state of reading them.
RowsRead(rows, k) == [i \in 1 .. k |-> RawEvent(rows[i].header, rows[i].payload)]
RowStage(rows, a, k) ==
  [ok |-> TRUE, at |-> a[k], header |-> HeaderBefore(rows, k + 1), rows |-> RowsRead(rows, k)]

\* The cells of rows are cells.
LEMMA RowCellsAreCells ==
  ASSUME NEW rows, AreRows(rows), NEW compressed \in BOOLEAN
  PROVE  /\ RowCells(rows, compressed) \in Seq(Seq(Nat))
         /\ Len(RowCells(rows, compressed)) = Len(rows)
         /\ Len(rows) \in Nat
<1>. DEFINE n == Len(rows)
            f == RowCells(rows, compressed)
<1>1. n \in Nat
  BY LenProperties DEF AreRows, IsSequence
<1>2. \A i \in 1 .. n : RowHeader(rows, compressed, i) \o rows[i].payload \in Seq(Nat)
  <2>. SUFFICES ASSUME NEW i \in 1 .. n
                PROVE  RowHeader(rows, compressed, i) \o rows[i].payload \in Seq(Nat)
    OBVIOUS
  <2>1. RowHeader(rows, compressed, i) \in Seq(Nat) /\ rows[i].payload \in Seq(Nat)
    BY RowHeaderIsCells
  <2>. QED  BY <2>1, CellsAfterCells
<1>3. f \in [1 .. n -> Seq(Nat)]
  BY <1>2 DEF RowCells
<1>. HIDE DEF n, f
<1>4. f \in Seq(Seq(Nat)) /\ Len(f) = n
  <2>1. f \in Seq(Seq(Nat))
    BY <1>1, <1>3, IsASeq
  <2>2. DOMAIN f = 1 .. n /\ DOMAIN f = 1 .. Len(f) /\ Len(f) \in Nat
    BY <1>3, <2>1, LenProperties
  <2>. QED  BY <1>1, <2>1, <2>2
<1>. QED  BY <1>1, <1>4 DEF n, f

\* One row more has been read.
LEMMA OneRowMore ==
  ASSUME NEW rows, NEW k \in Nat \ {0}
  PROVE  RowsRead(rows, k)
           = Append(RowsRead(rows, k - 1), RawEvent(rows[k].header, rows[k].payload))
<1>. DEFINE e(i) == RawEvent(rows[i].header, rows[i].payload)
            T == {e(i) : i \in 1 .. k}
            s == RowsRead(rows, k - 1)
            t == RowsRead(rows, k)
<1>1. s = [i \in 1 .. k - 1 |-> e(i)] /\ t = [i \in 1 .. k |-> e(i)]
  BY DEF RowsRead
<1>2. \A i \in 1 .. k : e(i) \in T
  OBVIOUS
<1>. HIDE DEF e, T, s, t
<1>3. /\ s \in Seq(T) /\ t \in Seq(T) /\ Len(s) = k - 1 /\ Len(t) = k
      /\ \A i \in 1 .. k - 1 : s[i] = e(i)
      /\ \A i \in 1 .. k : t[i] = e(i)
  BY <1>1, <1>2
<1>4. k \in 1 .. k
  OBVIOUS
<1>5. Append(s, e(k)) = t
  <2>1. /\ Append(s, e(k)) \in Seq(T) /\ Len(Append(s, e(k))) = Len(s) + 1
        /\ \A i \in 1 .. Len(s) : Append(s, e(k))[i] = s[i]
        /\ Append(s, e(k))[Len(s) + 1] = e(k)
    BY <1>2, <1>3, <1>4, AppendProperties
  <2>. DEFINE u == Append(s, e(k))
  <2>2. u \in Seq(T) /\ Len(u) = k /\ \A i \in 1 .. k - 1 : u[i] = s[i]
    BY <1>3, <2>1
  <2>3. u[k] = e(k)
    BY <1>3, <2>1
  <2>. HIDE DEF u
  <2>4. \A i \in 1 .. k : u[i] = t[i]
    <3>. SUFFICES ASSUME NEW i \in 1 .. k PROVE u[i] = t[i]
      OBVIOUS
    <3>1. i = k \/ i \in 1 .. k - 1
      OBVIOUS
    <3>. QED  BY <1>3, <2>2, <2>3, <3>1
  <2>5. u = t
    BY <1>3, <2>2, <2>4, SeqEqual
  <2>. QED  BY <2>5 DEF u
<1>. QED  BY <1>5 DEF e, s, t

\* A row that lies where the rows before it end is read.
LEMMA NextRowReadsBack ==
  ASSUME NEW rows, AreRows(rows), NEW compressed \in BOOLEAN, NEW c, Len(c) \in Nat,
         NEW at, NEW a, PartsLie(a, RowCells(rows, compressed), c, at),
         NEW k \in 1 .. Len(rows)
  PROVE  /\ NextRow(c, compressed, RowStage(rows, a, k - 1)) = RowStage(rows, a, k)
         /\ a[k - 1] \in Nat /\ a[k] \in Nat /\ a[k - 1] < a[k] /\ a[k] <= Len(c)
<1>. DEFINE s == RowHeader(rows, compressed, k)
            t == rows[k].payload
            h == rows[k].header
            from == a[k - 1]
            start == from + Len(s)
            p == RowStage(rows, a, k - 1)
            read == IF compressed THEN ReadCompressed(c, from, HeaderBefore(rows, k))
                    ELSE ReadUncompressed(c, from)
<1>1. /\ s \in Seq(Nat) /\ Len(s) \in Nat \ {0} /\ t \in Seq(Nat)
      /\ h.payload_size = Len(t) /\ Len(t) \in Nat
  BY RowHeaderIsCells, LenProperties, Zenon DEF AreRows, IsRow
<1>2. Len(rows) \in Nat /\ Len(RowCells(rows, compressed)) = Len(rows)
  BY RowCellsAreCells
<1>3. k - 1 \in 0 .. Len(rows) /\ k \in 0 .. Len(rows)
  BY <1>2
<1>4. RowCells(rows, compressed)[k] = s \o t
  BY DEF RowCells
<1>5. /\ a[k - 1] \in Nat /\ a[k] \in Nat
      /\ Lies(s \o t, c, from) /\ a[k] = from + Len(s \o t)
  BY <1>2, <1>3, <1>4 DEF PartsLie
<1>. HIDE DEF s, t, h, from
<1>6. /\ Lies(s, c, from) /\ Lies(t, c, start) /\ Len(s \o t) = Len(s) + Len(t)
      /\ from \in Nat
  <2>1. from \in Nat
    BY <1>5 DEF from
  <2>2. Lies(s, c, from)
    BY <1>1, <1>5, <2>1, LiesInParts
  <2>3. Lies(t, c, start)
    BY <1>1, <1>5, <2>1, LiesInParts
  <2>4. Len(s \o t) = Len(s) + Len(t)
    BY <1>1, <1>5, <2>1, LiesInParts
  <2>. QED  BY <2>1, <2>2, <2>3, <2>4
<1>7. /\ a[k] = start + Len(t) /\ start \in Nat /\ start > from
      /\ start + Len(t) <= Len(c)
  <2>1. start + Len(t) <= Len(c)
    BY <1>6 DEF Lies
  <2>2. a[k] = from + (Len(s) + Len(t))
    BY <1>5, <1>6
  <2>. QED  BY <1>1, <1>6, <2>1, <2>2
<1>8. read = SoFar(start, h)
  BY <1>6, RowHeaderReadsBack DEF s, h
<1>9. SubSeq(c, start + 1, start + Len(t)) = t
  BY <1>1, <1>6, <1>7, LiesIsPart
<1>. DEFINE next == HeaderBefore(rows, k)
            before == RowsRead(rows, k - 1)
<1>10. p = [ok |-> TRUE, at |-> from, header |-> next, rows |-> before]
  <2>1. (k - 1) + 1 = k
    OBVIOUS
  <2>. QED  BY <2>1 DEF RowStage, from
<1>. HIDE DEF p, next, before
<1>11. p.ok /\ p.at = from /\ p.header = next /\ p.rows = before
  BY <1>10
<1>12. ~UsedUp(c, p)
  BY <1>1, <1>6, <1>7, <1>11 DEF UsedUp
<1>13. NextRow(c, compressed, p) = WithRow(c, p, SoFar(start, h))
  BY <1>8, <1>11, <1>12, Zenon DEF NextRow, read, next
<1>14. SoFar(start, h).ok /\ SoFar(start, h).at = start /\ SoFar(start, h).header = h
  BY DEF SoFar
<1>15. WithRow(c, p, SoFar(start, h))
         = [ok |-> TRUE, at |-> start + Len(t), header |-> h,
            rows |-> Append(before, RawEvent(h, t))]
  <2>1. ~(start + Len(t) > Len(c))
    BY <1>1, <1>7
  <2>. HIDE DEF start
  <2>. QED  BY <1>1, <1>9, <1>11, <1>14, <2>1, Zenon DEF WithRow
<1>16. Append(before, RawEvent(h, t)) = RowsRead(rows, k)
  <2>1. k \in Nat \ {0}
    OBVIOUS
  <2>. QED  BY <2>1, OneRowMore DEF before, h, t
<1>17. HeaderBefore(rows, k + 1) = h
  <2>1. k + 1 # 1 /\ (k + 1) - 1 = k
    OBVIOUS
  <2>. QED  BY <2>1 DEF HeaderBefore, h
<1>18. NextRow(c, compressed, p) = RowStage(rows, a, k)
  BY <1>7, <1>13, <1>15, <1>16, <1>17, Zenon DEF RowStage
<1>19. a[k - 1] < a[k] /\ a[k] <= Len(c)
  <2>1. from < start + Len(t)
    BY <1>1, <1>6, <1>7
  <2>. QED  BY <1>7, <2>1 DEF from
<1>. QED  BY <1>5, <1>18, <1>19 DEF p

\* Rows that lie to the end of a block are all read.
LEMMA ParsedRowsReadBack ==
  ASSUME NEW rows, AreRows(rows), NEW compressed \in BOOLEAN, NEW c, Len(c) \in Nat,
         NEW at, NEW a, PartsLie(a, RowCells(rows, compressed), c, at), a[Len(rows)] = Len(c)
  PROVE  ParseRows(c, compressed, RowStage(rows, a, 0)) = RowStage(rows, a, Len(rows))
<1>. DEFINE n == Len(rows)
            p == RowStage(rows, a, 0)
            f == CHOOSE g : IsParsing(g, c, compressed, p)
            m == CHOOSE k \in 0 .. Len(c) : UsedUp(c, f[k]) \/ k = Len(c)
            P(k) == RowStage(rows, a, k)
<1>1. n \in Nat
  BY RowCellsAreCells
<1>2. IsParsing(f, c, compressed, p)
  <2>. HIDE DEF p
  <2>. QED  BY ParsingExists
<1>3. ParseRows(c, compressed, p) = f[m]
  BY DEF ParseRows, IsParsing
<1>4. m \in 0 .. Len(c) /\ (UsedUp(c, f[m]) \/ m = Len(c))
  <2>. HIDE DEF f
  <2>1. Len(c) \in 0 .. Len(c)
    OBVIOUS
  <2>. QED  BY <2>1
<1>5. f[0] = P(0) /\ \A k \in 0 .. Len(c) : k # 0 => f[k] = NextRow(c, compressed, f[k - 1])
  <2>. HIDE DEF p, f
  <2>. QED  BY <1>2 DEF IsParsing, p
<1>6. \A k \in 1 .. n :
        /\ NextRow(c, compressed, P(k - 1)) = P(k)
        /\ a[k - 1] \in Nat /\ a[k] \in Nat /\ a[k - 1] < a[k] /\ a[k] <= Len(c)
  BY NextRowReadsBack
<1>7. \A k \in Nat : P(k).ok /\ P(k).at = a[k]
  BY DEF RowStage
<1>8. a[0] \in Nat
  <2>1. 0 \in 0 .. Len(RowCells(rows, compressed))
    BY <1>1, RowCellsAreCells
  <2>. QED  BY <2>1 DEF PartsLie
<1>. HIDE DEF f, m, p, n
<1>. DEFINE grows == {k \in Nat : k <= n => a[k] >= k}
<1>9. 0 \in grows
  BY <1>8
<1>10. ASSUME NEW k \in Nat, k \in grows PROVE k + 1 \in grows
  <2>. SUFFICES ASSUME k + 1 <= n PROVE a[k + 1] >= k + 1
    OBVIOUS
  <2>1. k + 1 \in 1 .. n /\ (k + 1) - 1 = k /\ k <= n
    BY <1>1
  <2>2. a[k] >= k
    BY <1>10, <2>1
  <2>3. a[k] \in Nat /\ a[k + 1] \in Nat /\ a[k] < a[k + 1]
    BY <1>6, <2>1
  <2>. QED  BY <2>2, <2>3
<1>11. Nat \subseteq grows
  <2>. HIDE DEF grows
  <2>. QED  BY <1>9, <1>10, NumbersByInduction
<1>12. n <= Len(c)
  <2>1. n \in grows
    <3>. HIDE DEF grows
    <3>. QED  BY <1>1, <1>11
  <2>. QED  BY <1>1, <2>1 DEF n
<1>. DEFINE read == {k \in Nat : k <= n => f[k] = P(k)}
<1>. HIDE DEF P
<1>13. 0 \in read
  BY <1>5
<1>14. ASSUME NEW k \in Nat, k \in read PROVE k + 1 \in read
  <2>. SUFFICES ASSUME k + 1 <= n PROVE f[k + 1] = P(k + 1)
    OBVIOUS
  <2>1. k + 1 \in 1 .. n /\ (k + 1) - 1 = k /\ k <= n /\ k + 1 \in 0 .. Len(c) /\ k + 1 # 0
    BY <1>1, <1>12
  <2>2. f[k] = P(k)
    BY <1>14, <2>1
  <2>3. f[k + 1] = NextRow(c, compressed, f[k])
    BY <1>5, <2>1
  <2>4. NextRow(c, compressed, P(k)) = P(k + 1)
    BY <1>6, <2>1
  <2>. QED  BY <2>2, <2>3, <2>4
<1>15. Nat \subseteq read
  <2>. HIDE DEF read
  <2>. QED  BY <1>13, <1>14, NumbersByInduction
<1>16. \A k \in Nat : k <= n => f[k] = P(k)
  BY <1>15
<1>17. UsedUp(c, P(n))
  BY <1>1, <1>7 DEF UsedUp, n
<1>. DEFINE done == {k \in Nat : n + k <= Len(c) => f[n + k] = P(n)}
<1>18. 0 \in done
  <2>1. n + 0 = n
    BY <1>1
  <2>. QED  BY <1>1, <1>16, <2>1
<1>19. ASSUME NEW k \in Nat, k \in done PROVE k + 1 \in done
  <2>. SUFFICES ASSUME n + (k + 1) <= Len(c) PROVE f[n + (k + 1)] = P(n)
    OBVIOUS
  <2>1. /\ n + (k + 1) \in 0 .. Len(c) /\ n + (k + 1) # 0 /\ (n + (k + 1)) - 1 = n + k
        /\ n + k <= Len(c)
    BY <1>1
  <2>2. f[n + k] = P(n)
    BY <1>19, <2>1
  <2>3. f[n + (k + 1)] = NextRow(c, compressed, f[n + k])
    BY <1>5, <2>1
  <2>. QED  BY <1>17, <2>2, <2>3 DEF NextRow
<1>20. Nat \subseteq done
  <2>. HIDE DEF done
  <2>. QED  BY <1>18, <1>19, NumbersByInduction
<1>21. m >= n
  <2>. SUFFICES ASSUME m < n PROVE FALSE
    BY <1>1, <1>4
  <2>1. m \in Nat /\ m + 1 \in 1 .. n /\ (m + 1) - 1 = m /\ m <= n /\ m # Len(c)
    BY <1>1, <1>4, <1>12
  <2>2. f[m] = P(m)
    BY <1>16, <2>1
  <2>3. a[m] \in Nat /\ a[m + 1] \in Nat /\ a[m] < a[m + 1] /\ a[m + 1] <= Len(c)
    BY <1>6, <2>1
  <2>4. ~UsedUp(c, P(m))
    <3>1. P(m).ok /\ P(m).at = a[m]
      BY <1>7, <2>1
    <3>2. a[m] # Len(c)
      BY <2>3
    <3>. QED  BY <3>1, <3>2 DEF UsedUp
  <2>. QED  BY <1>4, <2>1, <2>2, <2>4
<1>22. m - n \in Nat /\ n + (m - n) = m /\ m <= Len(c)
  BY <1>1, <1>4, <1>21
<1>23. f[m] = P(n)
  <2>1. m - n \in done
    <3>. HIDE DEF done
    <3>. QED  BY <1>20, <1>22
  <2>. QED  BY <1>22, <2>1
<1>. QED  BY <1>3, <1>23 DEF P, p, n

\* What is written of rows is cells, one row after another.
LEMMA WrittenRowsAreCells ==
  ASSUME NEW rows, AreRows(rows), NEW compressed \in BOOLEAN
  PROVE  WrittenBlock(rows, compressed)
           = <<MinBlockHeader, IF compressed THEN 1 ELSE 0, 0, 0>>
               \o FlattenSeq(RowCells(rows, compressed))
<1>1. DOMAIN rows = 1 .. Len(rows)
  BY LenProperties DEF AreRows, IsSequence
<1>2. CASE compressed
  <2>1. RowCells(rows, compressed)
          = [i \in 1 .. Len(rows) |-> WrittenHeader(HeaderBefore(rows, i), rows[i].header)
                                        \o rows[i].payload]
    BY <1>2 DEF RowCells, RowHeader
  <2>. DEFINE cells == [i \in DOMAIN rows |->
                WrittenHeader(IF i = 1 THEN ZeroHeader ELSE rows[i - 1].header, rows[i].header)
                  \o rows[i].payload]
  <2>2. WrittenRows(rows) = FlattenSeq(cells)
    BY Zenon DEF WrittenRows
  <2>3. cells = RowCells(rows, compressed)
    BY <1>1, <2>1, Zenon DEF HeaderBefore
  <2>4. WrittenRows(rows) = FlattenSeq(RowCells(rows, compressed))
    BY <2>2, <2>3, Zenon
  <2>. QED  BY <1>2, <2>4, Zenon DEF WrittenBlock
<1>3. CASE ~compressed
  <2>1. RowCells(rows, compressed)
          = [i \in 1 .. Len(rows) |-> PlainHeader(rows[i].header) \o rows[i].payload]
    BY <1>3 DEF RowCells, RowHeader
  <2>2. UncompressedRows(rows) = FlattenSeq(RowCells(rows, compressed))
    BY <1>1, <2>1, Zenon DEF UncompressedRows, PlainHeader
  <2>. QED  BY <1>3, <2>2, Zenon DEF WrittenBlock
<1>. QED  BY <1>2, <1>3

\* A block of rows is cells, and is read back: all of its rows, in their order, whether
\* their headers are compressed or not.
THEOREM BlocksReadBack ==
  ASSUME NEW rows, AreRows(rows), NEW compressed \in BOOLEAN
  PROVE  /\ ParseEventRows(WrittenBlock(rows, compressed)).ok
         /\ ParseEventRows(WrittenBlock(rows, compressed)).rows = RowsRead(rows, Len(rows))
         /\ WrittenBlock(rows, compressed) \in Seq(Nat)
<1>. DEFINE n == Len(rows)
            flat == FlattenSeq(RowCells(rows, compressed))
            flag == IF compressed THEN 1 ELSE 0
            start == <<4, flag, 0, 0>>
            c == start \o flat
<1>1. WrittenBlock(rows, compressed) = c
  BY WrittenRowsAreCells, Zenon DEF MinBlockHeader
<1>2. flat \in Seq(Nat) /\ Len(flat) \in Nat
  <2>1. flat \in Seq(Nat)
    BY RowCellsAreCells, FlattenedIsCells
  <2>. QED  BY <2>1, LenProperties
<1>. HIDE DEF flat
<1>3. start \in Seq(Nat) /\ Len(start) = 4
  <2>1. flag \in Nat
    OBVIOUS
  <2>. HIDE DEF flag
  <2>. QED  BY <2>1
<1>4. c \in Seq(Nat) /\ Len(c) = 4 + Len(flat) /\ c[1] = 4 /\ c[2] = flag
  <2>1. start[1] = 4 /\ start[2] = flag
    OBVIOUS
  <2>. HIDE DEF start
  <2>2. c \in Seq(Nat) /\ Len(c) = Len(start) + Len(flat)
    BY <1>2, <1>3, ConcatProperties
  <2>3. \A i \in 1 .. Len(start) + Len(flat) :
          c[i] = IF i <= Len(start) THEN start[i] ELSE flat[i - Len(start)]
    BY <1>2, <1>3, ConcatProperties
  <2>. HIDE DEF c
  <2>4. c[1] = start[1] /\ c[2] = start[2]
    <3>1. 1 \in 1 .. Len(start) + Len(flat) /\ 2 \in 1 .. Len(start) + Len(flat)
      BY <1>2, <1>3
    <3>2. 1 <= Len(start) /\ 2 <= Len(start)
      BY <1>3
    <3>. QED  BY <2>3, <3>1, <3>2, Zenon
  <2>. QED  BY <1>3, <2>1, <2>2, <2>4
<1>5. Lies(flat, c, 4)
  <2>. HIDE DEF start
  <2>1. Lies(flat, c, Len(start))
    BY <1>2, <1>3, LiesBetween
  <2>. QED  BY <1>3, <2>1
<1>. HIDE DEF start, c
<1>6. Len(c) \in Nat
  BY <1>2, <1>4
<1>7. PICK a : PartsLie(a, RowCells(rows, compressed), c, 4)
  <2>1. RowCells(rows, compressed) \in Seq(Seq(Nat))
    BY RowCellsAreCells
  <2>. QED  BY <1>5, <1>6, <2>1, FlattenedLies DEF flat
<1>8. a[0] = 4 /\ a[n] = Len(c)
  <2>1. Len(RowCells(rows, compressed)) = n
    BY RowCellsAreCells
  <2>. QED  BY <1>4, <1>7, <2>1 DEF PartsLie, flat
<1>9. Bit(c[2], 0) = compressed
  <2>1. c[2] = flag /\ 2 ^ 0 = 1
    BY <1>4
  <2>2. CASE compressed
    <3>1. c[2] = 1 /\ (1 \div 1) % 2 = 1
      BY <2>1, <2>2
    <3>. QED  BY <2>1, <2>2, <3>1 DEF Bit
  <2>3. CASE ~compressed
    <3>1. c[2] = 0 /\ (0 \div 1) % 2 = 0
      BY <2>1, <2>3
    <3>. QED  BY <2>1, <2>3, <3>1 DEF Bit
  <2>. QED  BY <2>2, <2>3
<1>10. RowStage(rows, a, 0) = [ok |-> TRUE, at |-> c[1], header |-> ZeroHeader, rows |-> <<>>]
  <2>1. RowsRead(rows, 0) = <<>>
    BY DEF RowsRead
  <2>2. HeaderBefore(rows, 0 + 1) = ZeroHeader
    BY DEF HeaderBefore
  <2>. QED  BY <1>4, <1>8, <2>1, <2>2, Zenon DEF RowStage
<1>11. ParseEventRows(c)
         = ParseRows(c, Bit(c[2], 0),
                     [ok |-> TRUE, at |-> c[1], header |-> ZeroHeader, rows |-> <<>>])
  <2>1. ~(Len(c) < MinBlockHeader \/ c[1] < MinBlockHeader \/ Len(c) < c[1])
    BY <1>2, <1>4 DEF MinBlockHeader
  <2>. QED  BY <2>1, Zenon DEF ParseEventRows
<1>12. ParseEventRows(c) = RowStage(rows, a, n)
  <2>1. ParseRows(c, compressed, RowStage(rows, a, 0)) = RowStage(rows, a, n)
    BY <1>6, <1>7, <1>8, ParsedRowsReadBack
  <2>. QED  BY <1>9, <1>10, <1>11, <2>1, Zenon
<1>13. RowStage(rows, a, n).ok /\ RowStage(rows, a, n).rows = RowsRead(rows, n)
  BY DEF RowStage
<1>. QED  BY <1>1, <1>4, <1>12, <1>13

----------------------------------------------------------------------------
(* Objects.                                                                *)

\* A word of a stream is read as it was written.
LEMMA TextReadsBack ==
  ASSUME NEW word \in Range(Words)
  PROVE  Text(Cell(word)) = word /\ Cell(word) \in Nat
<1>. DEFINE n == Len(Words)
            i == CHOOSE j \in DOMAIN Words : Words[j] = word
<1>1. DOMAIN Words = 1 .. n /\ n \in Nat
  BY WordsAssumption, LenProperties
<1>2. i \in DOMAIN Words /\ Words[i] = word
  <2>1. \E j \in DOMAIN Words : Words[j] = word
    BY DEF Range
  <2>. QED  BY <2>1
<1>3. Cell(word) = FirstWord + i
  BY DEF Cell
<1>. HIDE DEF i, n
<1>4. i \in Nat /\ (FirstWord + i) - FirstWord = i /\ FirstWord + i \in Nat
  BY <1>1, <1>2 DEF FirstWord
<1>. QED  BY <1>2, <1>3, <1>4 DEF Text

\* The cells of an object's beginning.
LEMMA ObjectHeaderIs ==
  ASSUME NEW type \in Range(Words)
  PROVE  /\ ObjectHeader(type) = <<5, 5, 1, 2, 2, 10, Cell(type), 6>>
         /\ ObjectHeader(type) \in Seq(Nat) /\ Len(ObjectHeader(type)) = 8
<1>. DEFINE x == Cell(type)
<1>1. x \in Nat
  BY TextReadsBack
<1>2. ObjectHeader(type) = <<5, 5, 1, 2, 2, 10, x, 6>>
  BY Zenon DEF ObjectHeader, BeginPrivateObject, NullReference, EndObject
<1>. HIDE DEF x
<1>3. <<5, 5, 1, 2, 2, 10, x, 6>> \in Seq(Nat) /\ Len(<<5, 5, 1, 2, 2, 10, x, 6>>) = 8
  BY <1>1
<1>. QED  BY <1>2, <1>3, Zenon DEF x

\* w is the beginning of an object, or begins with it.
Agree(object, w) == \A k \in 1 .. Len(object) : k <= Len(w) => w[k] = object[k]

\* Where the header comes whole it is read, and nothing is where it does not.
LEMMA ObjectHeaderReadsBack ==
  ASSUME NEW type \in Range(Words), NEW object \in Seq(Nat), Lies(ObjectHeader(type), object, 0),
         NEW w \in Seq(Nat), Agree(object, w)
  PROVE  ReadObjectHeader(w) = IF Len(w) >= 8 THEN type ELSE "Malformed"
<1>. DEFINE h == ObjectHeader(type)
            n == Len(w)
<1>1. /\ h \in Seq(Nat) /\ Len(h) = 8
      /\ h[1] = 5 /\ h[2] = 5 /\ h[3] = 1 /\ h[6] = 10 /\ h[7] = Cell(type) /\ h[8] = 6
  <2>. DEFINE x == Cell(type)
  <2>1. h = <<5, 5, 1, 2, 2, 10, x, 6>> /\ h \in Seq(Nat) /\ Len(h) = 8
    BY ObjectHeaderIs
  <2>. HIDE DEF x, h
  <2>2. /\ h[1] = 5 /\ h[2] = 5 /\ h[3] = 1 /\ h[6] = 10 /\ h[7] = x /\ h[8] = 6
    BY <2>1
  <2>. QED  BY <2>1, <2>2 DEF x
<1>2. n \in Nat /\ Len(object) \in Nat
  BY LenProperties
<1>. HIDE DEF h, n
<1>3. 8 <= Len(object) /\ \A k \in 1 .. 8 : object[k] = h[k]
  <2>1. 0 + Len(h) <= Len(object) /\ \A k \in 1 .. Len(h) : object[0 + k] = h[k]
    BY DEF Lies, h
  <2>2. ASSUME NEW k \in 1 .. 8 PROVE object[k] = h[k]
    <3>1. k \in 1 .. Len(h) /\ 0 + k = k
      BY <1>1
    <3>2. object[0 + k] = h[k]
      BY <2>1, <3>1, Zenon
    <3>. QED  BY <3>1, <3>2, Zenon
  <2>3. 8 <= Len(object)
    <3>1. 0 + Len(h) = 8
      BY <1>1
    <3>. QED  BY <2>1, <3>1, Zenon
  <2>. QED  BY <2>2, <2>3
<1>4. ASSUME NEW k \in 1 .. 8, k <= n PROVE w[k] = h[k]
  <2>1. k \in 1 .. Len(object)
    <3>. DEFINE m == Len(object)
    <3>1. 8 <= m /\ m \in Nat
      BY <1>2, <1>3, Zenon
    <3>. HIDE DEF m
    <3>2. k \in 1 .. m
      BY <3>1
    <3>. QED  BY <3>2 DEF m
  <2>2. w[k] = object[k]
    BY <1>4, <2>1, Zenon DEF Agree, n
  <2>. QED  BY <1>3, <2>2, Zenon
<1>5. ~(w # <<>> /\ w[1] = NullReference)
  <2>1. w # <<>> => n >= 1
    BY <1>2, EmptySeq DEF n
  <2>2. n >= 1 => w[1] = 5
    BY <1>1, <1>4
  <2>. QED  BY <2>1, <2>2 DEF NullReference
<1>6. CASE n < 8
  <2>1. ~(n >= 8)
    BY <1>2, <1>6
  <2>. QED  BY <1>5, <2>1 DEF ReadObjectHeader, HeaderLength, n
<1>7. CASE n >= 8
  <2>1. /\ w[1] = 5 /\ w[2] = 5 /\ w[3] = 1 /\ w[6] = 10 /\ w[7] = Cell(type) /\ w[8] = 6
    <3>1. \A k \in 1 .. 8 : k <= n
      BY <1>2, <1>7
    <3>2. 1 \in 1 .. 8 /\ 2 \in 1 .. 8 /\ 3 \in 1 .. 8 /\ 6 \in 1 .. 8 /\ 7 \in 1 .. 8 /\ 8 \in 1 .. 8
      OBVIOUS
    <3>. QED  BY <1>1, <1>4, <3>1, <3>2, Zenon
  <2>2. SubSeq(w, 1, 3) = <<5, 5, 1>>
    <3>. DEFINE s == <<5, 5, 1>>
    <3>1. s \in Seq(Nat) /\ Len(s) = 3 /\ s[1] = 5 /\ s[2] = 5 /\ s[3] = 1
      OBVIOUS
    <3>. HIDE DEF s
    <3>2. \A k \in 1 .. 3 : w[0 + k] = s[k]
      <4>. SUFFICES ASSUME NEW k \in 1 .. 3 PROVE w[0 + k] = s[k]
        OBVIOUS
      <4>1. 0 + k = k /\ (k = 1 \/ k = 2 \/ k = 3)
        OBVIOUS
      <4>. QED  BY <2>1, <3>1, <4>1
    <3>3. 0 + Len(s) <= Len(w)
      BY <1>2, <1>7, <3>1 DEF n
    <3>4. Lies(s, w, 0)
      BY <3>1, <3>2, <3>3 DEF Lies
    <3>5. SubSeq(w, 0 + 1, 0 + Len(s)) = s
      BY <1>2, <3>1, <3>4, LiesIsPart DEF n
    <3>6. 0 + 1 = 1 /\ 0 + Len(s) = 3
      BY <3>1
    <3>. QED  BY <3>5, <3>6 DEF s
  <2>3. w[6] \in 0 .. MaxNameLength
    BY <2>1 DEF MaxNameLength
  <2>4. Text(w[7]) = type
    BY <2>1, TextReadsBack
  <2>5. Len(w) >= HeaderLength
    BY <1>7 DEF HeaderLength, n
  <2>6. SubSeq(w, 1, 3) = <<BeginPrivateObject, BeginPrivateObject, NullReference>>
    BY <2>2, Zenon DEF BeginPrivateObject, NullReference
  <2>7. w[8] = EndObject
    BY <2>1, Zenon DEF EndObject
  <2>. QED  BY <1>5, <1>7, <2>3, <2>4, <2>5, <2>6, <2>7, Zenon DEF ReadObjectHeader, n
<1>. QED  BY <1>2, <1>6, <1>7

\* An object that can be written: of a type that has a text, and not too long.
CanBeWritten(type, content) ==
  /\ type \in Range(Words) /\ type \notin {"Trace", "Microsoft.DotNet.Runtime.EventPipeFile"}
  /\ type \notin {"Malformed", "End"}
  /\ content \in Seq(Nat) /\ Len(content) <= MaxBlockSize

\* How far into such an object its content is.
ContentAt(place) == HeaderLength + 1 + Padding(place + HeaderLength + 1)

LEMMA ContentIsAfter ==
  ASSUME NEW place \in Nat
  PROVE  ContentAt(place) \in Nat /\ Padding(place + HeaderLength + 1) \in Nat
         /\ ContentAt(place) = 9 + Padding(place + HeaderLength + 1)
<1>1. Padding(place + HeaderLength + 1) \in Nat
  BY DEF Padding, Align, HeaderLength
<1>. QED  BY <1>1 DEF ContentAt, HeaderLength

\* The parts of an object, and where they lie in it.
LEMMA ObjectIsParts ==
  ASSUME NEW type, NEW content, CanBeWritten(type, content), NEW place \in Nat
  PROVE  LET object == WrittenObject(type, content, place)
             start == ContentAt(place)
         IN /\ object \in Seq(Nat) /\ Len(object) = start + Len(content) + 1
            /\ Lies(ObjectHeader(type), object, 0)
            /\ object[9] = Len(content)
            /\ Lies(content, object, start)
            /\ object[start + Len(content) + 1] = EndObject
<1>. DEFINE P == Padding(place + HeaderLength + 1)
            n == Len(content)
            h == ObjectHeader(type)
            size == <<n>>
            pad == [i \in 1 .. P |-> 0]
            end == <<EndObject>>
            a == h \o size
            b == a \o pad
            d == b \o content
            object == d \o end
            start == ContentAt(place)
<1>1. WrittenObject(type, content, place) = object
  BY Zenon DEF WrittenObject
<1>2. P \in Nat /\ start \in Nat /\ start = 9 + P
  BY ContentIsAfter
<1>3. content \in Seq(Nat) /\ n \in Nat /\ h \in Seq(Nat) /\ Len(h) = 8
  BY ObjectHeaderIs, LenProperties DEF CanBeWritten
<1>. HIDE DEF P, n, h, start
<1>4. size \in Seq(Nat) /\ Len(size) = 1 /\ size[1] = n
  BY <1>3
<1>5. pad \in Seq(Nat) /\ Len(pad) = P
  BY <1>2
<1>6. end \in Seq(Nat) /\ Len(end) = 1 /\ end[1] = EndObject
  BY DEF EndObject
<1>. HIDE DEF size, pad, end
<1>7. a \in Seq(Nat) /\ Len(a) = 9
  <2>1. a \in Seq(Nat) /\ Len(a) = Len(h) + Len(size)
    BY <1>3, <1>4, CellsAfterCells
  <2>. QED  BY <1>3, <1>4, <2>1
<1>. HIDE DEF a
<1>8. b \in Seq(Nat) /\ Len(b) = start
  <2>1. b \in Seq(Nat) /\ Len(b) = Len(a) + Len(pad)
    BY <1>5, <1>7, CellsAfterCells
  <2>. QED  BY <1>2, <1>5, <1>7, <2>1
<1>. HIDE DEF b
<1>9. d \in Seq(Nat) /\ Len(d) = start + n
  <2>1. d \in Seq(Nat) /\ Len(d) = Len(b) + Len(content)
    BY <1>3, <1>8, CellsAfterCells
  <2>. QED  BY <1>8, <2>1 DEF n
<1>. HIDE DEF d
<1>10. object \in Seq(Nat) /\ Len(object) = start + n + 1
  <2>1. object \in Seq(Nat) /\ Len(object) = Len(d) + Len(end)
    BY <1>6, <1>9, CellsAfterCells
  <2>. QED  BY <1>6, <1>9, <2>1
<1>11. Lies(d, object, 0) /\ Lies(end, object, start + n)
  <2>1. Lies(d, object, 0) /\ Lies(end, object, Len(d))
    BY <1>6, <1>9, LiesBetween
  <2>. QED  BY <1>9, <2>1
<1>. HIDE DEF object
<1>12. Len(object) \in Nat /\ start + n \in Nat
  BY <1>2, <1>3, <1>10
<1>13. Lies(b, object, 0) /\ Lies(content, object, start)
  <2>1. Lies(b, object, 0)
    BY <1>3, <1>8, <1>11, <1>12, LiesInParts DEF d
  <2>2. Lies(content, object, 0 + Len(b))
    BY <1>3, <1>8, <1>11, <1>12, LiesInParts DEF d
  <2>3. 0 + Len(b) = start
    BY <1>2, <1>8
  <2>. QED  BY <2>1, <2>2, <2>3
<1>14. Lies(a, object, 0)
  BY <1>5, <1>7, <1>12, <1>13, LiesInParts DEF b
<1>15. Lies(h, object, 0) /\ Lies(size, object, 8)
  <2>1. Lies(h, object, 0)
    BY <1>3, <1>4, <1>12, <1>14, LiesInParts DEF a
  <2>2. Lies(size, object, 0 + Len(h))
    BY <1>3, <1>4, <1>12, <1>14, LiesInParts DEF a
  <2>3. 0 + Len(h) = 8
    BY <1>3
  <2>. QED  BY <2>1, <2>2, <2>3
<1>16. object[9] = n
  <2>1. \A k \in 1 .. Len(size) : object[8 + k] = size[k]
    BY <1>15 DEF Lies
  <2>2. 1 \in 1 .. Len(size) /\ 8 + 1 = 9
    BY <1>4
  <2>3. object[8 + 1] = size[1]
    BY <2>1, <2>2, Zenon
  <2>. QED  BY <1>4, <2>2, <2>3
<1>17. object[start + n + 1] = EndObject
  <2>1. \A k \in 1 .. Len(end) : object[start + n + k] = end[k]
    BY <1>11 DEF Lies
  <2>2. 1 \in 1 .. Len(end)
    BY <1>6
  <2>. QED  BY <1>6, <2>1, <2>2, Zenon
<1>. QED  BY <1>1, <1>10, <1>13, <1>15, <1>16, <1>17, Zenon DEF n, h, start

\* What an object of a type comes to, of some content.
ObjectRead(type, content, at) ==
  IF type \in {"EventBlock", "MetadataBlock"} THEN ParsedRows(type, ParseEventRows(content), at)
  ELSE Parsed("Skipped", <<>>, at)

\* An object is read back whatever comes after it, and one that breaks off anywhere
\* is malformed.
THEOREM ObjectsReadBack ==
  ASSUME NEW type, NEW content, CanBeWritten(type, content), NEW place \in Nat,
         NEW w \in Seq(Nat), Agree(WrittenObject(type, content, place), w)
  PROVE  NextObject(w, place)
           = IF Len(w) >= Len(WrittenObject(type, content, place))
             THEN ObjectRead(type, content, Len(WrittenObject(type, content, place)))
             ELSE Failed
<1>. DEFINE object == WrittenObject(type, content, place)
            start == ContentAt(place)
            size == Len(content)
            n == Len(w)
<1>1. /\ object \in Seq(Nat) /\ Len(object) = start + size + 1
      /\ Lies(ObjectHeader(type), object, 0)
      /\ object[9] = size
      /\ Lies(content, object, start)
      /\ object[start + size + 1] = EndObject
  BY ObjectIsParts
<1>2. /\ type \in Range(Words)
      /\ type \notin {"Trace", "Microsoft.DotNet.Runtime.EventPipeFile"}
      /\ type \notin {"Malformed", "End"}
      /\ content \in Seq(Nat) /\ size \in Nat /\ size <= MaxBlockSize
      /\ start \in Nat /\ start >= 9 /\ n \in Nat
  <2>1. start >= 9
    BY ContentIsAfter
  <2>. QED  BY <2>1, ContentIsAfter, LenProperties DEF CanBeWritten
<1>. HIDE DEF object
<1>3. Agree(object, w)
  BY DEF object
<1>4. ReadObjectHeader(w) = IF n >= 8 THEN type ELSE "Malformed"
  BY <1>1, <1>2, <1>3, ObjectHeaderReadsBack
<1>5. Body(w, place, type) = BlockContent(w, place)
  BY <1>2 DEF Body
<1>. HIDE DEF n, size, start
<1>6. CASE n < 8
  <2>1. ReadObjectHeader(w) = "Malformed" /\ ~(n >= Len(object))
    BY <1>1, <1>2, <1>4, <1>6
  <2>. QED  BY <2>1 DEF NextObject, n, object
<1>. DEFINE body == BlockContent(w, place)
<1>7. n >= 8 => NextObject(w, place) = ParsedObject(w, type, body)
  BY <1>2, <1>4, <1>5, Zenon DEF NextObject
<1>8. CASE n = 8
  <2>1. body = NotRead
    BY <1>8 DEF BlockContent, HeaderLength, n
  <2>2. NotRead.ok = FALSE
    BY DEF NotRead
  <2>3. ParsedObject(w, type, body) = Failed
    BY <2>1, <2>2 DEF ParsedObject
  <2>4. ~(n >= Len(object)) /\ n >= 8
    BY <1>1, <1>2, <1>8
  <2>. QED  BY <1>7, <2>3, <2>4, Zenon DEF n, object
<1>9. CASE n > 8
  <2>1. w[9] = size
    <3>1. 9 \in 1 .. Len(object) /\ 9 <= n
      BY <1>1, <1>2, <1>9
    <3>. QED  BY <1>1, <1>3, <3>1 DEF Agree, n
  <2>2. body = ReadExact(w, start, size)
    <3>1. ~(n <= 8) /\ 8 + 1 = 9
      BY <1>2, <1>9
    <3>2. size \in 0 .. MaxBlockSize
      BY <1>2 DEF MaxBlockSize
    <3>3. w[HeaderLength + 1] = size /\ ~(Len(w) <= HeaderLength)
      BY <2>1, <3>1 DEF HeaderLength, n
    <3>. QED  BY <3>2, <3>3, Zenon DEF BlockContent, ContentAt, start
  <2>. HIDE DEF body
  <2>3. n >= 8
    BY <1>2, <1>9
  <2>4. CASE n < start + size
    <3>1. body = NotRead
      BY <1>2, <2>2, <2>4 DEF ReadExact, n
    <3>2. NotRead.ok = FALSE
      BY DEF NotRead
    <3>3. ParsedObject(w, type, body) = Failed
      BY <3>1, <3>2 DEF ParsedObject
    <3>4. ~(n >= Len(object))
      BY <1>1, <1>2, <2>4
    <3>. QED  BY <1>7, <2>3, <3>3, <3>4, Zenon DEF n, object
  <2>5. CASE n >= start + size
    <3>1. Lies(content, w, start)
      <4>1. start + Len(content) <= Len(w)
        BY <2>5 DEF n, size
      <4>2. ASSUME NEW k \in 1 .. Len(content) PROVE w[start + k] = content[k]
        <5>1. start + k \in 1 .. Len(object) /\ start + k <= n
          BY <1>1, <1>2, <2>5 DEF size
        <5>2. object[start + k] = content[k]
          BY <1>1 DEF Lies
        <5>. QED  BY <1>3, <5>1, <5>2 DEF Agree, n
      <4>. QED  BY <4>1, <4>2 DEF Lies
    <3>2. SubSeq(w, start + 1, start + size) = content
      BY <1>2, <3>1, LiesIsPart DEF size, n
    <3>3. body = ReadAs(content, start + size)
      <4>1. ~(Len(w) < start + size)
        BY <1>2, <2>5 DEF n
      <4>. QED  BY <2>2, <3>2, <4>1, Zenon DEF ReadExact
    <3>4. body.ok /\ body.value = content /\ body.at = start + size
      BY <3>3 DEF ReadAs
    <3>5. CASE n = start + size
      <4>1. body.at >= Len(w)
        BY <1>2, <3>4, <3>5 DEF n
      <4>2. ParsedObject(w, type, body) = Failed
        BY <4>1, Zenon DEF ParsedObject
      <4>3. ~(n >= Len(object))
        BY <1>1, <1>2, <3>5
      <4>. QED  BY <1>7, <2>3, <4>2, <4>3, Zenon DEF n, object
    <3>6. CASE n > start + size
      <4>1. ~(body.at >= Len(w)) /\ n >= Len(object)
        <5>1. ~(start + size >= n)
          BY <1>2, <3>6
        <5>2. n >= Len(object)
          BY <1>1, <1>2, <3>6
        <5>. QED  BY <3>4, <5>1, <5>2, Zenon DEF n
      <4>2. w[start + size + 1] = EndObject
        <5>1. start + size + 1 \in 1 .. Len(object) /\ start + size + 1 <= n
          BY <1>1, <1>2, <3>6
        <5>. QED  BY <1>1, <1>3, <5>1, Zenon DEF Agree, n
      <4>3. ParsedObject(w, type, body) = ObjectRead(type, content, start + size + 1)
        BY <3>4, <4>1, <4>2, Zenon DEF ParsedObject, ObjectRead
      <4>. QED  BY <1>1, <1>7, <2>3, <4>1, <4>3, Zenon DEF n, object
    <3>. QED  BY <1>2, <2>5, <3>5, <3>6
  <2>. QED  BY <1>2, <2>4, <2>5
<1>. QED  BY <1>2, <1>6, <1>8, <1>9

\* The trace object is skipped, and malformed where it breaks off.
LEMMA TraceReadsBack ==
  ASSUME NEW place \in Nat, NEW w \in Seq(Nat), Agree(WrittenTrace, w),
         "Trace" \in Range(Words)
  PROVE  /\ WrittenTrace \in Seq(Nat) /\ Len(WrittenTrace) = 16
         /\ NextObject(w, place)
              = IF Len(w) >= 16 THEN Parsed("Skipped", <<>>, 16) ELSE Failed
<1>. DEFINE h == ObjectHeader("Trace")
            body == [i \in 1 .. TraceBody |-> 0]
            end == <<EndObject>>
            b == h \o body
            object == b \o end
            n == Len(w)
            read == Body(w, place, "Trace")
<1>1. WrittenTrace = object
  BY Zenon DEF WrittenTrace
<1>2. h \in Seq(Nat) /\ Len(h) = 8 /\ n \in Nat
  BY ObjectHeaderIs, LenProperties
<1>3. body \in Seq(Nat) /\ Len(body) = 7
  BY DEF TraceBody
<1>4. end \in Seq(Nat) /\ Len(end) = 1 /\ end[1] = EndObject
  BY DEF EndObject
<1>. HIDE DEF h, body, end
<1>5. b \in Seq(Nat) /\ Len(b) = 15
  <2>1. b \in Seq(Nat) /\ Len(b) = Len(h) + Len(body)
    BY <1>2, <1>3, CellsAfterCells
  <2>. QED  BY <1>2, <1>3, <2>1
<1>. HIDE DEF b
<1>6. object \in Seq(Nat) /\ Len(object) = 16
  <2>1. object \in Seq(Nat) /\ Len(object) = Len(b) + Len(end)
    BY <1>4, <1>5, CellsAfterCells
  <2>. QED  BY <1>4, <1>5, <2>1
<1>7. Lies(b, object, 0) /\ Lies(end, object, Len(b))
  BY <1>4, <1>5, LiesBetween
<1>. HIDE DEF object
<1>8. Lies(h, object, 0)
  <2>1. Lies(h \o body, object, 0)
    BY <1>7 DEF b
  <2>2. Len(object) \in Nat
    BY <1>6
  <2>. QED  BY <1>2, <1>3, <2>1, <2>2, LiesInParts
<1>9. object[16] = EndObject
  <2>1. \A k \in 1 .. Len(end) : object[Len(b) + k] = end[k]
    BY <1>7 DEF Lies
  <2>2. 1 \in 1 .. Len(end) /\ Len(b) + 1 = 16
    BY <1>4, <1>5
  <2>3. object[Len(b) + 1] = end[1]
    BY <2>1, <2>2, Zenon
  <2>. QED  BY <1>4, <2>2, <2>3
<1>10. Agree(object, w)
  BY <1>1
<1>11. ReadObjectHeader(w) = IF n >= 8 THEN "Trace" ELSE "Malformed"
  BY <1>6, <1>8, <1>10, ObjectHeaderReadsBack DEF h
<1>12. read = ReadExact(w, 8, 7)
  BY DEF Body, HeaderLength, TraceBody
<1>. HIDE DEF read, n
<1>13. NextObject(w, place) = IF n >= 16 THEN Parsed("Skipped", <<>>, 16) ELSE Failed
  <2>1. CASE n < 8
    <3>1. ReadObjectHeader(w) = "Malformed" /\ ~(n >= 16)
      BY <1>2, <1>11, <2>1
    <3>. QED  BY <3>1, Zenon DEF NextObject
  <2>2. CASE n >= 8
    <3>1. NextObject(w, place) = ParsedObject(w, "Trace", read)
      BY <1>11, <2>2 DEF NextObject, read
    <3>2. CASE n < 15
      <4>1. read = NotRead /\ NotRead.ok = FALSE
        BY <1>2, <1>12, <3>2 DEF ReadExact, NotRead, n
      <4>2. ParsedObject(w, "Trace", read) = Failed
        BY <4>1 DEF ParsedObject
      <4>3. ~(n >= 16)
        BY <1>2, <3>2
      <4>. QED  BY <3>1, <4>2, <4>3, Zenon
    <3>3. CASE n >= 15
      <4>1. read.ok /\ read.at = 15
        <5>1. ~(Len(w) < 8 + 7) /\ 8 + 7 = 15
          BY <1>2, <3>3 DEF n
        <5>. DEFINE part == SubSeq(w, 8 + 1, 8 + 7)
        <5>2. read = ReadAs(part, 8 + 7)
          BY <1>12, <5>1, Zenon DEF ReadExact
        <5>. HIDE DEF part
        <5>3. read.ok /\ read.at = 8 + 7
          BY <5>2 DEF ReadAs
        <5>. QED  BY <5>1, <5>3, Zenon
      <4>2. CASE n = 15
        <5>1. read.at >= Len(w) /\ ~(n >= 16)
          BY <1>2, <4>1, <4>2 DEF n
        <5>2. ParsedObject(w, "Trace", read) = Failed
          BY <5>1, Zenon DEF ParsedObject
        <5>. QED  BY <3>1, <5>1, <5>2, Zenon
      <4>3. CASE n > 15
        <5>1. ~(15 >= n) /\ n >= 16 /\ 15 + 1 = 16
          BY <1>2, <4>3
        <5>2. w[16] = EndObject
          <6>1. 16 \in 1 .. Len(object) /\ 16 <= n
            BY <1>6, <5>1
          <6>. QED  BY <1>9, <1>10, <6>1, Zenon DEF Agree, n
        <5>3. ParsedObject(w, "Trace", read) = Parsed("Skipped", <<>>, 16)
          BY <4>1, <5>1, <5>2 DEF ParsedObject, n
        <5>. QED  BY <3>1, <5>1, <5>3, Zenon
      <4>. QED  BY <1>2, <3>3, <4>2, <4>3
    <3>. QED  BY <1>2, <3>2, <3>3
  <2>. QED  BY <1>2, <2>1, <2>2
<1>. QED  BY <1>1, <1>6, <1>13 DEF n

\* A stream's end is told from one that breaks off between two objects.
LEMMA EndReadsBack ==
  ASSUME NEW place
  PROVE  /\ NextObject(<<NullReference>>, place) = Parsed("End", <<>>, 1)
         /\ NextObject(<<>>, place) = Failed
<1>1. ReadObjectHeader(<<NullReference>>) = "End"
  BY DEF ReadObjectHeader
<1>2. ReadObjectHeader(<<>>) = "Malformed"
  BY DEF ReadObjectHeader, HeaderLength
<1>. QED  BY <1>1, <1>2 DEF NextObject

\* A header is written in no more than 31 cells.
LEMMA HeaderIsShort ==
  ASSUME NEW before, IsHeader(before), NEW row, IsHeader(row)
  PROVE  Len(WrittenHeader(before, row)) <= 31
<1>. DEFINE h == WrittenHeader(before, row)
<1>1. h \in Seq(Nat) /\ Len(h) \in Nat
  BY HeaderIsCells, LenProperties
<1>2. PICK a : PiecesLie(a, before, row, h, 0)
  <2>1. Lies(h, h, 0)
    BY <1>1, LiesInItself
  <2>. HIDE DEF h
  <2>. QED  BY <1>1, <2>1, HeaderLies DEF h
<1>3. \A k \in 1 .. 10 : Len(PieceOf(before, row, k)) <= 3
  <2>. SUFFICES ASSUME NEW k \in 1 .. 10 PROVE Len(PieceOf(before, row, k)) <= 3
    OBVIOUS
  <2>. DEFINE field == HeaderFields[k][1]
              n == NumberOf(before, row, k)
              piece == WrittenField(field, n)
  <2>1. n \in Nat
    BY NumbersFit DEF FitsIn
  <2>. HIDE DEF n, field
  <2>2. piece = <<n>> \/ piece = Written(n)
    BY DEF WrittenField
  <2>3. Len(<<n>>) <= 3
    OBVIOUS
  <2>4. Len(Written(n)) <= 3
    <3>1. \A x, y, z : Len(<<x>>) <= 3 /\ Len(<<x, y>>) <= 3 /\ Len(<<x, y, z>>) <= 3
      OBVIOUS
    <3>. QED  BY <3>1, Zenon DEF Written
  <2>5. PieceOf(before, row, k) = piece \/ PieceOf(before, row, k) = <<>>
    BY DEF PieceOf, field, n
  <2>6. Len(<<>>) <= 3
    OBVIOUS
  <2>. HIDE DEF piece
  <2>. QED  BY <2>2, <2>3, <2>4, <2>5, <2>6, Zenon
<1>4. /\ a[0] = 0 + 1 /\ a[10] = 0 + Len(h)
      /\ \A k \in 1 .. 10 : a[k] = a[k - 1] + Len(PieceOf(before, row, k))
      /\ \A k \in 0 .. 10 : a[k] \in Nat
  BY <1>2 DEF PiecesLie
<1>5. \A k \in 1 .. 10 : a[k] <= a[k - 1] + 3
  <2>. SUFFICES ASSUME NEW k \in 1 .. 10 PROVE a[k] <= a[k - 1] + 3
    OBVIOUS
  <2>. DEFINE m == Len(PieceOf(before, row, k))
  <2>1. m \in Nat /\ m <= 3
    BY <1>3, PiecesAreCells
  <2>2. a[k] = a[k - 1] + m /\ a[k - 1] \in Nat
    <3>1. k - 1 \in 0 .. 10
      OBVIOUS
    <3>. QED  BY <1>4, <3>1, Zenon
  <2>. HIDE DEF m
  <2>. QED  BY <2>1, <2>2
<1>. HIDE DEF h
<1>6. a[1] <= 4 /\ a[2] <= 7 /\ a[3] <= 10 /\ a[4] <= 13 /\ a[5] <= 16
  <2>1. a[1] <= a[0] + 3 /\ a[2] <= a[1] + 3 /\ a[3] <= a[2] + 3 /\ a[4] <= a[3] + 3
        /\ a[5] <= a[4] + 3
    BY <1>5
  <2>2. a[0] = 1 /\ a[1] \in Nat /\ a[2] \in Nat /\ a[3] \in Nat /\ a[4] \in Nat /\ a[5] \in Nat
    BY <1>4
  <2>. QED  BY <2>1, <2>2
<1>7. a[10] <= 31
  <2>1. a[6] <= a[5] + 3 /\ a[7] <= a[6] + 3 /\ a[8] <= a[7] + 3 /\ a[9] <= a[8] + 3
        /\ a[10] <= a[9] + 3
    BY <1>5
  <2>2. /\ a[5] \in Nat /\ a[6] \in Nat /\ a[7] \in Nat /\ a[8] \in Nat /\ a[9] \in Nat
        /\ a[10] \in Nat
    BY <1>4
  <2>. QED  BY <1>6, <2>1, <2>2
<1>8. 0 + Len(h) = Len(h)
  BY <1>1 DEF h
<1>. QED  BY <1>4, <1>7, <1>8 DEF h

\* What is made of short parts is short.
LEMMA FlattenedIsShort ==
  ASSUME NEW seqs \in Seq(Seq(Nat)), \A i \in 1 .. Len(seqs) : Len(seqs[i]) <= 160
  PROVE  Len(FlattenSeq(seqs)) <= 160 * Len(seqs) /\ Len(FlattenSeq(seqs)) \in Nat
<1>. DEFINE c == FlattenSeq(seqs)
            n == Len(seqs)
<1>1. Len(c) \in Nat /\ n \in Nat
  BY FlattenedIsCells, LenProperties
<1>2. PICK a : PartsLie(a, seqs, c, 0)
  <2>1. Lies(c, c, 0)
    BY <1>1, LiesInItself
  <2>. HIDE DEF c
  <2>. QED  BY <1>1, <2>1, FlattenedLies DEF c
<1>3. /\ a[0] = 0 /\ a[n] = 0 + Len(c)
      /\ \A i \in 0 .. n : a[i] \in Nat
      /\ \A i \in 1 .. n : a[i] = a[i - 1] + Len(seqs[i])
  BY <1>2 DEF PartsLie
<1>. HIDE DEF c, n
<1>. DEFINE short == {k \in Nat : k <= n => a[k] <= 160 * k}
<1>4. 0 \in short
  BY <1>3
<1>5. ASSUME NEW k \in Nat, k \in short PROVE k + 1 \in short
  <2>. SUFFICES ASSUME k + 1 <= n PROVE a[k + 1] <= 160 * (k + 1)
    OBVIOUS
  <2>1. k + 1 \in 1 .. n /\ (k + 1) - 1 = k /\ k <= n /\ k \in 0 .. n
    BY <1>1
  <2>2. a[k] <= 160 * k
    BY <1>5, <2>1
  <2>. DEFINE m == Len(seqs[k + 1])
  <2>3. m \in Nat /\ m <= 160
    <3>1. seqs[k + 1] \in Seq(Nat)
      BY <2>1, ElementOfSeq DEF n
    <3>. QED  BY <2>1, <3>1, LenProperties DEF n
  <2>4. a[k + 1] = a[k] + m /\ a[k] \in Nat
    BY <1>3, <2>1
  <2>. HIDE DEF m
  <2>. QED  BY <2>2, <2>3, <2>4
<1>6. Nat \subseteq short
  <2>. HIDE DEF short
  <2>. QED  BY <1>4, <1>5, NumbersByInduction
<1>7. a[n] <= 160 * n
  <2>1. n \in short
    <3>. HIDE DEF short
    <3>. QED  BY <1>1, <1>6
  <2>. QED  BY <1>1, <2>1
<1>8. 0 + Len(c) = Len(c)
  BY <1>1
<1>. QED  BY <1>1, <1>3, <1>7, <1>8 DEF c, n

\* A block of that many rows is not too long for an object.
LEMMA BlockIsShort ==
  ASSUME NEW rows, AreRows(rows), Len(rows) <= MaxRows, NEW compressed \in BOOLEAN
  PROVE  /\ WrittenBlock(rows, compressed) \in Seq(Nat)
         /\ Len(WrittenBlock(rows, compressed)) <= MaxBlockSize
<1>. DEFINE seqs == RowCells(rows, compressed)
            flat == FlattenSeq(seqs)
            n == Len(rows)
<1>1. seqs \in Seq(Seq(Nat)) /\ Len(seqs) = n /\ n \in Nat
  BY RowCellsAreCells
<1>2. \A i \in 1 .. n : Len(seqs[i]) <= 160
  <2>. SUFFICES ASSUME NEW i \in 1 .. n PROVE Len(seqs[i]) <= 160
    OBVIOUS
  <2>. DEFINE s == RowHeader(rows, compressed, i)
              t == rows[i].payload
  <2>1. /\ s \in Seq(Nat) /\ t \in Seq(Nat) /\ Len(s) \in Nat /\ Len(t) \in Nat
        /\ IsHeader(HeaderBefore(rows, i))
    BY RowHeaderIsCells, LenProperties
  <2>2. IsRow(rows[i])
    BY DEF AreRows
  <2>3. Len(s) <= 31
    <3>1. compressed => s = WrittenHeader(HeaderBefore(rows, i), rows[i].header)
      BY DEF RowHeader
    <3>2. ~compressed => Len(s) = 11
      BY DEF RowHeader, PlainHeader
    <3>3. IsHeader(rows[i].header)
      BY <2>2 DEF IsRow
    <3>4. Len(WrittenHeader(HeaderBefore(rows, i), rows[i].header)) <= 31
      BY <2>1, <3>3, HeaderIsShort
    <3>. HIDE DEF s
    <3>5. CASE compressed
      BY <3>1, <3>4, <3>5, Zenon
    <3>6. CASE ~compressed
      <4>. DEFINE m == Len(s)
      <4>1. m = 11
        BY <3>2, <3>6, Zenon
      <4>. HIDE DEF m
      <4>2. m <= 31
        BY <4>1
      <4>. QED  BY <4>2, Zenon DEF m
    <3>. QED  BY <3>5, <3>6
  <2>4. Len(t) <= 127
    <3>1. rows[i].header.payload_size \in 0 .. Word32 - 1 /\ rows[i].header.payload_size = Len(t)
      BY <2>2, Zenon DEF IsRow, IsHeader, InWords
    <3>. HIDE DEF t
    <3>2. Len(t) \in 0 .. Word32 - 1
      BY <3>1, Zenon
    <3>3. Word32 = 128
      BY WordsAre
    <3>. DEFINE m == Len(t)
    <3>. HIDE DEF m
    <3>4. m \in 0 .. 128 - 1
      BY <3>2, <3>3, Zenon DEF m
    <3>5. m <= 127
      BY <3>4
    <3>. QED  BY <3>5, Zenon DEF m
  <2>5. seqs[i] = s \o t
    BY DEF RowCells
  <2>. HIDE DEF s, t, seqs
  <2>6. Len(s \o t) = Len(s) + Len(t)
    BY <2>1, CellsAfterCells
  <2>7. Len(s) + Len(t) <= 160
    BY <2>1, <2>3, <2>4
  <2>. QED  BY <2>5, <2>6, <2>7, Zenon
<1>. HIDE DEF seqs
<1>3. flat \in Seq(Nat) /\ Len(flat) \in Nat /\ Len(flat) <= 160 * n
  BY <1>1, <1>2, FlattenedIsShort, FlattenedIsCells
<1>. DEFINE flag == IF compressed THEN 1 ELSE 0
            start == <<4, flag, 0, 0>>
<1>4. WrittenBlock(rows, compressed) = start \o flat
  BY WrittenRowsAreCells, Zenon DEF MinBlockHeader, seqs
<1>5. start \in Seq(Nat) /\ Len(start) = 4
  <2>1. flag \in Nat
    OBVIOUS
  <2>. HIDE DEF flag
  <2>. QED  BY <2>1
<1>. HIDE DEF flat, start, n
<1>6. start \o flat \in Seq(Nat) /\ Len(start \o flat) = 4 + Len(flat)
  BY <1>3, <1>5, CellsAfterCells
<1>7. 4 + Len(flat) <= MaxBlockSize
  <2>1. n <= 1000000
    BY DEF n, MaxRows
  <2>2. MaxBlockSize = 268435456
    BY DEF MaxBlockSize
  <2>. QED  BY <1>1, <1>3, <2>1, <2>2
<1>. QED  BY <1>4, <1>6, <1>7

----------------------------------------------------------------------------
(* What the folds of the reader and of the runtime compute.                *)

\* The samples taken from events, for each set of their places.
NoneTaken == [ok |-> TRUE, samples |-> <<>>]
IsTaking(d, n, known, events) ==
  d = [s \in SUBSET (1 .. n) |->
         IF s = {} THEN NoneTaken ELSE TakeEvent(known, d[s \ {Max(s)}], events[Max(s)])]

\* There is such a computation.
LEMMA TakingExists ==
  ASSUME NEW n \in Nat, NEW known, NEW events
  PROVE  \E d : IsTaking(d, n, known, events)
<1>. DEFINE good == {k \in Nat : \E d : IsTaking(d, k, known, events)}
<1>1. 0 \in good
  <2>. DEFINE d == [s \in SUBSET (1 .. 0) |-> NoneTaken]
  <2>1. \A s \in SUBSET (1 .. 0) : s = {}
    OBVIOUS
  <2>2. IsTaking(d, 0, known, events)
    BY <2>1 DEF IsTaking
  <2>. QED  BY <2>2
<1>2. ASSUME NEW k \in Nat, k \in good PROVE k + 1 \in good
  <2>1. PICK d : IsTaking(d, k, known, events)
    BY <1>2
  <2>. DEFINE last(s) == TakeEvent(known, d[s \ {k + 1}], events[k + 1])
              g == [s \in SUBSET (1 .. k + 1) |-> IF k + 1 \in s THEN last(s) ELSE d[s]]
  <2>2. ASSUME NEW s \in SUBSET (1 .. k + 1), s # {}
        PROVE  g[s] = TakeEvent(known, g[s \ {Max(s)}], events[Max(s)])
    <3>1. CASE k + 1 \in s
      <4>1. Max(s) = k + 1
        BY <3>1, MaxIsLast
      <4>2. s \ {k + 1} \in SUBSET (1 .. k + 1) /\ k + 1 \notin s \ {k + 1}
        OBVIOUS
      <4>3. g[s \ {k + 1}] = d[s \ {k + 1}]
        BY <4>2
      <4>4. g[s] = last(s)
        BY <3>1
      <4>. HIDE DEF g
      <4>. QED  BY <4>1, <4>3, <4>4
    <3>2. CASE k + 1 \notin s
      <4>1. s \in SUBSET (1 .. k)
        BY <3>2
      <4>2. Max(s) \in s
        BY <2>2, <4>1, MaxIsMember
      <4>3. d[s] = TakeEvent(known, d[s \ {Max(s)}], events[Max(s)])
        BY <2>1, <2>2, <4>1 DEF IsTaking
      <4>4. s \ {Max(s)} \in SUBSET (1 .. k + 1) /\ k + 1 \notin s \ {Max(s)}
        BY <3>2
      <4>5. g[s] = d[s] /\ g[s \ {Max(s)}] = d[s \ {Max(s)}]
        BY <3>2, <4>4
      <4>. HIDE DEF g
      <4>. QED  BY <4>3, <4>5
    <3>. QED  BY <3>1, <3>2
  <2>3. g[{}] = NoneTaken
    <3>1. d[{}] = NoneTaken
      BY <2>1 DEF IsTaking
    <3>. QED  BY <3>1
  <2>4. g = [s \in SUBSET (1 .. k + 1) |-> g[s]]
    OBVIOUS
  <2>5. IsTaking(g, k + 1, known, events)
    <3>. HIDE DEF g
    <3>. QED  BY <2>2, <2>3, <2>4 DEF IsTaking
  <2>. HIDE DEF g
  <2>. QED  BY <2>5
<1>3. Nat \subseteq good
  <2>. HIDE DEF good
  <2>. QED  BY <1>1, <1>2, NumbersByInduction
<1>. QED  BY <1>3

\* Taken one event after another.
LEMMA TakingGoes ==
  ASSUME NEW n \in Nat, NEW known, NEW events, NEW d, IsTaking(d, n, known, events)
  PROVE  /\ d[1 .. 0] = NoneTaken
         /\ \A k \in 1 .. n : d[1 .. k] = TakeEvent(known, d[1 .. k - 1], events[k])
<1>1. IsTaking(d, n, known, events)
  OBVIOUS
<1>2. d[1 .. 0] = NoneTaken
  <2>1. 1 .. 0 = {}
    OBVIOUS
  <2>. QED  BY <1>1, <2>1 DEF IsTaking
<1>3. ASSUME NEW k \in 1 .. n PROVE d[1 .. k] = TakeEvent(known, d[1 .. k - 1], events[k])
  <2>1. 1 .. k \in SUBSET (1 .. n) /\ 1 .. k # {} /\ (1 .. k) \ {k} = 1 .. k - 1
    OBVIOUS
  <2>2. Max(1 .. k) = k
    BY MaxOfFirst
  <2>. QED  BY <1>1, <2>1, <2>2 DEF IsTaking
<1>. QED  BY <1>2, <1>3

\* The samples that rows mean.
Added(samples, sample) == IF sample = NoSample THEN samples ELSE Append(samples, sample)
IsMeaning(d, n, rows) ==
  d = [s \in SUBSET (1 .. n) |->
         IF s = {} THEN <<>> ELSE Added(d[s \ {Max(s)}], SampleOf(rows[Max(s)]))]

\* There is such a computation.
LEMMA MeaningExists ==
  ASSUME NEW n \in Nat, NEW rows
  PROVE  \E d : IsMeaning(d, n, rows)
<1>. DEFINE good == {k \in Nat : \E d : IsMeaning(d, k, rows)}
<1>1. 0 \in good
  <2>. DEFINE d == [s \in SUBSET (1 .. 0) |-> <<>>]
  <2>1. \A s \in SUBSET (1 .. 0) : s = {}
    OBVIOUS
  <2>2. IsMeaning(d, 0, rows)
    BY <2>1 DEF IsMeaning
  <2>. QED  BY <2>2
<1>2. ASSUME NEW k \in Nat, k \in good PROVE k + 1 \in good
  <2>1. PICK d : IsMeaning(d, k, rows)
    BY <1>2
  <2>. DEFINE last(s) == Added(d[s \ {k + 1}], SampleOf(rows[k + 1]))
              g == [s \in SUBSET (1 .. k + 1) |-> IF k + 1 \in s THEN last(s) ELSE d[s]]
  <2>2. ASSUME NEW s \in SUBSET (1 .. k + 1), s # {}
        PROVE  g[s] = Added(g[s \ {Max(s)}], SampleOf(rows[Max(s)]))
    <3>1. CASE k + 1 \in s
      <4>1. Max(s) = k + 1
        BY <3>1, MaxIsLast
      <4>2. s \ {k + 1} \in SUBSET (1 .. k + 1) /\ k + 1 \notin s \ {k + 1}
        OBVIOUS
      <4>3. g[s \ {k + 1}] = d[s \ {k + 1}]
        BY <4>2
      <4>4. g[s] = last(s)
        BY <3>1
      <4>. HIDE DEF g
      <4>. QED  BY <4>1, <4>3, <4>4
    <3>2. CASE k + 1 \notin s
      <4>1. s \in SUBSET (1 .. k)
        BY <3>2
      <4>2. Max(s) \in s
        BY <2>2, <4>1, MaxIsMember
      <4>3. d[s] = Added(d[s \ {Max(s)}], SampleOf(rows[Max(s)]))
        BY <2>1, <2>2, <4>1 DEF IsMeaning
      <4>4. s \ {Max(s)} \in SUBSET (1 .. k + 1) /\ k + 1 \notin s \ {Max(s)}
        BY <3>2
      <4>5. g[s] = d[s] /\ g[s \ {Max(s)}] = d[s \ {Max(s)}]
        BY <3>2, <4>4
      <4>. HIDE DEF g
      <4>. QED  BY <4>3, <4>5
    <3>. QED  BY <3>1, <3>2
  <2>3. g[{}] = <<>>
    <3>1. d[{}] = <<>>
      BY <2>1 DEF IsMeaning
    <3>. QED  BY <3>1
  <2>4. g = [s \in SUBSET (1 .. k + 1) |-> g[s]]
    OBVIOUS
  <2>5. IsMeaning(g, k + 1, rows)
    <3>. HIDE DEF g
    <3>. QED  BY <2>2, <2>3, <2>4 DEF IsMeaning
  <2>. HIDE DEF g
  <2>. QED  BY <2>5
<1>3. Nat \subseteq good
  <2>. HIDE DEF good
  <2>. QED  BY <1>1, <1>2, NumbersByInduction
<1>. QED  BY <1>3

\* Added one row after another.
LEMMA MeaningGoes ==
  ASSUME NEW n \in Nat, NEW rows, NEW d, IsMeaning(d, n, rows)
  PROVE  /\ d[1 .. 0] = <<>>
         /\ \A k \in 1 .. n : d[1 .. k] = Added(d[1 .. k - 1], SampleOf(rows[k]))
<1>1. IsMeaning(d, n, rows)
  OBVIOUS
<1>2. d[1 .. 0] = <<>>
  <2>1. 1 .. 0 = {}
    OBVIOUS
  <2>. QED  BY <1>1, <2>1 DEF IsMeaning
<1>3. ASSUME NEW k \in 1 .. n PROVE d[1 .. k] = Added(d[1 .. k - 1], SampleOf(rows[k]))
  <2>1. 1 .. k \in SUBSET (1 .. n) /\ 1 .. k # {} /\ (1 .. k) \ {k} = 1 .. k - 1
    OBVIOUS
  <2>2. Max(1 .. k) = k
    BY MaxOfFirst
  <2>. QED  BY <1>1, <2>1, <2>2 DEF IsMeaning
<1>. QED  BY <1>2, <1>3

\* A store with more records.
IsStoring(d, n, old, records) ==
  d = [s \in SUBSET (1 .. n) |->
         IF s = {} THEN old ELSE Insert(d[s \ {Max(s)}], records[Max(s)])]

\* There is such a computation.
LEMMA StoringExists ==
  ASSUME NEW n \in Nat, NEW old, NEW records
  PROVE  \E d : IsStoring(d, n, old, records)
<1>. DEFINE good == {k \in Nat : \E d : IsStoring(d, k, old, records)}
<1>1. 0 \in good
  <2>. DEFINE d == [s \in SUBSET (1 .. 0) |-> old]
  <2>1. \A s \in SUBSET (1 .. 0) : s = {}
    OBVIOUS
  <2>2. IsStoring(d, 0, old, records)
    BY <2>1 DEF IsStoring
  <2>. QED  BY <2>2
<1>2. ASSUME NEW k \in Nat, k \in good PROVE k + 1 \in good
  <2>1. PICK d : IsStoring(d, k, old, records)
    BY <1>2
  <2>. DEFINE last(s) == Insert(d[s \ {k + 1}], records[k + 1])
              g == [s \in SUBSET (1 .. k + 1) |-> IF k + 1 \in s THEN last(s) ELSE d[s]]
  <2>2. ASSUME NEW s \in SUBSET (1 .. k + 1), s # {}
        PROVE  g[s] = Insert(g[s \ {Max(s)}], records[Max(s)])
    <3>1. CASE k + 1 \in s
      <4>1. Max(s) = k + 1
        BY <3>1, MaxIsLast
      <4>2. s \ {k + 1} \in SUBSET (1 .. k + 1) /\ k + 1 \notin s \ {k + 1}
        OBVIOUS
      <4>3. g[s \ {k + 1}] = d[s \ {k + 1}]
        BY <4>2
      <4>4. g[s] = last(s)
        BY <3>1
      <4>. HIDE DEF g
      <4>. QED  BY <4>1, <4>3, <4>4
    <3>2. CASE k + 1 \notin s
      <4>1. s \in SUBSET (1 .. k)
        BY <3>2
      <4>2. Max(s) \in s
        BY <2>2, <4>1, MaxIsMember
      <4>3. d[s] = Insert(d[s \ {Max(s)}], records[Max(s)])
        BY <2>1, <2>2, <4>1 DEF IsStoring
      <4>4. s \ {Max(s)} \in SUBSET (1 .. k + 1) /\ k + 1 \notin s \ {Max(s)}
        BY <3>2
      <4>5. g[s] = d[s] /\ g[s \ {Max(s)}] = d[s \ {Max(s)}]
        BY <3>2, <4>4
      <4>. HIDE DEF g
      <4>. QED  BY <4>3, <4>5
    <3>. QED  BY <3>1, <3>2
  <2>3. g[{}] = old
    <3>1. d[{}] = old
      BY <2>1 DEF IsStoring
    <3>. QED  BY <3>1
  <2>4. g = [s \in SUBSET (1 .. k + 1) |-> g[s]]
    OBVIOUS
  <2>5. IsStoring(g, k + 1, old, records)
    <3>. HIDE DEF g
    <3>. QED  BY <2>2, <2>3, <2>4 DEF IsStoring
  <2>. HIDE DEF g
  <2>. QED  BY <2>5
<1>3. Nat \subseteq good
  <2>. HIDE DEF good
  <2>. QED  BY <1>1, <1>2, NumbersByInduction
<1>. QED  BY <1>3

\* Inserted one record after another.
LEMMA StoringGoes ==
  ASSUME NEW n \in Nat, NEW old, NEW records, NEW d, IsStoring(d, n, old, records)
  PROVE  /\ d[1 .. 0] = old
         /\ \A k \in 1 .. n : d[1 .. k] = Insert(d[1 .. k - 1], records[k])
<1>1. IsStoring(d, n, old, records)
  OBVIOUS
<1>2. d[1 .. 0] = old
  <2>1. 1 .. 0 = {}
    OBVIOUS
  <2>. QED  BY <1>1, <2>1 DEF IsStoring
<1>3. ASSUME NEW k \in 1 .. n PROVE d[1 .. k] = Insert(d[1 .. k - 1], records[k])
  <2>1. 1 .. k \in SUBSET (1 .. n) /\ 1 .. k # {} /\ (1 .. k) \ {k} = 1 .. k - 1
    OBVIOUS
  <2>2. Max(1 .. k) = k
    BY MaxOfFirst
  <2>. QED  BY <1>1, <2>1, <2>2 DEF IsStoring
<1>. QED  BY <1>2, <1>3

\* The cells of objects written from a place on.
WrittenAt(start, cells, object) ==
  cells \o WrittenObject(object.type, object.content, start + Len(cells))
IsWriting(d, n, start, objects) ==
  d = [s \in SUBSET (1 .. n) |->
         IF s = {} THEN <<>> ELSE WrittenAt(start, d[s \ {Max(s)}], objects[Max(s)])]

\* There is such a computation.
LEMMA WritingExists ==
  ASSUME NEW n \in Nat, NEW start, NEW objects
  PROVE  \E d : IsWriting(d, n, start, objects)
<1>. DEFINE good == {k \in Nat : \E d : IsWriting(d, k, start, objects)}
<1>1. 0 \in good
  <2>. DEFINE d == [s \in SUBSET (1 .. 0) |-> <<>>]
  <2>1. \A s \in SUBSET (1 .. 0) : s = {}
    OBVIOUS
  <2>2. IsWriting(d, 0, start, objects)
    BY <2>1 DEF IsWriting
  <2>. QED  BY <2>2
<1>2. ASSUME NEW k \in Nat, k \in good PROVE k + 1 \in good
  <2>1. PICK d : IsWriting(d, k, start, objects)
    BY <1>2
  <2>. DEFINE last(s) == WrittenAt(start, d[s \ {k + 1}], objects[k + 1])
              g == [s \in SUBSET (1 .. k + 1) |-> IF k + 1 \in s THEN last(s) ELSE d[s]]
  <2>2. ASSUME NEW s \in SUBSET (1 .. k + 1), s # {}
        PROVE  g[s] = WrittenAt(start, g[s \ {Max(s)}], objects[Max(s)])
    <3>1. CASE k + 1 \in s
      <4>1. Max(s) = k + 1
        BY <3>1, MaxIsLast
      <4>2. s \ {k + 1} \in SUBSET (1 .. k + 1) /\ k + 1 \notin s \ {k + 1}
        OBVIOUS
      <4>3. g[s \ {k + 1}] = d[s \ {k + 1}]
        BY <4>2
      <4>4. g[s] = last(s)
        BY <3>1
      <4>. HIDE DEF g
      <4>. QED  BY <4>1, <4>3, <4>4
    <3>2. CASE k + 1 \notin s
      <4>1. s \in SUBSET (1 .. k)
        BY <3>2
      <4>2. Max(s) \in s
        BY <2>2, <4>1, MaxIsMember
      <4>3. d[s] = WrittenAt(start, d[s \ {Max(s)}], objects[Max(s)])
        BY <2>1, <2>2, <4>1 DEF IsWriting
      <4>4. s \ {Max(s)} \in SUBSET (1 .. k + 1) /\ k + 1 \notin s \ {Max(s)}
        BY <3>2
      <4>5. g[s] = d[s] /\ g[s \ {Max(s)}] = d[s \ {Max(s)}]
        BY <3>2, <4>4
      <4>. HIDE DEF g
      <4>. QED  BY <4>3, <4>5
    <3>. QED  BY <3>1, <3>2
  <2>3. g[{}] = <<>>
    <3>1. d[{}] = <<>>
      BY <2>1 DEF IsWriting
    <3>. QED  BY <3>1
  <2>4. g = [s \in SUBSET (1 .. k + 1) |-> g[s]]
    OBVIOUS
  <2>5. IsWriting(g, k + 1, start, objects)
    <3>. HIDE DEF g
    <3>. QED  BY <2>2, <2>3, <2>4 DEF IsWriting
  <2>. HIDE DEF g
  <2>. QED  BY <2>5
<1>3. Nat \subseteq good
  <2>. HIDE DEF good
  <2>. QED  BY <1>1, <1>2, NumbersByInduction
<1>. QED  BY <1>3

\* Written one object after another.
LEMMA WritingGoes ==
  ASSUME NEW n \in Nat, NEW start, NEW objects, NEW d, IsWriting(d, n, start, objects)
  PROVE  /\ d[1 .. 0] = <<>>
         /\ \A k \in 1 .. n : d[1 .. k] = WrittenAt(start, d[1 .. k - 1], objects[k])
<1>1. IsWriting(d, n, start, objects)
  OBVIOUS
<1>2. d[1 .. 0] = <<>>
  <2>1. 1 .. 0 = {}
    OBVIOUS
  <2>. QED  BY <1>1, <2>1 DEF IsWriting
<1>3. ASSUME NEW k \in 1 .. n PROVE d[1 .. k] = WrittenAt(start, d[1 .. k - 1], objects[k])
  <2>1. 1 .. k \in SUBSET (1 .. n) /\ 1 .. k # {} /\ (1 .. k) \ {k} = 1 .. k - 1
    OBVIOUS
  <2>2. Max(1 .. k) = k
    BY MaxOfFirst
  <2>. QED  BY <1>1, <2>1, <2>2 DEF IsWriting
<1>. QED  BY <1>2, <1>3

\* So are those of a block.
LEMMA SamplesAreTaken ==
  ASSUME NEW known, NEW events, IsSequence(events)
  PROVE  \E d : IsTaking(d, Len(events), known, events) /\ SamplesOf(known, events) = d[1 .. Len(events)]
<1>. DEFINE n == Len(events)
            D == CHOOSE d : IsTaking(d, n, known, events)
<1>1. n \in Nat /\ DOMAIN events = 1 .. n
  BY DEF IsSequence
<1>2. IsTaking(D, n, known, events)
  <2>1. \E d : IsTaking(d, n, known, events)
    <3>. HIDE DEF n
    <3>. QED  BY <1>1, TakingExists
  <2>. QED  BY <2>1
<1>3. SamplesOf(known, events) = D[1 .. n]
  <2>. HIDE DEF n
  <2>. QED  BY <1>1 DEF SamplesOf, NoneTaken, FoldLeft, MapThenFoldSet, IsTaking
<1>. HIDE DEF D, n
<1>4. \E d : IsTaking(d, n, known, events) /\ SamplesOf(known, events) = d[1 .. n]
  BY <1>2, <1>3
<1>. QED  BY <1>4 DEF n

\* So are those that rows mean.
LEMMA MeantAreAdded ==
  ASSUME NEW rows, IsSequence(rows)
  PROVE  \E d : IsMeaning(d, Len(rows), rows) /\ MeantBy(rows) = d[1 .. Len(rows)]
<1>. DEFINE n == Len(rows)
            D == CHOOSE d : IsMeaning(d, n, rows)
<1>1. n \in Nat /\ DOMAIN rows = 1 .. n
  BY DEF IsSequence
<1>2. IsMeaning(D, n, rows)
  <2>1. \E d : IsMeaning(d, n, rows)
    <3>. HIDE DEF n
    <3>. QED  BY <1>1, MeaningExists
  <2>. QED  BY <2>1
<1>3. MeantBy(rows) = D[1 .. n]
  <2>. HIDE DEF n
  <2>. QED  BY <1>1 DEF MeantBy, Added, FoldLeft, MapThenFoldSet, IsMeaning
<1>. HIDE DEF D, n
<1>4. \E d : IsMeaning(d, n, rows) /\ MeantBy(rows) = d[1 .. n]
  BY <1>2, <1>3
<1>. QED  BY <1>4 DEF n

\* So are the records of a block.
LEMMA RecordsAreInserted ==
  ASSUME NEW old, NEW records, IsSequence(records)
  PROVE  \E d : IsStoring(d, Len(records), old, records) /\ FoldLeft(Insert, old, records) = d[1 .. Len(records)]
<1>. DEFINE n == Len(records)
            D == CHOOSE d : IsStoring(d, n, old, records)
<1>1. n \in Nat /\ DOMAIN records = 1 .. n
  BY DEF IsSequence
<1>2. IsStoring(D, n, old, records)
  <2>1. \E d : IsStoring(d, n, old, records)
    <3>. HIDE DEF n
    <3>. QED  BY <1>1, StoringExists
  <2>. QED  BY <2>1
<1>3. FoldLeft(Insert, old, records) = D[1 .. n]
  <2>. HIDE DEF n
  <2>. QED  BY <1>1 DEF Insert, FoldLeft, MapThenFoldSet, IsStoring
<1>. HIDE DEF D, n
<1>4. \E d : IsStoring(d, n, old, records) /\ FoldLeft(Insert, old, records) = d[1 .. n]
  BY <1>2, <1>3
<1>. QED  BY <1>4 DEF n

\* So are the objects of a poll.
LEMMA ObjectsAreWritten ==
  ASSUME NEW start, NEW objects, IsSequence(objects)
  PROVE  \E d : IsWriting(d, Len(objects), start, objects) /\ WrittenFrom(start, objects) = d[1 .. Len(objects)]
<1>. DEFINE n == Len(objects)
            D == CHOOSE d : IsWriting(d, n, start, objects)
<1>1. n \in Nat /\ DOMAIN objects = 1 .. n
  BY DEF IsSequence
<1>2. IsWriting(D, n, start, objects)
  <2>1. \E d : IsWriting(d, n, start, objects)
    <3>. HIDE DEF n
    <3>. QED  BY <1>1, WritingExists
  <2>. QED  BY <2>1
<1>3. WrittenFrom(start, objects) = D[1 .. n]
  <2>. HIDE DEF n
  <2>. QED  BY <1>1 DEF WrittenFrom, WrittenAt, FoldLeft, MapThenFoldSet, IsWriting
<1>. HIDE DEF D, n
<1>4. \E d : IsWriting(d, n, start, objects) /\ WrittenFrom(start, objects) = d[1 .. n]
  BY <1>2, <1>3
<1>. QED  BY <1>4 DEF n

----------------------------------------------------------------------------
(* Sequences that go on.                                                   *)

\* u begins with t.
Extends(t, u) == \E more : IsSequence(more) /\ u = t \o more

LEMMA ExtendsItself ==
  ASSUME NEW t, IsSequence(t)
  PROVE  Extends(t, t)
<1>1. t \o <<>> = t
  BY ConcatEmptySeq DEF IsSequence
<1>. QED  BY <1>1, EmptySequence DEF Extends

\* What begins with something that begins with t begins with t.
LEMMA ExtendsOn ==
  ASSUME NEW t, IsSequence(t), NEW u, Extends(t, u), NEW v, Extends(u, v)
  PROVE  Extends(t, v)
<1>1. PICK m : IsSequence(m) /\ u = t \o m
  BY DEF Extends
<1>2. PICK n : IsSequence(n) /\ v = u \o n
  BY DEF Extends
<1>. DEFINE T == Range(t) \cup Range(m) \cup Range(n)
<1>3. t \in Seq(T) /\ m \in Seq(T) /\ n \in Seq(T)
  BY <1>1, <1>2 DEF IsSequence
<1>4. (t \o m) \o n = t \o (m \o n)
  <2>. HIDE DEF T
  <2>. QED  BY <1>3, ConcatAssociative
<1>5. v = t \o (m \o n)
  BY <1>1, <1>2, <1>4
<1>6. IsSequence(m \o n)
  BY <1>1, <1>2, ConcatSequence
<1>. QED  BY <1>5, <1>6 DEF Extends

\* What t is in what begins with it.
LEMMA ExtendsSays ==
  ASSUME NEW t, IsSequence(t), NEW u, Extends(t, u)
  PROVE  /\ IsPrefix(t, u) /\ IsSequence(u)
         /\ Len(t) \in Nat /\ Len(u) \in Nat /\ Len(t) <= Len(u)
<1>1. PICK m : IsSequence(m) /\ u = t \o m
  BY DEF Extends
<1>. DEFINE T == Range(t) \cup Range(m)
            k == Len(t)
            n == Len(u)
<1>2. t \in Seq(T) /\ m \in Seq(T)
  BY <1>1 DEF IsSequence
<1>. HIDE DEF T
<1>3. u \in Seq(T) /\ n = k + Len(m) /\ \A i \in 1 .. k : u[i] = t[i]
  BY <1>1, <1>2
<1>4. k \in Nat /\ Len(m) \in Nat /\ n \in Nat /\ \A i \in 1 .. k : t[i] \in T
  BY <1>2, <1>3
<1>5. SubSeq(t, 1, k) = t
  BY <1>2
<1>6. k <= n
  <2>. HIDE DEF k, n
  <2>. QED  BY <1>3, <1>4
<1>7. SubSeq(u, 1, k) = t
  <2>. DEFINE part == SubSeq(u, 1, k)
  <2>1. part \in Seq(T) /\ Len(part) = k
    <3>. HIDE DEF k, n
    <3>1. \A i \in 1 .. k : u[i] \in T
      BY <1>3, <1>4
    <3>2. 1 \in Int /\ k \in Int /\ (1 <= k => k - 1 + 1 = k) /\ (~(1 <= k) => k = 0)
      BY <1>4
    <3>. QED  BY <3>1, <3>2, SubSeqProperties
  <2>2. ASSUME NEW i \in 1 .. k PROVE part[i] = t[i]
    <3>. HIDE DEF k, n, part
    <3>1. \A j \in 1 .. k : u[j] \in T
      BY <1>3, <1>4
    <3>2. i \in 1 .. k - 1 + 1 /\ 1 + i - 1 = i /\ 1 \in Int /\ k \in Int
      BY <1>4
    <3>3. part[i] = u[1 + i - 1]
      BY <3>1, <3>2, SubSeqProperties DEF part
    <3>. QED  BY <1>3, <3>2, <3>3
  <2>3. t \in Seq(T) /\ Len(t) = k
    BY <1>2
  <2>. HIDE DEF part, k
  <2>4. part = t
    BY <2>1, <2>2, <2>3
  <2>. QED  BY <2>4 DEF part
<1>8. IsSequence(u)
  BY <1>3, SequenceOver
<1>. QED  BY <1>4, <1>5, <1>6, <1>7, <1>8 DEF IsPrefix

\* What is sent next of what is to come.
LEMMA ExtendsNext ==
  ASSUME NEW t, IsSequence(t), NEW m, IsSequence(m), NEW u, Extends(t \o m, u)
  PROVE  \A x \in Range(m) : x \in Range(u)
<1>1. IsSequence(t \o m) /\ Range(t \o m) = Range(t) \cup Range(m)
  BY ConcatSequence
<1>2. PICK n : IsSequence(n) /\ u = (t \o m) \o n
  BY DEF Extends
<1>. DEFINE s == t \o m
<1>3. Range(s \o n) = Range(s) \cup Range(n)
  <2>. HIDE DEF s
  <2>1. IsSequence(s)
    BY <1>1 DEF s
  <2>. QED  BY <1>2, <2>1, ConcatSequence
<1>. QED  BY <1>1, <1>2, <1>3

----------------------------------------------------------------------------
(* Cells that are written and read piece by piece.                         *)

\* The cells after each piece.
IsGrowing(c, p, n) ==
  /\ c[0] = <<>>
  /\ \A i \in 1 .. n : p[i] \in Seq(Nat) /\ c[i] = c[i - 1] \o p[i]

\* Each piece lies in the whole where the ones before it end.
AreIn(p, c, j) ==
  /\ c[j] \in Seq(Nat)
  /\ \A i \in 1 .. j : Lies(p[i], c[j], Len(c[i - 1])) /\ c[i - 1] \in Seq(Nat)
                        /\ Len(c[i]) = Len(c[i - 1]) + Len(p[i])

LEMMA GrowingLies ==
  ASSUME NEW n \in Nat, NEW c, NEW p, IsGrowing(c, p, n)
  PROVE  \A j \in 0 .. n : AreIn(p, c, j)
<1>. DEFINE lies(i, j) == Lies(p[i], c[j], Len(c[i - 1])) /\ c[i - 1] \in Seq(Nat)
                          /\ Len(c[i]) = Len(c[i - 1]) + Len(p[i])
            good == {j \in Nat : j <= n => c[j] \in Seq(Nat) /\ \A i \in 1 .. j : lies(i, j)}
<1>1. 0 \in good
  <2>1. c[0] \in Seq(Nat)
    BY DEF IsGrowing
  <2>2. \A i \in 1 .. 0 : FALSE
    OBVIOUS
  <2>. HIDE DEF lies
  <2>3. c[0] \in Seq(Nat) /\ \A i \in 1 .. 0 : lies(i, 0)
    BY <2>1, <2>2
  <2>. QED  BY <2>3
<1>2. ASSUME NEW j \in Nat, j \in good PROVE j + 1 \in good
  <2>. SUFFICES ASSUME j + 1 <= n
                PROVE  c[j + 1] \in Seq(Nat) /\ \A i \in 1 .. j + 1 : lies(i, j + 1)
    <3>. HIDE DEF lies
    <3>. QED  OBVIOUS
  <2>. DEFINE new == c[j + 1]
              piece == p[j + 1]
  <2>1. j + 1 \in 1 .. n /\ (j + 1) - 1 = j /\ j <= n
    OBVIOUS
  <2>2. c[j] \in Seq(Nat) /\ \A i \in 1 .. j : lies(i, j)
    <3>. HIDE DEF lies
    <3>. QED  BY <1>2, <2>1
  <2>3. new = c[j] \o piece /\ piece \in Seq(Nat)
    BY <2>1 DEF IsGrowing
  <2>. HIDE DEF new, piece
  <2>4. new \in Seq(Nat) /\ Len(new) = Len(c[j]) + Len(piece) /\ Len(new) \in Nat
        /\ Len(c[j]) \in Nat /\ Len(piece) \in Nat
    BY <2>2, <2>3, ConcatProperties, LenProperties
  <2>5. Lies(c[j], new, 0) /\ Lies(piece, new, Len(c[j]))
    BY <2>2, <2>3, LiesBetween
  <2>6. ASSUME NEW i \in 1 .. j + 1 PROVE lies(i, j + 1)
    <3>1. CASE i = j + 1
      <4>1. i - 1 = j
        BY <3>1
      <4>. QED  BY <2>2, <2>4, <2>5, <3>1, <4>1 DEF new, piece
    <3>2. CASE i # j + 1
      <4>1. i \in 1 .. j
        BY <3>2
      <4>2. lies(i, j)
        <5>. HIDE DEF lies
        <5>. QED  BY <2>2, <4>1
      <4>3. Len(c[i - 1]) \in Nat /\ Len(p[i]) \in Nat /\ 0 + Len(c[i - 1]) = Len(c[i - 1])
        <5>1. c[i - 1] \in Seq(Nat)
          BY <4>2
        <5>2. i \in 1 .. n
          BY <2>1, <4>1
        <5>3. p[i] \in Seq(Nat)
          BY <5>2 DEF IsGrowing
        <5>4. Len(c[i - 1]) \in Nat /\ Len(p[i]) \in Nat
          BY <5>1, <5>3, LenProperties
        <5>. QED  BY <5>4
      <4>4. Lies(p[i], new, 0 + Len(c[i - 1]))
        BY <2>4, <2>5, <4>2, <4>3, LiesWithin
      <4>5. Lies(p[i], new, Len(c[i - 1]))
        BY <4>3, <4>4
      <4>. QED  BY <4>2, <4>5 DEF new
    <3>. QED  BY <3>1, <3>2
  <2>. HIDE DEF lies
  <2>. QED  BY <2>4, <2>6 DEF new
<1>3. Nat \subseteq good
  <2>. HIDE DEF good
  <2>. QED  BY <1>1, <1>2, NumbersByInduction
<1>4. \A j \in 0 .. n : c[j] \in Seq(Nat) /\ \A i \in 1 .. j : lies(i, j)
  <2>. HIDE DEF lies
  <2>. SUFFICES ASSUME NEW j \in 0 .. n
                PROVE  c[j] \in Seq(Nat) /\ \A i \in 1 .. j : lies(i, j)
    OBVIOUS
  <2>1. j \in Nat /\ j <= n
    OBVIOUS
  <2>2. j \in good
    BY <1>3, <2>1
  <2>. QED  BY <2>1, <2>2
<1>. QED  BY <1>4 DEF AreIn

\* What is left of cells after the first m.
LEMMA RestOf ==
  ASSUME NEW c \in Seq(Nat), NEW m \in Nat, m <= Len(c)
  PROVE  /\ SubSeq(c, m + 1, Len(c)) \in Seq(Nat)
         /\ Len(SubSeq(c, m + 1, Len(c))) = Len(c) - m
         /\ \A k \in 1 .. Len(c) - m : SubSeq(c, m + 1, Len(c))[k] = c[m + k]
<1>. DEFINE n == Len(c)
<1>1. n \in Nat /\ \A i \in m + 1 .. n : c[i] \in Nat
  BY LenProperties, ElementOfSeq
<1>2. m <= n
  OBVIOUS
<1>. HIDE DEF n
<1>3. m + 1 \in Int /\ n \in Int
  BY <1>1
<1>4. /\ SubSeq(c, m + 1, n) \in Seq(Nat)
      /\ Len(SubSeq(c, m + 1, n)) = IF m + 1 <= n THEN n - (m + 1) + 1 ELSE 0
      /\ \A k \in 1 .. n - (m + 1) + 1 : SubSeq(c, m + 1, n)[k] = c[(m + 1) + k - 1]
  BY <1>1, <1>3, SubSeqProperties
<1>5. n - (m + 1) + 1 = n - m /\ (~(m + 1 <= n) => n - m = 0)
  BY <1>1, <1>2
<1>6. \A k \in 1 .. n - m : (m + 1) + k - 1 = m + k
  BY <1>1
<1>7. \A k \in 1 .. n - m : SubSeq(c, m + 1, n)[k] = c[m + k]
  BY <1>4, <1>5, <1>6
<1>. QED  BY <1>4, <1>5, <1>7 DEF n

\* What lies further on lies in the rest.
LEMMA LiesLater ==
  ASSUME NEW c \in Seq(Nat), NEW m \in Nat, NEW s \in Seq(Nat), NEW at \in Nat, m <= at,
         Lies(s, c, at)
  PROVE  Lies(s, SubSeq(c, m + 1, Len(c)), at - m)
<1>. DEFINE n == Len(c)
            l == Len(s)
            d == SubSeq(c, m + 1, n)
<1>1. n \in Nat /\ l \in Nat
  BY LenProperties
<1>2. at + l <= n /\ \A k \in 1 .. l : c[at + k] = s[k]
  BY DEF Lies
<1>. HIDE DEF l
<1>3. m <= n
  <2>. HIDE DEF n
  <2>. QED  BY <1>1, <1>2
<1>4. Len(d) = n - m /\ \A k \in 1 .. n - m : d[k] = c[m + k]
  BY <1>3, RestOf
<1>. HIDE DEF n, d
<1>5. (at - m) + l <= Len(d)
  BY <1>1, <1>2, <1>4
<1>6. ASSUME NEW k \in 1 .. l PROVE d[(at - m) + k] = s[k]
  <2>1. (at - m) + k \in 1 .. n - m /\ m + ((at - m) + k) = at + k
    BY <1>1, <1>2
  <2>. QED  BY <1>2, <1>4, <2>1
<1>7. Lies(s, d, at - m)
  BY <1>5, <1>6 DEF Lies, l
<1>. QED  BY <1>7 DEF d, n

\* Cells that begin with s agree with it, also where they break off.
LEMMA LiesAgrees ==
  ASSUME NEW c \in Seq(Nat), NEW s \in Seq(Nat), Lies(s, c, 0)
  PROVE  Agree(s, c) /\ Len(s) <= Len(c)
<1>1. Len(s) \in Nat /\ Len(c) \in Nat
  BY LenProperties
<1>. DEFINE n == Len(s)
<1>2. 0 + n <= Len(c) /\ \A k \in 1 .. n : c[0 + k] = s[k]
  BY DEF Lies
<1>. HIDE DEF n
<1>3. \A k \in 1 .. n : 0 + k = k
  OBVIOUS
<1>4. \A k \in 1 .. n : c[k] = s[k]
  BY <1>2, <1>3
<1>5. n <= Len(c)
  BY <1>1, <1>2 DEF n
<1>. QED  BY <1>4, <1>5 DEF Agree, n

LEMMA CutAgrees ==
  ASSUME NEW c \in Seq(Nat), NEW s \in Seq(Nat), Agree(s, c), NEW m \in Nat, m <= Len(c)
  PROVE  /\ SubSeq(c, 1, m) \in Seq(Nat) /\ Len(SubSeq(c, 1, m)) = m
         /\ Agree(s, SubSeq(c, 1, m))
<1>. DEFINE d == SubSeq(c, 1, m)
<1>1. Len(d) = m /\ \A j \in 1 .. m : d[j] = c[j]
  BY Shortened
<1>2. d \in Seq(Nat)
  OBVIOUS
<1>3. Len(c) \in Nat /\ Len(s) \in Nat
  BY LenProperties
<1>. HIDE DEF d
<1>4. ASSUME NEW k \in 1 .. Len(s), k <= Len(d) PROVE d[k] = s[k]
  <2>1. k \in 1 .. m /\ k <= Len(c)
    BY <1>1, <1>3, <1>4
  <2>. QED  BY <1>1, <2>1 DEF Agree
<1>5. Agree(s, d)
  BY <1>4 DEF Agree
<1>. QED  BY <1>1, <1>2, <1>5 DEF d

----------------------------------------------------------------------------
(* What a session's rows stand for.                                        *)

\* HighBit and the words in numbers.
LEMMA IdsFit == HighBit \in Nat /\ \A id \in 0 .. HighBit - 1 : id \in 0 .. Word32 - 1
BY WordsAre DEF HighBit

\* A remainder is below n, and of numbers closer than n no two have the same.
LEMMA RemaindersDiffer ==
  ASSUME NEW n \in Nat \ {0}, NEW a \in Nat, NEW b \in Nat, a % n = b % n,
         a - b < n, b - a < n
  PROVE  a = b
<1>. DEFINE p == a \div n
            q == b \div n
            r == a % n
<1>1. p \in Int /\ q \in Int /\ r \in Int /\ a = n * p + r /\ b = n * q + r
  OBVIOUS
<1>. HIDE DEF p, q, r
<1>2. a - b = n * (p - q)
  BY <1>1
<1>. DEFINE d == p - q
<1>3. d \in Int /\ n * d < n /\ n * d > -n
  <2>1. n * d = a - b /\ d \in Int
    BY <1>1, <1>2
  <2>. HIDE DEF d
  <2>. QED  BY <2>1
<1>. HIDE DEF d
<1>4. d < 1
  <2>1. d >= 1 => n * d >= n
    BY <1>3
  <2>. QED  BY <1>3, <2>1
<1>5. d > -1
  <2>1. d <= -1 => n * d <= -n
    BY <1>3
  <2>. QED  BY <1>3, <2>1
<1>6. d = 0
  BY <1>3, <1>4, <1>5
<1>7. n * d = 0
  BY <1>6
<1>. QED  BY <1>2, <1>7 DEF d

\* The kinds of event, and the numbers a session gives them.
LEMMA KindsAre ==
  /\ Len(Events) \in Nat \ {0} /\ Len(Events) <= HighBit - 1 /\ DOMAIN Events = 1 .. Len(Events)
  /\ IsSequence(Events) /\ IsFiniteSet(DOMAIN Events)
<1>. DEFINE n == Len(Events)
<1>1. IsSequence(Events) /\ n \in 1 .. HighBit - 1
  BY StreamAssumption DEF IsSequence
<1>2. DOMAIN Events = 1 .. n
  BY <1>1 DEF IsSequence
<1>. HIDE DEF n
<1>3. n \in Nat \ {0} /\ n <= HighBit - 1
  BY <1>1, IdsFit
<1>4. IsFiniteSet(1 .. n)
  <2>1. 1 \in Int /\ n \in Int
    BY <1>3
  <2>. QED  BY <2>1, FS_Interval
<1>. QED  BY <1>1, <1>2, <1>3, <1>4 DEF n

LEMMA IdsAreKinds ==
  ASSUME session.number \in Nat
  PROVE  /\ \A e \in DOMAIN Events : IdOf(e) \in DOMAIN Events
         /\ \A e, f \in DOMAIN Events : IdOf(e) = IdOf(f) => e = f
<1>. DEFINE n == Len(Events)
            s == session.number
<1>1. n \in Nat \ {0} /\ DOMAIN Events = 1 .. n /\ s \in Nat
  BY KindsAre
<1>2. \A e : IdOf(e) = 1 + ((e + s) % n)
  BY DEF IdOf
<1>. HIDE DEF n, s
<1>3. ASSUME NEW e \in 1 .. n PROVE 1 + ((e + s) % n) \in 1 .. n
  BY <1>1
<1>4. ASSUME NEW e \in 1 .. n, NEW f \in 1 .. n, 1 + ((e + s) % n) = 1 + ((f + s) % n)
      PROVE  e = f
  <2>1. e + s \in Nat /\ f + s \in Nat /\ (e + s) - (f + s) < n /\ (f + s) - (e + s) < n
    BY <1>1
  <2>2. (e + s) % n \in Int /\ (f + s) % n \in Int
    BY <1>1, <2>1
  <2>3. (e + s) % n = (f + s) % n
    BY <1>4, <2>2
  <2>4. e + s = f + s
    BY <1>1, <2>1, <2>3, RemaindersDiffer
  <2>. QED  BY <1>1, <2>4
<1>. QED  BY <1>1, <1>2, <1>3, <1>4

\* Rows of reports a runtime can write.
AreReports(rows) ==
  /\ IsSequence(rows) /\ Len(rows) <= MaxRows
  /\ \A i \in 1 .. Len(rows) :
       rows[i].event \in DOMAIN Events /\ \A id \in DOMAIN Events : IsReport(rows[i], id)

\* A poll is of blocks of such rows.
LEMMA PollsAreReports ==
  ASSUME NEW poll \in UNION Range(Polls)
  PROVE  /\ IsSequence(poll)
         /\ \A b \in DOMAIN poll : poll[b].compressed \in BOOLEAN /\ AreReports(poll[b].rows)
<1>1. IsSequence(poll)
  BY StreamAssumption DEF IsSequence
<1>2. ASSUME NEW b \in DOMAIN poll
      PROVE  poll[b].compressed \in BOOLEAN /\ AreReports(poll[b].rows)
  <2>. DEFINE rows == poll[b].rows
  <2>1. /\ poll[b].compressed \in BOOLEAN
        /\ rows \in Seq(Range(rows)) /\ Len(rows) <= MaxRows
        /\ \A row \in Range(rows), id \in DOMAIN Events : IsReport(row, id)
    BY StreamAssumption
  <2>2. \A i \in DOMAIN rows : rows[i].event \in DOMAIN Events
    BY ReadingsAssumption
  <2>3. IsSequence(rows) /\ DOMAIN rows = 1 .. Len(rows)
    BY <2>1 DEF IsSequence
  <2>4. \A i \in DOMAIN rows : rows[i] \in Range(rows)
    BY DEF Range
  <2>. HIDE DEF rows
  <2>5. AreReports(rows)
    BY <2>1, <2>2, <2>3, <2>4 DEF AreReports
  <2>. QED  BY <2>1, <2>5 DEF rows
<1>. QED  BY <1>1, <1>2

\* A row whose numbers fit their words is one that is read back.
FitsWords(id, payload, row) ==
  /\ id \in 0 .. HighBit - 1 /\ row.sequence \in 0 .. Word32 - 1
  /\ row.thread \in 0 .. Word64 - 1 /\ row.timestamp \in 0 .. Word64 - 1
  /\ payload \in Seq(Nat) /\ Len(payload) < Word32

LEMMA RowFits ==
  ASSUME NEW id, NEW payload, NEW row, FitsWords(id, payload, row)
  PROVE  IsRow(Row(id, payload, row))
<1>. DEFINE r == Row(id, payload, row)
            l == Len(payload)
            yes == TRUE
            h == HeaderOf(id, row.sequence, row.thread, 0, row.thread, 0, row.timestamp, 0, 0,
                          yes, l)
<1>1. r.header = h /\ r.payload = payload
  BY DEF Row, HeaderOf
<1>2. id \in 0 .. Word32 - 1 /\ id < HighBit
  <2>1. id \in 0 .. HighBit - 1
    BY Zenon DEF FitsWords
  <2>. QED  BY <2>1, IdsFit
<1>3. l \in 0 .. Word32 - 1
  <2>1. payload \in Seq(Nat) /\ l < Word32
    BY Zenon DEF FitsWords
  <2>2. l \in Nat
    BY <2>1, LenProperties
  <2>. HIDE DEF l
  <2>. QED  BY <2>1, <2>2, WordsAreNumbers
<1>4. 0 \in 0 .. Word32 - 1 /\ 0 \in 0 .. Word64 - 1 /\ 0 \in Nat
  BY WordsAreNumbers
<1>5. yes \in BOOLEAN
  OBVIOUS
<1>. HIDE DEF l, yes
<1>6. /\ h.metadata_id = id /\ h.sequence_number = row.sequence
      /\ h.capture_thread_id = row.thread /\ h.processor_number = 0
      /\ h.thread_id = row.thread /\ h.stack_id = 0 /\ h.timestamp = row.timestamp
      /\ h.activity_id = 0 /\ h.related_activity_id = 0 /\ h.is_sorted = yes
      /\ h.payload_size = l
  BY DEF HeaderOf
<1>7. h = HeaderOf(h.metadata_id, h.sequence_number, h.capture_thread_id, h.processor_number,
                  h.thread_id, h.stack_id, h.timestamp, h.activity_id, h.related_activity_id,
                  h.is_sorted, h.payload_size)
  BY <1>6, Zenon
<1>. HIDE DEF h
<1>8. InWords(h)
  <2>1. /\ row.sequence \in 0 .. Word32 - 1
        /\ row.thread \in 0 .. Word64 - 1 /\ row.timestamp \in 0 .. Word64 - 1
    BY Zenon DEF FitsWords
  <2>. QED  BY <1>2, <1>3, <1>4, <1>5, <1>6, <2>1, Zenon DEF InWords
<1>9. IsHeader(h)
  BY <1>7, <1>8, Zenon DEF IsHeader
<1>10. payload \in Seq(Nat)
  BY Zenon DEF FitsWords
<1>11. h.metadata_id < HighBit
  BY <1>2, <1>6, Zenon
<1>12. h.payload_size = Len(payload)
  BY <1>6, Zenon DEF l
<1>. HIDE DEF r
<1>13. IsRow(r)
  BY <1>1, <1>9, <1>10, <1>11, <1>12, Zenon DEF IsRow
<1>. QED  BY <1>13 DEF r

\* The rows of a block of reports, and of a block of metadata, are read back.
LEMMA EventRowsAreRows ==
  ASSUME session.number \in Nat, NEW rows, AreReports(rows)
  PROVE  /\ AreRows(EventRows(rows)) /\ Len(EventRows(rows)) = Len(rows) /\ Len(rows) \in Nat
         /\ \A i \in 1 .. Len(rows) :
              EventRows(rows)[i] = Row(IdOf(rows[i].event), rows[i].payload, rows[i])
<1>. DEFINE n == Len(rows)
            er == EventRows(rows)
            row(i) == Row(IdOf(rows[i].event), rows[i].payload, rows[i])
<1>1. n \in Nat /\ DOMAIN rows = 1 .. n
  BY DEF AreReports, IsSequence
<1>2. er = [i \in 1 .. n |-> row(i)]
  BY <1>1 DEF EventRows
<1>3. ASSUME NEW i \in 1 .. n PROVE IsRow(row(i))
  <2>. DEFINE r == rows[i]
              id == IdOf(r.event)
  <2>1. r.event \in DOMAIN Events /\ \A j \in DOMAIN Events : IsReport(r, j)
    BY DEF AreReports
  <2>2. id \in DOMAIN Events
    BY <2>1, IdsAreKinds
  <2>. HIDE DEF r, id
  <2>3. IsReport(r, id)
    BY <2>1, <2>2
  <2>4. id \in 0 .. HighBit - 1
    BY <2>2, KindsAre, IdsFit
  <2>5. FitsWords(id, r.payload, r)
    BY <2>3, <2>4, Zenon DEF IsReport, FitsWords
  <2>6. IsRow(Row(id, r.payload, r))
    BY <2>5, RowFits
  <2>. QED  BY <2>6 DEF r, id
<1>. HIDE DEF row, er
<1>4. er = [i \in 1 .. n |-> er[i]] /\ \A i \in 1 .. n : er[i] = row(i)
  BY <1>2
<1>. HIDE DEF n
<1>5. IsSequence(er) /\ Len(er) = n
  BY <1>1, <1>4, NumberedSequence
<1>6. AreRows(er)
  BY <1>3, <1>4, <1>5 DEF AreRows
<1>. QED  BY <1>1, <1>4, <1>5, <1>6 DEF n, er, row

\* New kinds of event in some order.
AreKinds(events) == IsSequence(events) /\ Len(events) <= MaxRows /\ Range(events) \subseteq DOMAIN Events

LEMMA MetadataRowsAreRows ==
  ASSUME session.number \in Nat, NEW events, AreKinds(events)
  PROVE  /\ AreRows(MetadataRows(events)) /\ Len(MetadataRows(events)) = Len(events)
         /\ Len(events) \in Nat /\ DOMAIN events = 1 .. Len(events)
         /\ \A i \in 1 .. Len(events) :
              /\ events[i] \in DOMAIN Events
              /\ MetadataRows(events)[i].payload = RecordCells(events[i], IdOf(events[i]))
<1>. DEFINE n == Len(events)
            mr == MetadataRows(events)
            none == [thread |-> 0, sequence |-> 0, timestamp |-> 0]
            row(i) == Row(0, RecordCells(events[i], IdOf(events[i])), none)
<1>1. n \in Nat /\ DOMAIN events = 1 .. n
  BY DEF AreKinds, IsSequence
<1>2. mr = [i \in 1 .. n |-> row(i)]
  BY <1>1 DEF MetadataRows
<1>3. ASSUME NEW i \in 1 .. n
      PROVE  /\ events[i] \in DOMAIN Events /\ IsRow(row(i))
             /\ row(i).payload = RecordCells(events[i], IdOf(events[i]))
  <2>. DEFINE e == events[i]
              id == IdOf(e)
              cells == RecordCells(e, id)
  <2>1. e \in DOMAIN Events
    BY <1>1 DEF AreKinds, Range
  <2>. HIDE DEF e
  <2>2. id \in DOMAIN Events
    BY <2>1, IdsAreKinds
  <2>. HIDE DEF id
  <2>3. IsRecord(e, id)
    BY <2>1, <2>2, StreamAssumption
  <2>. HIDE DEF cells
  <2>4. cells \in Seq(Nat) /\ Len(cells) < Word32
    BY <2>3, Zenon DEF IsRecord, cells
  <2>5. 0 \in 0 .. HighBit - 1 /\ 0 \in 0 .. Word32 - 1 /\ 0 \in 0 .. Word64 - 1
    BY WordsAre DEF HighBit
  <2>6. none.thread = 0 /\ none.sequence = 0 /\ none.timestamp = 0
    OBVIOUS
  <2>. HIDE DEF none
  <2>7. FitsWords(0, cells, none)
    BY <2>4, <2>5, <2>6, Zenon DEF FitsWords
  <2>8. IsRow(Row(0, cells, none))
    BY <2>7, RowFits
  <2>9. Row(0, cells, none).payload = cells
    BY DEF Row
  <2>. QED  BY <2>1, <2>8, <2>9 DEF e, id, cells
<1>. HIDE DEF row, mr
<1>4. mr = [i \in 1 .. n |-> mr[i]] /\ \A i \in 1 .. n : mr[i] = row(i)
  BY <1>2
<1>. HIDE DEF n
<1>5. IsSequence(mr) /\ Len(mr) = n
  BY <1>1, <1>4, NumberedSequence
<1>6. AreRows(mr)
  BY <1>3, <1>4, <1>5 DEF AreRows
<1>7. \A i \in 1 .. n : mr[i].payload = RecordCells(events[i], IdOf(events[i]))
  BY <1>3, <1>4
<1>. QED  BY <1>1, <1>3, <1>5, <1>6, <1>7 DEF n, mr

\* What is known of a kind of event, and of all those announced.
Knows(known, event) ==
  IdOf(event) \in DOMAIN known /\ known[IdOf(event)] = RecordRead(event, IdOf(event))

\* The samples of a block are those its rows mean, where their kinds are known.
LEMMA RowsAreTold ==
  ASSUME session.number \in Nat, NEW rows, AreReports(rows), NEW known,
         \A i \in 1 .. Len(rows) : Knows(known, rows[i].event)
  PROVE  LET found == SamplesOf(known, RowsRead(EventRows(rows), Len(rows)))
         IN found.ok /\ found.samples = MeantBy(rows)
<1>. DEFINE n == Len(rows)
            er == EventRows(rows)
            events == RowsRead(er, n)
            yes == TRUE
            taken(samples) == [ok |-> yes, samples |-> samples]
<1>1. /\ n \in Nat
      /\ \A i \in 1 .. n : er[i] = Row(IdOf(rows[i].event), rows[i].payload, rows[i])
  BY EventRowsAreRows
<1>2. \A i \in 1 .. n : events[i] = RawEvent(er[i].header, er[i].payload)
  BY DEF RowsRead
<1>3. IsSequence(events) /\ Len(events) = n
  <2>1. events = [i \in 1 .. n |-> events[i]]
    BY DEF RowsRead
  <2>. HIDE DEF n, events
  <2>. QED  BY <1>1, <2>1, NumberedSequence
<1>. HIDE DEF events, er
<1>4. PICK d : IsTaking(d, Len(events), known, events)
               /\ SamplesOf(known, events) = d[1 .. Len(events)]
  BY <1>3, SamplesAreTaken
<1>5. PICK m : IsMeaning(m, Len(rows), rows) /\ MeantBy(rows) = m[1 .. Len(rows)]
  BY MeantAreAdded DEF AreReports
<1>. HIDE DEF n
<1>6. /\ d[1 .. 0] = NoneTaken
      /\ \A k \in 1 .. n : d[1 .. k] = TakeEvent(known, d[1 .. k - 1], events[k])
  BY <1>1, <1>3, <1>4, TakingGoes, SMTT(30)
<1>7. /\ m[1 .. 0] = <<>>
      /\ \A k \in 1 .. n : m[1 .. k] = Added(m[1 .. k - 1], SampleOf(rows[k]))
  <2>1. IsMeaning(m, n, rows)
    BY <1>5 DEF n
  <2>. QED  BY <1>1, <2>1, MeaningGoes
<1>8. ASSUME NEW k \in 1 .. n, NEW samples
      PROVE  TakeEvent(known, taken(samples), events[k]) = taken(Added(samples, SampleOf(rows[k])))
  <2>. DEFINE row == rows[k]
              id == IdOf(row.event)
              e == events[k]
              x == [ok |-> yes, sample |-> SampleOf(row)]
  <2>1. row.event \in DOMAIN Events /\ \A j \in DOMAIN Events : IsReport(row, j)
    BY DEF AreReports, n
  <2>2. id \in DOMAIN Events
    BY <2>1, IdsAreKinds
  <2>3. Knows(known, row.event)
    BY DEF n
  <2>. HIDE DEF row
  <2>4. id \in DOMAIN known /\ known[id] = RecordRead(row.event, id)
    BY <2>3 DEF Knows
  <2>. DEFINE cells == row.payload
              r == Row(id, cells, row)
  <2>5. e = RawEvent(r.header, r.payload)
    BY <1>1, <1>2 DEF row
  <2>6. r.payload = cells /\ r.header.metadata_id = id
    BY DEF Row
  <2>. HIDE DEF id, cells, r, e
  <2>7. e.metadata_id = id
    BY <2>5, <2>6 DEF RawEvent
  <2>8. IsReport(row, id)
    BY <2>1, <2>2
  <2>9. Extract(RecordRead(row.event, id), e) = x
    <3>1. e = RawEvent(Row(id, row.payload, row).header, row.payload)
      BY <2>5, <2>6, Zenon DEF cells, r
    <3>. QED  BY <2>8, <3>1, Zenon DEF IsReport
  <2>10. TakeEvent(known, taken(samples), e) = WithSample(taken(samples), x)
    <3>1. taken(samples).ok
      OBVIOUS
    <3>. HIDE DEF taken, x
    <3>. QED  BY <2>4, <2>7, <2>9, <3>1 DEF TakeEvent
  <2>. DEFINE sample == SampleOf(row)
              longer == Append(samples, sample)
  <2>11. x.ok /\ x.sample = sample
    OBVIOUS
  <2>. HIDE DEF x, sample
  <2>12. CASE sample = NoSample
    <3>1. WithSample(taken(samples), x) = taken(samples)
      <4>. HIDE DEF taken
      <4>. QED  BY <2>11, <2>12 DEF WithSample
    <3>2. Added(samples, sample) = samples
      BY <2>12 DEF Added
    <3>. QED  BY <2>10, <3>1, <3>2, Zenon DEF sample, row, e
  <2>13. CASE sample # NoSample
    <3>1. WithSample(taken(samples), x) = [taken(samples) EXCEPT !.samples = Append(@, sample)]
      <4>. HIDE DEF taken
      <4>. QED  BY <2>11, <2>13 DEF WithSample
    <3>2. [taken(samples) EXCEPT !.samples = Append(@, sample)] = taken(longer)
      <4>1. Append(taken(samples).samples, sample) = longer
        OBVIOUS
      <4>2. [taken(samples) EXCEPT !.samples = Append(@, sample)]
              = [taken(samples) EXCEPT !.samples = longer]
        BY <4>1
      <4>. HIDE DEF longer, yes
      <4>3. [taken(samples) EXCEPT !.samples = longer] = taken(longer)
        OBVIOUS
      <4>. QED  BY <4>2, <4>3, Zenon
    <3>3. Added(samples, sample) = longer
      BY <2>13 DEF Added
    <3>. QED  BY <2>10, <3>1, <3>2, <3>3, Zenon DEF sample, row, e
  <2>. QED  BY <2>12, <2>13
<1>. DEFINE good == {k \in Nat : k <= n => d[1 .. k] = taken(m[1 .. k])}
<1>9. 0 \in good
  <2>1. d[1 .. 0] = taken(m[1 .. 0])
    BY <1>6, <1>7, Zenon DEF NoneTaken
  <2>. HIDE DEF taken
  <2>. QED  BY <2>1
<1>10. ASSUME NEW k \in Nat, k \in good PROVE k + 1 \in good
  <2>. SUFFICES ASSUME k + 1 <= n PROVE d[1 .. k + 1] = taken(m[1 .. k + 1])
    OBVIOUS
  <2>1. k + 1 \in 1 .. n /\ (k + 1) - 1 = k /\ k <= n
    BY <1>1
  <2>2. d[1 .. k] = taken(m[1 .. k])
    <3>. HIDE DEF taken
    <3>. QED  BY <1>10, <2>1
  <2>3. d[1 .. k + 1] = TakeEvent(known, d[1 .. (k + 1) - 1], events[k + 1])
    BY <1>6, <2>1
  <2>4. m[1 .. k + 1] = Added(m[1 .. (k + 1) - 1], SampleOf(rows[k + 1]))
    BY <1>7, <2>1
  <2>. DEFINE s == m[1 .. k]
  <2>. HIDE DEF s, taken
  <2>5. d[1 .. k + 1] = TakeEvent(known, taken(s), events[k + 1])
    BY <2>1, <2>2, <2>3 DEF s
  <2>6. m[1 .. k + 1] = Added(s, SampleOf(rows[k + 1]))
    BY <2>1, <2>4 DEF s
  <2>7. TakeEvent(known, taken(s), events[k + 1]) = taken(Added(s, SampleOf(rows[k + 1])))
    BY <1>8, <2>1
  <2>. QED  BY <2>5, <2>6, <2>7, Zenon
<1>11. Nat \subseteq good
  <2>. HIDE DEF good
  <2>. QED  BY <1>9, <1>10, NumbersByInduction
<1>12. d[1 .. n] = taken(m[1 .. n])
  <2>. HIDE DEF taken
  <2>. QED  BY <1>1, <1>11
<1>. DEFINE found == SamplesOf(known, events)
<1>13. found = taken(MeantBy(rows))
  BY <1>3, <1>4, <1>5, <1>12, Zenon DEF n
<1>. HIDE DEF found
<1>14. found.ok /\ found.samples = MeantBy(rows)
  BY <1>13
<1>. QED  BY <1>14, Zenon DEF found, events, er, n

\* What rows mean are samples with a value.
AreSamples(s) == IsSequence(s) /\ \A x \in Range(s) : x.value \in Nat

LEMMA MeantAreSamples ==
  ASSUME NEW rows, AreReports(rows)
  PROVE  AreSamples(MeantBy(rows))
<1>. DEFINE n == Len(rows)
<1>1. PICK m : IsMeaning(m, n, rows) /\ MeantBy(rows) = m[1 .. n]
  BY MeantAreAdded DEF AreReports
<1>2. n \in Nat
  BY DEF AreReports, IsSequence
<1>3. ASSUME NEW k \in 1 .. n, SampleOf(rows[k]) # NoSample PROVE SampleOf(rows[k]).value \in Nat
  <2>. DEFINE row == rows[k]
              counter == row.counter
              at == row.timestamp
  <2>1. row.event \in DOMAIN Events /\ \A j \in DOMAIN Events : IsReport(row, j)
    BY DEF AreReports
  <2>. HIDE DEF row
  <2>2. IsReport(row, row.event)
    BY <2>1
  <2>3. counter # NoSample
    BY <1>3 DEF SampleOf, row
  <2>4. counter.value \in Nat
    BY <2>2, <2>3, Zenon DEF IsReport
  <2>5. SampleOf(row) = [counter EXCEPT !.timestamp = at]
    BY <2>3, Zenon DEF SampleOf
  <2>. HIDE DEF counter, at
  <2>6. [counter EXCEPT !.timestamp = at].value = counter.value
    <3>1. CASE "value" \in DOMAIN counter
      BY <3>1
    <3>2. CASE "value" \notin DOMAIN counter
      OBVIOUS
    <3>. QED  BY <3>1, <3>2
  <2>. QED  BY <2>4, <2>5, <2>6, Zenon DEF row
<1>. HIDE DEF n
<1>4. /\ m[1 .. 0] = <<>>
      /\ \A k \in 1 .. n : m[1 .. k] = Added(m[1 .. k - 1], SampleOf(rows[k]))
  BY <1>1, <1>2, MeaningGoes
<1>. DEFINE good == {k \in Nat : k <= n => AreSamples(m[1 .. k])}
<1>5. 0 \in good
  <2>1. AreSamples(<<>>)
    BY EmptySequence DEF AreSamples
  <2>. QED  BY <1>4, <2>1
<1>6. ASSUME NEW k \in Nat, k \in good PROVE k + 1 \in good
  <2>. SUFFICES ASSUME k + 1 <= n PROVE AreSamples(m[1 .. k + 1])
    OBVIOUS
  <2>. DEFINE s == m[1 .. k]
              x == SampleOf(rows[k + 1])
  <2>1. k + 1 \in 1 .. n /\ (k + 1) - 1 = k /\ k <= n
    BY <1>2
  <2>2. AreSamples(s)
    BY <1>6, <2>1
  <2>3. m[1 .. k + 1] = Added(m[1 .. (k + 1) - 1], x)
    BY <1>4, <2>1
  <2>4. m[1 .. k + 1] = Added(s, x)
    BY <2>1, <2>3
  <2>5. x # NoSample => x.value \in Nat
    BY <1>3, <2>1
  <2>. HIDE DEF s, x
  <2>6. CASE x = NoSample
    BY <2>2, <2>4, <2>6 DEF Added
  <2>7. CASE x # NoSample
    <3>1. IsSequence(Append(s, x)) /\ Range(Append(s, x)) = Range(s) \cup {x}
      BY <2>2, AppendSequence DEF AreSamples
    <3>2. m[1 .. k + 1] = Append(s, x)
      BY <2>4, <2>7 DEF Added
    <3>. QED  BY <2>2, <2>5, <2>7, <3>1, <3>2 DEF AreSamples
  <2>. QED  BY <2>6, <2>7
<1>7. Nat \subseteq good
  <2>. HIDE DEF good
  <2>. QED  BY <1>5, <1>6, NumbersByInduction
<1>. QED  BY <1>1, <1>2, <1>7


\* A record inserted is known, and whatever was known before it.
LEMMA InsertKnows ==
  ASSUME session.number \in Nat, NEW s, NEW f \in DOMAIN Events
  PROVE  /\ DOMAIN Insert(s, RecordRead(f, IdOf(f))) = DOMAIN s \cup {IdOf(f)}
         /\ RecordRead(f, IdOf(f)).ok /\ IdOf(f) \in DOMAIN Events
         /\ \A e \in DOMAIN Events :
              e = f \/ Knows(s, e) => Knows(Insert(s, RecordRead(f, IdOf(f))), e)
<1>. DEFINE id == IdOf(f)
            r == RecordRead(f, id)
            new == Insert(s, r)
<1>1. id \in DOMAIN Events
  BY IdsAreKinds
<1>2. r.ok /\ r.metadata_id = id
  <2>. HIDE DEF id
  <2>1. IsRecord(f, id)
    BY <1>1, StreamAssumption
  <2>. QED  BY <2>1, Zenon DEF IsRecord
<1>. HIDE DEF r
<1>3. new = [k \in DOMAIN s \cup {id} |-> IF k = id THEN r ELSE s[k]]
  BY <1>2 DEF Insert, Put
<1>. HIDE DEF new
<1>4. ASSUME NEW e \in DOMAIN Events, e = f \/ Knows(s, e) PROVE Knows(new, e)
  <2>1. CASE e = f
    <3>1. id \in DOMAIN new /\ new[id] = r
      <4>. HIDE DEF id
      <4>. QED  BY <1>3
    <3>. QED  BY <2>1, <3>1 DEF Knows, r
  <2>2. CASE e # f
    <3>1. IdOf(e) # id
      BY <2>2, IdsAreKinds
    <3>2. Knows(s, e)
      BY <1>4, <2>2
    <3>. DEFINE j == IdOf(e)
    <3>3. j \in DOMAIN s /\ s[j] = RecordRead(e, j)
      BY <3>2 DEF Knows
    <3>. HIDE DEF j, id
    <3>4. j \in DOMAIN new /\ new[j] = s[j]
      <4>1. j # id
        BY <3>1 DEF j
      <4>. QED  BY <1>3, <3>3, <4>1
    <3>. QED  BY <3>3, <3>4 DEF Knows, j
  <2>. QED  BY <2>1, <2>2
<1>5. DOMAIN new = DOMAIN s \cup {id}
  <2>. HIDE DEF id
  <2>. QED  BY <1>3
<1>. QED  BY <1>1, <1>2, <1>4, <1>5 DEF new, r

\* The records of kinds of event, as read.
RecordsRead(events) == [i \in 1 .. Len(events) |-> RecordRead(events[i], IdOf(events[i]))]

\* Once its record is stored, a kind of event is known.
LEMMA RecordsAreKnown ==
  ASSUME session.number \in Nat, NEW events, AreKinds(events),
         NEW old, DOMAIN old \subseteq DOMAIN Events
  PROVE  LET new == FoldLeft(Insert, old, RecordsRead(events))
         IN /\ \A i \in DOMAIN RecordsRead(events) : RecordsRead(events)[i].ok
            /\ DOMAIN new \subseteq DOMAIN Events
            /\ \A e \in DOMAIN Events : Knows(old, e) \/ e \in Range(events) => Knows(new, e)
<1>. DEFINE n == Len(events)
            records == RecordsRead(events)
            new == FoldLeft(Insert, old, records)
<1>1. n \in Nat /\ DOMAIN events = 1 .. n
  BY DEF AreKinds, IsSequence
<1>2. \A i \in 1 .. n : events[i] \in DOMAIN Events
  BY <1>1 DEF AreKinds, Range
<1>3. \A i \in 1 .. n : records[i] = RecordRead(events[i], IdOf(events[i]))
  BY DEF RecordsRead
<1>4. IsSequence(records) /\ Len(records) = n
  <2>1. records = [i \in 1 .. n |-> records[i]]
    BY DEF RecordsRead
  <2>. HIDE DEF n, records
  <2>. QED  BY <1>1, <2>1, NumberedSequence
<1>5. DOMAIN records = 1 .. n
  BY DEF RecordsRead
<1>. HIDE DEF records
<1>6. PICK d : IsStoring(d, Len(records), old, records) /\ new = d[1 .. Len(records)]
  BY <1>4, RecordsAreInserted
<1>. HIDE DEF n, new
<1>7. IsStoring(d, n, old, records) /\ new = d[1 .. n]
  BY <1>4, <1>6
<1>8. d[1 .. 0] = old /\ \A k \in 1 .. n : d[1 .. k] = Insert(d[1 .. k - 1], records[k])
  BY <1>1, <1>7, StoringGoes
<1>. DEFINE known(k) == /\ DOMAIN d[1 .. k] \subseteq DOMAIN Events
                        /\ \A e \in DOMAIN Events :
                             Knows(old, e) \/ (\E i \in 1 .. k : e = events[i]) => Knows(d[1 .. k], e)
            good == {k \in Nat : k <= n => known(k)}
<1>9. 0 \in good
  <2>1. ~\E i \in 1 .. 0 : TRUE
    OBVIOUS
  <2>2. known(0)
    BY <1>8, <2>1
  <2>. HIDE DEF known
  <2>. QED  BY <2>2
<1>10. ASSUME NEW k \in Nat, k \in good PROVE k + 1 \in good
  <2>. SUFFICES ASSUME k + 1 <= n PROVE known(k + 1)
    <3>. HIDE DEF known
    <3>. QED  OBVIOUS
  <2>1. k + 1 \in 1 .. n /\ (k + 1) - 1 = k /\ k <= n
    BY <1>1
  <2>2. known(k)
    <3>. HIDE DEF known
    <3>. QED  BY <1>10, <2>1
  <2>. DEFINE s == d[1 .. k]
              t == d[1 .. k + 1]
              f == events[k + 1]
  <2>3. f \in DOMAIN Events
    BY <1>2, <2>1
  <2>4. t = Insert(d[1 .. (k + 1) - 1], records[k + 1])
    BY <1>8, <2>1
  <2>5. t = Insert(s, RecordRead(f, IdOf(f)))
    BY <1>3, <2>1, <2>4
  <2>. HIDE DEF s, t, f
  <2>6. /\ DOMAIN t = DOMAIN s \cup {IdOf(f)} /\ IdOf(f) \in DOMAIN Events
        /\ \A e \in DOMAIN Events : e = f \/ Knows(s, e) => Knows(t, e)
    BY <2>3, <2>5, InsertKnows
  <2>7. ASSUME NEW e \in DOMAIN Events, Knows(old, e) \/ (\E i \in 1 .. k + 1 : e = events[i])
        PROVE  Knows(t, e)
    <3>1. e = f \/ Knows(old, e) \/ \E i \in 1 .. k : e = events[i]
      <4>1. \A i \in 1 .. k + 1 : i = k + 1 \/ i \in 1 .. k
        OBVIOUS
      <4>. QED  BY <2>7, <4>1 DEF f
    <3>2. e = f \/ Knows(s, e)
      BY <2>2, <3>1 DEF s
    <3>. QED  BY <2>6, <3>2
  <2>8. DOMAIN t \subseteq DOMAIN Events
    BY <2>2, <2>6 DEF s
  <2>. QED  BY <2>7, <2>8 DEF t
<1>11. Nat \subseteq good
  <2>. HIDE DEF good
  <2>. QED  BY <1>9, <1>10, NumbersByInduction
<1>12. known(n)
  <2>. HIDE DEF known
  <2>. QED  BY <1>1, <1>11
<1>13. \A e \in Range(events) : \E i \in 1 .. n : e = events[i]
  BY <1>1 DEF Range
<1>14. ASSUME NEW i \in 1 .. n PROVE records[i].ok
  <2>. DEFINE f == events[i]
  <2>1. f \in DOMAIN Events
    BY <1>2
  <2>. HIDE DEF f
  <2>2. RecordRead(f, IdOf(f)).ok
    BY <2>1, InsertKnows
  <2>. QED  BY <1>3, <2>2 DEF f
<1>. QED  BY <1>5, <1>7, <1>12, <1>13, <1>14 DEF records, new

----------------------------------------------------------------------------
(* One object of a stream, and what a reader makes of it.                  *)

\* The records in a block of metadata, as read.
RecordsIn(rows) == [i \in DOMAIN rows |-> ParseMetadata(rows[i].payload)]

\* p and q are a reader's position and metadata, and the samples it has sent: the
\* object takes it from the one to the other, and is not malformed.
Leads(o, p, q) ==
  \/ o.type = "Skipped" /\ q.store = p.store /\ q.told = p.told
  \/ /\ o.type = "MetadataBlock" /\ q.told = p.told
     /\ \A i \in DOMAIN RecordsIn(o.rows) : RecordsIn(o.rows)[i].ok
     /\ q.store = FoldLeft(Insert, p.store, RecordsIn(o.rows))
  \/ /\ o.type = "EventBlock" /\ q.store = p.store
     /\ SamplesOf(p.store, o.rows).ok /\ AreSamples(SamplesOf(p.store, o.rows).samples)
     /\ q.told = p.told \o SamplesOf(p.store, o.rows).samples

\* A piece of the stream is such an object, and an error where it breaks off.
IsStage(p, piece, q) ==
  /\ p.position \in Nat /\ piece \in Seq(Nat) /\ Len(piece) # 0
  /\ q.position = p.position + Len(piece)
  /\ DOMAIN q.store \subseteq DOMAIN Events
  /\ \E o : /\ o.at = Len(piece) /\ Leads(o, p, q)
            /\ \A w \in Seq(Nat) : Agree(piece, w) =>
                 NextObject(w, p.position) = IF Len(w) >= Len(piece) THEN o ELSE Failed

\* Whatever object is written.
LEMMA ObjectIsStage ==
  ASSUME NEW type, NEW content, CanBeWritten(type, content), NEW p, p.position \in Nat,
         NEW q, DOMAIN q.store \subseteq DOMAIN Events,
         NEW piece, piece = WrittenObject(type, content, p.position),
         q.position = p.position + Len(piece),
         NEW o, o = ObjectRead(type, content, Len(piece)), o.at = Len(piece), Leads(o, p, q)
  PROVE  IsStage(p, piece, q)
<1>1. piece \in Seq(Nat) /\ Len(piece) # 0
  <2>. DEFINE start == ContentAt(p.position)
              l == Len(content)
  <2>1. piece \in Seq(Nat) /\ Len(piece) = start + l + 1
    BY ObjectIsParts
  <2>2. start \in Nat
    BY ContentIsAfter
  <2>3. l \in Nat
    <3>1. content \in Seq(Nat)
      BY DEF CanBeWritten
    <3>. QED  BY <3>1, LenProperties
  <2>. HIDE DEF start, l
  <2>. QED  BY <2>1, <2>2, <2>3
<1>2. ASSUME NEW w \in Seq(Nat), Agree(piece, w)
      PROVE  NextObject(w, p.position) = IF Len(w) >= Len(piece) THEN o ELSE Failed
  <2>. DEFINE place == p.position
  <2>1. place \in Nat
    OBVIOUS
  <2>2. Agree(WrittenObject(type, content, p.position), w)
    BY <1>2
  <2>. QED  BY <2>1, <2>2, ObjectsReadBack
<1>3. \E x : /\ x.at = Len(piece) /\ Leads(x, p, q)
             /\ \A w \in Seq(Nat) : Agree(piece, w) =>
                  NextObject(w, p.position) = IF Len(w) >= Len(piece) THEN x ELSE Failed
  BY <1>2
<1>. QED  BY <1>1, <1>3 DEF IsStage

\* The trace object that a stream begins with,
LEMMA TraceIsLong == WrittenTrace \in Seq(Nat) /\ Len(WrittenTrace) = 16
<1>1. "Trace" \in Range(Words)
  BY StreamAssumption
<1>. DEFINE nothing == <<>>
            piece == WrittenTrace
<1>2. nothing \in Seq(Nat) /\ Agree(piece, nothing)
  <2>1. \A k \in 1 .. Len(piece) : ~(k <= Len(nothing))
    OBVIOUS
  <2>. HIDE DEF piece
  <2>. QED  BY <2>1 DEF Agree
<1>3. 0 \in Nat
  OBVIOUS
<1>. HIDE DEF nothing
<1>. QED  BY <1>1, <1>2, <1>3, TraceReadsBack

LEMMA TraceIsStage ==
  ASSUME NEW p, p.position \in Nat, NEW q, DOMAIN q.store \subseteq DOMAIN Events,
         q.position = p.position + 16, q.store = p.store, q.told = p.told
  PROVE  IsStage(p, WrittenTrace, q)
<1>. DEFINE o == Parsed("Skipped", <<>>, 16)
            piece == WrittenTrace
            place == p.position
<1>1. "Trace" \in Range(Words)
  BY StreamAssumption
<1>2. \A w \in Seq(Nat) : Agree(piece, w) =>
        NextObject(w, place) = IF Len(w) >= 16 THEN o ELSE Failed
  BY <1>1, TraceReadsBack
<1>3. piece \in Seq(Nat) /\ Len(piece) = 16
  BY TraceIsLong
<1>4. o.at = 16 /\ o.type = "Skipped"
  BY DEF Parsed
<1>. HIDE DEF o, piece
<1>5. Leads(o, p, q)
  BY <1>4 DEF Leads
<1>. HIDE DEF place
<1>6. \E x : /\ x.at = Len(piece) /\ Leads(x, p, q)
             /\ \A w \in Seq(Nat) : Agree(piece, w) =>
                  NextObject(w, place) = IF Len(w) >= Len(piece) THEN x ELSE Failed
  BY <1>2, <1>3, <1>4, <1>5
<1>7. Len(piece) # 0 /\ q.position = p.position + Len(piece)
  BY <1>3
<1>8. IsStage(p, piece, q)
  BY <1>3, <1>6, <1>7 DEF IsStage, place
<1>. QED  BY <1>8 DEF piece

\* the synchronization point that a poll ends with,
LEMMA PointCanBeWritten == CanBeWritten("SPBlock", <<0, 0, 0>>)
<1>. DEFINE content == <<0, 0, 0>>
            type == "SPBlock"
<1>1. CanBeWritten(type, content)
  <2>1. type \in Range(Words)
    BY StreamAssumption
  <2>2. content \in Seq(Nat) /\ Len(content) = 3
    OBVIOUS
  <2>3. 3 <= MaxBlockSize
    BY DEF MaxBlockSize
  <2>. HIDE DEF content
  <2>. QED  BY <2>1, <2>2, <2>3 DEF CanBeWritten
<1>. QED  BY <1>1

LEMMA PointIsStage ==
  ASSUME NEW p, p.position \in Nat, NEW q, DOMAIN q.store \subseteq DOMAIN Events,
         NEW piece, piece = WrittenObject("SPBlock", <<0, 0, 0>>, p.position),
         q.position = p.position + Len(piece), q.store = p.store, q.told = p.told
  PROVE  IsStage(p, piece, q)
<1>. DEFINE content == <<0, 0, 0>>
            type == "SPBlock"
            o == ObjectRead(type, content, Len(piece))
<1>1. CanBeWritten(type, content)
  BY PointCanBeWritten
<1>2. o.at = Len(piece) /\ o.type = "Skipped"
  BY DEF ObjectRead, Parsed
<1>3. piece = WrittenObject(type, content, p.position)
  OBVIOUS
<1>. HIDE DEF content, type, o
<1>4. Leads(o, p, q)
  BY <1>2 DEF Leads
<1>. QED  BY <1>1, <1>2, <1>3, <1>4, ObjectIsStage DEF o

\* a block of rows,
LEMMA BlockIsRead ==
  ASSUME NEW type \in {"EventBlock", "MetadataBlock"}, NEW rows, AreRows(rows),
         Len(rows) <= MaxRows, NEW compressed \in BOOLEAN, NEW at
  PROVE  /\ CanBeWritten(type, WrittenBlock(rows, compressed))
         /\ ObjectRead(type, WrittenBlock(rows, compressed), at)
              = Parsed(type, RowsRead(rows, Len(rows)), at)
<1>. DEFINE content == WrittenBlock(rows, compressed)
<1>1. content \in Seq(Nat) /\ Len(content) <= MaxBlockSize
  BY BlockIsShort
<1>2. ParseEventRows(content).ok /\ ParseEventRows(content).rows = RowsRead(rows, Len(rows))
  BY BlocksReadBack
<1>. HIDE DEF content
<1>3. type \in Range(Words)
  BY StreamAssumption
<1>4. CanBeWritten(type, content)
  BY <1>1, <1>3 DEF CanBeWritten
<1>5. ObjectRead(type, content, at) = Parsed(type, RowsRead(rows, Len(rows)), at)
  BY <1>2 DEF ObjectRead, ParsedRows
<1>. QED  BY <1>4, <1>5 DEF content

\* of metadata,
MetadataCells(events) == WrittenBlock(MetadataRows(events), TRUE)
AreRecords(object, events, at) ==
  object.type = "MetadataBlock" /\ object.at = at /\ RecordsIn(object.rows) = RecordsRead(events)

LEMMA MetadataIsRead ==
  ASSUME session.number \in Nat, NEW events, AreKinds(events), NEW at
  PROVE  /\ CanBeWritten("MetadataBlock", MetadataCells(events))
         /\ AreRecords(ObjectRead("MetadataBlock", MetadataCells(events), at), events, at)
<1>. DEFINE content == MetadataCells(events)
            rows == MetadataRows(events)
            yes == TRUE
            type == "MetadataBlock"
            o == ObjectRead(type, content, at)
            n == Len(events)
            read == RowsRead(rows, n)
<1>1. AreRows(rows) /\ Len(rows) = n /\ n \in Nat
  BY MetadataRowsAreRows
<1>2. \A i \in 1 .. n : rows[i].payload = RecordCells(events[i], IdOf(events[i]))
  BY MetadataRowsAreRows
<1>3. yes \in BOOLEAN /\ type \in {"EventBlock", "MetadataBlock"}
  OBVIOUS
<1>4. n <= MaxRows
  BY DEF AreKinds
<1>5. content = WrittenBlock(rows, yes)
  BY DEF MetadataCells
<1>. HIDE DEF rows, yes, type, n, content
<1>6. CanBeWritten(type, content) /\ o = Parsed(type, read, at)
  <2>. DEFINE l == Len(rows)
  <2>1. l <= MaxRows /\ l = n
    BY <1>1, <1>4
  <2>2. /\ CanBeWritten(type, WrittenBlock(rows, yes))
        /\ ObjectRead(type, WrittenBlock(rows, yes), at) = Parsed(type, RowsRead(rows, l), at)
    BY <1>1, <1>3, <2>1, BlockIsRead
  <2>. HIDE DEF l
  <2>. QED  BY <1>5, <2>1, <2>2, Zenon
<1>. HIDE DEF o
<1>7. o.type = "MetadataBlock" /\ o.rows = read /\ o.at = at
  BY <1>6 DEF Parsed, type
<1>8. RecordsIn(read) = RecordsRead(events)
  <2>1. read = [i \in 1 .. n |-> RawEvent(rows[i].header, rows[i].payload)]
    BY DEF RowsRead
  <2>2. \A i \in 1 .. n : read[i].payload = rows[i].payload
    BY <2>1 DEF RawEvent
  <2>3. DOMAIN read = 1 .. n
    BY <2>1
  <2>. HIDE DEF read
  <2>4. \A i \in 1 .. n : ParseMetadata(read[i].payload) = RecordRead(events[i], IdOf(events[i]))
    BY <1>2, <2>2 DEF RecordRead
  <2>. QED  BY <2>3, <2>4 DEF RecordsIn, RecordsRead, n
<1>. HIDE DEF read
<1>9. CanBeWritten(type, content) /\ AreRecords(o, events, at)
  BY <1>6, <1>7, <1>8 DEF AreRecords
<1>. QED  BY <1>9, Zenon DEF o, type, content

LEMMA MetadataIsStage ==
  ASSUME session.number \in Nat, NEW events, AreKinds(events),
         NEW p, p.position \in Nat, DOMAIN p.store \subseteq DOMAIN Events, NEW q,
         NEW piece,
         piece = WrittenObject("MetadataBlock", MetadataCells(events), p.position),
         q.position = p.position + Len(piece), q.told = p.told,
         q.store = FoldLeft(Insert, p.store, RecordsRead(events))
  PROVE  IsStage(p, piece, q)
<1>. DEFINE content == MetadataCells(events)
            type == "MetadataBlock"
            at == Len(piece)
            o == ObjectRead(type, content, at)
<1>1. CanBeWritten(type, content) /\ AreRecords(o, events, at)
  <2>. HIDE DEF at
  <2>. QED  BY MetadataIsRead, Zenon
<1>2. piece = WrittenObject(type, content, p.position)
  OBVIOUS
<1>3. /\ \A i \in DOMAIN RecordsRead(events) : RecordsRead(events)[i].ok
      /\ DOMAIN q.store \subseteq DOMAIN Events
  BY RecordsAreKnown
<1>. HIDE DEF o, content, type
<1>4. Leads(o, p, q)
  BY <1>1, <1>3 DEF Leads, AreRecords
<1>5. o.at = Len(piece)
  BY <1>1 DEF AreRecords
<1>. QED  BY <1>1, <1>2, <1>3, <1>4, <1>5, ObjectIsStage DEF o

\* and of events.
LEMMA EventsAreStage ==
  ASSUME session.number \in Nat, NEW rows, AreReports(rows), NEW compressed \in BOOLEAN,
         NEW p, p.position \in Nat, NEW q, DOMAIN q.store \subseteq DOMAIN Events,
         \A i \in 1 .. Len(rows) : Knows(p.store, rows[i].event),
         NEW piece,
         piece = WrittenObject("EventBlock", WrittenBlock(EventRows(rows), compressed), p.position),
         q.position = p.position + Len(piece), q.store = p.store,
         q.told = p.told \o MeantBy(rows)
  PROVE  IsStage(p, piece, q)
<1>. DEFINE er == EventRows(rows)
            content == WrittenBlock(er, compressed)
            type == "EventBlock"
            o == ObjectRead(type, content, Len(piece))
            n == Len(rows)
            read == RowsRead(er, n)
            found == SamplesOf(p.store, read)
<1>1. AreRows(er) /\ Len(er) = n
  BY EventRowsAreRows
<1>2. piece = WrittenObject(type, content, p.position)
  OBVIOUS
<1>3. type \in {"EventBlock", "MetadataBlock"} /\ Len(er) <= MaxRows
  BY <1>1 DEF AreReports
<1>4. found.ok /\ found.samples = MeantBy(rows)
  <2>. DEFINE known == p.store
  <2>1. \A i \in 1 .. Len(rows) : Knows(known, rows[i].event)
    OBVIOUS
  <2>2. SamplesOf(known, RowsRead(EventRows(rows), Len(rows))).ok
        /\ SamplesOf(known, RowsRead(EventRows(rows), Len(rows))).samples = MeantBy(rows)
    <3>. HIDE DEF known
    <3>. QED  BY <2>1, RowsAreTold
  <2>. QED  BY <2>2
<1>5. AreSamples(MeantBy(rows))
  BY MeantAreSamples
<1>. HIDE DEF er, type
<1>6. CanBeWritten(type, content) /\ o = Parsed(type, read, Len(piece))
  BY <1>1, <1>3, BlockIsRead
<1>7. o.type = "EventBlock" /\ o.rows = read /\ o.at = Len(piece)
  BY <1>6 DEF Parsed, type
<1>. HIDE DEF o, read, content
<1>8. Leads(o, p, q)
  <2>1. AreSamples(found.samples) /\ q.told = p.told \o found.samples
    BY <1>4, <1>5
  <2>. QED  BY <1>4, <1>7, <2>1 DEF Leads
<1>. QED  BY <1>2, <1>6, <1>7, <1>8, ObjectIsStage DEF o

----------------------------------------------------------------------------
(* The stream that is left, as a plan: where the reader will be after each *)
(* piece of it, and what it will have made of it.                          *)

IsPlan(n, plan, pieces) ==
  /\ n \in Nat
  /\ DOMAIN plan[0].store \subseteq DOMAIN Events /\ AreSamples(plan[0].told)
  /\ plan[0].position \in Nat
  /\ \A i \in 1 .. n : IsStage(plan[i - 1], pieces[i], plan[i])

\* A stage takes the reader on.
LEMMA StageGoesOn ==
  ASSUME NEW p, NEW piece, NEW q, IsStage(p, piece, q), AreSamples(p.told)
  PROVE  /\ DOMAIN q.store \subseteq DOMAIN Events /\ AreSamples(q.told)
         /\ q.position \in Nat /\ p.position < q.position
         /\ Extends(p.told, q.told)
<1>1. p.position \in Nat /\ q.position = p.position + Len(piece) /\ Len(piece) \in Nat \ {0}
  <2>1. piece \in Seq(Nat) /\ Len(piece) # 0
    BY DEF IsStage
  <2>2. Len(piece) \in Nat
    BY <2>1, LenProperties
  <2>. QED  BY <2>1, <2>2 DEF IsStage
<1>2. q.position \in Nat /\ p.position < q.position
  <2>. DEFINE l == Len(piece)
              at == p.position
  <2>1. at \in Nat /\ l \in Nat \ {0} /\ q.position = at + l
    BY <1>1
  <2>. HIDE DEF l, at
  <2>2. at + l \in Nat /\ at < at + l
    BY <2>1
  <2>. QED  BY <2>1, <2>2 DEF at
<1>3. PICK o : Leads(o, p, q)
  BY DEF IsStage
<1>4. AreSamples(q.told) /\ Extends(p.told, q.told)
  <2>1. CASE q.told = p.told
    BY <2>1, ExtendsItself DEF AreSamples
  <2>2. CASE q.told # p.told
    <3>. DEFINE more == SamplesOf(p.store, o.rows).samples
    <3>1. AreSamples(more) /\ q.told = p.told \o more
      BY <1>3, <2>2 DEF Leads
    <3>. HIDE DEF more
    <3>2. Extends(p.told, q.told)
      BY <3>1 DEF Extends, AreSamples
    <3>3. IsSequence(p.told \o more) /\ Range(p.told \o more) = Range(p.told) \cup Range(more)
      BY <3>1, ConcatSequence DEF AreSamples
    <3>4. \A x \in Range(p.told) \cup Range(more) : x.value \in Nat
      BY <3>1 DEF AreSamples
    <3>5. AreSamples(p.told \o more)
      BY <3>3, <3>4 DEF AreSamples
    <3>. QED  BY <3>1, <3>2, <3>5
  <2>. QED  BY <2>1, <2>2
<1>. QED  BY <1>2, <1>4 DEF IsStage

\* So does a plan, from any of its stages to any later one.
LEMMA PlanGoesOn ==
  ASSUME NEW n, NEW plan, NEW pieces, IsPlan(n, plan, pieces), NEW k \in 0 .. n
  PROVE  /\ DOMAIN plan[k].store \subseteq DOMAIN Events /\ AreSamples(plan[k].told)
         /\ plan[k].position \in Nat
         /\ \A j \in k .. n :
              /\ Extends(plan[k].told, plan[j].told)
              /\ plan[j].position \in Nat
              /\ k < j => plan[k].position < plan[j].position
<1>1. n \in Nat /\ \A i \in 1 .. n : IsStage(plan[i - 1], pieces[i], plan[i])
  BY DEF IsPlan
<1>. DEFINE known(i) == DOMAIN plan[i].store \subseteq DOMAIN Events /\ AreSamples(plan[i].told)
                        /\ plan[i].position \in Nat
            good == {i \in Nat : i <= n => known(i)}
<1>2. 0 \in good
  BY DEF IsPlan
<1>3. ASSUME NEW i \in Nat, i \in good PROVE i + 1 \in good
  <2>. SUFFICES ASSUME i + 1 <= n PROVE known(i + 1)
    <3>. HIDE DEF known
    <3>. QED  OBVIOUS
  <2>1. i + 1 \in 1 .. n /\ (i + 1) - 1 = i /\ i <= n
    BY <1>1
  <2>. DEFINE p == plan[i]
              q == plan[i + 1]
              piece == pieces[i + 1]
  <2>2. IsStage(plan[(i + 1) - 1], pieces[i + 1], plan[i + 1])
    BY <1>1, <2>1
  <2>3. IsStage(p, piece, q)
    BY <2>1, <2>2
  <2>4. AreSamples(p.told)
    BY <1>3, <2>1
  <2>. HIDE DEF p, q, piece
  <2>5. DOMAIN q.store \subseteq DOMAIN Events /\ AreSamples(q.told) /\ q.position \in Nat
    BY <2>3, <2>4, StageGoesOn
  <2>. QED  BY <2>5 DEF q
<1>4. Nat \subseteq good
  <2>. HIDE DEF good
  <2>. QED  BY <1>2, <1>3, NumbersByInduction
<1>5. \A i \in 0 .. n : known(i)
  <2>. HIDE DEF known
  <2>. QED  BY <1>1, <1>4
<1>. DEFINE after(j) == Extends(plan[k].told, plan[j].told)
                        /\ (k < j => plan[k].position < plan[j].position)
            reached == {i \in Nat : k + i <= n => after(k + i)}
<1>6. 0 \in reached
  <2>1. Extends(plan[k].told, plan[k].told)
    BY <1>5, ExtendsItself DEF AreSamples
  <2>2. k + 0 = k /\ ~(k < k)
    BY <1>1
  <2>3. after(k + 0)
    BY <2>1, <2>2
  <2>. HIDE DEF after
  <2>. QED  BY <2>3
<1>7. ASSUME NEW i \in Nat, i \in reached PROVE i + 1 \in reached
  <2>. SUFFICES ASSUME k + (i + 1) <= n PROVE after(k + (i + 1))
    <3>. HIDE DEF after
    <3>. QED  OBVIOUS
  <2>. DEFINE j == k + i
              p == plan[j]
              q == plan[j + 1]
              piece == pieces[j + 1]
  <2>1. j + 1 \in 1 .. n /\ (j + 1) - 1 = j /\ j <= n /\ k + (i + 1) = j + 1 /\ j \in 0 .. n
        /\ j \in Nat /\ k \in Nat /\ k <= j
    BY <1>1
  <2>2. after(j)
    <3>. HIDE DEF after
    <3>. QED  BY <1>7, <2>1
  <2>3. IsStage(plan[(j + 1) - 1], pieces[j + 1], plan[j + 1])
    <3>. HIDE DEF j
    <3>. QED  BY <1>1, <2>1
  <2>4. IsStage(p, piece, q)
    <3>. HIDE DEF j
    <3>. QED  BY <2>1, <2>3
  <2>5. known(j) /\ known(k)
    <3>. HIDE DEF j, known
    <3>. QED  BY <1>1, <1>5, <2>1
  <2>6. AreSamples(p.told) /\ AreSamples(plan[k].told)
        /\ p.position \in Nat /\ plan[k].position \in Nat
    BY <2>5
  <2>7. Extends(plan[k].told, p.told) /\ (k < j => plan[k].position < p.position)
    BY <2>2
  <2>8. k = j => plan[k].position = p.position
    OBVIOUS
  <2>. DEFINE a == plan[k].position
              b == p.position
              c == q.position
              first == plan[k].told
  <2>9. c \in Nat /\ b < c /\ Extends(p.told, q.told)
    <3>. HIDE DEF p, q, piece, j
    <3>. QED  BY <2>4, <2>6, StageGoesOn
  <2>10. Extends(first, q.told)
    <3>1. IsSequence(first)
      BY <2>6 DEF AreSamples
    <3>. HIDE DEF p, q, j, first
    <3>2. Extends(first, p.told)
      BY <2>7 DEF first
    <3>. QED  BY <2>9, <3>1, <3>2, ExtendsOn
  <2>11. a < c
    <3>1. a \in Nat /\ b \in Nat /\ (k < j => a < b) /\ (k = j => a = b)
      BY <2>6, <2>7, <2>8
    <3>. HIDE DEF a, b, c, j
    <3>. QED  BY <2>1, <2>9, <3>1
  <2>12. after(j + 1)
    <3>. HIDE DEF j
    <3>. QED  BY <2>10, <2>11
  <2>. HIDE DEF after, j
  <2>. QED  BY <2>1, <2>12
<1>8. Nat \subseteq reached
  <2>. HIDE DEF reached
  <2>. QED  BY <1>6, <1>7, NumbersByInduction
<1>9. \A j \in k .. n : after(j)
  <2>. SUFFICES ASSUME NEW j \in k .. n PROVE after(j)
    OBVIOUS
  <2>1. j - k \in Nat /\ k + (j - k) = j /\ j <= n
    BY <1>1
  <2>. HIDE DEF after
  <2>2. k + (j - k) <= n => after(k + (j - k))
    BY <1>8, <2>1
  <2>. QED  BY <2>1, <2>2
<1>10. \A j \in k .. n : j \in 0 .. n
  BY <1>1
<1>. QED  BY <1>5, <1>9, <1>10

----------------------------------------------------------------------------
(* What a poll writes.                                                     *)

\* Objects are written piece by piece.
AreWrittenAs(objects, start, c, pieces) ==
  /\ IsGrowing(c, pieces, Len(objects)) /\ WrittenFrom(start, objects) = c[Len(objects)]
  /\ \A i \in 1 .. Len(objects) :
       pieces[i] = WrittenObject(objects[i].type, objects[i].content, start + Len(c[i - 1]))

LEMMA PiecesAreWritten ==
  ASSUME NEW start \in Nat, NEW objects, IsSequence(objects),
         \A i \in 1 .. Len(objects) : CanBeWritten(objects[i].type, objects[i].content)
  PROVE  \E c, pieces : AreWrittenAs(objects, start, c, pieces)
<1>. DEFINE n == Len(objects)
<1>1. PICK d : IsWriting(d, n, start, objects) /\ WrittenFrom(start, objects) = d[1 .. n]
  BY ObjectsAreWritten
<1>2. n \in Nat
  BY DEF IsSequence
<1>3. /\ d[1 .. 0] = <<>>
      /\ \A k \in 1 .. n : d[1 .. k] = WrittenAt(start, d[1 .. k - 1], objects[k])
  <2>. HIDE DEF n
  <2>. QED  BY <1>1, <1>2, WritingGoes
<1>. DEFINE c == [i \in 0 .. n |-> d[1 .. i]]
            pieces == [i \in 1 .. n |-> WrittenObject(objects[i].type, objects[i].content,
                                                      start + Len(c[i - 1]))]
<1>4. \A i \in 1 .. n : CanBeWritten(objects[i].type, objects[i].content)
  OBVIOUS
<1>. HIDE DEF n
<1>5. \A i \in 0 .. n : c[i] = d[1 .. i]
  OBVIOUS
<1>. HIDE DEF c
<1>6. \A i \in 1 .. n : pieces[i] = WrittenObject(objects[i].type, objects[i].content,
                                                  start + Len(c[i - 1]))
  OBVIOUS
<1>. HIDE DEF pieces
<1>7. c[0] = <<>>
  BY <1>2, <1>3, <1>5
<1>8. \A i \in 1 .. n : c[i] = c[i - 1] \o pieces[i]
  <2>. SUFFICES ASSUME NEW i \in 1 .. n PROVE c[i] = c[i - 1] \o pieces[i]
    OBVIOUS
  <2>1. i - 1 \in 0 .. n /\ i \in 0 .. n
    BY <1>2
  <2>2. c[i] = WrittenAt(start, d[1 .. i - 1], objects[i])
    BY <1>3, <1>5, <2>1
  <2>3. c[i - 1] = d[1 .. i - 1]
    BY <1>5, <2>1
  <2>4. c[i] = WrittenAt(start, c[i - 1], objects[i])
    BY <2>2, <2>3
  <2>. QED  BY <1>6, <2>4 DEF WrittenAt
<1>9. ASSUME NEW i \in 1 .. n, c[i - 1] \in Seq(Nat) PROVE pieces[i] \in Seq(Nat)
  <2>. DEFINE l == Len(c[i - 1])
              at == start + l
              type == objects[i].type
              content == objects[i].content
  <2>1. l \in Nat
    BY <1>9, LenProperties
  <2>. HIDE DEF l
  <2>2. at \in Nat
    BY <2>1
  <2>3. CanBeWritten(type, content)
    BY <1>4
  <2>. HIDE DEF at, type, content
  <2>4. WrittenObject(type, content, at) \in Seq(Nat)
    BY <2>2, <2>3, ObjectIsParts
  <2>. QED  BY <1>6, <2>4 DEF at, l, type, content
<1>. DEFINE good == {k \in Nat : k <= n => c[k] \in Seq(Nat)}
<1>10. 0 \in good
  <2>1. <<>> \in Seq(Nat)
    OBVIOUS
  <2>. QED  BY <1>7, <2>1
<1>11. ASSUME NEW k \in Nat, k \in good PROVE k + 1 \in good
  <2>. SUFFICES ASSUME k + 1 <= n PROVE c[k + 1] \in Seq(Nat)
    OBVIOUS
  <2>1. k + 1 \in 1 .. n /\ (k + 1) - 1 = k /\ k <= n
    BY <1>2
  <2>2. c[k] \in Seq(Nat)
    BY <1>11, <2>1
  <2>3. pieces[k + 1] \in Seq(Nat)
    BY <1>9, <2>1, <2>2
  <2>4. c[k + 1] = c[(k + 1) - 1] \o pieces[k + 1]
    BY <1>8, <2>1
  <2>5. c[k + 1] = c[k] \o pieces[k + 1]
    BY <2>1, <2>4
  <2>. QED  BY <2>2, <2>3, <2>5, CellsAfterCells
<1>12. Nat \subseteq good
  <2>. HIDE DEF good
  <2>. QED  BY <1>10, <1>11, NumbersByInduction
<1>13. \A i \in 1 .. n : pieces[i] \in Seq(Nat)
  <2>. SUFFICES ASSUME NEW i \in 1 .. n PROVE pieces[i] \in Seq(Nat)
    OBVIOUS
  <2>1. i - 1 \in Nat /\ i - 1 <= n
    BY <1>2
  <2>2. c[i - 1] \in Seq(Nat)
    BY <1>12, <2>1
  <2>. QED  BY <1>9, <2>2
<1>14. IsGrowing(c, pieces, n)
  BY <1>7, <1>8, <1>13 DEF IsGrowing
<1>15. WrittenFrom(start, objects) = c[n]
  BY <1>1, <1>2, <1>5
<1>16. AreWrittenAs(objects, start, c, pieces)
  BY <1>6, <1>14, <1>15 DEF AreWrittenAs, n
<1>. QED  BY <1>16

\* Three sequences one after another.
LEMMA ConcatThree ==
  ASSUME NEW s, IsSequence(s), NEW t, IsSequence(t), NEW u, IsSequence(u)
  PROVE  (s \o t) \o u = s \o (t \o u)
<1>. DEFINE T == Range(s) \cup Range(t) \cup Range(u)
<1>1. s \in Seq(T) /\ t \in Seq(T) /\ u \in Seq(T)
  BY DEF IsSequence
<1>. HIDE DEF T
<1>. QED  BY <1>1, ConcatAssociative

\* What is told of parts, one after another, is what is told of them flattened.
AreParts(t, told, seqs) ==
  /\ t[0] = told /\ t[Len(seqs)] = told \o FlattenSeq(seqs)
  /\ \A j \in 1 .. Len(seqs) : t[j] = t[j - 1] \o seqs[j]

LEMMA ToldInParts ==
  ASSUME NEW told, IsSequence(told), NEW seqs, Len(seqs) \in Nat, Len(seqs) = 0 => seqs = <<>>,
         \A j \in 1 .. Len(seqs) : IsSequence(seqs[j])
  PROVE  \E t : AreParts(t, told, seqs)
<1>. DEFINE n == Len(seqs)
<1>1. PICK f : IsFlattening(f, seqs)
  BY FlatteningExists
<1>2. n \in Nat /\ \A j \in 1 .. n : f[j] = IF j = 1 THEN seqs[j] ELSE f[j - 1] \o seqs[j]
  BY <1>1, Zenon DEF IsFlattening
<1>3. FlattenSeq(seqs) = IF n = 0 THEN seqs ELSE f[n]
  <2>. DEFINE g == CHOOSE h : IsFlattening(h, seqs)
  <2>1. FlattenSeq(seqs) = IF n = 0 THEN seqs ELSE g[n]
    BY DEF FlattenSeq, IsFlattening
  <2>2. IsFlattening(g, seqs)
    BY <1>1
  <2>. HIDE DEF g
  <2>3. \A j \in 1 .. n : g[j] = IF j = 1 THEN seqs[j] ELSE g[j - 1] \o seqs[j]
    BY <2>2, Zenon DEF IsFlattening
  <2>. DEFINE same == {k \in Nat : k \in 1 .. n => g[k] = f[k]}
  <2>. HIDE DEF n
  <2>4. 0 \in same
    OBVIOUS
  <2>5. ASSUME NEW k \in Nat, k \in same PROVE k + 1 \in same
    <3>. SUFFICES ASSUME k + 1 \in 1 .. n PROVE g[k + 1] = f[k + 1]
      OBVIOUS
    <3>1. k # 0 => k \in 1 .. n
      BY <1>2
    <3>2. (k + 1) - 1 = k /\ (k + 1 = 1 <=> k = 0)
      OBVIOUS
    <3>3. g[k + 1] = IF k = 0 THEN seqs[k + 1] ELSE g[k] \o seqs[k + 1]
      BY <2>3, <3>2
    <3>4. f[k + 1] = IF k = 0 THEN seqs[k + 1] ELSE f[k] \o seqs[k + 1]
      BY <1>2, <3>2
    <3>. QED  BY <2>5, <3>1, <3>3, <3>4
  <2>6. Nat \subseteq same
    <3>. HIDE DEF same
    <3>. QED  BY <2>4, <2>5, NumbersByInduction
  <2>7. n # 0 => g[n] = f[n]
    <3>1. n # 0 => n \in 1 .. n
      BY <1>2
    <3>. QED  BY <1>2, <2>6, <3>1
  <2>. QED  BY <2>1, <2>7
<1>4. \A j \in 1 .. n : IsSequence(seqs[j])
  OBVIOUS
<1>5. n = 0 => seqs = <<>>
  OBVIOUS
<1>. HIDE DEF n
<1>. DEFINE good == {k \in Nat : k \in 1 .. n => IsSequence(f[k])}
<1>6. 0 \in good
  OBVIOUS
<1>7. ASSUME NEW k \in Nat, k \in good PROVE k + 1 \in good
  <2>. SUFFICES ASSUME k + 1 \in 1 .. n PROVE IsSequence(f[k + 1])
    OBVIOUS
  <2>1. k # 0 => k \in 1 .. n
    BY <1>2
  <2>2. (k + 1) - 1 = k /\ (k + 1 = 1 <=> k = 0)
    OBVIOUS
  <2>3. f[k + 1] = IF k = 0 THEN seqs[k + 1] ELSE f[k] \o seqs[k + 1]
    BY <1>2, <2>2
  <2>4. IsSequence(seqs[k + 1])
    BY <1>4
  <2>5. CASE k = 0
    BY <2>3, <2>4, <2>5
  <2>6. CASE k # 0
    <3>1. IsSequence(f[k])
      BY <1>7, <2>1, <2>6
    <3>2. IsSequence(f[k] \o seqs[k + 1])
      BY <2>4, <3>1, ConcatSequence
    <3>. QED  BY <2>3, <2>6, <3>2
  <2>. QED  BY <2>5, <2>6
<1>8. Nat \subseteq good
  <2>. HIDE DEF good
  <2>. QED  BY <1>6, <1>7, NumbersByInduction
<1>9. \A j \in 1 .. n : IsSequence(f[j])
  BY <1>2, <1>8
<1>. DEFINE t == [j \in 0 .. n |-> IF j = 0 THEN told ELSE told \o f[j]]
<1>10. t[0] = told /\ \A j \in 1 .. n : t[j] = told \o f[j]
  BY <1>2
<1>. HIDE DEF t
<1>11. ASSUME NEW j \in 1 .. n PROVE t[j] = t[j - 1] \o seqs[j]
  <2>1. CASE j = 1
    <3>1. t[j - 1] = told /\ f[j] = seqs[j]
      BY <1>2, <1>10, <2>1
    <3>. QED  BY <1>10, <3>1
  <2>2. CASE j # 1
    <3>1. j - 1 \in 1 .. n
      BY <1>2, <2>2
    <3>2. t[j - 1] = told \o f[j - 1] /\ IsSequence(f[j - 1])
      BY <1>9, <1>10, <3>1
    <3>3. f[j] = f[j - 1] \o seqs[j] /\ IsSequence(seqs[j])
      BY <1>2, <1>4, <2>2
    <3>4. t[j] = told \o (f[j - 1] \o seqs[j])
      BY <1>10, <3>3
    <3>. DEFINE a == f[j - 1]
                b == seqs[j]
    <3>. HIDE DEF a, b
    <3>5. (told \o a) \o b = told \o (a \o b)
      <4>1. IsSequence(told) /\ IsSequence(a) /\ IsSequence(b)
        BY <3>2, <3>3 DEF a, b
      <4>. QED  BY <4>1, ConcatThree, SMTT(30)
    <3>. QED  BY <3>2, <3>4, <3>5 DEF a, b
  <2>. QED  BY <2>1, <2>2
<1>12. t[n] = told \o FlattenSeq(seqs)
  <2>1. CASE n = 0
    <3>1. told \o <<>> = told
      BY ConcatEmptySeq DEF IsSequence
    <3>. QED  BY <1>3, <1>5, <1>10, <2>1, <3>1
  <2>2. CASE n # 0
    <3>1. n \in 1 .. n
      BY <1>2, <2>2
    <3>. QED  BY <1>3, <1>10, <2>2, <3>1
  <2>. QED  BY <2>1, <2>2
<1>13. AreParts(t, told, seqs)
  BY <1>10, <1>11, <1>12 DEF AreParts, n
<1>. QED  BY <1>13

\* Kinds of event in some order: each of them once.
LEMMA KindsInOrder ==
  ASSUME NEW S, S \subseteq DOMAIN Events
  PROVE  AreKinds(SetToSeq(S)) /\ Range(SetToSeq(S)) = S
<1>. DEFINE n == Cardinality(S)
            s == SetToSeq(S)
<1>1. IsFiniteSet(S) /\ n <= Len(Events) /\ n \in Nat
  <2>1. IsFiniteSet(DOMAIN Events) /\ DOMAIN Events = 1 .. Len(Events) /\ Len(Events) \in Nat \ {0}
    BY KindsAre
  <2>2. IsFiniteSet(S) /\ n <= Cardinality(DOMAIN Events)
    BY <2>1, FS_Subset
  <2>. DEFINE l == Len(Events)
  <2>3. 1 \in Int /\ l \in Int /\ l \in Nat \ {0}
    BY <2>1
  <2>. HIDE DEF l
  <2>4. Cardinality(1 .. l) = IF 1 > l THEN 0 ELSE l - 1 + 1
    BY <2>3, FS_Interval
  <2>5. Cardinality(1 .. l) = l
    BY <2>3, <2>4
  <2>. QED  BY <2>1, <2>2, <2>5, FS_CardinalityType DEF l
<1>2. PICK f : f \in Bijection(1 .. n, S)
  BY <1>1, FS_CardinalityType DEF ExistsBijection
<1>3. f \in [1 .. n -> S] /\ IsInjective(f)
  BY <1>2 DEF Bijection, Injection, IsInjective
<1>4. s \in [1 .. n -> S] /\ IsInjective(s)
  BY <1>3 DEF SetToSeq
<1>. HIDE DEF s, n
<1>5. s \in Injection(1 .. n, S)
  BY <1>4 DEF Injection, IsInjective
<1>6. Cardinality(1 .. n) = n
  <2>1. 1 \in Int /\ n \in Int
    BY <1>1
  <2>2. Cardinality(1 .. n) = IF 1 > n THEN 0 ELSE n - 1 + 1
    BY <2>1, FS_Interval
  <2>. QED  BY <1>1, <2>2
<1>7. s \in Surjection(1 .. n, S)
  BY <1>1, <1>5, <1>6, FS_Injection DEF n
<1>8. \A x \in S : \E i \in 1 .. n : s[i] = x
  BY <1>7 DEF Surjection
<1>9. s = [i \in 1 .. n |-> s[i]]
  BY <1>4
<1>10. IsSequence(s) /\ Len(s) = n
  BY <1>1, <1>9, NumberedSequence
<1>11. Range(s) = S
  <2>1. DOMAIN s = 1 .. n /\ \A i \in 1 .. n : s[i] \in S
    BY <1>4
  <2>. QED  BY <1>8, <2>1 DEF Range
<1>12. n <= MaxRows
  <2>. DEFINE l == Len(Events)
  <2>1. l \in Nat /\ l <= HighBit - 1 /\ n <= l
    BY <1>1, KindsAre
  <2>2. HighBit = 64 /\ MaxRows = 1000000
    BY WordsAre DEF HighBit, MaxRows
  <2>. HIDE DEF l
  <2>. QED  BY <1>1, <2>1, <2>2
<1>. QED  BY <1>10, <1>11, <1>12 DEF AreKinds, s

\* What two sequences are, one after the other.
IsJoined(joined, s, m, t, n) ==
  /\ IsSequence(joined) /\ Len(joined) = m + n /\ m \in Nat /\ n \in Nat
  /\ \A i \in 1 .. m : joined[i] = s[i]
  /\ \A i \in 1 .. n : joined[m + i] = t[i]

LEMMA ConcatAt ==
  ASSUME NEW s, IsSequence(s), NEW t, IsSequence(t),
         NEW m, m = Len(s), NEW n, n = Len(t), NEW joined, joined = s \o t
  PROVE  IsJoined(joined, s, m, t, n)
<1>. DEFINE T == Range(s) \cup Range(t)
<1>1. s \in Seq(T) /\ t \in Seq(T)
  BY DEF IsSequence
<1>2. IsSequence(joined)
  BY ConcatSequence
<1>. HIDE DEF T
<1>3. Len(s) \in Nat /\ Len(t) \in Nat
  BY <1>1, LenProperties
<1>4. Len(joined) = m + n
  BY <1>1, ConcatProperties
<1>5. Lies(s, joined, 0) /\ Lies(t, joined, m)
  BY <1>1, LiesBetween
<1>6. \A i \in 1 .. m : joined[i] = s[i]
  <2>1. \A i \in 1 .. m : joined[0 + i] = s[i]
    BY <1>5 DEF Lies
  <2>2. \A i \in 1 .. m : 0 + i = i
    BY <1>3
  <2>. QED  BY <2>1, <2>2
<1>7. \A i \in 1 .. n : joined[m + i] = t[i]
  BY <1>5 DEF Lies
<1>. QED  BY <1>2, <1>3, <1>4, <1>6, <1>7 DEF IsJoined

\* The kinds of event that a poll has new, and those of its rows.
LEMMA NewsAreKinds ==
  ASSUME NEW poll \in UNION Range(Polls), announced \subseteq DOMAIN Events
  PROVE  /\ AreKinds(News(poll)) /\ Range(News(poll)) \subseteq DOMAIN Events
         /\ \A b \in DOMAIN poll : \A i \in 1 .. Len(poll[b].rows) :
              poll[b].rows[i].event \in announced \cup Range(News(poll))
<1>. DEFINE S == UNION {{row.event : row \in Range(poll[b].rows)} : b \in DOMAIN poll}
<1>1. ASSUME NEW b \in DOMAIN poll
      PROVE  DOMAIN poll[b].rows = 1 .. Len(poll[b].rows)
             /\ \A row \in Range(poll[b].rows) : row.event \in DOMAIN Events
  <2>. DEFINE rows == poll[b].rows
  <2>1. AreReports(rows)
    BY PollsAreReports
  <2>. HIDE DEF rows
  <2>2. IsSequence(rows)
    BY <2>1 DEF AreReports
  <2>3. DOMAIN rows = 1 .. Len(rows)
    BY <2>2 DEF IsSequence
  <2>4. \A i \in 1 .. Len(rows) : rows[i].event \in DOMAIN Events
    BY <2>1 DEF AreReports
  <2>5. \A row \in Range(rows) : row.event \in DOMAIN Events
    BY <2>3, <2>4 DEF Range
  <2>. QED  BY <2>3, <2>5 DEF rows
<1>2. S \subseteq DOMAIN Events
  BY <1>1
<1>3. ASSUME NEW b \in DOMAIN poll, NEW i \in 1 .. Len(poll[b].rows)
      PROVE  poll[b].rows[i].event \in S
  <2>. DEFINE rows == poll[b].rows
  <2>1. rows[i] \in Range(rows)
    BY <1>1 DEF Range
  <2>. QED  BY <2>1
<1>4. News(poll) = SetToSeq(S \ announced)
  BY DEF News
<1>. HIDE DEF S
<1>5. AreKinds(News(poll)) /\ Range(News(poll)) = S \ announced
  <2>. DEFINE new == S \ announced
  <2>1. new \subseteq DOMAIN Events
    BY <1>2
  <2>. HIDE DEF new
  <2>2. AreKinds(SetToSeq(new)) /\ Range(SetToSeq(new)) = new
    BY <2>1, KindsInOrder
  <2>. QED  BY <1>4, <2>2 DEF new
<1>. QED  BY <1>2, <1>3, <1>5

\* What the objects of a poll hold: m of metadata, one of events for each of its
\* blocks, and a point.
IsPollOf(objects, poll, m, blocks) ==
  /\ blocks = Len(poll) /\ blocks \in Nat /\ m \in 0 .. 1
  /\ m = 0 <=> News(poll) = <<>>
  /\ IsSequence(objects) /\ Len(objects) = m + blocks + 1
  /\ m = 1 => objects[1] = [type |-> "MetadataBlock", content |-> MetadataCells(News(poll))]
  /\ \A b \in 1 .. blocks :
       objects[m + b] = [type |-> "EventBlock",
                         content |-> WrittenBlock(EventRows(poll[b].rows), poll[b].compressed)]
  /\ objects[m + blocks + 1] = [type |-> "SPBlock", content |-> <<0, 0, 0>>]

LEMMA PollIsOfBlocks ==
  ASSUME NEW poll, IsSequence(poll)
  PROVE  \E m, blocks : IsPollOf(PollObjects(poll), poll, m, blocks)
<1>. DEFINE head == IF News(poll) = <<>> THEN <<>>
                    ELSE <<[type |-> "MetadataBlock", content |-> MetadataCells(News(poll))]>>
            block(b) == [type |-> "EventBlock",
                         content |-> WrittenBlock(EventRows(poll[b].rows), poll[b].compressed)]
            middle == [b \in DOMAIN poll |-> block(b)]
            point == [type |-> "SPBlock", content |-> <<0, 0, 0>>]
            last == <<point>>
            m == IF News(poll) = <<>> THEN 0 ELSE 1
            n == Len(poll)
<1>1. n \in Nat /\ DOMAIN poll = 1 .. n
  BY DEF IsSequence
<1>2. PollObjects(poll) = head \o middle \o last
  BY Zenon DEF PollObjects, MetadataCells
<1>3. IsSequence(middle) /\ Len(middle) = n /\ \A b \in 1 .. n : middle[b] = block(b)
  <2>. HIDE DEF block
  <2>1. middle = [b \in 1 .. n |-> middle[b]] /\ \A b \in 1 .. n : middle[b] = block(b)
    BY <1>1
  <2>. HIDE DEF middle, n
  <2>2. IsSequence(middle) /\ Len(middle) = n
    BY <1>1, <2>1, NumberedSequence
  <2>. QED  BY <2>1, <2>2
<1>4. IsSequence(head) /\ Len(head) = m
      /\ (m = 1 => head[1] = [type |-> "MetadataBlock", content |-> MetadataCells(News(poll))])
  <2>. DEFINE x == [type |-> "MetadataBlock", content |-> MetadataCells(News(poll))]
  <2>1. CASE News(poll) = <<>>
    BY <2>1, EmptySequence
  <2>2. CASE News(poll) # <<>>
    <3>1. head = <<x>> /\ m = 1
      BY <2>2
    <3>. HIDE DEF x, head, m
    <3>2. <<x>> \in Seq({x}) /\ Len(<<x>>) = 1 /\ <<x>>[1] = x
      OBVIOUS
    <3>3. IsSequence(<<x>>)
      BY <3>2, SequenceOver
    <3>. QED  BY <3>1, <3>2, <3>3 DEF x
  <2>. QED  BY <2>1, <2>2
<1>5. IsSequence(last) /\ Len(last) = 1 /\ last[1] = point
  <2>. HIDE DEF point
  <2>1. last \in Seq({point}) /\ Len(last) = 1 /\ last[1] = point
    OBVIOUS
  <2>. QED  BY <2>1, SequenceOver
<1>6. m \in 0 .. 1 /\ (m = 0 <=> News(poll) = <<>>)
  OBVIOUS
<1>. DEFINE first == head \o middle
            objects == first \o last
<1>. HIDE DEF head, middle, last, m, n, block, point
<1>. HIDE DEF first
<1>7. /\ IsSequence(first) /\ Len(first) = m + n
      /\ \A i \in 1 .. m : first[i] = head[i]
      /\ \A i \in 1 .. n : first[m + i] = middle[i]
  <2>1. first = head \o middle
    BY DEF first
  <2>2. m = Len(head) /\ n = Len(middle)
    BY <1>3, <1>4
  <2>3. IsJoined(first, head, m, middle, n)
    BY <1>3, <1>4, <2>1, <2>2, ConcatAt
  <2>. QED  BY <2>3 DEF IsJoined
<1>8. m + n \in Nat /\ \A i \in 1 .. m : i \in 1 .. m + n /\ \A j \in 1 .. n : m + j \in 1 .. m + n
  BY <1>1, <1>6
<1>. HIDE DEF objects
<1>9. /\ IsSequence(objects) /\ Len(objects) = m + n + 1
      /\ \A i \in 1 .. m + n : objects[i] = first[i]
      /\ objects[m + n + 1] = point
  <2>. DEFINE k == m + n
  <2>1. objects = first \o last /\ 1 = Len(last) /\ k = Len(first)
    BY <1>5, <1>7 DEF objects
  <2>2. 1 \in 1 .. 1
    OBVIOUS
  <2>. HIDE DEF k
  <2>3. /\ IsSequence(objects) /\ Len(objects) = k + 1
        /\ \A i \in 1 .. k : objects[i] = first[i]
        /\ \A i \in 1 .. 1 : objects[k + i] = last[i]
    <3>1. IsJoined(objects, first, k, last, 1)
      BY <1>5, <1>7, <2>1, ConcatAt
    <3>. QED  BY <3>1 DEF IsJoined
  <2>. QED  BY <1>5, <2>2, <2>3 DEF k
<1>10. m = 1 => objects[1] = head[1]
  BY <1>1, <1>6, <1>7, <1>9
<1>11. \A b \in 1 .. n : objects[m + b] = block(b)
  <2>. SUFFICES ASSUME NEW b \in 1 .. n PROVE objects[m + b] = block(b)
    OBVIOUS
  <2>1. m + b \in 1 .. m + n
    BY <1>1, <1>6
  <2>. QED  BY <1>3, <1>7, <1>9, <2>1
<1>12. IsPollOf(objects, poll, m, n)
  <2>1. n = Len(poll)
    BY DEF n
  <2>2. m = 1 => objects[1] = [type |-> "MetadataBlock", content |-> MetadataCells(News(poll))]
    BY <1>4, <1>10
  <2>3. \A b \in 1 .. n : objects[m + b] = [type |-> "EventBlock",
            content |-> WrittenBlock(EventRows(poll[b].rows), poll[b].compressed)]
    BY <1>11 DEF block
  <2>4. objects[m + n + 1] = [type |-> "SPBlock", content |-> <<0, 0, 0>>]
    BY <1>9 DEF point
  <2>5. IsSequence(objects) /\ Len(objects) = m + n + 1
    BY <1>9
  <2>. QED  BY <1>1, <1>6, <2>1, <2>2, <2>3, <2>4, <2>5, Zenon DEF IsPollOf
<1>13. PollObjects(poll) = objects
  BY <1>2 DEF objects, first
<1>. QED  BY <1>12, <1>13

\* What has been sent after each block of a poll.
IsToldBy(t, told, poll, blocks) ==
  /\ t[0] = told /\ t[blocks] = told \o Meant(poll)
  /\ \A b \in 1 .. blocks : t[b] = t[b - 1] \o MeantBy(poll[b].rows)

LEMMA PollsAreTold ==
  ASSUME NEW poll \in UNION Range(Polls), NEW told, IsSequence(told)
  PROVE  \E t : IsToldBy(t, told, poll, Len(poll))
<1>. DEFINE seqs == [b \in DOMAIN poll |-> MeantBy(poll[b].rows)]
            n == Len(poll)
<1>1. n \in Nat /\ DOMAIN poll = 1 .. n
  BY PollsAreReports DEF IsSequence
<1>2. \A b \in 1 .. n : seqs[b] = MeantBy(poll[b].rows)
  BY <1>1
<1>3. \A b \in 1 .. n : IsSequence(MeantBy(poll[b].rows))
  <2>. SUFFICES ASSUME NEW b \in DOMAIN poll PROVE IsSequence(MeantBy(poll[b].rows))
    BY <1>1
  <2>. DEFINE rows == poll[b].rows
  <2>1. AreReports(rows)
    BY PollsAreReports
  <2>. HIDE DEF rows
  <2>2. AreSamples(MeantBy(rows))
    BY <2>1, MeantAreSamples
  <2>. QED  BY <2>2 DEF AreSamples, rows
<1>4. Meant(poll) = FlattenSeq(seqs)
  BY DEF Meant
<1>5. seqs = [b \in 1 .. n |-> seqs[b]]
  BY <1>1
<1>. HIDE DEF seqs, n
<1>6. IsSequence(seqs) /\ Len(seqs) = n
  BY <1>1, <1>5, NumberedSequence
<1>7. \A b \in 1 .. n : IsSequence(seqs[b])
  BY <1>2, <1>3
<1>8. n = 0 => seqs = <<>>
  BY <1>6, EmptySeq DEF IsSequence
<1>9. PICK t : AreParts(t, told, seqs)
  <2>1. /\ Len(seqs) \in Nat /\ (Len(seqs) = 0 => seqs = <<>>)
        /\ \A j \in 1 .. Len(seqs) : IsSequence(seqs[j])
    BY <1>1, <1>6, <1>7, <1>8
  <2>. QED  BY <2>1, ToldInParts
<1>10. IsToldBy(t, told, poll, n)
  BY <1>2, <1>4, <1>6, <1>9 DEF AreParts, IsToldBy
<1>. QED  BY <1>10 DEF n

\* Whatever a poll writes can be read.
LEMMA PollCanBeWritten ==
  ASSUME session.number \in Nat, NEW poll \in UNION Range(Polls),
         AreKinds(News(poll)), NEW objects, NEW m, NEW blocks, IsPollOf(objects, poll, m, blocks),
         NEW i \in 1 .. Len(objects)
  PROVE  CanBeWritten(objects[i].type, objects[i].content)
<1>1. m \in 0 .. 1 /\ blocks \in Nat /\ blocks = Len(poll) /\ Len(objects) = m + blocks + 1
  BY DEF IsPollOf
<1>2. CASE i = 1 /\ m = 1
  <2>. DEFINE content == MetadataCells(News(poll))
              type == "MetadataBlock"
  <2>1. objects[1] = [type |-> type, content |-> content]
    BY <1>2, Zenon DEF IsPollOf
  <2>2. CanBeWritten(type, content)
    <3>. DEFINE events == News(poll)
    <3>1. AreKinds(events)
      OBVIOUS
    <3>. HIDE DEF events
    <3>2. CanBeWritten("MetadataBlock", MetadataCells(events))
      BY <3>1, MetadataIsRead
    <3>. QED  BY <3>2 DEF events
  <2>. QED  BY <1>2, <2>1, <2>2
<1>3. CASE i > m /\ i <= m + blocks
  <2>. DEFINE b == i - m
              rows == EventRows(poll[b].rows)
              compressed == poll[b].compressed
              content == WrittenBlock(rows, compressed)
              type == "EventBlock"
  <2>1. b \in 1 .. blocks /\ m + b = i
    BY <1>1, <1>3
  <2>. HIDE DEF b
  <2>2. objects[m + b] = [type |-> type, content |-> content]
    BY <2>1 DEF IsPollOf
  <2>3. objects[i].type = type /\ objects[i].content = content
    BY <2>1, <2>2
  <2>4. b \in DOMAIN poll
    BY <1>1, <2>1, PollsAreReports DEF IsSequence
  <2>5. compressed \in BOOLEAN /\ AreReports(poll[b].rows)
    BY <2>4, PollsAreReports
  <2>6. AreRows(rows) /\ Len(rows) <= MaxRows
    BY <2>5, EventRowsAreRows DEF AreReports
  <2>7. type \in {"EventBlock", "MetadataBlock"}
    OBVIOUS
  <2>. HIDE DEF rows, compressed, type
  <2>8. CanBeWritten(type, content)
    BY <2>5, <2>6, <2>7, BlockIsRead
  <2>. QED  BY <2>3, <2>8
<1>4. CASE i = m + blocks + 1
  <2>. DEFINE content == <<0, 0, 0>>
              type == "SPBlock"
  <2>1. objects[i].type = type /\ objects[i].content = content
    BY <1>4 DEF IsPollOf
  <2>. QED  BY <2>1, PointCanBeWritten
<1>. QED  BY <1>1, <1>2, <1>3, <1>4

\* Where the reader will be, what it will know and what it will have sent after
\* each object of a poll: old before its metadata, and new after them.
IsPollPlan(plan, start, c, m, blocks, t, old, new) ==
  /\ \A i \in 0 .. m + blocks + 1 : plan[i].position = start + Len(c[i])
  /\ plan[0].store = old /\ plan[0].told = t[0]
  /\ \A b \in 0 .. blocks : plan[m + b].store = new /\ plan[m + b].told = t[b]
  /\ plan[m + blocks + 1].store = new /\ plan[m + blocks + 1].told = t[blocks]

LEMMA PollPlanExists ==
  ASSUME NEW start, NEW c, NEW m \in 0 .. 1, NEW blocks \in Nat, NEW t, NEW old, NEW new,
         m = 0 => new = old
  PROVE  \E plan : IsPollPlan(plan, start, c, m, blocks, t, old, new)
<1>. DEFINE stage(i) == [position |-> start + Len(c[i]),
                         store |-> IF i < m THEN old ELSE new,
                         told |-> t[IF i <= m THEN 0 ELSE IF i <= m + blocks THEN i - m
                                    ELSE blocks]]
            n == m + blocks + 1
            plan == [i \in 0 .. n |-> stage(i)]
<1>1. n \in Nat /\ 0 \in 0 .. n /\ n \in 0 .. n
  OBVIOUS
<1>2. \A i \in 0 .. n : plan[i] = stage(i)
  <2>. HIDE DEF stage, n
  <2>. QED  OBVIOUS
<1>. HIDE DEF plan
<1>3. \A i \in 0 .. n : plan[i].position = start + Len(c[i])
  <2>. SUFFICES ASSUME NEW i \in 0 .. n PROVE plan[i].position = start + Len(c[i])
    OBVIOUS
  <2>1. stage(i).position = start + Len(c[i])
    OBVIOUS
  <2>. HIDE DEF stage, n
  <2>. QED  BY <1>2, <2>1
<1>4. plan[0].store = old /\ plan[0].told = t[0]
  <2>1. stage(0).store = IF 0 < m THEN old ELSE new
    OBVIOUS
  <2>2. stage(0).told = t[0]
    OBVIOUS
  <2>3. plan[0] = stage(0)
    <3>. HIDE DEF stage, n
    <3>. QED  BY <1>1, <1>2
  <2>. HIDE DEF stage
  <2>. QED  BY <2>1, <2>2, <2>3
<1>5. ASSUME NEW b \in 0 .. blocks PROVE plan[m + b].store = new /\ plan[m + b].told = t[b]
  <2>. DEFINE i == m + b
  <2>1. ~(i < m) /\ i <= m + blocks /\ (i <= m => b = 0) /\ (~(i <= m) => i - m = b)
    <3>1. m \in Int /\ b \in Int /\ 0 <= b /\ b <= blocks
      OBVIOUS
    <3>. HIDE DEF stage
    <3>. QED  BY <3>1
  <2>2. i \in 0 .. n
    <3>. HIDE DEF stage
    <3>. QED  OBVIOUS
  <2>3. plan[i] = stage(i)
    <3>. HIDE DEF i, stage, n
    <3>. QED  BY <1>2, <2>2
  <2>. HIDE DEF i
  <2>4. plan[i].store = new /\ plan[i].told = t[b]
    BY <2>1, <2>3
  <2>. QED  BY <2>4 DEF i
<1>6. plan[n].store = new /\ plan[n].told = t[blocks]
  <2>1. ~(n < m) /\ ~(n <= m) /\ ~(n <= m + blocks)
    OBVIOUS
  <2>2. plan[n] = stage(n)
    BY <1>1, <1>2
  <2>. HIDE DEF n
  <2>. QED  BY <2>1, <2>2
<1>7. IsPollPlan(plan, start, c, m, blocks, t, old, new)
  BY <1>3, <1>4, <1>5, <1>6 DEF IsPollPlan
<1>. QED  BY <1>7

\* Pieces written one after another go from a position to the next.
Follows(plan, start, c, n) == \A i \in 0 .. n : plan[i].position = start + Len(c[i])

LEMMA PiecesFollow ==
  ASSUME NEW n \in Nat, NEW c, NEW pieces, IsGrowing(c, pieces, n), NEW start \in Nat,
         NEW plan, Follows(plan, start, c, n), NEW i \in 1 .. n
  PROVE  /\ plan[i - 1].position \in Nat /\ plan[i - 1].position = start + Len(c[i - 1])
         /\ plan[i].position = plan[i - 1].position + Len(pieces[i])
<1>1. n \in 0 .. n /\ i - 1 \in 0 .. n /\ i \in 0 .. n
  OBVIOUS
<1>2. /\ Lies(pieces[i], c[n], Len(c[i - 1])) /\ c[i - 1] \in Seq(Nat)
      /\ Len(c[i]) = Len(c[i - 1]) + Len(pieces[i])
  <2>1. AreIn(pieces, c, n)
    BY <1>1, GrowingLies
  <2>. QED  BY <2>1 DEF AreIn
<1>3. Len(c[i - 1]) \in Nat /\ Len(pieces[i]) \in Nat
  <2>1. pieces[i] \in Seq(Nat)
    BY DEF IsGrowing
  <2>. QED  BY <1>2, <2>1, LenProperties
<1>4. plan[i - 1].position = start + Len(c[i - 1]) /\ plan[i].position = start + Len(c[i])
  BY <1>1 DEF Follows
<1>. DEFINE a == Len(c[i - 1])
            b == Len(pieces[i])
<1>5. start + a \in Nat /\ start + (a + b) = (start + a) + b
  <2>1. a \in Nat /\ b \in Nat
    BY <1>3
  <2>. HIDE DEF a, b
  <2>. QED  BY <2>1
<1>. QED  BY <1>2, <1>4, <1>5

\* What a poll writes, object by object, is a plan for the reader.
LEMMA PollIsPlan ==
  ASSUME session.number \in Nat, NEW poll \in UNION Range(Polls), AreKinds(News(poll)),
         NEW objects, NEW m, NEW blocks, IsPollOf(objects, poll, m, blocks),
         NEW n, n = m + blocks + 1, NEW start \in Nat,
         NEW c, NEW pieces, IsGrowing(c, pieces, n),
         \A i \in 1 .. n : pieces[i] = WrittenObject(objects[i].type, objects[i].content,
                                                     start + Len(c[i - 1])),
         NEW told, AreSamples(told), NEW t, IsToldBy(t, told, poll, blocks),
         NEW old, DOMAIN old \subseteq DOMAIN Events,
         NEW new, DOMAIN new \subseteq DOMAIN Events,
         new = IF m = 0 THEN old ELSE FoldLeft(Insert, old, RecordsRead(News(poll))),
         \A b \in DOMAIN poll : \A i \in 1 .. Len(poll[b].rows) : Knows(new, poll[b].rows[i].event),
         NEW plan, IsPollPlan(plan, start, c, m, blocks, t, old, new)
  PROVE  IsPlan(n, plan, pieces)
<1>1. m \in 0 .. 1 /\ blocks \in Nat /\ blocks = Len(poll) /\ n \in Nat
  BY DEF IsPollOf
<1>2. Follows(plan, start, c, n)
  BY DEF IsPollPlan, Follows
<1>3. \A i \in 1 .. n : plan[i - 1].position \in Nat
        /\ plan[i].position = plan[i - 1].position + Len(pieces[i])
        /\ pieces[i] = WrittenObject(objects[i].type, objects[i].content, plan[i - 1].position)
  <2>. SUFFICES ASSUME NEW i \in 1 .. n
                PROVE  /\ plan[i - 1].position \in Nat
                       /\ plan[i].position = plan[i - 1].position + Len(pieces[i])
                       /\ pieces[i] = WrittenObject(objects[i].type, objects[i].content,
                                                    plan[i - 1].position)
    OBVIOUS
  <2>1. /\ plan[i - 1].position \in Nat /\ plan[i - 1].position = start + Len(c[i - 1])
        /\ plan[i].position = plan[i - 1].position + Len(pieces[i])
    BY <1>1, <1>2, PiecesFollow
  <2>. QED  BY <2>1
<1>4. plan[0].position \in Nat
  <2>1. c[0] = <<>> /\ 0 \in 0 .. n
    BY <1>1 DEF IsGrowing
  <2>2. Len(c[0]) = 0
    BY <2>1, EmptySeq
  <2>. QED  BY <1>2, <2>1, <2>2 DEF Follows
<1>5. plan[0].store = old /\ plan[0].told = told
  BY DEF IsPollPlan, IsToldBy
<1>6. ASSUME NEW i \in 1 .. n PROVE IsStage(plan[i - 1], pieces[i], plan[i])
  <2>. DEFINE p == plan[i - 1]
              q == plan[i]
              piece == pieces[i]
  <2>1. /\ p.position \in Nat /\ q.position = p.position + Len(piece)
        /\ piece = WrittenObject(objects[i].type, objects[i].content, p.position)
    BY <1>3
  <2>2. CASE i = 1 /\ m = 1
    <3>. DEFINE events == News(poll)
                content == MetadataCells(events)
                type == "MetadataBlock"
    <3>1. objects[1] = [type |-> type, content |-> content]
      BY <2>2, Zenon DEF IsPollOf
    <3>2. piece = WrittenObject(type, content, p.position)
      BY <2>1, <2>2, <3>1
    <3>3. p.store = old /\ p.told = told
      BY <1>5, <2>2
    <3>4. q.store = new /\ q.told = told
      <4>1. 0 \in 0 .. blocks /\ m + 0 = i
        BY <1>1, <2>2
      <4>2. plan[m + 0].store = new /\ plan[m + 0].told = t[0]
        BY <4>1 DEF IsPollPlan
      <4>3. t[0] = told
        BY DEF IsToldBy
      <4>. QED  BY <4>1, <4>2, <4>3
    <3>5. new = FoldLeft(Insert, p.store, RecordsRead(events))
      BY <2>2, <3>3
    <3>6. AreKinds(events)
      OBVIOUS
    <3>. HIDE DEF p, q, piece, events, type
    <3>7. piece = WrittenObject("MetadataBlock", MetadataCells(events), p.position)
      BY <3>2 DEF type
    <3>8. IsStage(p, piece, q)
      <4>1. q.told = p.told /\ q.store = FoldLeft(Insert, p.store, RecordsRead(events))
        BY <3>3, <3>4, <3>5
      <4>2. DOMAIN p.store \subseteq DOMAIN Events
        BY <3>3
      <4>. QED  BY <2>1, <3>6, <3>7, <4>1, <4>2, MetadataIsStage
    <3>. QED  BY <3>8 DEF p, q, piece
  <2>3. CASE i > m /\ i <= m + blocks
    <3>. DEFINE b == i - m
                rows == poll[b].rows
                compressed == poll[b].compressed
                content == WrittenBlock(EventRows(rows), compressed)
                type == "EventBlock"
    <3>1. b \in 1 .. blocks /\ m + b = i /\ b - 1 \in 0 .. blocks /\ b \in 0 .. blocks
          /\ m + (b - 1) = i - 1
      BY <1>1, <2>3
    <3>. HIDE DEF b
    <3>2. objects[m + b] = [type |-> type, content |-> content]
      BY <3>1 DEF IsPollOf
    <3>3. piece = WrittenObject(type, content, p.position)
      BY <2>1, <3>1, <3>2
    <3>4. p.store = new /\ p.told = t[b - 1]
      BY <3>1 DEF IsPollPlan
    <3>5. q.store = new /\ q.told = t[b]
      BY <3>1 DEF IsPollPlan
    <3>6. b \in DOMAIN poll
      BY <1>1, <3>1, PollsAreReports DEF IsSequence
    <3>7. compressed \in BOOLEAN /\ AreReports(rows)
      BY <3>6, PollsAreReports
    <3>8. \A j \in 1 .. Len(rows) : Knows(new, rows[j].event)
      BY <3>6
    <3>9. t[b] = t[b - 1] \o MeantBy(rows)
      BY <3>1 DEF IsToldBy
    <3>. HIDE DEF p, q, piece, rows, compressed, type
    <3>10. piece = WrittenObject("EventBlock", WrittenBlock(EventRows(rows), compressed), p.position)
      BY <3>3 DEF type
    <3>11. /\ DOMAIN q.store \subseteq DOMAIN Events /\ q.store = p.store
           /\ q.told = p.told \o MeantBy(rows)
           /\ \A j \in 1 .. Len(rows) : Knows(p.store, rows[j].event)
      BY <3>4, <3>5, <3>8, <3>9
    <3>12. IsStage(p, piece, q)
      BY <2>1, <3>7, <3>10, <3>11, EventsAreStage
    <3>. QED  BY <3>12 DEF p, q, piece
  <2>4. CASE i = n
    <3>. DEFINE content == <<0, 0, 0>>
                type == "SPBlock"
    <3>1. objects[i] = [type |-> type, content |-> content]
      BY <2>4 DEF IsPollOf
    <3>2. piece = WrittenObject(type, content, p.position)
      BY <2>1, <3>1
    <3>3. blocks \in 0 .. blocks /\ m + blocks = i - 1
      BY <1>1, <2>4
    <3>4. p.store = new /\ p.told = t[blocks]
      BY <3>3 DEF IsPollPlan
    <3>5. q.store = new /\ q.told = t[blocks]
      BY <2>4 DEF IsPollPlan
    <3>. HIDE DEF p, q, piece
    <3>6. IsStage(p, piece, q)
      BY <2>1, <3>2, <3>4, <3>5, PointIsStage
    <3>. QED  BY <3>6 DEF p, q, piece
  <2>5. i = n \/ (i > m /\ i <= m + blocks) \/ (i = 1 /\ m = 1)
    BY <1>1
  <2>. QED  BY <2>2, <2>3, <2>4, <2>5
<1>. QED  BY <1>1, <1>4, <1>5, <1>6 DEF IsPlan

\* What a poll's samples, written to the stream, will be to a reader that has read
\* all before them.
IsPlanOf(poll, start, old, told, n, plan, pieces, c) ==
  /\ IsPlan(n, plan, pieces) /\ IsGrowing(c, pieces, n) /\ Follows(plan, start, c, n)
  /\ WrittenFrom(start, PollObjects(poll)) = c[n]
  /\ plan[0].store = old /\ plan[0].told = told /\ plan[n].told = told \o Meant(poll)
  /\ \A e \in announced \cup Range(News(poll)) : Knows(plan[n].store, e)

LEMMA PollIsPlanned ==
  ASSUME session.number \in Nat, NEW poll \in UNION Range(Polls), NEW start \in Nat,
         announced \subseteq DOMAIN Events, NEW old, DOMAIN old \subseteq DOMAIN Events,
         \A e \in announced : Knows(old, e), NEW told, AreSamples(told)
  PROVE  \E n, plan, pieces, c : IsPlanOf(poll, start, old, told, n, plan, pieces, c)
<1>1. /\ AreKinds(News(poll)) /\ Range(News(poll)) \subseteq DOMAIN Events
      /\ \A b \in DOMAIN poll : \A i \in 1 .. Len(poll[b].rows) :
           poll[b].rows[i].event \in announced \cup Range(News(poll))
  BY NewsAreKinds
<1>. DEFINE events == News(poll)
            objects == PollObjects(poll)
            written == WrittenFrom(start, objects)
<1>2. PICK m, blocks : IsPollOf(objects, poll, m, blocks)
  <2>1. IsSequence(poll)
    BY PollsAreReports
  <2>. QED  BY <2>1, PollIsOfBlocks
<1>. DEFINE n == m + blocks + 1
            new == IF m = 0 THEN old ELSE FoldLeft(Insert, old, RecordsRead(events))
<1>3. /\ m \in 0 .. 1 /\ blocks \in Nat /\ blocks = Len(poll) /\ IsSequence(objects)
      /\ Len(objects) = n /\ (m = 0 <=> events = <<>>)
  <2>. HIDE DEF objects
  <2>. QED  BY <1>2 DEF IsPollOf
<1>4. n \in Nat
  BY <1>3
<1>. HIDE DEF n
<1>5. PICK c, pieces : AreWrittenAs(objects, start, c, pieces)
  <2>. HIDE DEF objects
  <2>1. \A i \in 1 .. Len(objects) : CanBeWritten(objects[i].type, objects[i].content)
    <3>. SUFFICES ASSUME NEW i \in 1 .. Len(objects)
                  PROVE  CanBeWritten(objects[i].type, objects[i].content)
      OBVIOUS
    <3>. QED  BY <1>1, <1>2, PollCanBeWritten
  <2>. QED  BY <1>3, <2>1, PiecesAreWritten
<1>6. PICK t : IsToldBy(t, told, poll, blocks)
  BY <1>3, PollsAreTold DEF AreSamples
<1>. HIDE DEF objects, events
<1>7. /\ DOMAIN new \subseteq DOMAIN Events
      /\ \A e \in announced \cup Range(events) : Knows(new, e)
  <2>1. CASE m = 0
    <3>1. events = <<>>
      BY <1>3, <2>1
    <3>2. Range(events) = {}
      BY <3>1, EmptySequence
    <3>. QED  BY <2>1, <3>2
  <2>2. CASE m # 0
    <3>. DEFINE next == FoldLeft(Insert, old, RecordsRead(events))
    <3>1. /\ DOMAIN next \subseteq DOMAIN Events
          /\ \A e \in DOMAIN Events : Knows(old, e) \/ e \in Range(events) => Knows(next, e)
      <4>1. AreKinds(events)
        BY <1>1 DEF events
      <4>. QED  BY <4>1, RecordsAreKnown
    <3>2. Range(events) \subseteq DOMAIN Events
      BY <1>1 DEF events
    <3>3. new = next
      BY <2>2
    <3>. HIDE DEF next, new
    <3>. QED  BY <3>1, <3>2, <3>3
  <2>. QED  BY <2>1, <2>2
<1>8. new = IF m = 0 THEN old ELSE FoldLeft(Insert, old, RecordsRead(News(poll)))
  BY DEF events
<1>. HIDE DEF new
<1>9. PICK plan : IsPollPlan(plan, start, c, m, blocks, t, old, new)
  BY <1>3, <1>8, PollPlanExists
<1>10. IsPlan(n, plan, pieces)
  <2>1. \A b \in DOMAIN poll : \A i \in 1 .. Len(poll[b].rows) : Knows(new, poll[b].rows[i].event)
    BY <1>1, <1>7 DEF events
  <2>2. /\ IsGrowing(c, pieces, n)
        /\ \A i \in 1 .. n : pieces[i] = WrittenObject(objects[i].type, objects[i].content,
                                                       start + Len(c[i - 1]))
    BY <1>3, <1>5 DEF AreWrittenAs
  <2>3. n = m + blocks + 1
    BY DEF n
  <2>. QED  BY <1>1, <1>2, <1>6, <1>7, <1>8, <1>9, <2>1, <2>2, <2>3, PollIsPlan, ZenonT(30)
<1>11. /\ IsGrowing(c, pieces, n) /\ Follows(plan, start, c, n)
       /\ WrittenFrom(start, PollObjects(poll)) = c[n]
  BY <1>3, <1>5, <1>9 DEF AreWrittenAs, IsPollPlan, Follows, n, objects
<1>12. plan[0].store = old /\ plan[0].told = told /\ plan[n].told = told \o Meant(poll)
       /\ plan[n].store = new
  BY <1>6, <1>9 DEF IsPollPlan, IsToldBy, n
<1>13. \A e \in announced \cup Range(News(poll)) : Knows(plan[n].store, e)
  BY <1>7, <1>12 DEF events
<1>14. IsPlanOf(poll, start, old, told, n, plan, pieces, c)
  BY <1>10, <1>11, <1>12, <1>13 DEF IsPlanOf
<1>. QED  BY <1>14
================================================================================
