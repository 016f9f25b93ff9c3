------------------------------- MODULE FoldFacts -------------------------------
(***************************************************************************)
(* Induction over numbers and finite sets, stated for a set of what has    *)
(* the property rather than for an operator, and what follows for the      *)
(* folds of the community modules: they are defined, and a sum is a sum in *)
(* whatever order it is taken.  What there is in a sequence.  And what a   *)
(* sort leaves: every element once, each after those before it.            *)
(***************************************************************************)
EXTENDS Order, FiniteSetTheorems, WellFoundedInduction, TLAPS

----------------------------------------------------------------------------
(* Induction.                                                              *)

\* A set that has 0 and with every number the next has them all.
LEMMA NumbersByInduction ==
  ASSUME NEW T, 0 \in T, \A n \in Nat : n \in T => n + 1 \in T
  PROVE  Nat \subseteq T
<1>. DEFINE bad == Nat \ T
            R == OpToRel(<, Nat)
<1>. SUFFICES ASSUME bad # {} PROVE FALSE
  OBVIOUS
<1>1. PICK x \in bad : \A y \in bad : <<y, x>> \notin R
  <2>. HIDE DEF R, bad
  <2>1. IsWellFoundedOn(R, Nat)
    BY NatLessThanWellFounded DEF R
  <2>2. bad \subseteq Nat
    BY DEF bad
  <2>. QED  BY <2>1, <2>2, WFMin
<1>2. x # 0 /\ x - 1 \in Nat
  OBVIOUS
<1>3. x - 1 \notin T
  BY <1>2
<1>4. <<x - 1, x>> \in R
  BY <1>2 DEF OpToRel
<1>. QED  BY <1>1, <1>2, <1>3, <1>4

\* T has each subset of S all of whose parts short of one element it has.
Hereditary(T, S) == \A U \in SUBSET S : (\A x \in U : U \ {x} \in T) => U \in T

\* Such a set has all the subsets.
LEMMA SubsetsByInduction ==
  ASSUME NEW S, IsFiniteSet(S), NEW T, Hereditary(T, S)
  PROVE  SUBSET S \subseteq T
<1>. DEFINE sized == {n \in Nat : \A U \in SUBSET S : Cardinality(U) = n => U \in T}
<1>1. \A U \in SUBSET S : IsFiniteSet(U) /\ Cardinality(U) \in Nat
  BY FS_Subset, FS_CardinalityType
<1>2. 0 \in sized
  <2>1. \A U \in SUBSET S : Cardinality(U) = 0 => U = {}
    BY <1>1, FS_EmptySet
  <2>2. {} \in T
    BY DEF Hereditary
  <2>. QED  BY <2>1, <2>2
<1>3. ASSUME NEW n \in Nat, n \in sized PROVE n + 1 \in sized
  <2>1. ASSUME NEW U \in SUBSET S, Cardinality(U) = n + 1 PROVE U \in T
    <3>1. ASSUME NEW x \in U PROVE U \ {x} \in T
      <4>1. Cardinality(U \ {x}) = n
        BY <1>1, <2>1, FS_RemoveElement
      <4>. QED  BY <1>3, <4>1
    <3>. QED  BY <3>1 DEF Hereditary
  <2>. QED  BY <2>1
<1>4. Nat \subseteq sized
  <2>. HIDE DEF sized
  <2>. QED  BY <1>2, <1>3, NumbersByInduction
<1>. QED  BY <1>1, <1>4

----------------------------------------------------------------------------
(* Folds.                                                                  *)

\* The element a fold of the community modules takes next.
Pick(s) == CHOOSE x \in s : TRUE

\* CHOOSE chooses a member.
LEMMA Picked ==
  ASSUME NEW s, s # {}
  PROVE  Pick(s) \in s
BY DEF Pick

\* What a fold over the subsets of S satisfies that takes the elements as pick says;
\* next[<<x, t>>] is what element x makes of t.
IsFoldBy(fold, S, base, next, pick) ==
  \A s \in SUBSET S :
    fold[s] = IF s = {} THEN base ELSE next[<<pick[s], fold[s \ {pick[s]}]>>]

\* A fold over the subsets of a finite set has a value.
LEMMA FoldByExists ==
  ASSUME NEW S, IsFiniteSet(S), NEW T, NEW base \in T, NEW next \in [S \X T -> T],
         NEW pick, \A s \in SUBSET S : s # {} => pick[s] \in s
  PROVE  \E fold \in [SUBSET S -> T] : IsFoldBy(fold, S, base, next, pick)
<1>. DEFINE Upto(fold, n) ==
              \A s \in SUBSET S : Cardinality(s) <= n =>
                fold[s] = IF s = {} THEN base ELSE next[<<pick[s], fold[s \ {pick[s]}]>>]
            good == {n \in Nat : \E fold \in [SUBSET S -> T] : Upto(fold, n)}
<1>0. \A s \in SUBSET S : IsFiniteSet(s) /\ Cardinality(s) \in Nat
                          /\ Cardinality(s) <= Cardinality(S)
  BY FS_Subset, FS_CardinalityType
<1>1. 0 \in good
  <2>1. \A s \in SUBSET S : Cardinality(s) <= 0 => s = {}
    BY <1>0, FS_EmptySet
  <2>. QED  BY <2>1, [s \in SUBSET S |-> base] \in [SUBSET S -> T]
<1>2. ASSUME NEW n \in Nat, n \in good PROVE n + 1 \in good
  <2>1. PICK fold \in [SUBSET S -> T] : Upto(fold, n)
    BY <1>2 DEF IsFoldBy
  <2>. DEFINE g == [s \in SUBSET S |->
                      IF s = {} THEN base ELSE next[<<pick[s], fold[s \ {pick[s]}]>>]]
  <2>2. g \in [SUBSET S -> T]
    <3>1. ASSUME NEW s \in SUBSET S, s # {} PROVE next[<<pick[s], fold[s \ {pick[s]}]>>] \in T
      BY <3>1
    <3>. QED  BY <3>1
  <2>3. ASSUME NEW s \in SUBSET S, Cardinality(s) <= n + 1, s # {}
        PROVE  g[s] = next[<<pick[s], g[s \ {pick[s]}]>>]
    <3>1. pick[s] \in s
      BY <2>3
    <3>. DEFINE r == s \ {pick[s]}
    <3>2. r \in SUBSET S /\ Cardinality(r) <= n
      BY <1>0, <2>3, <3>1, FS_RemoveElement
    <3>3. g[r] = fold[r]
      <4>. HIDE DEF r
      <4>. QED  BY <2>1, <3>2
    <3>. QED  BY <2>3, <3>3
  <2>. QED
    <3>. HIDE DEF g
    <3>1. ASSUME NEW s \in SUBSET S, s = {} PROVE g[s] = base
      BY <3>1 DEF g
    <3>2. Upto(g, n + 1)
      BY <2>3, <3>1
    <3>3. \E h \in [SUBSET S -> T] : Upto(h, n + 1)
      <4>. HIDE DEF Upto
      <4>. QED  BY <2>2, <3>2
    <3>4. n + 1 \in Nat
      OBVIOUS
    <3>. HIDE DEF Upto
    <3>. QED  BY <3>3, <3>4, Zenon
<1>3. Nat \subseteq good
  <2>. HIDE DEF good
  <2>. QED  BY <1>1, <1>2, NumbersByInduction
<1>4. PICK fold \in [SUBSET S -> T] : Upto(fold, Cardinality(S))
  BY <1>0, <1>3
<1>. QED  BY <1>0, <1>4 DEF IsFoldBy

\* The one whose elements are taken as the community modules take them.
IsFold(fold, S, base, next) ==
  \A s \in SUBSET S :
    fold[s] = IF s = {} THEN base ELSE next[<<Pick(s), fold[s \ {Pick(s)}]>>]

\* So that one has a value.
LEMMA FoldExists ==
  ASSUME NEW S, IsFiniteSet(S), NEW T, NEW base \in T, NEW next \in [S \X T -> T]
  PROVE  \E fold \in [SUBSET S -> T] : IsFold(fold, S, base, next)
<1>. DEFINE pick == [s \in SUBSET S |-> Pick(s)]
<1>1. \A s \in SUBSET S : pick[s] = Pick(s)
  OBVIOUS
<1>2. \A s \in SUBSET S : s # {} => pick[s] \in s
  BY <1>1, Picked
<1>. HIDE DEF pick
<1>3. PICK fold \in [SUBSET S -> T] : IsFoldBy(fold, S, base, next, pick)
  BY <1>2, FoldByExists
<1>4. ASSUME NEW s \in SUBSET S
      PROVE  fold[s] = IF s = {} THEN base ELSE next[<<Pick(s), fold[s \ {Pick(s)}]>>]
  <2>1. fold[s] = IF s = {} THEN base ELSE next[<<pick[s], fold[s \ {pick[s]}]>>]
    BY <1>3, Zenon DEF IsFoldBy
  <2>. QED  BY <1>1, <2>1, Zenon
<1>. QED  BY <1>3, <1>4, Zenon DEF IsFold

----------------------------------------------------------------------------
(* Recursion along the numbers up to n.                                    *)

IsUpto(f, n, base, next) ==
  \A k \in 0 .. n : f[k] = IF k = 0 THEN base ELSE next[<<k, f[k - 1]>>]

\* A recursion along the numbers has a function that obeys it.
LEMMA UptoExists ==
  ASSUME NEW n \in Nat, NEW T, NEW base \in T, NEW next \in [(1 .. n) \X T -> T]
  PROVE  \E f \in [0 .. n -> T] : IsUpto(f, n, base, next)
<1>. DEFINE good == {k \in Nat : k <= n => \E f \in [0 .. n -> T] : IsUpto(f, k, base, next)}
<1>1. 0 \in good
  <2>. DEFINE f == [k \in 0 .. n |-> base]
  <2>1. f \in [0 .. n -> T] /\ IsUpto(f, 0, base, next)
    BY DEF IsUpto
  <2>. QED  BY <2>1
<1>2. ASSUME NEW k \in Nat, k \in good PROVE k + 1 \in good
  <2>. SUFFICES ASSUME k + 1 <= n
                PROVE  \E f \in [0 .. n -> T] : IsUpto(f, k + 1, base, next)
    OBVIOUS
  <2>1. PICK f \in [0 .. n -> T] : IsUpto(f, k, base, next)
    BY <1>2
  <2>. DEFINE value == next[<<k + 1, f[k]>>]
              g == [f EXCEPT ![k + 1] = value]
  <2>2. value \in T
    OBVIOUS
  <2>3. g \in [0 .. n -> T]
    BY <2>2
  <2>4. ASSUME NEW j \in 0 .. k + 1
        PROVE  g[j] = IF j = 0 THEN base ELSE next[<<j, g[j - 1]>>]
    <3>1. CASE j = k + 1
      BY <3>1
    <3>2. CASE j # k + 1
      BY <2>1, <3>2 DEF IsUpto
    <3>. QED  BY <3>1, <3>2
  <2>5. IsUpto(g, k + 1, base, next)
    BY <2>4 DEF IsUpto
  <2>. HIDE DEF g
  <2>. QED  BY <2>3, <2>5
<1>3. Nat \subseteq good
  <2>. HIDE DEF good
  <2>. QED  BY <1>1, <1>2, NumbersByInduction
<1>4. n \in good
  BY <1>3
<1>. QED  BY <1>4

----------------------------------------------------------------------------
(* Sums.                                                                   *)

\* What the partial sums of f over the subsets of S satisfy.
IsPartial(p, f, S) ==
  p = [s \in SUBSET S |-> IF s = {} THEN 0 ELSE f[Pick(s)] + p[s \ {Pick(s)}]]

\* The partial sums the community modules compute.
Partial(f, S) == CHOOSE p : IsPartial(p, f, S)

\* A sum is what the fold over its set comes to.
LEMMA SumIsPartial ==
  ASSUME NEW f, NEW S
  PROVE  SumFunctionOnSet(f, S) = Partial(f, S)[S]
BY DEF SumFunctionOnSet, FoldFunctionOnSet, MapThenFoldSet, Partial, IsPartial, Pick

\* The partial sums of numbers are numbers, and satisfy their equation.
LEMMA PartialSums ==
  ASSUME NEW S, IsFiniteSet(S), NEW f, \A x \in S : f[x] \in Nat
  PROVE  IsPartial(Partial(f, S), f, S) /\ \A s \in SUBSET S : Partial(f, S)[s] \in Nat
<1>. DEFINE plus == [xt \in S \X Nat |-> f[xt[1]] + xt[2]]
<1>1. plus \in [S \X Nat -> Nat]
  OBVIOUS
<1>2. PICK fold \in [SUBSET S -> Nat] : IsFold(fold, S, 0, plus)
  <2>. HIDE DEF plus
  <2>. QED  BY <1>1, FoldExists, 0 \in Nat
<1>3. IsPartial(fold, f, S)
  <2>1. ASSUME NEW s \in SUBSET S, s # {}
        PROVE  fold[s] = f[Pick(s)] + fold[s \ {Pick(s)}]
    <3>1. Pick(s) \in S
      BY <2>1, Picked
    <3>. QED  BY <1>2, <2>1, <3>1 DEF IsFold
  <2>2. \A s \in SUBSET S : s = {} => fold[s] = 0
    BY <1>2 DEF IsFold
  <2>. QED  BY <1>2, <2>1, <2>2 DEF IsPartial
<1>4. IsPartial(Partial(f, S), f, S)
  BY <1>3 DEF Partial
<1>. DEFINE numbers == {s \in SUBSET S : Partial(f, S)[s] \in Nat}
<1>5. SUBSET S \subseteq numbers
  <2>1. ASSUME NEW U \in SUBSET S, \A x \in U : U \ {x} \in numbers PROVE U \in numbers
    <3>1. CASE U = {}
      BY <1>4, <3>1 DEF IsPartial
    <3>2. CASE U # {}
      <4>1. Pick(U) \in U
        BY <3>2, Picked
      <4>2. Partial(f, S)[U] = f[Pick(U)] + Partial(f, S)[U \ {Pick(U)}]
        BY <1>4, <3>2 DEF IsPartial
      <4>. QED  BY <2>1, <4>1, <4>2
    <3>. QED  BY <3>1, <3>2
  <2>2. Hereditary(numbers, S)
    BY <2>1 DEF Hereditary
  <2>. HIDE DEF numbers
  <2>. QED  BY <2>2, SubsetsByInduction
<1>. QED  BY <1>4, <1>5

\* A partial sum does not depend on the set it is a part of.
LEMMA PartialAgrees ==
  ASSUME NEW S, IsFiniteSet(S), NEW f, \A x \in S : f[x] \in Nat, NEW V \in SUBSET S
  PROVE  Partial(f, S)[V] = Partial(f, V)[V]
<1>. DEFINE same == {U \in SUBSET V : Partial(f, S)[U] = Partial(f, V)[U]}
<1>1. IsFiniteSet(V) /\ \A x \in V : f[x] \in Nat
  BY FS_Subset
<1>2. IsPartial(Partial(f, S), f, S) /\ IsPartial(Partial(f, V), f, V)
  BY <1>1, PartialSums
<1>3. Hereditary(same, V)
  <2>1. ASSUME NEW U \in SUBSET V, \A x \in U : U \ {x} \in same PROVE U \in same
    <3>1. CASE U = {}
      BY <1>2, <3>1 DEF IsPartial
    <3>2. CASE U # {}
      <4>1. Pick(U) \in U
        BY <3>2, Picked
      <4>2. Partial(f, S)[U] = f[Pick(U)] + Partial(f, S)[U \ {Pick(U)}]
        BY <1>2, <3>2 DEF IsPartial
      <4>3. Partial(f, V)[U] = f[Pick(U)] + Partial(f, V)[U \ {Pick(U)}]
        BY <1>2, <3>2 DEF IsPartial
      <4>. QED  BY <2>1, <4>1, <4>2, <4>3
    <3>. QED  BY <3>1, <3>2
  <2>. QED  BY <2>1 DEF Hereditary
<1>4. SUBSET V \subseteq same
  <2>. HIDE DEF same
  <2>. QED  BY <1>1, <1>3, SubsetsByInduction
<1>. QED  BY <1>4

\* The sum of f over a subset of S, by the partial sums of S.
LEMMA SumIsPartialOf ==
  ASSUME NEW S, IsFiniteSet(S), NEW f, \A x \in S : f[x] \in Nat, NEW V \in SUBSET S
  PROVE  SumFunctionOnSet(f, V) = Partial(f, S)[V]
BY PartialAgrees, SumIsPartial

\* f has a number for each element of the finite set S.
Numbers(f, S) == IsFiniteSet(S) /\ \A x \in S : f[x] \in Nat

\* Numbers on a set are numbers on a part of it.
LEMMA NumbersOnSubset ==
  ASSUME NEW S, NEW f, Numbers(f, S), NEW V \in SUBSET S
  PROVE  Numbers(f, V)
BY FS_Subset DEF Numbers

\* A sum of numbers is a number.
LEMMA SumType ==
  ASSUME NEW S, NEW f, Numbers(f, S)
  PROVE  SumFunctionOnSet(f, S) \in Nat
BY PartialSums, SumIsPartial DEF Numbers

\* A sum of none is zero.
LEMMA SumOfNothing ==
  ASSUME NEW f
  PROVE  SumFunctionOnSet(f, {}) = 0
<1>1. IsFiniteSet({})
  BY FS_EmptySet
<1>2. IsPartial(Partial(f, {}), f, {})
  BY <1>1, PartialSums
<1>. QED  BY <1>2, SumIsPartial DEF IsPartial

\* A sum may start with any element.
LEMMA SumRemove ==
  ASSUME NEW S, NEW f, Numbers(f, S), NEW x \in S
  PROVE  SumFunctionOnSet(f, S) = f[x] + SumFunctionOnSet(f, S \ {x})
<1>. DEFINE P == Partial(f, S)
            any == {U \in SUBSET S : \A y \in U : P[U] = f[y] + P[U \ {y}]}
<1>0. IsFiniteSet(S) /\ \A y \in S : f[y] \in Nat
  BY DEF Numbers
<1>1. IsPartial(P, f, S) /\ \A s \in SUBSET S : P[s] \in Nat
  BY <1>0, PartialSums
<1>2. Hereditary(any, S)
  <2>. HIDE DEF P
  <2>1. ASSUME NEW U \in SUBSET S, \A y \in U : U \ {y} \in any, NEW y \in U
        PROVE  P[U] = f[y] + P[U \ {y}]
    <3>. DEFINE z == Pick(U)
    <3>1. z \in U
      BY Picked
    <3>2. P[U] = f[z] + P[U \ {z}]
      BY <1>1, <3>1 DEF IsPartial
    <3>. HIDE DEF z
    <3>3. CASE y = z
      BY <3>2, <3>3
    <3>4. CASE y # z
      <4>1. P[U \ {z}] = f[y] + P[(U \ {z}) \ {y}]
        BY <2>1, <3>1, <3>4
      <4>2. P[U \ {y}] = f[z] + P[(U \ {y}) \ {z}]
        BY <2>1, <3>1, <3>4
      <4>3. (U \ {z}) \ {y} = (U \ {y}) \ {z}
        OBVIOUS
      <4>4. P[(U \ {z}) \ {y}] \in Nat /\ f[y] \in Nat /\ f[z] \in Nat
        BY <1>0, <1>1, <3>1
      <4>5. P[U] = f[z] + (f[y] + P[(U \ {z}) \ {y}])
        BY <3>2, <4>1
      <4>6. P[U \ {y}] = f[z] + P[(U \ {z}) \ {y}]
        BY <4>2, <4>3, Zenon
      <4>. QED  BY <4>4, <4>5, <4>6
    <3>. QED  BY <3>3, <3>4
  <2>. QED  BY <2>1 DEF Hereditary
<1>3. SUBSET S \subseteq any
  <2>. HIDE DEF any
  <2>. QED  BY <1>0, <1>2, SubsetsByInduction
<1>4. P[S] = f[x] + P[S \ {x}]
  BY <1>3
<1>. QED  BY <1>0, <1>4, SumIsPartialOf

\* Larger numbers have a larger sum.
LEMMA SumMonotonic ==
  ASSUME NEW S, NEW f, NEW g, Numbers(f, S), Numbers(g, S), \A x \in S : f[x] <= g[x]
  PROVE  SumFunctionOnSet(f, S) <= SumFunctionOnSet(g, S)
<1>. DEFINE less == {U \in SUBSET S : SumFunctionOnSet(f, U) <= SumFunctionOnSet(g, U)}
<1>1. Hereditary(less, S)
  <2>1. ASSUME NEW U \in SUBSET S, \A x \in U : U \ {x} \in less PROVE U \in less
    <3>1. CASE U = {}
      BY <3>1, SumOfNothing
    <3>2. CASE U # {}
      <4>1. PICK x \in U : TRUE
        BY <3>2
      <4>2. Numbers(f, U) /\ Numbers(g, U)
        BY NumbersOnSubset
      <4>3. SumFunctionOnSet(f, U) = f[x] + SumFunctionOnSet(f, U \ {x})
        BY <4>2, SumRemove
      <4>4. SumFunctionOnSet(g, U) = g[x] + SumFunctionOnSet(g, U \ {x})
        BY <4>2, SumRemove
      <4>5. f[x] \in Nat /\ g[x] \in Nat /\ f[x] <= g[x]
        BY DEF Numbers
      <4>6. /\ SumFunctionOnSet(f, U \ {x}) \in Nat
            /\ SumFunctionOnSet(g, U \ {x}) \in Nat
        <5>1. Numbers(f, U \ {x}) /\ Numbers(g, U \ {x})
          BY <4>2, NumbersOnSubset
        <5>. QED  BY <5>1, SumType
      <4>7. SumFunctionOnSet(f, U \ {x}) <= SumFunctionOnSet(g, U \ {x})
        BY <2>1
      <4>. QED  BY <4>3, <4>4, <4>5, <4>6, <4>7
    <3>. QED  BY <3>1, <3>2
  <2>. QED  BY <2>1 DEF Hereditary
<1>2. SUBSET S \subseteq less
  <2>. HIDE DEF less
  <2>. QED  BY <1>1, SubsetsByInduction DEF Numbers
<1>. QED  BY <1>2

\* Nothing adds up to nothing.
LEMMA SumOfZeros ==
  ASSUME NEW S, NEW f, IsFiniteSet(S), \A x \in S : f[x] = 0
  PROVE  SumFunctionOnSet(f, S) = 0
<1>. DEFINE zero == {U \in SUBSET S : SumFunctionOnSet(f, U) = 0}
<1>1. Hereditary(zero, S)
  <2>1. ASSUME NEW U \in SUBSET S, \A x \in U : U \ {x} \in zero PROVE U \in zero
    <3>1. CASE U = {}
      BY <3>1, SumOfNothing
    <3>2. CASE U # {}
      <4>1. PICK x \in U : TRUE
        BY <3>2
      <4>2. Numbers(f, U)
        BY FS_Subset DEF Numbers
      <4>3. SumFunctionOnSet(f, U) = f[x] + SumFunctionOnSet(f, U \ {x})
        BY <4>2, SumRemove
      <4>. QED  BY <2>1, <4>3
    <3>. QED  BY <3>1, <3>2
  <2>. QED  BY <2>1 DEF Hereditary
<1>2. SUBSET S \subseteq zero
  <2>. HIDE DEF zero
  <2>. QED  BY <1>1, SubsetsByInduction
<1>. QED  BY <1>2

\* The same numbers have the same sum.
LEMMA SumSame ==
  ASSUME NEW S, NEW f, NEW g, Numbers(f, S), \A x \in S : f[x] = g[x]
  PROVE  SumFunctionOnSet(f, S) = SumFunctionOnSet(g, S)
<1>1. Numbers(g, S)
  BY DEF Numbers
<1>2. \A x \in S : f[x] <= g[x] /\ g[x] <= f[x]
  BY DEF Numbers
<1>3. /\ SumFunctionOnSet(f, S) <= SumFunctionOnSet(g, S)
      /\ SumFunctionOnSet(g, S) <= SumFunctionOnSet(f, S)
  BY <1>1, <1>2, SumMonotonic
<1>4. SumFunctionOnSet(f, S) \in Nat /\ SumFunctionOnSet(g, S) \in Nat
  BY <1>1, SumType
<1>. QED  BY <1>3, <1>4

\* One more in one place is one more in the sum.
LEMMA SumOneMore ==
  ASSUME NEW S, NEW f, NEW g, NEW x \in S, Numbers(f, S),
         g[x] = f[x] + 1, \A y \in S \ {x} : g[y] = f[y]
  PROVE  SumFunctionOnSet(g, S) = SumFunctionOnSet(f, S) + 1
<1>1. Numbers(g, S)
  BY DEF Numbers
<1>2. Numbers(f, S \ {x})
  BY NumbersOnSubset
<1>3. SumFunctionOnSet(f, S \ {x}) = SumFunctionOnSet(g, S \ {x})
  <2>1. \A y \in S \ {x} : f[y] = g[y]
    OBVIOUS
  <2>. QED  BY <1>2, <2>1, SumSame
<1>4. SumFunctionOnSet(f, S) = f[x] + SumFunctionOnSet(f, S \ {x})
  BY SumRemove
<1>5. SumFunctionOnSet(g, S) = g[x] + SumFunctionOnSet(g, S \ {x})
  BY <1>1, SumRemove
<1>6. SumFunctionOnSet(f, S \ {x}) \in Nat /\ f[x] \in Nat
  BY <1>2, SumType DEF Numbers
<1>. QED  BY <1>3, <1>4, <1>5, <1>6

\* Two parts share out the sum of the whole.
LEMMA SumOfParts ==
  ASSUME NEW S, NEW f, Numbers(f, S), NEW V \in SUBSET S
  PROVE  SumFunctionOnSet(f, S) = SumFunctionOnSet(f, V) + SumFunctionOnSet(f, S \ V)
<1>. DEFINE W == S \ V
            adds == {U \in SUBSET V :
                       SumFunctionOnSet(f, U \cup W) =
                         SumFunctionOnSet(f, U) + SumFunctionOnSet(f, W)}
<1>0. IsFiniteSet(V) /\ Numbers(f, W)
  BY FS_Subset, NumbersOnSubset DEF Numbers
<1>1. Hereditary(adds, V)
  <2>1. ASSUME NEW U \in SUBSET V, \A x \in U : U \ {x} \in adds PROVE U \in adds
    <3>1. CASE U = {}
      <4>1. U \cup W = W
        BY <3>1
      <4>. QED  BY <1>0, <3>1, <4>1, SumOfNothing, SumType
    <3>2. CASE U # {}
      <4>1. PICK x \in U : TRUE
        BY <3>2
      <4>2. Numbers(f, U) /\ Numbers(f, U \cup W) /\ Numbers(f, U \ {x})
        BY NumbersOnSubset
      <4>3. SumFunctionOnSet(f, U) = f[x] + SumFunctionOnSet(f, U \ {x})
        BY <4>2, SumRemove
      <4>4. SumFunctionOnSet(f, U \cup W) = f[x] + SumFunctionOnSet(f, (U \cup W) \ {x})
        BY <4>2, SumRemove
      <4>5. (U \cup W) \ {x} = (U \ {x}) \cup W
        OBVIOUS
      <4>6. /\ f[x] \in Nat /\ SumFunctionOnSet(f, U \ {x}) \in Nat
            /\ SumFunctionOnSet(f, W) \in Nat
        BY <1>0, <4>2, SumType DEF Numbers
      <4>7. SumFunctionOnSet(f, (U \ {x}) \cup W) =
              SumFunctionOnSet(f, U \ {x}) + SumFunctionOnSet(f, W)
        BY <2>1
      <4>8. SumFunctionOnSet(f, U \cup W) = f[x] + SumFunctionOnSet(f, (U \ {x}) \cup W)
        BY <4>4, <4>5, Zenon
      <4>9. SumFunctionOnSet(f, U \cup W) = SumFunctionOnSet(f, U) + SumFunctionOnSet(f, W)
        BY <4>3, <4>6, <4>7, <4>8
      <4>. QED  BY <4>9
    <3>. QED  BY <3>1, <3>2
  <2>. QED  BY <2>1 DEF Hereditary
<1>2. SUBSET V \subseteq adds
  <2>. HIDE DEF adds
  <2>. QED  BY <1>0, <1>1, SubsetsByInduction
<1>3. V \cup W = S
  OBVIOUS
<1>4. V \in adds
  BY <1>2
<1>. QED  BY <1>3, <1>4

\* The sum of a list of numbers, by its last ...
LEMMA SumOfLonger ==
  ASSUME NEW n \in Nat, NEW f, NEW g, \A i \in 1 .. n + 1 : g[i] \in Nat,
         \A i \in 1 .. n : f[i] = g[i]
  PROVE  SumFunctionOnSet(g, 1 .. n + 1) = SumFunctionOnSet(f, 1 .. n) + g[n + 1]
<1>1. Numbers(g, 1 .. n + 1) /\ n + 1 \in 1 .. n + 1
  BY FS_Interval DEF Numbers
<1>2. Numbers(f, 1 .. n)
  <2>1. \A i \in 1 .. n : f[i] \in Nat
    OBVIOUS
  <2>2. IsFiniteSet(1 .. n)
    BY FS_Interval
  <2>. QED  BY <2>1, <2>2 DEF Numbers
<1>3. (1 .. n + 1) \ {n + 1} = 1 .. n
  OBVIOUS
<1>4. SumFunctionOnSet(g, 1 .. n + 1) = g[n + 1] + SumFunctionOnSet(g, (1 .. n + 1) \ {n + 1})
  BY <1>1, SumRemove
<1>5. SumFunctionOnSet(f, 1 .. n) = SumFunctionOnSet(g, 1 .. n)
  BY <1>2, SumSame
<1>6. SumFunctionOnSet(f, 1 .. n) \in Nat
  BY <1>2, SumType
<1>7. SumFunctionOnSet(g, 1 .. n + 1) = g[n + 1] + SumFunctionOnSet(f, 1 .. n)
  BY <1>3, <1>4, <1>5, Zenon
<1>8. g[n + 1] \in Nat
  OBVIOUS
<1>. QED  BY <1>6, <1>7, <1>8

\* ... and by its first.
LEMMA SumOfTail ==
  ASSUME NEW n \in Nat, NEW f, NEW g, \A i \in 1 .. n + 1 : g[i] \in Nat,
         \A i \in 1 .. n : f[i] = g[i + 1]
  PROVE  SumFunctionOnSet(g, 1 .. n + 1) = g[1] + SumFunctionOnSet(f, 1 .. n)
<1>. DEFINE shifts == {k \in Nat : k <= n =>
              SumFunctionOnSet(g, 1 .. k + 1) = g[1] + SumFunctionOnSet(f, 1 .. k)}
<1>1. 0 \in shifts
  <2>1. Numbers(g, {1})
    <3>1. g[1] \in Nat
      OBVIOUS
    <3>2. IsFiniteSet({1})
      BY FS_Singleton
    <3>. QED  BY <3>1, <3>2 DEF Numbers
  <2>2. SumFunctionOnSet(g, {1}) = g[1] + SumFunctionOnSet(g, {1} \ {1})
    BY <2>1, SumRemove
  <2>3. {1} \ {1} = {} /\ 1 .. 0 + 1 = {1} /\ 1 .. 0 = {}
    OBVIOUS
  <2>4. SumFunctionOnSet(g, {}) = 0 /\ SumFunctionOnSet(f, {}) = 0
    BY SumOfNothing
  <2>5. SumFunctionOnSet(g, 1 .. 0 + 1) = g[1] + SumFunctionOnSet(f, 1 .. 0)
    BY <2>2, <2>3, <2>4, Zenon
  <2>. QED  BY <2>5
<1>2. ASSUME NEW k \in Nat, k \in shifts PROVE k + 1 \in shifts
  <2>. SUFFICES ASSUME k + 1 <= n
                PROVE  SumFunctionOnSet(g, 1 .. (k + 1) + 1) =
                         g[1] + SumFunctionOnSet(f, 1 .. k + 1)
    OBVIOUS
  <2>1. SumFunctionOnSet(g, 1 .. (k + 1) + 1) = SumFunctionOnSet(g, 1 .. k + 1) + g[(k + 1) + 1]
    <3>1. \A i \in 1 .. (k + 1) + 1 : g[i] \in Nat
      OBVIOUS
    <3>2. \A i \in 1 .. k + 1 : g[i] = g[i]
      OBVIOUS
    <3>. QED  BY <3>1, <3>2, k + 1 \in Nat, SumOfLonger
  <2>2. SumFunctionOnSet(f, 1 .. k + 1) = SumFunctionOnSet(f, 1 .. k) + f[k + 1]
    <3>1. \A i \in 1 .. k + 1 : f[i] \in Nat
      OBVIOUS
    <3>2. \A i \in 1 .. k : f[i] = f[i]
      OBVIOUS
    <3>. QED  BY <3>1, <3>2, SumOfLonger
  <2>3. SumFunctionOnSet(g, 1 .. k + 1) = g[1] + SumFunctionOnSet(f, 1 .. k)
    BY <1>2
  <2>4. f[k + 1] = g[(k + 1) + 1] /\ f[k + 1] \in Nat /\ g[1] \in Nat
    OBVIOUS
  <2>5. SumFunctionOnSet(f, 1 .. k) \in Nat
    <3>1. \A i \in 1 .. k : f[i] \in Nat
      OBVIOUS
    <3>2. IsFiniteSet(1 .. k)
      BY FS_Interval
    <3>3. Numbers(f, 1 .. k)
      BY <3>1, <3>2 DEF Numbers
    <3>. QED  BY <3>3, SumType
  <2>. QED  BY <2>1, <2>2, <2>3, <2>4, <2>5
<1>3. Nat \subseteq shifts
  <2>. HIDE DEF shifts
  <2>. QED  BY <1>1, <1>2, NumbersByInduction
<1>4. n \in shifts
  BY <1>3
<1>. QED  BY <1>4

----------------------------------------------------------------------------
(* Sequences of whatever there is in them.                                 *)

\* A sequence, of what there is in it.
IsSequence(s) == s \in Seq(Range(s))

\* A sequence over a set is one of what there is in it.
LEMMA SequenceOver ==
  ASSUME NEW T, NEW s \in Seq(T)
  PROVE  IsSequence(s) /\ Range(s) \subseteq T
BY DEF IsSequence, Range

\* Nothing is in the empty sequence.
LEMMA EmptySequence == IsSequence(<<>>) /\ Range(<<>>) = {}
BY DEF IsSequence, Range

\* What is appended is in the sequence, with what was in it.
LEMMA AppendSequence ==
  ASSUME NEW s, IsSequence(s), NEW x
  PROVE  IsSequence(Append(s, x)) /\ Range(Append(s, x)) = Range(s) \cup {x}
<1>. DEFINE T == Range(s) \cup {x}
            u == Append(s, x)
<1>1. u \in Seq(T) /\ DOMAIN u = 1 .. Len(s) + 1 /\ DOMAIN s = 1 .. Len(s) /\ Len(s) \in Nat
  <2>1. s \in Seq(T) /\ x \in T
    BY DEF IsSequence
  <2>. QED  BY <2>1
<1>2. \A i \in 1 .. Len(s) : u[i] = s[i]
  BY <1>1 DEF IsSequence
<1>3. u[Len(s) + 1] = x
  BY <1>1 DEF IsSequence
<1>4. Range(u) = T
  <2>. HIDE DEF u
  <2>1. Len(s) + 1 \in DOMAIN u /\ \A i \in 1 .. Len(s) : i \in DOMAIN u
    BY <1>1
  <2>2. \A i \in DOMAIN u : i \in 1 .. Len(s) \/ i = Len(s) + 1
    BY <1>1
  <2>. QED  BY <1>1, <1>2, <1>3, <2>1, <2>2 DEF Range
<1>. QED  BY <1>1, <1>4 DEF IsSequence

\* What is in either of two sequences is in the one after the other.
LEMMA ConcatSequence ==
  ASSUME NEW s, IsSequence(s), NEW t, IsSequence(t)
  PROVE  IsSequence(s \o t) /\ Range(s \o t) = Range(s) \cup Range(t)
<1>. DEFINE T == Range(s) \cup Range(t)
            u == s \o t
            m == Len(s)
            n == Len(t)
<1>1. s \in Seq(T) /\ t \in Seq(T)
  BY DEF IsSequence
<1>2. u \in Seq(T) /\ DOMAIN u = 1 .. m + n /\ DOMAIN s = 1 .. m /\ DOMAIN t = 1 .. n
      /\ m \in Nat /\ n \in Nat
  BY <1>1
<1>3. \A i \in 1 .. m : u[i] = s[i]
  BY <1>1
<1>4. \A i \in 1 .. n : u[m + i] = t[i]
  BY <1>1
<1>5. Range(u) = T
  <2>. HIDE DEF u, m, n
  <2>1. \A i \in 1 .. m : i \in DOMAIN u
    BY <1>2
  <2>2. \A i \in 1 .. n : m + i \in DOMAIN u
    BY <1>2
  <2>3. \A i \in DOMAIN u : i \in 1 .. m \/ (i - m \in 1 .. n /\ i = m + (i - m))
    BY <1>2
  <2>4. Range(s) \subseteq Range(u)
    BY <1>2, <1>3, <2>1 DEF Range
  <2>5. Range(t) \subseteq Range(u)
    BY <1>2, <1>4, <2>2 DEF Range
  <2>6. ASSUME NEW i \in DOMAIN u PROVE u[i] \in T
    <3>1. CASE i \in 1 .. m
      BY <1>2, <1>3, <3>1 DEF Range
    <3>2. CASE i - m \in 1 .. n /\ i = m + (i - m)
      BY <1>2, <1>4, <3>2 DEF Range
    <3>. QED  BY <2>3, <3>1, <3>2
  <2>7. Range(u) \subseteq T
    <3>. HIDE DEF T
    <3>. QED  BY <2>6 DEF Range
  <2>. QED  BY <2>4, <2>5, <2>7
<1>. QED  BY <1>2, <1>5 DEF IsSequence

\* What is in a sequence is its head, or in its tail.
LEMMA TailSequence ==
  ASSUME NEW s, IsSequence(s), s # <<>>
  PROVE  IsSequence(Tail(s)) /\ Range(s) = {Head(s)} \cup Range(Tail(s))
<1>. DEFINE T == Range(s)
            u == Tail(s)
            n == Len(s)
<1>1. /\ s \in Seq(T) /\ u \in Seq(T) /\ n \in Nat /\ n >= 1
      /\ DOMAIN s = 1 .. n /\ DOMAIN u = 1 .. n - 1 /\ Head(s) = s[1]
  BY DEF IsSequence
<1>2. \A i \in 1 .. n - 1 : u[i] = s[i + 1]
  BY <1>1
<1>3. IsSequence(u) /\ Range(u) \subseteq T
  BY <1>1, SequenceOver
<1>4. ASSUME NEW i \in DOMAIN s PROVE s[i] = Head(s) \/ s[i] \in Range(u)
  <2>. HIDE DEF u, n
  <2>1. CASE i = 1
    BY <1>1, <2>1
  <2>2. CASE i # 1
    <3>1. i - 1 \in 1 .. n - 1 /\ i = (i - 1) + 1
      BY <1>1, <2>2
    <3>2. s[i] = u[i - 1] /\ i - 1 \in DOMAIN u
      BY <1>1, <1>2, <3>1
    <3>. QED  BY <3>2 DEF Range
  <2>. QED  BY <2>1, <2>2
<1>5. Head(s) \in T
  BY <1>1 DEF Range
<1>6. T \subseteq {Head(s)} \cup Range(u)
  <2>. HIDE DEF u
  <2>. QED  BY <1>4 DEF Range
<1>. QED  BY <1>3, <1>5, <1>6

\* A function on the numbers up to n is a sequence.
LEMMA NumberedSequence ==
  ASSUME NEW n \in Nat, NEW f, f = [i \in 1 .. n |-> f[i]]
  PROVE  IsSequence(f) /\ Len(f) = n
BY DEF IsSequence, Range

----------------------------------------------------------------------------
(* What a sort leaves.                                                     *)

\* The order tells any two elements apart, one way only.
Decides(order, S) ==
  /\ \A x \in S : <<x, x>> \notin order
  /\ \A x, y, z \in S : <<x, y>> \in order /\ <<y, z>> \in order => <<x, z>> \in order
  /\ \A x, y \in S : x # y => <<x, y>> \in order \/ <<y, x>> \in order

\* A list has every element of S once, each after those before it.
IsSorting(list, S, order) ==
  /\ list \in [1 .. Cardinality(S) -> S]
  /\ \A i, j \in 1 .. Cardinality(S) : i < j => <<list[i], list[j]>> \in order
  /\ \A x \in S : \E i \in 1 .. Cardinality(S) : list[i] = x

\* Sorting sorts.
LEMMA SortedIsSorted ==
  ASSUME NEW S, IsFiniteSet(S), NEW order, Decides(order, S)
  PROVE  IsSorting(Sorted(S, order), S, order)
<1>. DEFINE n == Cardinality(S)
            Before(x) == {y \in S : <<y, x>> \in order}
            rank == [x \in S |-> Cardinality(Before(x))]
            list == Sorted(S, order)
<1>0. n \in Nat
  BY FS_CardinalityType
<1>1. ASSUME NEW x \in S
      PROVE  /\ IsFiniteSet(Before(x)) /\ Cardinality(Before(x)) \in Nat
             /\ Cardinality(Before(x)) < n
  <2>1. Before(x) \in SUBSET S /\ Before(x) # S
    BY DEF Decides
  <2>. HIDE DEF Before
  <2>2. IsFiniteSet(Before(x)) /\ Cardinality(Before(x)) <= n
        /\ (n = Cardinality(Before(x)) => S = Before(x))
    BY <2>1, FS_Subset
  <2>3. Cardinality(Before(x)) \in Nat
    BY <2>2, FS_CardinalityType
  <2>. QED  BY <1>0, <2>1, <2>2, <2>3
<1>2. ASSUME NEW x \in S, NEW y \in S, <<x, y>> \in order PROVE rank[x] < rank[y]
  <2>1. Before(x) \in SUBSET Before(y) /\ x \in Before(y) /\ x \notin Before(x)
    BY <1>2 DEF Decides
  <2>. HIDE DEF Before
  <2>2. /\ Cardinality(Before(x)) <= Cardinality(Before(y))
        /\ Cardinality(Before(y)) = Cardinality(Before(x)) => Before(y) = Before(x)
    BY <1>1, <2>1, FS_Subset
  <2>3. Cardinality(Before(x)) < Cardinality(Before(y))
    BY <1>1, <2>1, <2>2
  <2>. QED  BY <2>3
<1>3. rank \in [S -> 0 .. n - 1]
  <2>1. \A x \in S : Cardinality(Before(x)) \in 0 .. n - 1
    <3>. HIDE DEF Before, n
    <3>. QED  BY <1>0, <1>1
  <2>. QED  BY <2>1
<1>4. rank \in Injection(S, 0 .. n - 1)
  <2>1. ASSUME NEW x \in S, NEW y \in S, rank[x] = rank[y] PROVE x = y
    <3>. SUFFICES ASSUME x # y PROVE FALSE
      OBVIOUS
    <3>1. rank[x] < rank[y] \/ rank[y] < rank[x]
      BY <1>2 DEF Decides
    <3>2. rank[x] \in Nat /\ rank[y] \in Nat
      BY <1>1
    <3>. HIDE DEF rank
    <3>. QED  BY <2>1, <3>1, <3>2
  <2>2. DOMAIN rank = S
    OBVIOUS
  <2>. HIDE DEF rank
  <2>. QED  BY <1>3, <2>1, <2>2 DEF Injection, IsInjective
<1>5. rank \in Surjection(S, 0 .. n - 1)
  <2>1. IsFiniteSet(0 .. n - 1) /\ Cardinality(0 .. n - 1) = n
    <3>1. 0 \in Int /\ n - 1 \in Int
      BY <1>0
    <3>2. IsFiniteSet(0 .. n - 1)
          /\ Cardinality(0 .. n - 1) = IF 0 > n - 1 THEN 0 ELSE (n - 1) - 0 + 1
      BY <3>1, FS_Interval
    <3>. QED  BY <1>0, <3>2
  <2>. HIDE DEF rank
  <2>. QED  BY <1>4, <2>1, FS_Injection
<1>6. ASSUME NEW i \in 1 .. n PROVE list[i] \in S /\ rank[list[i]] = i - 1
  <2>1. list[i] = CHOOSE x \in S : Cardinality(Before(x)) = i - 1
    BY DEF Sorted
  <2>2. i - 1 \in 0 .. n - 1
    BY <1>0
  <2>3. \E x \in S : rank[x] = i - 1
    BY <1>5, <2>2 DEF Surjection
  <2>4. \E x \in S : Cardinality(Before(x)) = i - 1
    BY <2>3
  <2>. HIDE DEF Before, list
  <2>5. list[i] \in S /\ Cardinality(Before(list[i])) = i - 1
    BY <2>1, <2>4
  <2>. QED  BY <2>5
<1>7. list \in [1 .. n -> S]
  <2>1. list = [i \in 1 .. n |-> CHOOSE x \in S : Cardinality(Before(x)) = i - 1]
    BY DEF Sorted
  <2>. HIDE DEF list
  <2>. QED  BY <1>6, <2>1
<1>. HIDE DEF rank, list, Before
<1>8. ASSUME NEW i \in 1 .. n, NEW j \in 1 .. n, i < j PROVE <<list[i], list[j]>> \in order
  <2>1. rank[list[i]] < rank[list[j]]
    BY <1>0, <1>6, <1>8
  <2>2. rank[list[i]] \in Nat /\ rank[list[j]] \in Nat
    BY <1>0, <1>6
  <2>3. list[i] # list[j] /\ <<list[j], list[i]>> \notin order
    BY <1>2, <1>6, <2>1, <2>2
  <2>. QED  BY <1>6, <2>3 DEF Decides
<1>9. ASSUME NEW x \in S PROVE \E i \in 1 .. n : list[i] = x
  <2>1. rank[x] \in 0 .. n - 1
    BY <1>3
  <2>2. rank[x] + 1 \in 1 .. n /\ (rank[x] + 1) - 1 = rank[x]
    BY <1>0, <2>1
  <2>3. rank[list[rank[x] + 1]] = rank[x] /\ list[rank[x] + 1] \in S
    BY <1>6, <2>2
  <2>4. list[rank[x] + 1] = x
    BY <1>3, <1>4, <2>3 DEF Injection, IsInjective
  <2>. QED  BY <2>2, <2>4
<1>. QED  BY <1>7, <1>8, <1>9 DEF IsSorting, list

----------------------------------------------------------------------------
(* Names.                                                                  *)

\* Where two names part: the first letter that differs, or the end of one.
Part(a, b, i) ==
  /\ i \in 1 .. Len(a) + 1 /\ i \in 1 .. Len(b) + 1
  /\ \A k \in 1 .. i - 1 : a[k] = b[k]
  /\ \/ i <= Len(a) /\ i <= Len(b) /\ a[i] < b[i]
     \/ i = Len(a) + 1 /\ i <= Len(b)

\* What a name begins with.
LEMMA Beginning ==
  ASSUME NEW a \in Seq(Nat), NEW n \in Nat, n <= Len(a)
  PROVE  /\ SubSeq(a, 1, n) \in Seq(Nat) /\ Len(SubSeq(a, 1, n)) = n
         /\ \A k \in 1 .. n : SubSeq(a, 1, n)[k] = a[k]
<1>1. SubSeq(a, 1, n) \in Seq(Nat) /\ Len(SubSeq(a, 1, n)) = n
  OBVIOUS
<1>2. ASSUME NEW k \in 1 .. n PROVE SubSeq(a, 1, n)[k] = a[k]
  OBVIOUS
<1>. QED  BY <1>1, <1>2

\* Two names begin alike if their first letters are the same.
LEMMA SameBeginning ==
  ASSUME NEW a \in Seq(Nat), NEW b \in Seq(Nat), NEW n \in Nat, n <= Len(a), n <= Len(b)
  PROVE  SubSeq(a, 1, n) = SubSeq(b, 1, n) <=> \A k \in 1 .. n : a[k] = b[k]
<1>1. /\ Len(SubSeq(a, 1, n)) = n /\ Len(SubSeq(b, 1, n)) = n
      /\ SubSeq(a, 1, n) \in Seq(Nat) /\ SubSeq(b, 1, n) \in Seq(Nat)
      /\ \A k \in 1 .. n : SubSeq(a, 1, n)[k] = a[k]
      /\ \A k \in 1 .. n : SubSeq(b, 1, n)[k] = b[k]
  BY Beginning
<1>2. ASSUME \A k \in 1 .. n : a[k] = b[k] PROVE SubSeq(a, 1, n) = SubSeq(b, 1, n)
  <2>. DEFINE first == SubSeq(a, 1, n)
              other == SubSeq(b, 1, n)
  <2>1. /\ first \in Seq(Nat) /\ other \in Seq(Nat) /\ Len(first) = n /\ Len(other) = n
        /\ \A k \in 1 .. n : first[k] = a[k]
        /\ \A k \in 1 .. n : other[k] = b[k]
    BY <1>1
  <2>. HIDE DEF first, other
  <2>2. \A k \in 1 .. n : first[k] = other[k]
    BY <1>2, <2>1
  <2>3. first = other
    BY <2>1, <2>2
  <2>. QED  BY <2>3 DEF first, other
<1>3. ASSUME SubSeq(a, 1, n) = SubSeq(b, 1, n) PROVE \A k \in 1 .. n : a[k] = b[k]
  BY <1>1, <1>3
<1>. QED  BY <1>2, <1>3

\* A name is before another by the first letter they differ in, or by its end.
LEMMA BeforeParts ==
  ASSUME NEW a \in Seq(Nat), NEW b \in Seq(Nat)
  PROVE  NameBefore(a, b) <=> \E i : Part(a, b, i)
<1>1. ASSUME IsStrictPrefix(a, b) PROVE Part(a, b, Len(a) + 1)
  <2>1. Len(a) <= Len(b) /\ SubSeq(a, 1, Len(a)) = SubSeq(b, 1, Len(a)) /\ a # b
    BY <1>1 DEF IsStrictPrefix, IsPrefix
  <2>2. \A k \in 1 .. Len(a) : a[k] = b[k]
    BY <2>1, SameBeginning
  <2>3. Len(a) # Len(b)
    BY <2>1, <2>2
  <2>. QED  BY <2>1, <2>2, <2>3 DEF Part
<1>2. ASSUME NEW i \in DOMAIN a \cap DOMAIN b, a[i] < b[i],
             SubSeq(a, 1, i - 1) = SubSeq(b, 1, i - 1)
      PROVE  Part(a, b, i)
  <2>1. i \in 1 .. Len(a) /\ i \in 1 .. Len(b) /\ i - 1 \in Nat
    OBVIOUS
  <2>2. \A k \in 1 .. i - 1 : a[k] = b[k]
    BY <1>2, <2>1, SameBeginning
  <2>. QED  BY <1>2, <2>1, <2>2 DEF Part
<1>3. ASSUME NEW i, Part(a, b, i) PROVE NameBefore(a, b)
  <2>1. CASE i <= Len(a) /\ i <= Len(b) /\ a[i] < b[i]
    <3>1. i \in DOMAIN a \cap DOMAIN b /\ i - 1 \in Nat /\ i - 1 <= Len(a) /\ i - 1 <= Len(b)
      BY <1>3, <2>1 DEF Part
    <3>2. SubSeq(a, 1, i - 1) = SubSeq(b, 1, i - 1)
      BY <1>3, <3>1, SameBeginning DEF Part
    <3>. QED  BY <2>1, <3>1, <3>2 DEF NameBefore
  <2>2. CASE i = Len(a) + 1 /\ i <= Len(b)
    <3>1. SubSeq(a, 1, Len(a)) = SubSeq(b, 1, Len(a))
      BY <1>3, <2>2, SameBeginning DEF Part
    <3>2. Len(a) < Len(b)
      BY <2>2
    <3>. QED  BY <3>1, <3>2 DEF NameBefore, IsStrictPrefix, IsPrefix
  <2>. QED  BY <1>3, <2>1, <2>2 DEF Part
<1>. QED  BY <1>1, <1>2, <1>3 DEF NameBefore

\* Names are in an order: none comes before itself, ...
LEMMA NotBeforeItself ==
  ASSUME NEW a \in Seq(Nat)
  PROVE  ~NameBefore(a, a)
<1>1. ASSUME NEW i, Part(a, a, i) PROVE FALSE
  <2>1. i \in 1 .. Len(a) => a[i] \in Nat
    OBVIOUS
  <2>. QED  BY <1>1, <2>1 DEF Part
<1>. QED  BY <1>1, BeforeParts

\* Where two names part, by their lengths.
PartAt(a, la, b, lb, i) ==
  /\ i \in 1 .. la + 1 /\ i \in 1 .. lb + 1
  /\ \A k \in 1 .. i - 1 : a[k] = b[k]
  /\ i <= lb /\ (i <= la => a[i] < b[i])

LEMMA PartIsPartAt ==
  ASSUME NEW a \in Seq(Nat), NEW b \in Seq(Nat), NEW i
  PROVE  Part(a, b, i) <=> PartAt(a, Len(a), b, Len(b), i)
<1>. DEFINE la == Len(a)
            lb == Len(b)
<1>1. la \in Nat /\ lb \in Nat
  OBVIOUS
<1>2. Part(a, b, i) <=> /\ i \in 1 .. la + 1 /\ i \in 1 .. lb + 1
                        /\ \A k \in 1 .. i - 1 : a[k] = b[k]
                        /\ \/ i <= la /\ i <= lb /\ a[i] < b[i]
                           \/ i = la + 1 /\ i <= lb
  BY DEF Part
<1>. HIDE DEF la, lb
<1>3. ASSUME i \in 1 .. la + 1
      PROVE  (i <= lb /\ (i <= la => a[i] < b[i])) <=>
               \/ i <= la /\ i <= lb /\ a[i] < b[i]
               \/ i = la + 1 /\ i <= lb
  BY <1>1, <1>3
<1>4. Part(a, b, i) <=> PartAt(a, la, b, lb, i)
  BY <1>2, <1>3, Zenon DEF PartAt
<1>. QED  BY <1>4 DEF la, lb

\* The first of two places where names part is where the outer ones do.
LEMMA PartAtEarlier ==
  ASSUME NEW la \in Nat, NEW lb \in Nat, NEW lc \in Nat, NEW a, NEW b, NEW c,
         \A k \in 1 .. la : a[k] \in Nat, \A k \in 1 .. lb : b[k] \in Nat,
         \A k \in 1 .. lc : c[k] \in Nat,
         NEW i, PartAt(a, la, b, lb, i), NEW j, PartAt(b, lb, c, lc, j)
  PROVE  \E k : PartAt(a, la, c, lc, k)
<1>1. /\ i \in Nat /\ i >= 1 /\ i <= la + 1 /\ i <= lb
      /\ j \in Nat /\ j >= 1 /\ j <= lb + 1 /\ j <= lc
      /\ \A k \in 1 .. i - 1 : a[k] = b[k]
      /\ \A k \in 1 .. j - 1 : b[k] = c[k]
      /\ i <= la => a[i] < b[i]
      /\ j <= lb => b[j] < c[j]
  BY DEF PartAt
<1>2. CASE i <= j
  <2>1. i \in 1 .. la + 1 /\ i \in 1 .. lc + 1 /\ i <= lc
    BY <1>1, <1>2
  <2>2. ASSUME NEW k \in 1 .. i - 1 PROVE a[k] = c[k]
    <3>1. k \in 1 .. j - 1
      BY <1>1, <1>2
    <3>. QED  BY <1>1, <3>1
  <2>3. CASE i < j
    <3>1. i \in 1 .. j - 1
      BY <1>1, <2>3
    <3>2. b[i] = c[i]
      BY <1>1, <3>1
    <3>. QED  BY <1>1, <2>1, <2>2, <3>2 DEF PartAt
  <2>4. CASE i = j
    <3>1. b[i] < c[i]
      BY <1>1, <2>4
    <3>2. ASSUME i <= la PROVE a[i] < c[i]
      <4>1. i \in 1 .. la /\ i \in 1 .. lb /\ i \in 1 .. lc
        BY <1>1, <2>1, <3>2
      <4>2. a[i] \in Nat /\ b[i] \in Nat /\ c[i] \in Nat
        BY <4>1
      <4>. QED  BY <1>1, <3>1, <3>2, <4>2
    <3>. QED  BY <2>1, <2>2, <3>2 DEF PartAt
  <2>. QED  BY <1>1, <1>2, <2>3, <2>4
<1>3. CASE j < i
  <2>1. j \in 1 .. la + 1 /\ j \in 1 .. lc + 1 /\ j <= lc /\ j \in 1 .. i - 1 /\ j <= lb
    BY <1>1, <1>3
  <2>2. a[j] < c[j]
    BY <1>1, <2>1
  <2>3. ASSUME NEW k \in 1 .. j - 1 PROVE a[k] = c[k]
    <3>1. k \in 1 .. i - 1
      BY <1>1, <1>3
    <3>. QED  BY <1>1, <3>1
  <2>. QED  BY <2>1, <2>2, <2>3 DEF PartAt
<1>. QED  BY <1>1, <1>2, <1>3

\* ... what comes before what comes before comes before, ...
LEMMA BeforeBefore ==
  ASSUME NEW a \in Seq(Nat), NEW b \in Seq(Nat), NEW c \in Seq(Nat),
         NameBefore(a, b), NameBefore(b, c)
  PROVE  NameBefore(a, c)
<1>1. PICK i : PartAt(a, Len(a), b, Len(b), i)
  BY BeforeParts, PartIsPartAt
<1>2. PICK j : PartAt(b, Len(b), c, Len(c), j)
  BY BeforeParts, PartIsPartAt
<1>3. /\ \A k \in 1 .. Len(a) : a[k] \in Nat
      /\ \A k \in 1 .. Len(b) : b[k] \in Nat
      /\ \A k \in 1 .. Len(c) : c[k] \in Nat
      /\ Len(a) \in Nat /\ Len(b) \in Nat /\ Len(c) \in Nat
  OBVIOUS
<1>4. PICK k : PartAt(a, Len(a), c, Len(c), k)
  <2>. DEFINE la == Len(a)
              lb == Len(b)
              lc == Len(c)
  <2>1. /\ \A k \in 1 .. la : a[k] \in Nat
        /\ \A k \in 1 .. lb : b[k] \in Nat
        /\ \A k \in 1 .. lc : c[k] \in Nat
        /\ la \in Nat /\ lb \in Nat /\ lc \in Nat
        /\ PartAt(a, la, b, lb, i) /\ PartAt(b, lb, c, lc, j)
    BY <1>1, <1>2, <1>3
  <2>. HIDE DEF la, lb, lc
  <2>2. \E k : PartAt(a, la, c, lc, k)
    BY <2>1, PartAtEarlier
  <2>. QED  BY <2>2 DEF la, lb, lc
<1>. QED  BY <1>4, BeforeParts, PartIsPartAt

\* ... and of two different names one comes first.
LEMMA OneIsFirst ==
  ASSUME NEW a \in Seq(Nat), NEW b \in Seq(Nat), a # b
  PROVE  NameBefore(a, b) \/ NameBefore(b, a)
<1>. DEFINE alike == {n \in Nat : n <= Len(a) /\ n <= Len(b) => \A k \in 1 .. n : a[k] = b[k]}
<1>. SUFFICES ASSUME ~NameBefore(a, b), ~NameBefore(b, a) PROVE FALSE
  OBVIOUS
<1>1. \A i : ~Part(a, b, i) /\ ~Part(b, a, i)
  BY BeforeParts
<1>2. 0 \in alike
  OBVIOUS
<1>3. ASSUME NEW n \in Nat, n \in alike PROVE n + 1 \in alike
  <2>. SUFFICES ASSUME n + 1 <= Len(a), n + 1 <= Len(b), NEW k \in 1 .. n + 1
                PROVE  a[k] = b[k]
    OBVIOUS
  <2>1. \A l \in 1 .. n : a[l] = b[l]
    BY <1>3
  <2>2. a[n + 1] \in Nat /\ b[n + 1] \in Nat
    OBVIOUS
  <2>3. ~(a[n + 1] < b[n + 1]) /\ ~(b[n + 1] < a[n + 1])
    <3>. DEFINE la == Len(a)
                lb == Len(b)
    <3>1. la \in Nat /\ lb \in Nat /\ n + 1 <= la /\ n + 1 <= lb
      OBVIOUS
    <3>2. ~PartAt(a, la, b, lb, n + 1) /\ ~PartAt(b, lb, a, la, n + 1)
      BY <1>1, PartIsPartAt
    <3>. HIDE DEF la, lb
    <3>3. n + 1 \in 1 .. la + 1 /\ n + 1 \in 1 .. lb + 1 /\ (n + 1) - 1 = n
      BY <3>1
    <3>. QED  BY <2>1, <3>1, <3>2, <3>3 DEF PartAt
  <2>4. k \in 1 .. n \/ k = n + 1
    OBVIOUS
  <2>. QED  BY <2>1, <2>2, <2>3, <2>4
<1>4. Nat \subseteq alike
  <2>. HIDE DEF alike
  <2>. QED  BY <1>2, <1>3, NumbersByInduction
<1>5. CASE Len(a) < Len(b)
  <2>1. \A k \in 1 .. Len(a) : a[k] = b[k]
    BY <1>4, <1>5
  <2>2. Part(a, b, Len(a) + 1)
    BY <1>5, <2>1 DEF Part
  <2>. QED  BY <1>1, <2>2
<1>6. CASE Len(b) < Len(a)
  <2>1. \A k \in 1 .. Len(b) : a[k] = b[k]
    BY <1>4, <1>6
  <2>2. Part(b, a, Len(b) + 1)
    BY <1>6, <2>1 DEF Part
  <2>. QED  BY <1>1, <2>2
<1>7. CASE Len(a) = Len(b)
  <2>1. \A k \in 1 .. Len(a) : a[k] = b[k]
    BY <1>4, <1>7
  <2>. QED  BY <1>7, <2>1
<1>. QED  BY <1>5, <1>6, <1>7

----------------------------------------------------------------------------
(* The least of a few numbers.                                             *)

\* The least of a set of numbers is in it, and no larger than any.
LEMMA LeastIsMember ==
  ASSUME NEW S \in SUBSET Nat, S # {}
  PROVE  Min(S) \in S /\ \A y \in S : Min(S) <= y
<1>. DEFINE R == OpToRel(<, Nat)
<1>1. PICK x \in S : \A y \in S : <<y, x>> \notin R
  <2>. HIDE DEF R
  <2>1. IsWellFoundedOn(R, Nat)
    BY NatLessThanWellFounded DEF R
  <2>. QED  BY <2>1, WFMin
<1>2. ASSUME NEW y \in S PROVE x <= y
  <2>1. <<y, x>> \notin R /\ y \in Nat /\ x \in Nat
    BY <1>1
  <2>2. y < x => <<y, x>> \in R
    BY <2>1 DEF OpToRel
  <2>. HIDE DEF R
  <2>. QED  BY <2>1, <2>2
<1>. QED  BY <1>2 DEF Min

\* The smaller and the larger of two numbers.
LEMMA LeastOfTwo ==
  ASSUME NEW a \in Int, NEW b \in Int
  PROVE  /\ Min({a, b}) = IF a <= b THEN a ELSE b
         /\ Max({a, b}) = IF a >= b THEN a ELSE b
<1>1. ASSUME NEW x \in {a, b}, x <= a, x <= b PROVE Min({a, b}) = x
  BY <1>1 DEF Min
<1>2. ASSUME NEW x \in {a, b}, x >= a, x >= b PROVE Max({a, b}) = x
  BY <1>2 DEF Max
<1>. QED  BY <1>1, <1>2
==================================================================================
