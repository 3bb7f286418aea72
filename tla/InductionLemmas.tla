--------------------------- MODULE InductionLemmas ---------------------------
(***************************************************************************)
(* Induction over the numbers, for a set in place of a predicate, and what *)
(* follows from it of sums over finite sets and folds over sequences.      *)
(***************************************************************************)
EXTENDS Integers, Functions, FiniteSetTheorems, WellFoundedInduction, TLAPS

\* A set with zero and the successor of each of its numbers has all of them: the least number
\* it lacks is neither zero nor a successor.
LEMMA SetInduction ==
    ASSUME NEW S, 0 \in S, \A n \in Nat : n \in S => n + 1 \in S
    PROVE  Nat \subseteq S
<1> DEFINE T == Nat \ S
<1> DEFINE R == {pair \in Nat \X Nat : pair[1] < pair[2]}
<1>1. SUFFICES ASSUME T # {} PROVE FALSE
  OBVIOUS
<1>2. IsWellFoundedOn(R, Nat)
  BY NatLessThanWellFounded DEF OpToRel
<1>3. \A x, y \in Nat : x < y => <<x, y>> \in R
  OBVIOUS
<1>4. T \subseteq Nat
  OBVIOUS
<1>5. \E x \in T : \A y \in T : ~(<<y, x>> \in R)
  <2> HIDE DEF T, R
  <2>1. QED
    BY <1>1, <1>2, <1>4, WFMin
<1>6. PICK x \in T : \A y \in T : ~(<<y, x>> \in R)
  BY <1>5
<1>7. x \in Nat /\ x # 0
  OBVIOUS
<1>8. x - 1 \in T /\ x - 1 < x
  BY <1>7
<1>9. QED
  <2> HIDE DEF R
  <2>1. QED
    BY <1>3, <1>6, <1>7, <1>8

\* The same as far as some number.
LEMMA BoundedInduction ==
    ASSUME NEW n \in Nat, NEW S, 0 \in S, \A i \in 1 .. n : i - 1 \in S => i \in S
    PROVE  0 .. n \subseteq S
<1> DEFINE T == {i \in Nat : i <= n => i \in S}
<1>1. 0 \in T
  OBVIOUS
<1>2. \A i \in Nat : i \in T => i + 1 \in T
  <2> TAKE i \in Nat
  <2> HAVE i \in T
  <2>1. CASE i + 1 <= n
    <3>1. i + 1 \in 1 .. n /\ (i + 1) - 1 = i /\ i \in S
      BY <2>1
    <3>2. QED
      BY <3>1
  <2>2. CASE ~(i + 1 <= n)
    BY <2>2
  <2>3. QED
    BY <2>1, <2>2
<1> HIDE DEF T
<1>3. Nat \subseteq T
  BY <1>1, <1>2, SetInduction
<1>4. QED
  BY <1>3 DEF T

-----------------------------------------------------------------------------
(* Sums over finite sets.                                                  *)

\* The element that the folds of the community modules take next.
Some(s) == CHOOSE x \in s : TRUE

\* What is left of a finite set without this element is smaller by one.
LEMMA SomeRemoved ==
    ASSUME NEW S, IsFiniteSet(S), NEW s \in SUBSET S, s # {}
    PROVE  /\ Some(s) \in s /\ s \ {Some(s)} \in SUBSET S
           /\ Cardinality(s \ {Some(s)}) = Cardinality(s) - 1
           /\ Cardinality(s) \in Nat /\ Cardinality(s) <= Cardinality(S) /\ Cardinality(s) # 0
<1>1. Some(s) \in s
  BY DEF Some
<1>2. IsFiniteSet(s) /\ Cardinality(s) \in Nat /\ Cardinality(s) <= Cardinality(S)
  BY FS_Subset, FS_CardinalityType
<1>3. QED
  BY <1>1, <1>2, FS_RemoveElement, FS_EmptySet

\* A sum is what a function of the subsets unfolds to, one element at a time.
LEMMA SumUnfolds ==
    ASSUME NEW S, IsFiniteSet(S), NEW f, \A u \in S : f[u] \in Int
    PROVE  \E iter \in [SUBSET S -> Int] :
              /\ iter[{}] = 0
              /\ \A s \in SUBSET S : s # {} => iter[s] = f[Some(s)] + iter[s \ {Some(s)}]
              /\ SumFunctionOnSet(f, S) = iter[S]
<1> DEFINE Level(m) == {s \in SUBSET S : Cardinality(s) <= m}
<1> DEFINE IsIter(g, D) == g = [s \in D |-> IF s = {} THEN 0 ELSE f[Some(s)] + g[s \ {Some(s)}]]
<1> DEFINE N == Cardinality(S)
<1> DEFINE T == {m \in 0 .. N : \E g : IsIter(g, Level(m))}
<1>0. N \in Nat /\ \A s \in SUBSET S : Cardinality(s) \in Nat /\ Cardinality(s) <= N
  BY FS_Subset, FS_CardinalityType
<1>1. 0 \in T
  <2> DEFINE g == [s \in Level(0) |-> 0]
  <2>1. \A s \in Level(0) : s = {}
    BY <1>0, FS_Subset, FS_EmptySet
  <2>2. IsIter(g, Level(0))
    <3> HIDE DEF Level
    <3>1. QED
      BY <2>1
  <2>3. \E h : IsIter(h, Level(0))
    <3> HIDE DEF IsIter, g
    <3>1. QED
      BY <2>2
  <2>4. QED
    <3> HIDE DEF IsIter, Level, N
    <3>1. QED
      BY <1>0, <2>3
<1>2. \A m \in 1 .. N : m - 1 \in T => m \in T
  <2> TAKE m \in 1 .. N
  <2> HAVE m - 1 \in T
  <2>0. PICK g : IsIter(g, Level(m - 1))
    <3> HIDE DEF IsIter, Level
    <3>1. QED
      OBVIOUS
  <2> DEFINE h == [s \in Level(m) |-> IF s = {} THEN 0 ELSE f[Some(s)] + g[s \ {Some(s)}]]
  <2>1. \A s \in Level(m - 1) :
           g[s] = IF s = {} THEN 0 ELSE f[Some(s)] + g[s \ {Some(s)}]
    <3> HIDE DEF Level
    <3>1. QED
      BY <2>0
  <2>2. \A s \in Level(m) : s # {} => s \ {Some(s)} \in Level(m - 1) /\ s \ {Some(s)} \in Level(m)
    <3> TAKE s \in Level(m)
    <3> HAVE s # {}
    <3>1. /\ s \ {Some(s)} \in SUBSET S
          /\ Cardinality(s \ {Some(s)}) = Cardinality(s) - 1
          /\ Cardinality(s) \in Nat
      BY SomeRemoved
    <3>2. QED
      BY <3>1
  <2>3. \A s \in Level(m) : s \in Level(m - 1) => h[s] = g[s]
    <3> HIDE DEF Level
    <3>1. QED
      BY <2>1
  <2>4. \A s \in Level(m) : s # {} => h[s \ {Some(s)}] = g[s \ {Some(s)}]
    <3> HIDE DEF Level, h
    <3>1. QED
      BY <2>2, <2>3
  <2>5. \A s \in Level(m) : (IF s = {} THEN 0 ELSE f[Some(s)] + g[s \ {Some(s)}])
                          = (IF s = {} THEN 0 ELSE f[Some(s)] + h[s \ {Some(s)}])
    <3> HIDE DEF Level, h
    <3>1. QED
      BY <2>4
  <2>6. IsIter(h, Level(m))
    <3>1. h = [s \in Level(m) |-> IF s = {} THEN 0 ELSE f[Some(s)] + g[s \ {Some(s)}]]
      OBVIOUS
    <3> HIDE DEF h, Level
    <3>2. QED
      BY <2>5, <3>1
  <2>7. \E g1 : IsIter(g1, Level(m))
    <3> HIDE DEF IsIter, h
    <3>1. QED
      BY <2>6
  <2>8. QED
    <3> HIDE DEF IsIter, Level, N
    <3>1. QED
      BY <1>0, <2>7
<1>3. N \in T
  <2> HIDE DEF T, N
  <2>1. QED
    BY <1>0, <1>1, <1>2, BoundedInduction
<1>4. Level(N) = SUBSET S
  BY <1>0
<1>5. \E g : IsIter(g, SUBSET S)
  <2>1. \E g : IsIter(g, Level(N))
    <3> HIDE DEF IsIter, Level, N
    <3>1. QED
      BY <1>3
  <2> HIDE DEF IsIter, Level, N
  <2>2. QED
    BY <1>4, <2>1
<1> DEFINE iter == CHOOSE g : IsIter(g, SUBSET S)
<1>6. IsIter(iter, SUBSET S)
  <2> HIDE DEF IsIter
  <2>1. QED
    BY <1>5
<1>7. SumFunctionOnSet(f, S) = iter[S]
  BY DEF SumFunctionOnSet, FoldFunctionOnSet, MapThenFoldSet, Some
<1> HIDE DEF iter
<1>8. \A s \in SUBSET S : iter[s] = IF s = {} THEN 0 ELSE f[Some(s)] + iter[s \ {Some(s)}]
  BY <1>6
<1>9. iter[{}] = 0 /\ \A s \in SUBSET S : s # {} => iter[s] = f[Some(s)] + iter[s \ {Some(s)}]
  BY <1>8
<1>10. \A s \in SUBSET S : iter[s] \in Int
  <2> DEFINE I == {m \in 0 .. N : \A s \in Level(m) : iter[s] \in Int}
  <2>1. 0 \in I
    <3>1. \A s \in Level(0) : s = {}
      BY <1>0, FS_Subset, FS_EmptySet
    <3>2. 0 \in Int /\ 0 \in 0 .. N
      BY <1>0
    <3>3. iter[{}] \in Int
      BY <1>9, <3>2
    <3> HIDE DEF Level, N
    <3>4. \A s \in Level(0) : iter[s] \in Int
      BY <3>1, <3>3
    <3>5. QED
      BY <3>2, <3>4
  <2>2. \A m \in 1 .. N : m - 1 \in I => m \in I
    <3> TAKE m \in 1 .. N
    <3> HAVE m - 1 \in I
    <3>1. ASSUME NEW s \in Level(m) PROVE iter[s] \in Int
      <4>1. CASE s = {}
        BY <1>9, <4>1
      <4>2. CASE s # {}
        <5>1. /\ Some(s) \in S /\ s \ {Some(s)} \in SUBSET S
              /\ Cardinality(s \ {Some(s)}) = Cardinality(s) - 1
              /\ Cardinality(s) \in Nat
          BY <4>2, SomeRemoved
        <5>2. s \ {Some(s)} \in Level(m - 1)
          BY <5>1
        <5>3. iter[s \ {Some(s)}] \in Int
          BY <5>2
        <5>4. QED
          BY <1>9, <4>2, <5>1, <5>3
      <4>3. QED
        BY <4>1, <4>2
    <3> HIDE DEF Level, N
    <3>2. QED
      BY <1>0, <3>1
  <2>3. N \in I
    <3> HIDE DEF I, N
    <3>1. QED
      BY <1>0, <2>1, <2>2, BoundedInduction
  <2> HIDE DEF Level
  <2>4. QED
    BY <1>4, <2>3
<1>11. iter \in [SUBSET S -> Int]
  <2>1. iter = [s \in SUBSET S |-> iter[s]]
    BY <1>6
  <2>2. QED
    BY <1>10, <2>1
<1>12. QED
  BY <1>7, <1>9, <1>11

\* A sum grows by at least what one of its terms does, if no other falls.
LEMMA SumGrows ==
    ASSUME NEW S, IsFiniteSet(S), NEW f, NEW g, NEW t, NEW d \in Int,
           \A u \in S : f[u] \in Int /\ g[u] \in Int,
           \A u \in S : f[u] + (IF u = t THEN d ELSE 0) <= g[u]
    PROVE  /\ SumFunctionOnSet(f, S) \in Int /\ SumFunctionOnSet(g, S) \in Int
           /\ SumFunctionOnSet(f, S) + (IF t \in S THEN d ELSE 0) <= SumFunctionOnSet(g, S)
<1>1. PICK F \in [SUBSET S -> Int] :
              /\ F[{}] = 0
              /\ \A s \in SUBSET S : s # {} => F[s] = f[Some(s)] + F[s \ {Some(s)}]
              /\ SumFunctionOnSet(f, S) = F[S]
  BY SumUnfolds
<1>2. PICK G \in [SUBSET S -> Int] :
              /\ G[{}] = 0
              /\ \A s \in SUBSET S : s # {} => G[s] = g[Some(s)] + G[s \ {Some(s)}]
              /\ SumFunctionOnSet(g, S) = G[S]
  BY SumUnfolds
<1> DEFINE More(s) == F[s] + (IF t \in s THEN d ELSE 0) <= G[s]
<1> DEFINE N == Cardinality(S)
<1> DEFINE I == {m \in 0 .. N : \A s \in SUBSET S : Cardinality(s) <= m => More(s)}
<1>0. N \in Nat /\ \A s \in SUBSET S : Cardinality(s) \in Nat /\ Cardinality(s) <= N
  BY FS_Subset, FS_CardinalityType
<1>3. 0 \in I
  <2>1. \A s \in SUBSET S : Cardinality(s) <= 0 => s = {}
    BY <1>0, FS_Subset, FS_EmptySet
  <2>2. More({})
    BY <1>1, <1>2
  <2> HIDE DEF More, N
  <2>3. QED
    BY <1>0, <2>1, <2>2
<1>4. ASSUME NEW m \in 1 .. N, m - 1 \in I PROVE m \in I
  <2>1. ASSUME NEW s \in SUBSET S, Cardinality(s) <= m PROVE More(s)
    <3>1. CASE s = {}
      BY <1>1, <1>2, <3>1
    <3>2. CASE s # {}
      <4> DEFINE x == Some(s)
      <4> DEFINE r == s \ {x}
      <4>1. /\ x \in s /\ r \in SUBSET S /\ Cardinality(r) = Cardinality(s) - 1
            /\ Cardinality(s) \in Nat
        BY <3>2, SomeRemoved
      <4>2. F[s] = f[x] + F[r] /\ G[s] = g[x] + G[r]
        BY <1>1, <1>2, <3>2
      <4>3. t \in s <=> t = x \/ t \in r
        BY <4>1
      <4>4. ~(t = x /\ t \in r)
        OBVIOUS
      <4>5. x \in S /\ f[x] \in Int /\ g[x] \in Int /\ F[r] \in Int /\ G[r] \in Int
        BY <4>1
      <4> HIDE DEF x, r
      <4>6. More(r)
        <5> HIDE DEF More
        <5>1. Cardinality(r) <= m - 1
          BY <2>1, <4>1
        <5>2. QED
          BY <1>4, <4>1, <5>1
      <4>7. f[x] + (IF x = t THEN d ELSE 0) <= g[x]
        BY <4>5
      <4>8. QED
        BY <4>2, <4>3, <4>4, <4>5, <4>6, <4>7
    <3>3. QED
      BY <3>1, <3>2
  <2> HIDE DEF More, N
  <2>2. QED
    BY <1>0, <2>1
<1>5. N \in I
  <2> HIDE DEF I, N
  <2>1. \A m \in 1 .. N : m - 1 \in I => m \in I
    BY <1>4
  <2>2. QED
    BY <1>0, <1>3, <2>1, BoundedInduction
<1>6. More(S)
  <2> HIDE DEF More
  <2>1. QED
    BY <1>0, <1>5
<1>7. QED
  BY <1>1, <1>2, <1>6

\* A sum of zeros is zero.
LEMMA SumOfZeros ==
    ASSUME NEW S, IsFiniteSet(S), NEW f, \A u \in S : f[u] = 0
    PROVE  SumFunctionOnSet(f, S) = 0
<1>1. \A u \in S : f[u] \in Int
  OBVIOUS
<1>2. PICK F \in [SUBSET S -> Int] :
              /\ F[{}] = 0
              /\ \A s \in SUBSET S : s # {} => F[s] = f[Some(s)] + F[s \ {Some(s)}]
              /\ SumFunctionOnSet(f, S) = F[S]
  BY <1>1, SumUnfolds
<1> DEFINE N == Cardinality(S)
<1> DEFINE I == {m \in 0 .. N : \A s \in SUBSET S : Cardinality(s) <= m => F[s] = 0}
<1>3. N \in Nat /\ \A s \in SUBSET S : Cardinality(s) \in Nat /\ Cardinality(s) <= N
  BY FS_Subset, FS_CardinalityType
<1>4. 0 \in I
  <2>1. \A s \in SUBSET S : Cardinality(s) <= 0 => s = {}
    BY <1>3, FS_Subset, FS_EmptySet
  <2>2. F[{}] = 0
    BY <1>2
  <2>3. \A s \in SUBSET S : Cardinality(s) <= 0 => F[s] = 0
    BY <2>1, <2>2
  <2>4. 0 \in 0 .. N
    BY <1>3
  <2> HIDE DEF N
  <2>5. QED
    BY <2>3, <2>4
<1>5. ASSUME NEW m \in 1 .. N, m - 1 \in I PROVE m \in I
  <2>1. ASSUME NEW s \in SUBSET S, Cardinality(s) <= m PROVE F[s] = 0
    <3>1. CASE s = {}
      BY <1>2, <3>1
    <3>2. CASE s # {}
      <4>1. /\ Some(s) \in s /\ s \ {Some(s)} \in SUBSET S
            /\ Cardinality(s \ {Some(s)}) = Cardinality(s) - 1
            /\ Cardinality(s) \in Nat
        BY <3>2, SomeRemoved
      <4>2. Cardinality(s \ {Some(s)}) <= m - 1
        BY <2>1, <4>1
      <4>3. F[s \ {Some(s)}] = 0
        BY <1>5, <4>1, <4>2
      <4>4. F[s] = f[Some(s)] + F[s \ {Some(s)}]
        BY <1>2, <3>2
      <4>5. QED
        BY <4>1, <4>3, <4>4
    <3>3. QED
      BY <3>1, <3>2
  <2> HIDE DEF N
  <2>2. QED
    BY <1>3, <2>1
<1>6. N \in I
  <2> HIDE DEF I, N
  <2>1. \A m \in 1 .. N : m - 1 \in I => m \in I
    BY <1>5
  <2>2. QED
    BY <1>3, <1>4, <2>1, BoundedInduction
<1>7. QED
  BY <1>2, <1>6

-----------------------------------------------------------------------------
(* Folds over the positions of a sequence.                                 *)

\* The greatest number of a set, which the folds over a sequence take next.
Greatest(s) == CHOOSE x \in s : \A y \in s : x >= y

\* A set of positions that is not empty has it.
LEMMA GreatestExists ==
    ASSUME NEW n \in Nat, NEW s \in SUBSET (1 .. n), s # {}
    PROVE  Greatest(s) \in s /\ \A y \in s : Greatest(s) >= y
<1> DEFINE HasMax == \E x \in s : \A y \in s : x >= y
<1> DEFINE I == {m \in 0 .. n : (\E y \in s : y >= n - m) => HasMax}
<1>1. 0 \in I
  OBVIOUS
<1>2. \A m \in 1 .. n : m - 1 \in I => m \in I
  <2> SUFFICES ASSUME NEW m \in 1 .. n, m - 1 \in I, NEW y \in s, y >= n - m PROVE HasMax
    OBVIOUS
  <2>1. CASE \E z \in s : z >= n - (m - 1)
    BY <2>1
  <2>2. CASE \A z \in s : z < n - (m - 1)
    <3>1. \A z \in s : y >= z
      BY <2>2
    <3>2. QED
      BY <3>1
  <2>3. QED
    <3>1. \A z \in s : z \in Int
      OBVIOUS
    <3>2. n - (m - 1) \in Int
      OBVIOUS
    <3>3. \A z \in s : z >= n - (m - 1) \/ z < n - (m - 1)
      BY <3>1, <3>2
    <3> HIDE DEF HasMax
    <3>4. QED
      BY <2>1, <2>2, <3>3
<1>3. n \in I
  <2> HIDE DEF I
  <2>1. QED
    BY <1>1, <1>2, BoundedInduction
<1>4. \E y \in s : y >= n - n
  <2>1. PICK y \in s : y \in 1 .. n
    OBVIOUS
  <2>2. y >= n - n
    BY <2>1
  <2>3. QED
    BY <2>2
<1>5. HasMax
  <2> HIDE DEF HasMax
  <2>1. QED
    BY <1>3, <1>4
<1>6. QED
  BY <1>5 DEF Greatest

\* The last of the first positions is the greatest of them.
LEMMA GreatestOfFirst ==
    ASSUME NEW i \in Nat, i >= 1
    PROVE  Greatest(1 .. i) = i /\ (1 .. i) \ {i} = 1 .. (i - 1) /\ 1 .. i # {}
<1>1. i \in 1 .. i /\ 1 .. i # {}
  OBVIOUS
<1>2. Greatest(1 .. i) \in 1 .. i /\ Greatest(1 .. i) >= i
  BY <1>1, GreatestExists
<1>3. QED
  BY <1>1, <1>2

\* What a function of the sets of positions has to be: a step for the greatest one, after
\* the steps for all others.
Folding(g, n, base, step) ==
    \A s \in SUBSET (1 .. n) :
        g[s] = IF s = {} THEN base ELSE step[<<g[s \ {Greatest(s)}], Greatest(s)>>]

\* There is such a function.
LEMMA FoldExists ==
    ASSUME NEW n \in Nat, NEW A, NEW base \in A, NEW step \in [A \X (1 .. n) -> A]
    PROVE  \E g \in [SUBSET (1 .. n) -> A] : Folding(g, n, base, step)
<1> DEFINE S == SUBSET (1 .. n)
<1> DEFINE Level(m) == {s \in S : \A y \in s : y <= m}
<1> DEFINE Value(g, s) == IF s = {} THEN base ELSE step[<<g[s \ {Greatest(s)}], Greatest(s)>>]
<1> DEFINE IsFold(g, D) == g \in [D -> A] /\ \A s \in D : g[s] = Value(g, s)
<1> DEFINE T == {m \in 0 .. n : \E g : IsFold(g, Level(m))}
<1>1. 0 \in T
  <2> DEFINE g == [s \in Level(0) |-> base]
  <2>1. \A s \in Level(0) : s = {}
    OBVIOUS
  <2>2. g \in [Level(0) -> A]
    <3> HIDE DEF Level
    <3>1. QED
      OBVIOUS
  <2>3. \A s \in Level(0) : g[s] = Value(g, s)
    <3> HIDE DEF Level
    <3>1. QED
      BY <2>1
  <2>4. \E h : IsFold(h, Level(0))
    <3> HIDE DEF Level, g, Value
    <3>1. QED
      BY <2>2, <2>3
  <2>5. 0 \in 0 .. n
    OBVIOUS
  <2> HIDE DEF IsFold, Level
  <2>6. QED
    BY <2>4, <2>5
<1>2. \A m \in 1 .. n : m - 1 \in T => m \in T
  <2> TAKE m \in 1 .. n
  <2> HAVE m - 1 \in T
  <2>0. PICK g : IsFold(g, Level(m - 1))
    <3> HIDE DEF IsFold, Level
    <3>1. QED
      OBVIOUS
  <2> DEFINE h == [s \in Level(m) |-> Value(g, s)]
  <2>1. \A s \in Level(m) : s # {} =>
           /\ Greatest(s) \in 1 .. n
           /\ s \ {Greatest(s)} \in Level(m - 1) /\ s \ {Greatest(s)} \in Level(m)
    <3> SUFFICES ASSUME NEW s \in Level(m), s # {}
                 PROVE  /\ Greatest(s) \in 1 .. n
                        /\ s \ {Greatest(s)} \in Level(m - 1)
                        /\ s \ {Greatest(s)} \in Level(m)
      OBVIOUS
    <3>1. Greatest(s) \in s /\ \A y \in s : Greatest(s) >= y
      BY GreatestExists
    <3>2. \A y \in s : y \in Int /\ y <= m
      OBVIOUS
    <3>3. m \in Int
      OBVIOUS
    <3> HIDE DEF Level, T
    <3>4. \A y \in s \ {Greatest(s)} : y <= m - 1 /\ y <= m
      BY <3>1, <3>2, <3>3
    <3>5. s \in S /\ s \ {Greatest(s)} \in S /\ Greatest(s) \in 1 .. n
      BY <3>1 DEF Level
    <3>6. QED
      BY <3>4, <3>5 DEF Level
  <2>2. g \in [Level(m - 1) -> A] /\ \A s \in Level(m - 1) : g[s] = Value(g, s)
    <3> HIDE DEF Level, Value
    <3>1. QED
      BY <2>0
  <2>3. \A s \in Level(m) : s \in Level(m - 1) => h[s] = g[s]
    <3> HIDE DEF Level, Value
    <3>1. QED
      BY <2>2
  <2>4. \A s \in Level(m) : Value(g, s) \in A
    <3> HIDE DEF Level
    <3>1. QED
      BY <2>1, <2>2
  <2>5. \A s \in Level(m) : Value(g, s) = Value(h, s)
    <3> HIDE DEF Level, h
    <3>1. QED
      BY <2>1, <2>3
  <2>6. h \in [Level(m) -> A] /\ \A s \in Level(m) : h[s] = Value(h, s)
    <3>1. h = [s \in Level(m) |-> Value(g, s)]
      OBVIOUS
    <3>2. \A s \in Level(m) : h[s] = Value(g, s)
      OBVIOUS
    <3>3. \A s \in Level(m) : h[s] = Value(h, s)
      <4> HIDE DEF Level, Value, h
      <4>1. QED
        BY <2>5, <3>2
    <3>4. h \in [Level(m) -> A]
      <4> HIDE DEF Level, Value
      <4>1. QED
        BY <2>4
    <3> HIDE DEF Level, Value, h
    <3>5. QED
      BY <3>3, <3>4
  <2>7. \E f : IsFold(f, Level(m))
    <3> HIDE DEF Level, Value, h
    <3>1. QED
      BY <2>6
  <2>8. m \in 0 .. n
    OBVIOUS
  <2> HIDE DEF IsFold, Level
  <2>9. QED
    BY <2>7, <2>8
<1>3. n \in T
  <2> HIDE DEF T
  <2>1. QED
    BY <1>1, <1>2, BoundedInduction
<1>4. Level(n) = S
  OBVIOUS
<1>5. \E g : IsFold(g, S)
  <2>1. \E g : IsFold(g, Level(n))
    <3> HIDE DEF IsFold, Level
    <3>1. QED
      BY <1>3
  <2> HIDE DEF IsFold, Level, S
  <2>2. QED
    BY <1>4, <2>1
<1>6. QED
  <2> HIDE DEF S
  <2>1. PICK g : IsFold(g, S)
    BY <1>5
  <2>2. g \in [S -> A] /\ \A s \in S : g[s] = Value(g, s)
    <3> HIDE DEF Value
    <3>1. QED
      BY <2>1
  <2>3. g \in [SUBSET (1 .. n) -> A] /\ Folding(g, n, base, step)
    BY <2>2 DEF S, Folding
  <2> HIDE DEF IsFold
  <2>4. QED
    BY <2>3
=============================================================================
