-------------------------- MODULE NumberSetTheorems --------------------------
(***************************************************************************)
(* Facts about finite sets of numbers that several proofs need: the least  *)
(* and the greatest element, and the sum of a function over a finite set,  *)
(* SumFunctionOnSet() of the community modules.  That the recursion in the *)
(* sum is well defined, and its other laws, are shown by looking at a      *)
(* smallest set for which they fail.                                       *)
(***************************************************************************)
EXTENDS Integers, FiniteSetsExt, Functions, FiniteSetTheorems, WellFoundedInduction, TLAPS

\* A set of natural numbers that is not empty has a least element.
LEMMA LeastNatural ==
    ASSUME NEW T, T \subseteq Nat, T # {}
    PROVE  \E x \in T : \A y \in T : x <= y
  <1>1. PICK x \in T : \A y \in T : ~(<<y, x>> \in OpToRel(<, Nat))
    BY NatLessThanWellFounded, WFMin
  <1>2. \A y \in T : ~(y < x)
    BY <1>1 DEF OpToRel
  <1> QED BY <1>2

\* Min() of the community modules is the least element of a set of natural numbers.
LEMMA MinIsLeast ==
    ASSUME NEW T, T \subseteq Nat, T # {}
    PROVE  Min(T) \in T /\ \A y \in T : Min(T) <= y
  BY LeastNatural DEF Min

\* A finite set of numbers that is not empty has a greatest one, Max().
LEMMA GreatestNumber ==
    ASSUME NEW S, IsFiniteSet(S), S \subseteq Int, S # {}
    PROVE  Max(S) \in S /\ \A y \in S : Max(S) >= y
  <1> DEFINE Great(T) == \E x \in T : \A y \in T : x >= y
             Bad == {T \in SUBSET S : T # {} /\ ~Great(T)}
  <1>1. ASSUME Bad # {} PROVE FALSE
    <2>1. IsWellFoundedOn(StrictSubsetOrdering(S), SUBSET S)
      BY FS_StrictSubsetOrderingWellFounded, FS_FiniteSubsetsOfFinite
    <2>2. PICK T \in Bad : \A U \in Bad : ~(<<U, T>> \in StrictSubsetOrdering(S))
      BY <1>1, <2>1, WFMin
    <2>3. PICK x \in T : TRUE
      OBVIOUS
    <2>4. T \ {x} \notin Bad
      BY <2>2, <2>3 DEF StrictSubsetOrdering
    <2>5. CASE T = {x}
      BY <2>3, <2>5
    <2>6. CASE T # {x}
      <3>1. Great(T \ {x})
        BY <2>3, <2>4, <2>6
      <3>2. PICK m \in T \ {x} : \A y \in T \ {x} : m >= y
        BY <3>1
      <3>3. m \in Int /\ x \in Int /\ \A y \in T : y \in Int
        BY <2>3, <3>2
      <3>4. CASE m >= x
        BY <2>3, <3>2, <3>3, <3>4
      <3>5. CASE x >= m
        BY <2>3, <3>2, <3>3, <3>5
      <3> QED BY <3>3, <3>4, <3>5
    <2> QED BY <2>5, <2>6
  <1>2. Great(S)
    BY <1>1
  <1> QED
    BY <1>2 DEF Max

-----------------------------------------------------------------------------
\* One step of the fold that SumFunctionOnSet() is.
SumStep(f, g, s) == IF s = {} THEN 0 ELSE LET x == CHOOSE x \in s : TRUE IN f[x] + g[s \ {x}]

\* The fold, as a function on the subsets of S.
SumIter(f, S) == CHOOSE g : g = [s \in SUBSET S |-> SumStep(f, g, s)]

\* SumFunctionOnSet() as a function on the subsets of the set.
LEMMA SumIs ==
    ASSUME NEW f, NEW S
    PROVE  SumFunctionOnSet(f, S) = SumIter(f, S)[S]
  BY DEF SumFunctionOnSet, FoldFunctionOnSet, MapThenFoldSet, SumIter, SumStep

\* The recursion of the sum has a solution.
LEMMA SumDefined ==
    ASSUME NEW f, NEW S, IsFiniteSet(S)
    PROVE  \A s \in SUBSET S : SumIter(f, S)[s] = SumStep(f, SumIter(f, S), s)
  <1> DEFINE Upto(n) == {s \in SUBSET S : Cardinality(s) <= n}
             Good(n) == \E g : g = [s \in Upto(n) |-> SumStep(f, g, s)]
             Bad == {n \in Nat : ~Good(n)}
  <1>1. \A s \in SUBSET S : IsFiniteSet(s) /\ Cardinality(s) \in Nat
    BY FS_Subset, FS_CardinalityType
  <1>2. \A s \in SUBSET S : s # {} =>
           LET x == CHOOSE x \in s : TRUE
           IN  s \ {x} \in SUBSET S /\ Cardinality(s \ {x}) = Cardinality(s) - 1
    BY <1>1, FS_RemoveElement
  <1>3. Good(0)
    <2> DEFINE g == [s \in Upto(0) |-> 0]
    <2>1. \A s \in Upto(0) : s = {}
      BY <1>1, FS_EmptySet
    <2>2. g = [s \in Upto(0) |-> SumStep(f, g, s)]
      BY <2>1 DEF SumStep
    <2> QED BY <2>2
  <1>4. ASSUME NEW n \in Nat, Good(n) PROVE Good(n + 1)
    <2>1. PICK g : g = [s \in Upto(n) |-> SumStep(f, g, s)]
      BY <1>4
    <2> DEFINE k == [s \in Upto(n + 1) |-> SumStep(f, g, s)]
    <2>2. ASSUME NEW s \in Upto(n + 1) PROVE SumStep(f, g, s) = SumStep(f, k, s)
      <3>1. CASE s = {}
        BY <3>1 DEF SumStep
      <3>2. CASE s # {}
        <4> DEFINE x == CHOOSE x \in s : TRUE
        <4>1. s \ {x} \in Upto(n) /\ s \ {x} \in Upto(n + 1)
          BY <1>1, <1>2, <3>2
        <4>2. k[s \ {x}] = g[s \ {x}]
          <5>1. g[s \ {x}] = SumStep(f, g, s \ {x})
            BY <2>1, <4>1
          <5> QED BY <4>1, <5>1
        <4> QED BY <4>2, <3>2 DEF SumStep
      <3> QED BY <3>1, <3>2
    <2>3. k = [s \in Upto(n + 1) |-> SumStep(f, k, s)]
      BY <2>2
    <2> QED BY <2>3
  <1>5. ASSUME Bad # {} PROVE FALSE
    <2>1. PICK n \in Bad : \A m \in Bad : n <= m
      BY <1>5, LeastNatural
    <2> HIDE DEF Good
    <2>2. n # 0
      BY <1>3
    <2>3. n - 1 \in Nat /\ n - 1 \notin Bad
      BY <2>1, <2>2
    <2>4. Good(n)
      BY <2>3, <1>4
    <2> QED BY <2>4
  <1>6. Good(Cardinality(S))
    <2> HIDE DEF Good
    <2> QED BY <1>1, <1>5
  <1>7. Upto(Cardinality(S)) = SUBSET S
    BY FS_Subset
  <1>8. \E g : g = [s \in SUBSET S |-> SumStep(f, g, s)]
    BY <1>6, <1>7
  <1> DEFINE G == SumIter(f, S)
  <1>9. G = [s \in SUBSET S |-> SumStep(f, G, s)]
    BY <1>8 DEF SumIter
  <1> HIDE DEF G
  <1>10. \A s \in SUBSET S : G[s] = SumStep(f, G, s)
    BY <1>9
  <1> QED BY <1>10 DEF G

\* A set of subsets of a finite set has a minimal element.
LEMMA MinimalSubset ==
    ASSUME NEW S, IsFiniteSet(S), NEW Bad \in SUBSET SUBSET S, Bad # {}
    PROVE  \E s \in Bad : \A u \in SUBSET s : u # s => u \notin Bad
  <1>1. IsWellFoundedOn(StrictSubsetOrdering(S), SUBSET S)
    BY FS_StrictSubsetOrderingWellFounded, FS_FiniteSubsetsOfFinite
  <1>2. PICK s \in Bad : \A u \in Bad : ~(<<u, s>> \in StrictSubsetOrdering(S))
    BY <1>1, WFMin
  <1>3. \A u \in SUBSET s : u # s => u \notin Bad
    BY <1>2 DEF StrictSubsetOrdering
  <1> QED BY <1>3

\* A sum depends on the values that it adds, and on nothing else.
LEMMA SumLocal ==
    ASSUME NEW f, NEW g, NEW S, IsFiniteSet(S), NEW T \in SUBSET S,
           \A x \in T : f[x] = g[x]
    PROVE  SumIter(f, S)[T] = SumIter(g, T)[T]
  <1> DEFINE Bad == {s \in SUBSET T : SumIter(f, S)[s] # SumIter(g, T)[s]}
  <1>1. IsFiniteSet(T)
    BY FS_Subset
  <1>2. \A s \in SUBSET T : /\ SumIter(f, S)[s] = SumStep(f, SumIter(f, S), s)
                            /\ SumIter(g, T)[s] = SumStep(g, SumIter(g, T), s)
    BY <1>1, SumDefined
  <1>3. ASSUME Bad # {} PROVE FALSE
    <2>0. Bad \in SUBSET SUBSET T
      OBVIOUS
    <2> HIDE DEF Bad
    <2>1. PICK s \in Bad : \A u \in SUBSET s : u # s => u \notin Bad
      BY <2>0, <1>1, <1>3, MinimalSubset
    <2> USE DEF Bad
    <2>2. s # {}
      BY <1>2, <2>1 DEF SumStep
    <2> DEFINE x == CHOOSE x \in s : TRUE
    <2>3. SumIter(f, S)[s \ {x}] = SumIter(g, T)[s \ {x}]
      BY <2>1, <2>2
    <2>4. SumStep(f, SumIter(f, S), s) = SumStep(g, SumIter(g, T), s)
      BY <2>2, <2>3 DEF SumStep
    <2> QED BY <1>2, <2>1, <2>4
  <1> QED BY <1>3

\* The sum of no values.
LEMMA SumOfNone ==
    ASSUME NEW f
    PROVE  SumFunctionOnSet(f, {}) = 0
  <1>1. SumIter(f, {})[{}] = SumStep(f, SumIter(f, {}), {})
    BY SumDefined, FS_EmptySet
  <1> QED BY <1>1, SumIs DEF SumStep

\* Two functions that agree have the same sum.
LEMMA SumSame ==
    ASSUME NEW f, NEW g, NEW S, IsFiniteSet(S), \A x \in S : f[x] = g[x]
    PROVE  SumFunctionOnSet(f, S) = SumFunctionOnSet(g, S)
  BY SumLocal, SumIs

\* The sum of integers is an integer, and the order of the terms is of no matter.
LEMMA SumSplit ==
    ASSUME NEW f, NEW S, IsFiniteSet(S), \A x \in S : f[x] \in Int
    PROVE  /\ SumFunctionOnSet(f, S) \in Int
           /\ \A x \in S : SumFunctionOnSet(f, S) = f[x] + SumFunctionOnSet(f, S \ {x})
  <1> DEFINE G == SumIter(f, S)
             Fine(s) == G[s] \in Int /\ \A x \in s : G[s] = f[x] + G[s \ {x}]
             Bad == {s \in SUBSET S : ~Fine(s)}
  <1>1. \A s \in SUBSET S : G[s] = SumStep(f, G, s)
    BY SumDefined
  <1>2. ASSUME Bad # {} PROVE FALSE
    <2>0. Bad \in SUBSET SUBSET S
      OBVIOUS
    <2> HIDE DEF Bad
    <2>1. PICK s \in Bad : \A u \in SUBSET s : u # s => u \notin Bad
      BY <2>0, <1>2, MinimalSubset
    <2> USE DEF Bad
    <2> HIDE DEF G
    <2>2. CASE s = {}
      <3>1. G[s] = 0
        BY <1>1, <2>1, <2>2 DEF SumStep
      <3> QED BY <2>1, <2>2, <3>1
    <2>3. CASE s # {}
      <3> DEFINE x == CHOOSE x \in s : TRUE
      <3>1. x \in s /\ G[s] = f[x] + G[s \ {x}]
        BY <1>1, <2>3 DEF SumStep
      <3> HIDE DEF x
      <3>2. \A y \in s : s \ {y} \in SUBSET S /\ Fine(s \ {y})
        BY <2>1
      <3>3. G[s] \in Int
        BY <3>1, <3>2
      <3>4. ASSUME NEW y \in s PROVE G[s] = f[y] + G[s \ {y}]
        <4>1. CASE y = x
          BY <3>1, <4>1
        <4>2. CASE y # x
          <5>1. G[s \ {x}] = f[y] + G[(s \ {x}) \ {y}]
            BY <3>1, <3>2, <4>2
          <5>2. G[s \ {y}] = f[x] + G[(s \ {y}) \ {x}]
            BY <3>1, <3>2, <4>2
          <5>3. (s \ {x}) \ {y} = (s \ {y}) \ {x}
            OBVIOUS
          <5>4. y \in s \ {x} /\ x \in s \ {y}
            BY <3>1, <4>2
          <5>6. G[s \ {x}] \in Int /\ G[s \ {y}] \in Int /\ f[x] \in Int /\ f[y] \in Int
            BY <3>1, <3>2
          <5>7. G[(s \ {x}) \ {y}] \in Int
            <6> DEFINE u == (s \ {x}) \ {y}
            <6>1. u \in SUBSET s /\ u # s
              BY <3>1
            <6>2. u \in SUBSET S /\ u \notin Bad
              BY <2>1, <6>1
            <6> QED BY <6>2
          <5> QED BY <3>1, <5>1, <5>2, <5>3, <5>6, <5>7
        <4> QED BY <4>1, <4>2
      <3> QED BY <2>1, <3>3, <3>4
    <2> QED BY <2>2, <2>3
  <1>3. \A x \in S : G[S \ {x}] = SumFunctionOnSet(f, S \ {x})
    BY SumLocal, SumIs
  <1>4. Fine(S)
    <2> HIDE DEF Fine
    <2> QED BY <1>2
  <1> HIDE DEF G
  <1>5. SumFunctionOnSet(f, S) = G[S]
    BY SumIs DEF G
  <1> QED BY <1>3, <1>4, <1>5

\* The sum of one value.
LEMMA SumOfOne ==
    ASSUME NEW f, NEW x, f[x] \in Int
    PROVE  SumFunctionOnSet(f, {x}) = f[x]
  <1>1. SumFunctionOnSet(f, {x}) = f[x] + SumFunctionOnSet(f, {x} \ {x})
    BY FS_Singleton, SumSplit
  <1>2. {x} \ {x} = {}
    OBVIOUS
  <1> QED BY <1>1, <1>2, SumOfNone

\* The sum of natural numbers is one.
LEMMA SumNatural ==
    ASSUME NEW f, NEW S, IsFiniteSet(S), \A x \in S : f[x] \in Nat
    PROVE  SumFunctionOnSet(f, S) \in Nat
  <1> DEFINE Bad == {s \in SUBSET S : SumFunctionOnSet(f, s) \notin Nat}
  <1>1. ASSUME Bad # {} PROVE FALSE
    <2>0. Bad \in SUBSET SUBSET S
      OBVIOUS
    <2> HIDE DEF Bad
    <2>1. PICK s \in Bad : \A u \in SUBSET s : u # s => u \notin Bad
      BY <2>0, <1>1, MinimalSubset
    <2> USE DEF Bad
    <2>a. SumFunctionOnSet(f, {}) \in Nat
      BY SumOfNone
    <2>2. s # {}
      BY <2>1, <2>a
    <2>3. PICK x \in s : TRUE
      BY <2>2
    <2>4. IsFiniteSet(s) /\ \A y \in s : f[y] \in Int
      BY FS_Subset
    <2>5. SumFunctionOnSet(f, s) = f[x] + SumFunctionOnSet(f, s \ {x})
      BY <2>4, SumSplit
    <2>6. s \ {x} \in SUBSET s /\ s \ {x} # s /\ s \ {x} \in SUBSET S
      BY <2>3
    <2>7. SumFunctionOnSet(f, s \ {x}) \in Nat
      BY <2>1, <2>6
    <2>8. f[x] \in Nat
      OBVIOUS
    <2> QED BY <2>1, <2>5, <2>7, <2>8
  <1>2. S \notin Bad
    BY <1>1
  <1> QED BY <1>2

\* Max() and Min() of two numbers.
LEMMA MaxMinOfTwo ==
    ASSUME NEW a \in Int, NEW b \in Int
    PROVE  /\ Max({a, b}) = IF a >= b THEN a ELSE b
           /\ Min({a, b}) = IF a <= b THEN a ELSE b
  <1>1. /\ \A x \in {a, b} : (\A y \in {a, b} : x >= y) => x = IF a >= b THEN a ELSE b
        /\ \A x \in {a, b} : (\A y \in {a, b} : x <= y) => x = IF a <= b THEN a ELSE b
    OBVIOUS
  <1>2. /\ \E x \in {a, b} : \A y \in {a, b} : x >= y
        /\ \E x \in {a, b} : \A y \in {a, b} : x <= y
    OBVIOUS
  <1> QED BY <1>1, <1>2 DEF Max, Min

\* A finite set of numbers can be put in order.
LEMMA InAscendingOrder ==
    ASSUME NEW S, IsFiniteSet(S), S \subseteq Int
    PROVE  \E s \in [1..Cardinality(S) -> S] : \A i, j \in DOMAIN s : i < j => s[i] < s[j]
  <1> DEFINE Asc(s) == \A i, j \in DOMAIN s : i < j => s[i] < s[j]
             Bad == {T \in SUBSET S : ~\E s \in [1..Cardinality(T) -> T] : Asc(s)}
  <1>1. ASSUME Bad # {} PROVE FALSE
    <2>1. IsWellFoundedOn(StrictSubsetOrdering(S), SUBSET S)
      BY FS_StrictSubsetOrderingWellFounded, FS_FiniteSubsetsOfFinite
    <2>2. PICK T \in Bad : \A U \in Bad : ~(<<U, T>> \in StrictSubsetOrdering(S))
      BY <1>1, <2>1, WFMin
    <2>3. T \in SUBSET S /\ IsFiniteSet(T) /\ T \subseteq Int
      BY FS_Subset
    <2>4. T # {}
      <3>1. SUFFICES ASSUME T = {} PROVE FALSE
        OBVIOUS
      <3>2. Cardinality(T) = 0
        BY <3>1, FS_EmptySet
      <3> DEFINE s == [i \in 1..0 |-> 0]
      <3>3. s \in [1..0 -> T] /\ Asc(s)
        BY <3>1
      <3> HIDE DEF s, Asc
      <3> QED BY <3>2, <3>3
    <2> DEFINE x == Max(T)
               U == T \ {x}
               n == Cardinality(U)
    <2>5. x \in T /\ \A y \in T : x >= y
      BY <2>3, <2>4, GreatestNumber
    <2> HIDE DEF x
    <2>6. IsFiniteSet(U) /\ Cardinality(T) = n + 1 /\ n \in Nat
      <3>1. IsFiniteSet(U) /\ Cardinality(U) = Cardinality(T) - 1
        BY <2>3, <2>5, FS_RemoveElement
      <3>2. Cardinality(U) \in Nat /\ Cardinality(T) \in Nat
        BY <2>3, <3>1, FS_CardinalityType
      <3> QED BY <3>1, <3>2
    <2>7. U \notin Bad
      <3>1. U \in SUBSET S /\ U \subseteq T /\ U # T
        BY <2>3, <2>5
      <3>2. <<U, T>> \in StrictSubsetOrdering(S)
        <4> HIDE DEF U
        <4> QED BY <2>3, <3>1 DEF StrictSubsetOrdering
      <3> HIDE DEF Bad
      <3> QED BY <2>2, <3>2
    <2>8. PICK s \in [1..n -> U] : Asc(s)
      BY <2>3, <2>7
    <2> HIDE DEF n
    <2> DEFINE t == [i \in 1..n + 1 |-> IF i = n + 1 THEN x ELSE s[i]]
    <2>9. t \in [1..n + 1 -> T]
      BY <2>5, <2>6, <2>8
    <2>10. ASSUME NEW i \in 1..n + 1, NEW j \in 1..n + 1, i < j PROVE t[i] < t[j]
      <3>1. i \in 1..n /\ t[i] = s[i] /\ s[i] \in U
        BY <2>6, <2>8, <2>10
      <3>2. CASE j = n + 1
        <4>1. t[j] = x /\ s[i] # x /\ s[i] <= x /\ s[i] \in Int /\ x \in Int
          BY <2>3, <2>5, <3>1, <3>2
        <4> QED BY <3>1, <4>1
      <3>3. CASE j # n + 1
        <4>1. j \in 1..n /\ t[j] = s[j]
          BY <2>6, <3>3
        <4> QED BY <2>8, <2>10, <3>1, <4>1
      <3> QED BY <3>2, <3>3
    <2>11. DOMAIN t = 1..n + 1
      OBVIOUS
    <2> HIDE DEF t
    <2>12. t \in [1..Cardinality(T) -> T] /\ Asc(t)
      BY <2>6, <2>9, <2>10, <2>11
    <2> QED BY <2>12
  <1>2. S \notin Bad
    BY <1>1
  <1> QED BY <1>2

=============================================================================
