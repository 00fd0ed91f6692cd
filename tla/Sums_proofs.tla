---------------------------- MODULE Sums_proofs ----------------------------
(***************************************************************************)
(* Sums of natural numbers, which count messages and sessions in several   *)
(* places: what a fold by + over a finite domain is worth, and how it      *)
(* changes with the function it folds.                                     *)
(***************************************************************************)
EXTENDS Integers, FiniteSets, Functions, FiniteSetTheorems, TLAPS

\* Every set of natural numbers that is not empty has a least one.
LEMMA LeastNumber ==
    ASSUME NEW T \in SUBSET Nat, T # {}
    PROVE  \E n \in T : \A m \in T : n <= m
<1> DEFINE R == StrictSubsetOrdering(Nat)
           S == FiniteSubsetsOf(Nat)
           U == {1 .. n : n \in T}
<1>1. IsWellFoundedOn(R, S)
  BY FS_StrictSubsetOrderingWellFounded
<1>2. U \subseteq S
  <2> SUFFICES ASSUME NEW n \in T PROVE 1 .. n \in S
    OBVIOUS
  <2>1. n \in Int /\ 1 \in Int
    OBVIOUS
  <2>2. IsFiniteSet(1 .. n)
    BY <2>1, FS_Interval
  <2> QED
    BY <2>2 DEF FiniteSubsetsOf
<1>3. U # {}
  OBVIOUS
<1> HIDE DEF R, S
<1>4. PICK x \in U : \A y \in U : ~ (<<y, x>> \in R)
  BY <1>1, <1>2, <1>3, WFMin
<1>5. PICK n \in T : x = 1 .. n
  OBVIOUS
<1>6. ASSUME NEW m \in T, m < n PROVE FALSE
  <2>1. 1 .. m \subseteq 1 .. n /\ n \in 1 .. n /\ n \notin 1 .. m
    BY <1>6
  <2>2. 1 .. m \in U /\ <<1 .. m, x>> \in R
    BY <1>5, <2>1 DEF R, StrictSubsetOrdering
  <2> QED
    BY <1>4, <2>2
<1>7. \A m \in T : n <= m
  BY <1>6
<1> QED
  BY <1>7

\* Induction on a natural number.
LEMMA NumberInduction ==
    ASSUME NEW T, 0 \in T, \A n \in Nat : n \in T => n + 1 \in T
    PROVE  Nat \subseteq T
<1> SUFFICES ASSUME Nat \ T # {} PROVE FALSE
  OBVIOUS
<1>1. PICK n \in Nat \ T : \A m \in Nat \ T : n <= m
  BY LeastNumber
<1>2. n # 0 /\ n - 1 \in Nat
  BY <1>1
<1>3. n - 1 \in T
  BY <1>1, <1>2
<1> QED
  BY <1>2, <1>3

\* The value a fold by + gives to the subsets of the set it folds over.
Folds(iter, f, S) ==
    iter = [T \in SUBSET S |->
               IF T = {} THEN 0
               ELSE f[CHOOSE x \in T : TRUE] + iter[T \ {CHOOSE x \in T : TRUE}]]

\* The recursion of a fold has a solution over a finite set.
LEMMA FoldExists ==
    ASSUME NEW f, NEW S, IsFiniteSet(S)
    PROVE  \E iter : Folds(iter, f, S)
<1> DEFINE Small(n) == {T \in SUBSET S : Cardinality(T) <= n}
           First(T) == CHOOSE x \in T : TRUE
           Next(g, T) == IF T = {} THEN 0 ELSE f[First(T)] + g[T \ {First(T)}]
           Good == {n \in Nat : \E g : g = [T \in Small(n) |-> Next(g, T)]}
<1>1. \A T \in SUBSET S : IsFiniteSet(T) /\ Cardinality(T) \in Nat /\ Cardinality(T) <= Cardinality(S)
  BY FS_Subset, FS_CardinalityType
<1>2. \A T \in SUBSET S : T # {} => /\ T \ {First(T)} \in SUBSET S
                                    /\ Cardinality(T \ {First(T)}) = Cardinality(T) - 1
  BY <1>1, FS_RemoveElement
<1> HIDE DEF First
<1>3. 0 \in Good
  <2>1. \A T \in Small(0) : T = {}
    BY <1>1, FS_EmptySet
  <2>2. [T \in Small(0) |-> 0] = [T \in Small(0) |-> Next([U \in Small(0) |-> 0], T)]
    BY <2>1
  <2> QED
    BY <2>2
<1>4. ASSUME NEW n \in Nat, n \in Good PROVE n + 1 \in Good
  <2>1. PICK g : g = [T \in Small(n) |-> Next(g, T)]
    BY <1>4
  <2> DEFINE h == [T \in Small(n + 1) |-> IF T \in Small(n) THEN g[T] ELSE Next(g, T)]
  <2>2. ASSUME NEW T \in Small(n + 1), T # {} PROVE T \ {First(T)} \in Small(n) /\ T \ {First(T)} \in Small(n + 1)
    BY <1>1, <1>2, <2>2
  <2>3. \A T \in Small(n) : T \in Small(n + 1)
    BY <1>1
  <2>4. ASSUME NEW T \in Small(n + 1) PROVE h[T] = Next(h, T)
    <3>1. T # {} => h[T \ {First(T)}] = g[T \ {First(T)}]
      BY <2>2
    <3>2. Next(h, T) = Next(g, T)
      BY <3>1
    <3>3. T \in Small(n) => g[T] = Next(g, T)
      BY <2>1
    <3> QED
      BY <3>2, <3>3
  <2>5. h = [T \in Small(n + 1) |-> h[T]]
    OBVIOUS
  <2>6. h = [T \in Small(n + 1) |-> Next(h, T)]
    BY <2>4, <2>5, Zenon
  <2> HIDE DEF h, Small, Next
  <2>7. \E k : k = [T \in Small(n + 1) |-> Next(k, T)]
    BY <2>6
  <2> QED
    BY <2>7
<1>5. Cardinality(S) \in Good
  BY <1>1, <1>3, <1>4, NumberInduction
<1>6. Small(Cardinality(S)) = SUBSET S
  BY <1>1
<1> QED
  BY <1>5, <1>6 DEF Folds, First

\* What FoldFunctionOnSet computes is a value of that solution.
LEMMA FoldIs ==
    ASSUME NEW f, NEW S, IsFiniteSet(S)
    PROVE  \E iter : Folds(iter, f, S) /\ FoldFunctionOnSet(+, 0, f, S) = iter[S]
<1> DEFINE it == CHOOSE iter : Folds(iter, f, S)
<1>1. Folds(it, f, S)
  BY FoldExists
<1>2. FoldFunctionOnSet(+, 0, f, S) = it[S]
  BY DEF FoldFunctionOnSet, MapThenFoldSet, Folds
<1> QED
  BY <1>1, <1>2

\* Induction on the subsets of a finite set.
LEMMA SubsetInduction ==
    ASSUME NEW S, IsFiniteSet(S), NEW Good,
           \A T \in SUBSET S : (\A U \in SUBSET T : U # T => U \in Good) => T \in Good
    PROVE  SUBSET S \subseteq Good
<1> SUFFICES ASSUME (SUBSET S) \ Good # {} PROVE FALSE
  OBVIOUS
<1> DEFINE R == StrictSubsetOrdering(S)
           Bad == (SUBSET S) \ Good
<1>1. IsWellFoundedOn(R, SUBSET S)
  <2>1. FiniteSubsetsOf(S) = SUBSET S
    BY FS_FiniteSubsetsOfFinite
  <2>2. IsWellFoundedOn(R, FiniteSubsetsOf(S))
    BY FS_StrictSubsetOrderingWellFounded
  <2> QED
    BY <2>1, <2>2
<1>b. Bad \subseteq SUBSET S /\ Bad # {}
  OBVIOUS
<1> HIDE DEF R, Bad
<1>p. \E T \in Bad : \A U \in Bad : ~ (<<U, T>> \in R)
  BY <1>1, <1>b, WFMin
<1>2. PICK T \in (SUBSET S) \ Good : \A U \in (SUBSET S) \ Good : ~ (<<U, T>> \in R)
  BY <1>p DEF Bad
<1>3. ASSUME NEW U \in SUBSET T, U # T PROVE U \in Good
  BY <1>2, <1>3 DEF R, StrictSubsetOrdering
<1> QED
  BY <1>2, <1>3

\* A sum does not depend on the order in which its terms are added.
LEMMA FoldTakes ==
    ASSUME NEW S, IsFiniteSet(S), NEW f, \A x \in S : f[x] \in Nat, NEW iter, Folds(iter, f, S)
    PROVE  \A T \in SUBSET S :
              /\ T = {} => iter[T] = 0
              /\ iter[T] \in Nat
              /\ \A x \in T : iter[T] = f[x] + iter[T \ {x}]
<1> DEFINE Right(T) == iter[T] \in Nat /\ \A x \in T : iter[T] = f[x] + iter[T \ {x}]
           Good == {T \in SUBSET S : Right(T)}
           First(T) == CHOOSE x \in T : TRUE
<1>1. \A T \in SUBSET S : iter[T] = IF T = {} THEN 0 ELSE f[First(T)] + iter[T \ {First(T)}]
  BY DEF Folds
<1>2. \A T \in SUBSET S : T # {} => First(T) \in T
  OBVIOUS
<1> HIDE DEF First
<1>3. ASSUME NEW T \in SUBSET S, \A U \in SUBSET T : U # T => U \in Good PROVE T \in Good
  <2>1. CASE T = {}
    <3>1. iter[T] = 0 /\ \A x \in T : FALSE
      BY <1>1, <2>1
    <3> QED
      BY <3>1
  <2>2. CASE T # {}
    <3>1. PICK y \in T : iter[T] = f[y] + iter[T \ {y}]
      BY <1>1, <1>2, <2>2
    <3>2. ASSUME NEW x \in T PROVE Right(T \ {x})
      <4>1. T \ {x} \in SUBSET T /\ T \ {x} # T
        OBVIOUS
      <4> QED
        BY <1>3, <4>1
    <3>3. iter[T] \in Nat
      <4>1. iter[T \ {y}] \in Nat /\ f[y] \in Nat
        BY <3>2
      <4> HIDE DEF Right, Good
      <4> QED
        BY <3>1, <4>1
    <3>4. ASSUME NEW x \in T, x # y PROVE iter[T] = f[x] + iter[T \ {x}]
      <4>1. iter[T \ {y}] = f[x] + iter[(T \ {y}) \ {x}]
        BY <3>2, <3>4
      <4>2. iter[T \ {x}] = f[y] + iter[(T \ {x}) \ {y}]
        BY <3>2, <3>4
      <4>3. (T \ {y}) \ {x} = (T \ {x}) \ {y}
        OBVIOUS
      <4>4. Right((T \ {x}) \ {y})
        <5>1. (T \ {x}) \ {y} \in SUBSET T /\ (T \ {x}) \ {y} # T
          OBVIOUS
        <5> QED
          BY <1>3, <5>1
      <4>5. PICK c \in Nat : c = iter[(T \ {x}) \ {y}]
        BY <4>4
      <4>6. f[x] \in Nat /\ f[y] \in Nat
        OBVIOUS
      <4>7. iter[T \ {y}] = f[x] + c
        BY <4>1, <4>3, <4>5
      <4>8. iter[T \ {x}] = f[y] + c
        BY <4>2, <4>5
      <4> HIDE DEF Right, Good
      <4> QED
        BY <3>1, <4>6, <4>7, <4>8
    <3> QED
      BY <3>1, <3>3, <3>4
  <2> QED
    BY <2>1, <2>2
<1> HIDE DEF Good
<1>4. SUBSET S \subseteq Good
  BY <1>3, SubsetInduction
<1> QED
  BY <1>1, <1>4 DEF Good

-----------------------------------------------------------------------------
(* Sums *)

\* The sum of the values of a function.
Sum(f) == FoldFunction(+, 0, f)

\* What a sum is taken from: a value for each part of the domain, from which
\* the terms can be taken in any order.
Parts(iter, f, D) ==
    \A T \in SUBSET D :
        /\ T = {} => iter[T] = 0
        /\ iter[T] \in Nat
        /\ \A x \in T : iter[T] = f[x] + iter[T \ {x}]

LEMMA SumParts ==
    ASSUME NEW D, IsFiniteSet(D), NEW f \in [D -> Nat]
    PROVE  \E iter : Parts(iter, f, D) /\ Sum(f) = iter[D]
<1>1. PICK iter : Folds(iter, f, D) /\ Sum(f) = iter[D]
  BY FoldIs DEF Sum, FoldFunction
<1>2. \A x \in D : f[x] \in Nat
  OBVIOUS
<1>3. Parts(iter, f, D)
  BY <1>1, <1>2, FoldTakes DEF Parts
<1> QED
  BY <1>1, <1>3

\* A sum of natural numbers is one, and is zero when they are.
LEMMA SumTyped ==
    ASSUME NEW D, IsFiniteSet(D), NEW f \in [D -> Nat]
    PROVE  Sum(f) \in Nat /\ ((\A d \in D : f[d] = 0) => Sum(f) = 0)
<1>1. PICK iter : Parts(iter, f, D) /\ Sum(f) = iter[D]
  BY SumParts
<1>2. \A T \in SUBSET D :
         /\ T = {} => iter[T] = 0
         /\ iter[T] \in Nat
         /\ \A x \in T : iter[T] = f[x] + iter[T \ {x}]
  BY <1>1 DEF Parts
<1>3. ASSUME \A d \in D : f[d] = 0 PROVE iter[D] = 0
  <2> DEFINE Good == {T \in SUBSET D : iter[T] = 0}
  <2>1. ASSUME NEW T \in SUBSET D, \A U \in SUBSET T : U # T => U \in Good PROVE T \in Good
    <3>1. CASE T = {}
      BY <1>2, <3>1
    <3>2. ASSUME NEW x \in T PROVE T \in Good
      <4>1. iter[T] = f[x] + iter[T \ {x}] /\ T \ {x} \in Good
        BY <1>2, <2>1
      <4> QED
        BY <1>3, <4>1
    <3> QED
      BY <3>1, <3>2
  <2> HIDE DEF Good
  <2>2. SUBSET D \subseteq Good
    BY <2>1, SubsetInduction
  <2> QED
    BY <2>2 DEF Good
<1> QED
  BY <1>1, <1>2, <1>3

\* One more in one place is one more in the sum.
LEMMA SumAdds ==
    ASSUME NEW D, IsFiniteSet(D), NEW f \in [D -> Nat], NEW d \in D
    PROVE  Sum([f EXCEPT ![d] = @ + 1]) = Sum(f) + 1
<1> DEFINE g == [f EXCEPT ![d] = @ + 1]
<1>0. g \in [D -> Nat] /\ g[d] = f[d] + 1 /\ \A x \in D : x # d => g[x] = f[x]
  OBVIOUS
<1> HIDE DEF g
<1>1. PICK i : Parts(i, f, D) /\ Sum(f) = i[D]
  BY SumParts
<1>2. PICK j : Parts(j, g, D) /\ Sum(g) = j[D]
  BY <1>0, SumParts
<1>3. \A T \in SUBSET D : /\ i[T] \in Nat /\ (T = {} => i[T] = 0)
                          /\ \A x \in T : i[T] = f[x] + i[T \ {x}]
  BY <1>1 DEF Parts
<1>4. \A T \in SUBSET D : /\ j[T] \in Nat /\ (T = {} => j[T] = 0)
                          /\ \A x \in T : j[T] = g[x] + j[T \ {x}]
  BY <1>2 DEF Parts
<1> DEFINE Good == {T \in SUBSET D : d \notin T => i[T] = j[T]}
<1>5. ASSUME NEW T \in SUBSET D, \A U \in SUBSET T : U # T => U \in Good PROVE T \in Good
  <2>1. CASE T = {}
    BY <1>3, <1>4, <2>1
  <2>2. ASSUME NEW x \in T, d \notin T PROVE T \in Good
    <3>1. i[T] = f[x] + i[T \ {x}] /\ j[T] = g[x] + j[T \ {x}]
      BY <1>3, <1>4
    <3>2. i[T \ {x}] = j[T \ {x}] /\ g[x] = f[x]
      BY <1>0, <1>5, <2>2
    <3> QED
      BY <3>1, <3>2
  <2> QED
    BY <2>1, <2>2
<1> HIDE DEF Good
<1>6. SUBSET D \subseteq Good
  BY <1>5, SubsetInduction
<1>7. i[D \ {d}] = j[D \ {d}] /\ i[D \ {d}] \in Nat
  BY <1>3, <1>6 DEF Good
<1>8. i[D] = f[d] + i[D \ {d}] /\ j[D] = g[d] + j[D \ {d}]
  BY <1>3, <1>4
<1>9. Sum(g) = Sum(f) + 1
  BY <1>0, <1>1, <1>2, <1>7, <1>8
<1> QED
  BY <1>9 DEF g

\* When every number moves one place down, the sum loses the first.
LEMMA SumShifts ==
    ASSUME NEW n \in Nat \ {0}, NEW f \in [1 .. n -> Nat]
    PROVE  Sum(f) = f[1] + Sum([d \in 1 .. n |-> IF d + 1 \in 1 .. n THEN f[d + 1] ELSE 0])
<1> DEFINE D == 1 .. n
           g == [d \in 1 .. n |-> IF d + 1 \in 1 .. n THEN f[d + 1] ELSE 0]
<1>0. IsFiniteSet(D)
  BY FS_Interval
<1>1. /\ g \in [D -> Nat] /\ f \in [D -> Nat] /\ g[n] = 0
      /\ \A d \in 1 .. n - 1 : g[d] = f[d + 1]
  OBVIOUS
<1> HIDE DEF g, D
<1>2. PICK i : Parts(i, f, D) /\ Sum(f) = i[D]
  BY <1>0, <1>1, SumParts
<1>3. PICK j : Parts(j, g, D) /\ Sum(g) = j[D]
  BY <1>0, <1>1, SumParts
<1>4. \A T \in SUBSET D : /\ i[T] \in Nat /\ (T = {} => i[T] = 0)
                          /\ \A x \in T : i[T] = f[x] + i[T \ {x}]
  BY <1>2 DEF Parts
<1>5. \A T \in SUBSET D : /\ j[T] \in Nat /\ (T = {} => j[T] = 0)
                          /\ \A x \in T : j[T] = g[x] + j[T \ {x}]
  BY <1>3 DEF Parts
<1> DEFINE Good == {k \in Nat : k < n => j[1 .. k] = i[2 .. k + 1]}
<1>6. 0 \in Good
  <2>1. 1 .. 0 = {} /\ 2 .. 0 + 1 = {} /\ {} \in SUBSET D
    OBVIOUS
  <2>2. j[{}] = 0 /\ i[{}] = 0
    BY <1>4, <1>5
  <2> QED
    BY <2>1, <2>2
<1>7. ASSUME NEW k \in Nat, k \in Good PROVE k + 1 \in Good
  <2> SUFFICES ASSUME k + 1 < n PROVE j[1 .. k + 1] = i[2 .. (k + 1) + 1]
    OBVIOUS
  <2>1. /\ 1 .. k + 1 \in SUBSET D /\ k + 1 \in 1 .. k + 1
        /\ (1 .. k + 1) \ {k + 1} = 1 .. k
    BY DEF D
  <2>2. /\ 2 .. k + 2 \in SUBSET D /\ k + 2 \in 2 .. k + 2
        /\ (2 .. k + 2) \ {k + 2} = 2 .. k + 1
    BY DEF D
  <2>3. j[1 .. k + 1] = g[k + 1] + j[1 .. k]
    BY <1>5, <2>1
  <2>4. i[2 .. k + 2] = f[k + 2] + i[2 .. k + 1]
    BY <1>4, <2>2
  <2>5. g[k + 1] = f[k + 2]
    BY <1>1
  <2>6. (k + 1) + 1 = k + 2
    OBVIOUS
  <2> QED
    BY <1>7, <2>3, <2>4, <2>5, <2>6
<1> HIDE DEF Good
<1>8. Nat \subseteq Good
  BY <1>6, <1>7, NumberInduction
<1>9. j[1 .. n - 1] = i[2 .. n]
  <2>1. n - 1 \in Nat /\ n - 1 < n /\ (n - 1) + 1 = n
    OBVIOUS
  <2> QED
    BY <1>8, <2>1 DEF Good
<1>10. i[D] = f[1] + i[2 .. n]
  <2>1. 1 \in D /\ D \ {1} = 2 .. n /\ D \in SUBSET D
    BY DEF D
  <2>2. i[D] = f[1] + i[D \ {1}]
    BY <1>4, <2>1
  <2> QED
    BY <2>1, <2>2
<1>11. j[D] = g[n] + j[1 .. n - 1] /\ j[1 .. n - 1] \in Nat
  <2>1. n \in D /\ D \ {n} = 1 .. n - 1 /\ 1 .. n - 1 \in SUBSET D
    BY DEF D
  <2> QED
    BY <1>5, <2>1
<1>12. Sum(f) = f[1] + Sum(g)
  BY <1>1, <1>2, <1>3, <1>9, <1>10, <1>11
<1> QED
  BY <1>12 DEF g, D
=============================================================================
