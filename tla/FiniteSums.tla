----------------------------- MODULE FiniteSums -----------------------------
(***************************************************************************)
(* What SumFunctionOnSet and SumFunction of module Functions compute, and  *)
(* the two principles of induction the facts about them rest on.  A fold   *)
(* is a recursive function over the subsets of a set.  That its equation   *)
(* has a solution, and what the solution's values are, is proved for the   *)
(* smallest counterexample; induction hypotheses are sets, not predicates. *)
(***************************************************************************)
EXTENDS Integers, Functions, FiniteSets, FiniteSetTheorems, WellFoundedInduction, TLAPS

\* The equation of the fold: one element and the sum of the rest.
Chosen(s) == CHOOSE x \in s : TRUE
SumStep(f, iter, s) == IF s = {} THEN 0 ELSE f[Chosen(s)] + iter[s \ {Chosen(s)}]
SolvesFor(f, sets, iter) == iter = [s \in sets |-> SumStep(f, iter, s)]
Solves(f, S, iter) == SolvesFor(f, SUBSET S, iter)

Smaller(S, k) == {s \in SUBSET S : Cardinality(s) <= k}
-----------------------------------------------------------------------------
\* A set of natural numbers that is not empty has a least element.
LEMMA NatMin ==
  ASSUME NEW T, T \subseteq Nat, T # {}
  PROVE  \E x \in T : \A y \in T : x <= y
<1> DEFINE R == OpToRel(<, Nat)
<1>1. IsWellFoundedOn(R, Nat)
  BY NatLessThanWellFounded
<1>2. \A x, y \in Nat : y < x => <<y, x>> \in R
  BY DEF OpToRel
<1> HIDE DEF R
<1>3. PICK x \in T : \A y \in T : ~ (<<y, x>> \in R)
  BY <1>1, WFMin
<1>4. \A y \in T : ~(y < x) /\ y \in Nat /\ x \in Nat
  BY <1>2, <1>3
<1> QED
  BY <1>4

\* Induction over the natural numbers, for a set of numbers.
LEMMA NatSetInduction ==
  ASSUME NEW P, 0 \in P, \A n \in Nat : n \in P => n + 1 \in P
  PROVE  Nat \subseteq P
<1> DEFINE T == {n \in Nat : n \notin P}
<1> SUFFICES ASSUME T # {} PROVE FALSE
  OBVIOUS
<1>1. T \subseteq Nat
  OBVIOUS
<1> HIDE DEF T
<1>2. PICK n \in T : \A j \in T : n <= j
  BY <1>1, NatMin
<1>3. n \in Nat /\ n # 0
  BY DEF T
<1>4. n - 1 \in Nat /\ n - 1 \notin T
  BY <1>2, <1>3
<1>5. n - 1 \in P /\ (n - 1) + 1 = n
  BY <1>3, <1>4 DEF T
<1>6. n \in P
  BY <1>4, <1>5
<1> QED
  BY <1>6 DEF T

\* Induction over the subsets of a finite set, by their size.
THEOREM SubsetInduction ==
  ASSUME NEW S, IsFiniteSet(S), NEW P,
         \A s \in SUBSET S :
            (\A t \in SUBSET S : Cardinality(t) < Cardinality(s) => t \in P) => s \in P
  PROVE  SUBSET S \subseteq P
<1> DEFINE T == {Cardinality(s) : s \in {t \in SUBSET S : t \notin P}}
<1> SUFFICES ASSUME NEW s \in SUBSET S, s \notin P PROVE FALSE
  OBVIOUS
<1>1. \A t \in SUBSET S : Cardinality(t) \in Nat
  BY FS_Subset, FS_CardinalityType
<1>2. T \subseteq Nat /\ T # {}
  BY <1>1
<1>3. \A k \in T : \E t \in SUBSET S : t \notin P /\ k = Cardinality(t)
  OBVIOUS
<1>4. \A t \in SUBSET S : t \notin P => Cardinality(t) \in T
  OBVIOUS
<1> HIDE DEF T
<1>5. PICK k \in T : \A j \in T : k <= j
  BY <1>2, NatMin
<1>6. PICK t \in SUBSET S : t \notin P /\ k = Cardinality(t)
  BY <1>3
<1>7. \A u \in SUBSET S : Cardinality(u) < Cardinality(t) => u \in P
  BY <1>1, <1>4, <1>5, <1>6
<1> QED
  BY <1>6, <1>7

\* The sets smaller than a set that is not empty, where the induction applies.
LEMMA OneLess ==
  ASSUME NEW S, IsFiniteSet(S), NEW s \in SUBSET S, NEW x \in s
  PROVE  /\ s \ {x} \in SUBSET S /\ IsFiniteSet(s)
         /\ Cardinality(s) \in Nat
         /\ Cardinality(s \ {x}) = Cardinality(s) - 1
         /\ Cardinality(s \ {x}) < Cardinality(s)
<1>1. IsFiniteSet(s)
  BY FS_Subset
<1>2. Cardinality(s) \in Nat /\ Cardinality(s \ {x}) = Cardinality(s) - 1
  BY <1>1, FS_CardinalityType, FS_RemoveElement
<1> QED
  BY <1>1, <1>2
-----------------------------------------------------------------------------
(* The equation has one solution.                                          *)

LEMMA SolutionForSmaller ==
  ASSUME NEW S, IsFiniteSet(S), NEW f
  PROVE  \A k \in Nat : \E g : SolvesFor(f, Smaller(S, k), g)
<1> DEFINE P == {k \in Nat : \E g : SolvesFor(f, Smaller(S, k), g)}
<1>1. 0 \in P
  <2> DEFINE g == [s \in Smaller(S, 0) |-> 0]
  <2>1. \A s \in Smaller(S, 0) : s = {}
    BY FS_Subset, FS_CardinalityType, FS_EmptySet DEF Smaller
  <2>2. SolvesFor(f, Smaller(S, 0), g)
    BY <2>1 DEF SolvesFor, SumStep
  <2> QED
    BY <2>2
<1>2. ASSUME NEW k \in Nat, k \in P
      PROVE  k + 1 \in P
  <2>1. PICK g : g = [s \in Smaller(S, k) |-> SumStep(f, g, s)]
    BY <1>2 DEF SolvesFor
  <2> DEFINE h == [s \in Smaller(S, k + 1) |-> SumStep(f, g, s)]
  <2>2. ASSUME NEW s \in Smaller(S, k + 1), NEW x \in s
        PROVE  s \ {x} \in Smaller(S, k)
    BY OneLess DEF Smaller
  <2>3. \A s \in Smaller(S, k) : s \in Smaller(S, k + 1)
    BY FS_Subset, FS_CardinalityType DEF Smaller
  <2>4. \A s \in Smaller(S, k) : h[s] = g[s]
    BY <2>1, <2>3
  <2> HIDE DEF h
  <2>5. ASSUME NEW s \in Smaller(S, k + 1)
        PROVE  SumStep(f, g, s) = SumStep(f, h, s)
    <3>1. CASE s = {}
      BY <3>1 DEF SumStep
    <3>2. CASE s # {}
      <4>1. Chosen(s) \in s
        BY <3>2 DEF Chosen
      <4> QED
        BY <2>2, <2>4, <3>2, <4>1 DEF SumStep
    <3> QED
      BY <3>1, <3>2
  <2>6. SolvesFor(f, Smaller(S, k + 1), h)
    BY <2>5 DEF h, SolvesFor
  <2> QED
    BY <2>6
<1> HIDE DEF P
<1>3. Nat \subseteq P
  BY <1>1, <1>2, NatSetInduction
<1> QED
  BY <1>3 DEF P

LEMMA SolutionExists ==
  ASSUME NEW S, IsFiniteSet(S), NEW f
  PROVE  \E g : Solves(f, S, g)
<1>1. Cardinality(S) \in Nat /\ Smaller(S, Cardinality(S)) = SUBSET S
  BY FS_Subset, FS_CardinalityType DEF Smaller
<1>2. \E g : SolvesFor(f, Smaller(S, Cardinality(S)), g)
  BY <1>1, SolutionForSmaller
<1> QED
  BY <1>1, <1>2 DEF Solves

LEMMA SolutionUnique ==
  ASSUME NEW S, IsFiniteSet(S), NEW T, S \subseteq T, NEW f,
         NEW g, Solves(f, S, g), NEW h, Solves(f, T, h)
  PROVE  g[S] = h[S]
<1> DEFINE P == {s \in SUBSET S : g[s] = h[s]}
<1>1. ASSUME NEW s \in SUBSET S,
             \A t \in SUBSET S : Cardinality(t) < Cardinality(s) => t \in P
      PROVE  s \in P
  <2>1. g[s] = SumStep(f, g, s) /\ h[s] = SumStep(f, h, s)
    BY DEF Solves, SolvesFor
  <2>2. CASE s = {}
    BY <2>1, <2>2 DEF SumStep
  <2>3. CASE s # {}
    <3>1. Chosen(s) \in s
      BY <2>3 DEF Chosen
    <3>2. g[s \ {Chosen(s)}] = h[s \ {Chosen(s)}]
      BY <1>1, <3>1, OneLess
    <3> QED
      BY <2>1, <2>3, <3>2 DEF SumStep
  <2> QED
    BY <2>2, <2>3
<1> HIDE DEF P
<1>2. SUBSET S \subseteq P
  BY <1>1, SubsetInduction
<1> QED
  BY <1>2 DEF P

LEMMA SumSolves ==
  ASSUME NEW S, IsFiniteSet(S), NEW f
  PROVE  \E g : Solves(f, S, g) /\ SumFunctionOnSet(f, S) = g[S]
<1> DEFINE g == CHOOSE iter : Solves(f, S, iter)
<1>1. SumFunctionOnSet(f, S) = g[S]
  BY DEF Solves, SolvesFor, SumStep, Chosen, SumFunctionOnSet, FoldFunctionOnSet, MapThenFoldSet
<1>2. Solves(f, S, g)
  BY SolutionExists
<1> QED
  BY <1>1, <1>2
-----------------------------------------------------------------------------
(* Sums.                                                                   *)

LEMMA SumEmpty ==
  ASSUME NEW f
  PROVE  SumFunctionOnSet(f, {}) = 0
<1>1. PICK g : Solves(f, {}, g) /\ SumFunctionOnSet(f, {}) = g[{}]
  BY SumSolves, FS_EmptySet
<1> QED
  BY <1>1 DEF Solves, SolvesFor, SumStep

LEMMA SumChosen ==
  ASSUME NEW S, IsFiniteSet(S), S # {}, NEW f
  PROVE  /\ Chosen(S) \in S
         /\ SumFunctionOnSet(f, S) = f[Chosen(S)] + SumFunctionOnSet(f, S \ {Chosen(S)})
<1>1. PICK g : Solves(f, S, g) /\ SumFunctionOnSet(f, S) = g[S]
  BY SumSolves
<1>2. Chosen(S) \in S
  BY DEF Chosen
<1>3. PICK R : R = S \ {Chosen(S)} /\ IsFiniteSet(R) /\ R \subseteq S
  BY FS_Subset
<1>4. g[S] = f[Chosen(S)] + g[R]
  BY <1>1, <1>3 DEF Solves, SolvesFor, SumStep
<1>5. PICK h : Solves(f, R, h) /\ SumFunctionOnSet(f, R) = h[R]
  BY <1>3, SumSolves
<1>6. h[R] = g[R]
  BY <1>1, <1>3, <1>5, SolutionUnique
<1> QED
  BY <1>1, <1>2, <1>3, <1>4, <1>5, <1>6

\* A sum of integers is an integer, whichever element is taken first.
THEOREM SumRemove ==
  ASSUME NEW S, IsFiniteSet(S), NEW f, \A x \in S : f[x] \in Int
  PROVE  /\ SumFunctionOnSet(f, S) \in Int
         /\ \A x \in S : SumFunctionOnSet(f, S) = f[x] + SumFunctionOnSet(f, S \ {x})
<1> DEFINE Sum(s) == SumFunctionOnSet(f, s)
           P == {s \in SUBSET S : Sum(s) \in Int /\ \A x \in s : Sum(s) = f[x] + Sum(s \ {x})}
<1>1. ASSUME NEW s \in SUBSET S,
             \A t \in SUBSET S : Cardinality(t) < Cardinality(s) => t \in P
      PROVE  s \in P
  <2>1. CASE s = {}
    BY <2>1, SumEmpty
  <2>2. CASE s # {}
    <3>1. PICK y \in s : y = Chosen(s) /\ Sum(s) = f[y] + Sum(s \ {y})
      BY <2>2, FS_Subset, SumChosen
    <3>2. s \ {y} \in P
      BY <1>1, OneLess
    <3>3. Sum(s) \in Int
      BY <3>1, <3>2
    <3>4. ASSUME NEW x \in s, x # y
          PROVE  Sum(s) = f[x] + Sum(s \ {x})
      <4>1. s \ {x} \in P /\ y \in s \ {x} /\ x \in s \ {y}
        BY <1>1, <3>4, OneLess
      <4>2. (s \ {y}) \ {x} = (s \ {x}) \ {y}
        OBVIOUS
      <4> DEFINE r == (s \ {x}) \ {y}
      <4>3. Sum(s \ {y}) = f[x] + Sum(r) /\ Sum(s \ {x}) = f[y] + Sum(r)
        BY <3>2, <4>1, <4>2
      <4>4. r \in P
        <5>1. PICK u \in SUBSET S : u = s \ {x}
          OBVIOUS
        <5>2. Cardinality(u) < Cardinality(s) /\ Cardinality(s) \in Nat
          BY <5>1, OneLess
        <5>3. /\ u \ {y} \in SUBSET S /\ Cardinality(u) \in Nat
              /\ Cardinality(u \ {y}) = Cardinality(u) - 1
          <6>1. y \in u
            BY <4>1, <5>1
          <6> QED
            BY <6>1, OneLess
        <5>4. Cardinality(u \ {y}) < Cardinality(s)
          BY <5>2, <5>3
        <5>5. u \ {y} \in P
          <6> HIDE DEF P, Sum
          <6> QED
            BY <1>1, <5>3, <5>4
        <5> QED
          BY <5>1, <5>5
      <4>5. Sum(r) \in Int /\ f[x] \in Int /\ f[y] \in Int
        BY <4>4
      <4> HIDE DEF Sum, P, r
      <4> QED
        BY <3>1, <4>3, <4>5
    <3> QED
      BY <3>1, <3>3, <3>4
  <2> QED
    BY <2>1, <2>2
<1> HIDE DEF P
<1>2. SUBSET S \subseteq P
  BY <1>1, SubsetInduction
<1> QED
  BY <1>2 DEF P

LEMMA SumAdd ==
  ASSUME NEW S, IsFiniteSet(S), NEW x, x \notin S, NEW f, \A y \in S \cup {x} : f[y] \in Int
  PROVE  SumFunctionOnSet(f, S \cup {x}) = f[x] + SumFunctionOnSet(f, S)
<1>1. IsFiniteSet(S \cup {x})
  BY FS_AddElement
<1>2. PICK T : T = S \cup {x}
  OBVIOUS
<1>3. T \ {x} = S /\ x \in T /\ IsFiniteSet(T) /\ \A y \in T : f[y] \in Int
  BY <1>1, <1>2
<1> QED
  BY <1>2, <1>3, SumRemove

LEMMA SumNat ==
  ASSUME NEW S, IsFiniteSet(S), NEW f, \A x \in S : f[x] \in Nat
  PROVE  SumFunctionOnSet(f, S) \in Nat
<1> DEFINE Sum(s) == SumFunctionOnSet(f, s)
           P == {s \in SUBSET S : Sum(s) \in Nat}
<1>1. ASSUME NEW s \in SUBSET S,
             \A t \in SUBSET S : Cardinality(t) < Cardinality(s) => t \in P
      PROVE  s \in P
  <2>1. CASE s = {}
    BY <2>1, SumEmpty
  <2>2. CASE s # {}
    <3>1. PICK y \in s : Sum(s) = f[y] + Sum(s \ {y})
      BY <2>2, FS_Subset, SumChosen
    <3>2. s \ {y} \in P
      BY <1>1, OneLess
    <3> QED
      BY <3>1, <3>2
  <2> QED
    BY <2>1, <2>2
<1> HIDE DEF P
<1>2. SUBSET S \subseteq P
  BY <1>1, SubsetInduction
<1> QED
  BY <1>2 DEF P

\* A sum depends on the values that are added up, and on nothing else.
LEMMA SumEqual ==
  ASSUME NEW S, IsFiniteSet(S), NEW f, NEW g, \A x \in S : f[x] = g[x]
  PROVE  SumFunctionOnSet(f, S) = SumFunctionOnSet(g, S)
<1> DEFINE P == {s \in SUBSET S : SumFunctionOnSet(f, s) = SumFunctionOnSet(g, s)}
<1>1. ASSUME NEW s \in SUBSET S,
             \A t \in SUBSET S : Cardinality(t) < Cardinality(s) => t \in P
      PROVE  s \in P
  <2>1. CASE s = {}
    BY <2>1, SumEmpty
  <2>2. CASE s # {}
    <3>1. IsFiniteSet(s)
      BY FS_Subset
    <3>2. /\ Chosen(s) \in s
          /\ SumFunctionOnSet(f, s) = f[Chosen(s)] + SumFunctionOnSet(f, s \ {Chosen(s)})
          /\ SumFunctionOnSet(g, s) = g[Chosen(s)] + SumFunctionOnSet(g, s \ {Chosen(s)})
      BY <2>2, <3>1, SumChosen
    <3>3. s \ {Chosen(s)} \in P
      BY <1>1, <3>2, OneLess
    <3> QED
      BY <3>2, <3>3
  <2> QED
    BY <2>1, <2>2
<1> HIDE DEF P
<1>2. SUBSET S \subseteq P
  BY <1>1, SubsetInduction
<1> QED
  BY <1>2 DEF P

LEMMA SumZero ==
  ASSUME NEW S, IsFiniteSet(S), NEW f, \A x \in S : f[x] = 0
  PROVE  SumFunctionOnSet(f, S) = 0
<1> DEFINE P == {s \in SUBSET S : SumFunctionOnSet(f, s) = 0}
<1>1. ASSUME NEW s \in SUBSET S,
             \A t \in SUBSET S : Cardinality(t) < Cardinality(s) => t \in P
      PROVE  s \in P
  <2>1. CASE s = {}
    BY <2>1, SumEmpty
  <2>2. CASE s # {}
    <3>1. PICK y \in s : SumFunctionOnSet(f, s) = f[y] + SumFunctionOnSet(f, s \ {y})
      BY <2>2, FS_Subset, SumChosen
    <3>2. s \ {y} \in P
      BY <1>1, OneLess
    <3> QED
      BY <3>1, <3>2
  <2> QED
    BY <2>1, <2>2
<1> HIDE DEF P
<1>2. SUBSET S \subseteq P
  BY <1>1, SubsetInduction
<1> QED
  BY <1>2 DEF P

\* When one value of a function changes, its sum changes by as much.
LEMMA SumExcept ==
  ASSUME NEW S, IsFiniteSet(S), NEW f \in [S -> Int], NEW x \in S, NEW v \in Int
  PROVE  SumFunction([f EXCEPT ![x] = v]) = (SumFunction(f) - f[x]) + v
<1>1. PICK g : g = [f EXCEPT ![x] = v]
  OBVIOUS
<1>2. PICK R : R = S \ {x} /\ IsFiniteSet(R) /\ R \subseteq S
  BY FS_Subset
<1>3. g \in [S -> Int] /\ g[x] = v /\ \A y \in R : g[y] = f[y]
  BY <1>1, <1>2
<1>4. SumFunctionOnSet(f, S) = f[x] + SumFunctionOnSet(f, R)
  BY <1>2, SumRemove
<1>5. SumFunctionOnSet(g, S) = g[x] + SumFunctionOnSet(g, R)
  BY <1>2, <1>3, SumRemove
<1>6. SumFunctionOnSet(f, R) = SumFunctionOnSet(g, R)
  BY <1>2, <1>3, SumEqual
<1>7. SumFunctionOnSet(f, R) \in Int /\ f[x] \in Int
  BY <1>2, SumRemove
<1>8. SumFunction(f) = SumFunctionOnSet(f, S) /\ SumFunction(g) = SumFunctionOnSet(g, S)
  BY <1>3 DEF SumFunction
<1> QED
  BY <1>1, <1>3, <1>4, <1>5, <1>6, <1>7, <1>8

\* Smaller values have a smaller sum.
LEMMA SumMono ==
  ASSUME NEW S, IsFiniteSet(S), NEW f \in [S -> Int], NEW g \in [S -> Int],
         \A x \in S : f[x] <= g[x]
  PROVE  SumFunction(f) <= SumFunction(g)
<1> DEFINE F(s) == SumFunctionOnSet(f, s)
           G(s) == SumFunctionOnSet(g, s)
           P == {s \in SUBSET S : F(s) \in Int /\ G(s) \in Int /\ F(s) <= G(s)}
<1>1. ASSUME NEW s \in SUBSET S,
             \A t \in SUBSET S : Cardinality(t) < Cardinality(s) => t \in P
      PROVE  s \in P
  <2>1. CASE s = {}
    BY <2>1, SumEmpty
  <2>2. CASE s # {}
    <3>1. IsFiniteSet(s)
      BY FS_Subset
    <3>2. PICK y \in s : F(s) = f[y] + F(s \ {y}) /\ G(s) = g[y] + G(s \ {y})
      BY <2>2, <3>1, SumChosen
    <3>3. s \ {y} \in P
      BY <1>1, OneLess
    <3>4. f[y] \in Int /\ g[y] \in Int /\ f[y] <= g[y]
      OBVIOUS
    <3>5. F(s \ {y}) \in Int /\ G(s \ {y}) \in Int /\ F(s \ {y}) <= G(s \ {y})
      BY <3>3
    <3> HIDE DEF F, G
    <3> QED
      BY <3>2, <3>4, <3>5
  <2> QED
    BY <2>1, <2>2
<1> HIDE DEF P
<1>2. SUBSET S \subseteq P
  BY <1>1, SubsetInduction
<1> QED
  BY <1>2 DEF P, SumFunction

LEMMA SumFunctionNat ==
  ASSUME NEW S, IsFiniteSet(S), NEW f \in [S -> Nat]
  PROVE  SumFunction(f) \in Nat
BY SumNat DEF SumFunction

\* A sum grows by the value at a new element.
LEMMA SumFunctionAdd ==
  ASSUME NEW S, IsFiniteSet(S), NEW x, x \notin S,
         NEW f \in [S -> Int], NEW g \in [S \cup {x} -> Int], \A y \in S : g[y] = f[y]
  PROVE  SumFunction(g) = SumFunction(f) + g[x] /\ SumFunction(f) \in Int
<1>1. SumFunction(f) = SumFunctionOnSet(f, S) /\ SumFunction(g) = SumFunctionOnSet(g, S \cup {x})
  BY DEF SumFunction
<1>2. SumFunctionOnSet(g, S \cup {x}) = g[x] + SumFunctionOnSet(g, S)
  BY SumAdd
<1>3. SumFunctionOnSet(g, S) = SumFunctionOnSet(f, S)
  BY SumEqual
<1>4. SumFunctionOnSet(f, S) \in Int /\ g[x] \in Int
  BY SumRemove
<1> QED
  BY <1>1, <1>2, <1>3, <1>4
=============================================================================
