----------------------------- MODULE DataLemmas -----------------------------
(***************************************************************************)
(* What the proofs need of numbers, finite sets and sums over them, stated *)
(* once.  Each induction is over a set that is given, not over a predicate, *)
(* and a sum is what its recursive function computes: proved to exist, not *)
(* to depend on the order in which elements are chosen.                    *)
(***************************************************************************)
EXTENDS Integers, FiniteSetsExt, Functions, FiniteSetTheorems, WellFoundedInduction, TLAPS

\* A set of naturals that is not empty has a least element.
LEMMA LeastNat ==
    ASSUME NEW T \in SUBSET Nat, T # {}
    PROVE  \E x \in T : \A y \in T : x <= y
<1>1. IsWellFoundedOn(OpToRel(<, Nat), Nat)
  BY NatLessThanWellFounded
<1>2. PICK x \in T : \A y \in T : ~(<<y, x>> \in OpToRel(<, Nat))
  BY <1>1, WFMin
<1>3. ASSUME NEW y \in T PROVE x <= y
  <2>1. ~(<<y, x>> \in OpToRel(<, Nat))
    BY <1>2
  <2>2. ~(y < x)
    BY <2>1 DEF OpToRel
  <2> QED BY <2>2
<1> QED BY <1>2, <1>3

\* Induction up to a number, over a set instead of a predicate.
LEMMA InductionUpTo ==
    ASSUME NEW n \in Nat, NEW T, 0 \in T, \A i \in 1..n : i - 1 \in T => i \in T
    PROVE  \A i \in 0..n : i \in T
<1> DEFINE Off == {i \in 0..n : i \notin T}
<1> SUFFICES ASSUME Off # {} PROVE FALSE
  OBVIOUS
<1>1. Off \in SUBSET Nat
  OBVIOUS
<1> HIDE DEF Off
<1>2. PICK m \in Off : \A k \in Off : m <= k
  BY <1>1, LeastNat
<1>3. m \in 1..n /\ m \notin T
  BY <1>2 DEF Off
<1>4. m - 1 \notin Off
  BY <1>2, <1>3
<1>5. m - 1 \in T
  BY <1>3, <1>4 DEF Off
<1> QED BY <1>3, <1>5

\* Induction over the subsets of a finite set: what holds of the empty set, and
\* of a set when it holds of it without any one element, holds of all.
LEMMA SubsetInduction ==
    ASSUME NEW S, IsFiniteSet(S), NEW T, {} \in T,
           \A s \in SUBSET S : s # {} /\ (\A x \in s : s \ {x} \in T) => s \in T
    PROVE  \A s \in SUBSET S : s \in T
<1> DEFINE Sized == {n \in Nat : \A s \in SUBSET S : Cardinality(s) = n => s \in T}
<1>1. \A s \in SUBSET S : IsFiniteSet(s) /\ Cardinality(s) \in Nat
  BY FS_Subset, FS_CardinalityType
<1>2. 0 \in Sized
  BY <1>1, FS_EmptySet
<1>3. ASSUME NEW n \in Nat, NEW i \in 1..n, i - 1 \in Sized PROVE i \in Sized
  <2> SUFFICES ASSUME NEW s \in SUBSET S, Cardinality(s) = i PROVE s \in T
    OBVIOUS
  <2>1. s # {}
    <3>1. Cardinality({}) = 0
      BY FS_EmptySet
    <3>2. i # 0
      BY <1>3
    <3> HIDE DEF Sized
    <3> QED BY <3>1, <3>2
  <2>2. ASSUME NEW x \in s PROVE s \ {x} \in T
    <3>1. Cardinality(s \ {x}) = i - 1
      BY <1>1, FS_RemoveElement
    <3>2. s \ {x} \in SUBSET S
      OBVIOUS
    <3> QED BY <1>3, <3>1, <3>2
  <2> QED BY <2>1, <2>2
<1> HIDE DEF Sized
<1>4. ASSUME NEW s \in SUBSET S PROVE s \in T
  <2>1. Cardinality(s) \in Sized
    BY <1>1, <1>2, <1>3, InductionUpTo
  <2> QED BY <2>1 DEF Sized
<1> QED BY <1>4

\* A finite set of integers that is not empty has a greatest element.
LEMMA MaxOfFinite ==
    ASSUME NEW S \in SUBSET Int, IsFiniteSet(S), S # {}
    PROVE  Max(S) \in S /\ \A y \in S : y <= Max(S)
<1> DEFINE T == {s \in SUBSET S : s = {} \/ \E x \in s : \A y \in s : x >= y}
<1>1. {} \in T
  OBVIOUS
<1>2. ASSUME NEW s \in SUBSET S, s # {}, \A x \in s : s \ {x} \in T PROVE s \in T
  <2>1. PICK x \in s : TRUE
    BY <1>2
  <2>2. CASE s \ {x} = {}
    BY <2>1, <2>2
  <2>3. CASE s \ {x} # {}
    <3>1. PICK z \in s \ {x} : \A y \in s \ {x} : z >= y
      BY <1>2, <2>1, <2>3
    <3>2. CASE z >= x
      BY <3>1, <3>2
    <3>3. CASE x >= z
      BY <3>1, <3>3
    <3> QED BY <3>1, <3>2, <3>3
  <2> QED BY <2>2, <2>3
<1> HIDE DEF T
<1>3. S \in T
  BY <1>1, <1>2, SubsetInduction
<1>4. \E x \in S : \A y \in S : x >= y
  BY <1>3 DEF T
<1> QED BY <1>4 DEF Max

\* The image of a finite set is finite.  (The library states this with an
\* operator for a parameter.)
LEMMA ImageIsFinite ==
    ASSUME NEW S, IsFiniteSet(S), NEW f
    PROVE  IsFiniteSet({f[x] : x \in S})
<1> DEFINE g == [x \in S |-> f[x]]
           R == {f[x] : x \in S}
<1>1. g \in Surjection(S, R)
  BY DEF Surjection
<1> QED BY <1>1, FS_Surjection

-----------------------------------------------------------------------------
(* Sums.                                                                   *)

\* One step of the recursion by which a sum is defined.
Rec(f, s, g) == IF s = {} THEN 0 ELSE f[CHOOSE x \in s : TRUE] + g[s \ {CHOOSE x \in s : TRUE}]

\* The values of a sum of f over the subsets of S, as it computes them.
IsSum(f, S, g) == g = [s \in SUBSET S |-> Rec(f, s, g)]

\* The recursion has a solution.
LEMMA SumExists ==
    ASSUME NEW f, NEW S, IsFiniteSet(S)
    PROVE  \E g : IsSum(f, S, g)
<1> DEFINE Solves(n, g) == \A s \in SUBSET S : Cardinality(s) <= n => g[s] = Rec(f, s, g)
           T == {n \in Nat : \E g : Solves(n, g)}
<1>1. \A s \in SUBSET S : IsFiniteSet(s) /\ Cardinality(s) \in Nat
  BY FS_Subset, FS_CardinalityType
<1>2. 0 \in T
  <2> DEFINE g == [s \in SUBSET S |-> 0]
  <2>1. ASSUME NEW s \in SUBSET S, Cardinality(s) <= 0 PROVE g[s] = Rec(f, s, g)
    <3>1. s = {}
      BY <1>1, <2>1, FS_EmptySet
    <3> QED BY <3>1 DEF Rec
  <2> HIDE DEF g
  <2> QED BY <2>1
<1>3. ASSUME NEW n \in Nat, NEW i \in 1..n, i - 1 \in T PROVE i \in T
  <2>1. PICK g : Solves(i - 1, g)
    BY <1>3
  <2> DEFINE h == [s \in SUBSET S |-> Rec(f, s, g)]
  <2>2. ASSUME NEW s \in SUBSET S, Cardinality(s) <= i PROVE h[s] = Rec(f, s, h)
    <3>1. CASE s = {}
      BY <3>1 DEF Rec
    <3>2. CASE s # {}
      <4> DEFINE x == CHOOSE x \in s : TRUE
                 r == s \ {x}
      <4>1. x \in s
        BY <3>2
      <4>2. r \in SUBSET S
        OBVIOUS
      <4>3. Cardinality(r) = Cardinality(s) - 1
        BY <1>1, <4>1, FS_RemoveElement
      <4>4. Cardinality(r) <= i - 1
        BY <1>1, <2>2, <4>2, <4>3
      <4>5. g[r] = Rec(f, r, g)
        BY <2>1, <4>2, <4>4
      <4>6. h[r] = g[r]
        BY <4>2, <4>5
      <4>7. h[s] = Rec(f, s, g)
        OBVIOUS
      <4> HIDE DEF h
      <4> QED BY <4>6, <4>7 DEF Rec
    <3> QED BY <3>1, <3>2
  <2> HIDE DEF h
  <2>3. Solves(i, h)
    BY <2>2
  <2> QED BY <2>3
<1> HIDE DEF T
<1>4. Cardinality(S) \in T
  BY <1>1, <1>2, <1>3, InductionUpTo
<1>5. PICK g : Solves(Cardinality(S), g)
  BY <1>4 DEF T
<1>6. \A s \in SUBSET S : g[s] = Rec(f, s, g)
  BY <1>1, <1>5, FS_Subset
<1> DEFINE h == [s \in SUBSET S |-> g[s]]
<1>7. ASSUME NEW s \in SUBSET S PROVE Rec(f, s, h) = g[s]
  BY <1>6 DEF Rec
<1>8. h = [s \in SUBSET S |-> Rec(f, s, h)]
  <2>1. \A s \in SUBSET S : Rec(f, s, h) = g[s]
    BY <1>7
  <2> HIDE DEF h
  <2>2. [s \in SUBSET S |-> Rec(f, s, h)] = [s \in SUBSET S |-> g[s]]
    BY <2>1
  <2> QED BY <2>2 DEF h
<1> QED BY <1>8 DEF IsSum

\* Two solutions that agree on the elements agree on their sum.
LEMMA SumsAgree ==
    ASSUME NEW S, IsFiniteSet(S), NEW f, NEW g, NEW h, NEW k,
           \A s \in SUBSET S : g[s] = Rec(f, s, g) /\ k[s] = Rec(h, s, k),
           \A x \in S : f[x] = h[x]
    PROVE  g[S] = k[S]
<1> DEFINE T == {s \in SUBSET S : g[s] = k[s]}
<1>1. {} \in T
  BY DEF Rec
<1>2. ASSUME NEW s \in SUBSET S, s # {}, \A x \in s : s \ {x} \in T PROVE s \in T
  <2> DEFINE x == CHOOSE x \in s : TRUE
  <2>1. x \in s
    BY <1>2
  <2>2. g[s \ {x}] = k[s \ {x}] /\ f[x] = h[x]
    BY <1>2, <2>1
  <2>3. g[s] = f[x] + g[s \ {x}] /\ k[s] = h[x] + k[s \ {x}]
    BY <1>2 DEF Rec
  <2> QED BY <2>2, <2>3
<1> HIDE DEF T
<1>3. S \in T
  BY <1>1, <1>2, SubsetInduction
<1> QED BY <1>3 DEF T

\* A sum is what any solution says of the whole set.
LEMMA SumIs ==
    ASSUME NEW f, NEW S, IsFiniteSet(S), NEW h, NEW k,
           \A s \in SUBSET S : k[s] = Rec(h, s, k),
           \A x \in S : f[x] = h[x]
    PROVE  SumFunctionOnSet(f, S) = k[S]
<1>1. IsSum(f, S, CHOOSE g : IsSum(f, S, g))
  BY SumExists
<1>2. SumFunctionOnSet(f, S) = (CHOOSE g : IsSum(f, S, g))[S]
  BY DEF SumFunctionOnSet, FoldFunctionOnSet, MapThenFoldSet, IsSum, Rec
<1> DEFINE g == CHOOSE g : IsSum(f, S, g)
<1> HIDE DEF g
<1>3. \A s \in SUBSET S : g[s] = Rec(f, s, g)
  BY <1>1 DEF IsSum, g
<1>4. g[S] = k[S]
  BY <1>3, SumsAgree
<1> QED BY <1>2, <1>4 DEF g

\* The sum over a subset is the value of the recursion there.
LEMMA SumOfSubset ==
    ASSUME NEW f, NEW S, IsFiniteSet(S)
    PROVE  \E g : \A s \in SUBSET S : g[s] = Rec(f, s, g) /\ SumFunctionOnSet(f, s) = g[s]
<1>1. PICK g : IsSum(f, S, g)
  BY SumExists
<1>2. \A s \in SUBSET S : g[s] = Rec(f, s, g)
  BY <1>1 DEF IsSum
<1>3. ASSUME NEW s \in SUBSET S PROVE SumFunctionOnSet(f, s) = g[s]
  <2>1. IsFiniteSet(s)
    BY FS_Subset
  <2>2. \A r \in SUBSET s : g[r] = Rec(f, r, g)
    BY <1>2
  <2> QED BY <2>1, <2>2, SumIs
<1> QED BY <1>2, <1>3

\* A sum depends on the values at its indices and on nothing else.
LEMMA SumSame ==
    ASSUME NEW S, IsFiniteSet(S), NEW f, NEW h, \A x \in S : f[x] = h[x]
    PROVE  SumFunctionOnSet(f, S) = SumFunctionOnSet(h, S)
<1>1. PICK g : \A s \in SUBSET S : g[s] = Rec(h, s, g) /\ SumFunctionOnSet(h, s) = g[s]
  BY SumOfSubset
<1>2. SumFunctionOnSet(f, S) = g[S]
  BY <1>1, SumIs
<1> QED BY <1>1, <1>2

\* Nothing sums to nothing.
LEMMA SumEmpty == ASSUME NEW f PROVE SumFunctionOnSet(f, {}) = 0
<1>1. PICK g : \A s \in SUBSET {} : g[s] = Rec(f, s, g) /\ SumFunctionOnSet(f, s) = g[s]
  BY SumOfSubset, FS_EmptySet
<1> QED BY <1>1 DEF Rec

\* A sum of integers is an integer.
LEMMA SumType ==
    ASSUME NEW S, IsFiniteSet(S), NEW f, \A x \in S : f[x] \in Int
    PROVE  SumFunctionOnSet(f, S) \in Int
<1>1. PICK g : \A s \in SUBSET S : g[s] = Rec(f, s, g) /\ SumFunctionOnSet(f, s) = g[s]
  BY SumOfSubset
<1> DEFINE T == {s \in SUBSET S : g[s] \in Int}
<1>2. {} \in T
  <2>1. g[{}] = 0
    BY <1>1 DEF Rec
  <2> QED BY <2>1
<1>3. ASSUME NEW s \in SUBSET S, s # {}, \A x \in s : s \ {x} \in T PROVE s \in T
  <2> DEFINE x == CHOOSE x \in s : TRUE
  <2>1. x \in s
    BY <1>3
  <2>2. g[s \ {x}] \in Int /\ f[x] \in Int
    BY <1>3, <2>1
  <2>3. g[s] = f[x] + g[s \ {x}]
    BY <1>1, <1>3 DEF Rec
  <2> QED BY <2>2, <2>3
<1> HIDE DEF T
<1>4. S \in T
  <2>1. \A s \in SUBSET S : s # {} /\ (\A x \in s : s \ {x} \in T) => s \in T
    BY <1>3
  <2>2. \A s \in SUBSET S : s \in T
    BY <1>2, <2>1, SubsetInduction
  <2> QED BY <2>2
<1> QED BY <1>1, <1>4 DEF T

\* Any element may be added first: a sum does not depend on the order.
LEMMA SumAnyOrder ==
    ASSUME NEW S, IsFiniteSet(S), NEW f, \A x \in S : f[x] \in Int, NEW y \in S
    PROVE  SumFunctionOnSet(f, S) = f[y] + SumFunctionOnSet(f, S \ {y})
<1>1. PICK g : \A s \in SUBSET S : g[s] = Rec(f, s, g) /\ SumFunctionOnSet(f, s) = g[s]
  BY SumOfSubset
<1>2. \A s \in SUBSET S : g[s] \in Int
  <2>1. ASSUME NEW s \in SUBSET S PROVE SumFunctionOnSet(f, s) \in Int
    BY FS_Subset, SumType
  <2> QED BY <1>1, <2>1
<1> DEFINE T == {s \in SUBSET S : \A z \in s : g[s] = f[z] + g[s \ {z}]}
<1>3. {} \in T
  OBVIOUS
<1>4. ASSUME NEW s \in SUBSET S, s # {}, \A x \in s : s \ {x} \in T PROVE s \in T
  <2> DEFINE x == CHOOSE x \in s : TRUE
  <2>1. x \in s
    BY <1>4
  <2>2. g[s] = f[x] + g[s \ {x}]
    BY <1>1, <1>4 DEF Rec
  <2> HIDE DEF x
  <2>3. ASSUME NEW z \in s, z # x PROVE g[s] = f[z] + g[s \ {z}]
    <3>1. g[s \ {x}] = f[z] + g[(s \ {x}) \ {z}]
      BY <1>4, <2>1, <2>3
    <3>2. g[s \ {z}] = f[x] + g[(s \ {z}) \ {x}]
      BY <1>4, <2>1, <2>3
    <3>3. (s \ {x}) \ {z} = (s \ {z}) \ {x}
      OBVIOUS
    <3>4. g[(s \ {x}) \ {z}] \in Int /\ f[x] \in Int /\ f[z] \in Int
      BY <1>2, <2>1
    <3>5. g[s \ {z}] = f[x] + g[(s \ {x}) \ {z}]
      BY <3>2, <3>3
    <3> HIDE DEF T
    <3> QED BY <2>2, <3>1, <3>4, <3>5
  <2> QED BY <2>2, <2>3
<1> HIDE DEF T
<1>5. S \in T
  <2>1. \A s \in SUBSET S : s # {} /\ (\A x \in s : s \ {x} \in T) => s \in T
    BY <1>4
  <2>2. \A s \in SUBSET S : s \in T
    BY <1>3, <2>1, SubsetInduction
  <2> QED BY <2>2
<1> QED BY <1>1, <1>5 DEF T

\* One more element adds its value.
LEMMA SumAdd ==
    ASSUME NEW S, IsFiniteSet(S), NEW y, y \notin S, NEW f,
           \A x \in S \cup {y} : f[x] \in Int
    PROVE  SumFunctionOnSet(f, S \cup {y}) = SumFunctionOnSet(f, S) + f[y]
<1>1. IsFiniteSet(S \cup {y})
  BY FS_AddElement
<1>2. (S \cup {y}) \ {y} = S
  OBVIOUS
<1>3. SumFunctionOnSet(f, S \cup {y}) = f[y] + SumFunctionOnSet(f, (S \cup {y}) \ {y})
  BY <1>1, SumAnyOrder
<1>4. SumFunctionOnSet(f, S) \in Int
  BY SumType
<1>5. f[y] \in Int
  OBVIOUS
<1>6. SumFunctionOnSet(f, S \cup {y}) = f[y] + SumFunctionOnSet(f, S)
  BY <1>2, <1>3
<1> QED BY <1>4, <1>5, <1>6
=============================================================================
