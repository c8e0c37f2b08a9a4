---------------------------- MODULE SumTheorems -----------------------------
(***************************************************************************)
(* What the proofs about capacity, reservations and disk space need of     *)
(* sums: the sum changes by what one number changes by, and is monotonic.  *)
(***************************************************************************)
EXTENDS Sums, FiniteSetTheorems, TLAPS

\* A stack of n units has n of them.
LEMMA UnitsOfOne ==
  ASSUME NEW x, NEW n \in Nat
  PROVE  IsFiniteSet({x} \X (1..n)) /\ Cardinality({x} \X (1..n)) = n
<1> DEFINE f == [i \in 1..n |-> <<x, i>>]
<1>1. IsFiniteSet(1..n) /\ Cardinality(1..n) = n
  BY FS_Interval
<1>2. f \in Bijection(1..n, {x} \X (1..n))
  BY DEF Bijection, Injection, Surjection, IsInjective
<1>3. ExistsBijection(1..n, {x} \X (1..n))
  BY <1>2 DEF ExistsBijection
<1> QED
  BY <1>1, <1>3, FS_Bijection

\* The units of one member are apart from those of the others.
LEMMA UnitsSplit ==
  ASSUME NEW f, NEW S, NEW x \in S
  PROVE  /\ Units(f, S) = Units(f, S \ {x}) \cup ({x} \X (1..f[x]))
         /\ Units(f, S \ {x}) \cap ({x} \X (1..f[x])) = {}
<1>1. ASSUME NEW u
      PROVE  u \in Units(f, S) <=> u \in Units(f, S \ {x}) \cup ({x} \X (1..f[x]))
  BY DEF Units
<1>2. \A u \in Units(f, S \ {x}) : u \notin {x} \X (1..f[x])
  BY DEF Units
<1> QED
  BY <1>1, <1>2

\* When one number of a finite sum changes, the sum changes by as much.
LEMMA SumChanges ==
  ASSUME NEW f, NEW g, NEW S, NEW x \in S,
         f[x] \in Nat, g[x] \in Nat, \A y \in S \ {x} : g[y] = f[y],
         IsFiniteSet(Units(f, S))
  PROVE  /\ IsFiniteSet(Units(g, S))
         /\ Sum(f, S) \in Nat /\ Sum(g, S) \in Nat
         /\ Sum(g, S) + f[x] = Sum(f, S) + g[x]
         /\ f[x] <= Sum(f, S)
<1> DEFINE R == Units(f, S \ {x})
<1>1. Units(g, S \ {x}) = R
  <2>1. {{y} \X (1..g[y]) : y \in S \ {x}} = {{y} \X (1..f[y]) : y \in S \ {x}}
    OBVIOUS
  <2> QED
    BY <2>1 DEF Units
<1>2. Units(f, S) = R \cup ({x} \X (1..f[x])) /\ R \cap ({x} \X (1..f[x])) = {}
  BY UnitsSplit
<1>3. Units(g, S) = R \cup ({x} \X (1..g[x])) /\ R \cap ({x} \X (1..g[x])) = {}
  BY <1>1, UnitsSplit
<1>4. IsFiniteSet(R) /\ Cardinality(R) \in Nat
  <2>1. IsFiniteSet(R)
    BY <1>2, FS_Subset
  <2> QED
    BY <2>1, FS_CardinalityType
<1>5. ASSUME NEW n \in Nat, NEW T, T = R \cup ({x} \X (1..n)), R \cap ({x} \X (1..n)) = {}
      PROVE  IsFiniteSet(T) /\ Cardinality(T) = Cardinality(R) + n
  <2> DEFINE X == {x} \X (1..n)
  <2>1. IsFiniteSet(X) /\ Cardinality(X) = n
    BY UnitsOfOne
  <2> HIDE DEF X, R
  <2>2. T = R \cup X /\ R \cap X = {}
    BY <1>5 DEF X
  <2>3. IsFiniteSet(T) /\ Cardinality(T) = Cardinality(R) + Cardinality(X) - Cardinality(R \cap X)
    BY <1>4, <2>1, <2>2, FS_Union
  <2>4. Cardinality(R \cap X) = 0
    BY <2>2, FS_EmptySet
  <2> QED
    BY <1>4, <2>1, <2>3, <2>4
<1>6. Sum(f, S) = Cardinality(R) + f[x]
  BY <1>2, <1>5 DEF Sum
<1>7. Sum(g, S) = Cardinality(R) + g[x] /\ IsFiniteSet(Units(g, S))
  BY <1>3, <1>5 DEF Sum
<1> HIDE DEF R
<1> QED
  BY <1>4, <1>6, <1>7

\* A sum of nothing is 0.
LEMMA SumOfNothing ==
  ASSUME NEW f, NEW S, \A x \in S : f[x] = 0
  PROVE  IsFiniteSet(Units(f, S)) /\ Sum(f, S) = 0
<1>1. Units(f, S) = {}
  BY DEF Units
<1> QED
  BY <1>1, FS_EmptySet DEF Sum

\* Sums of the same numbers are equal.
LEMMA SumSame ==
  ASSUME NEW f, NEW g, NEW S, \A x \in S : g[x] = f[x]
  PROVE  Units(g, S) = Units(f, S) /\ Sum(g, S) = Sum(f, S)
<1>1. {{x} \X (1..g[x]) : x \in S} = {{x} \X (1..f[x]) : x \in S}
  OBVIOUS
<1> QED
  BY <1>1 DEF Units, Sum

\* A sum of numbers that are no larger is no larger.
LEMMA SumOrder ==
  ASSUME NEW f, NEW g, NEW S, IsFiniteSet(Units(g, S)),
         \A x \in S : f[x] \in Nat /\ g[x] \in Nat /\ f[x] <= g[x]
  PROVE  /\ IsFiniteSet(Units(f, S)) /\ Sum(f, S) \in Nat /\ Sum(g, S) \in Nat
         /\ Sum(f, S) <= Sum(g, S)
<1>1. ASSUME NEW x \in S
      PROVE  {x} \X (1..f[x]) \subseteq {x} \X (1..g[x])
  <2>1. 1..f[x] \subseteq 1..g[x]
    OBVIOUS
  <2> QED
    BY <2>1
<1>2. Units(f, S) \subseteq Units(g, S)
  <2> SUFFICES ASSUME NEW u \in Units(f, S)
               PROVE  u \in Units(g, S)
    OBVIOUS
  <2>1. PICK x \in S : u \in {x} \X (1..f[x])
    BY DEF Units
  <2> QED
    BY <2>1, <1>1 DEF Units
<1> QED
  BY <1>2, FS_Subset, FS_CardinalityType DEF Sum
=============================================================================
