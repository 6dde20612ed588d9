-------------------------- MODULE BalancingProofs --------------------------
(***************************************************************************)
(* What holds of the scheduler and of the balancer, for every set of       *)
(* names, scores, weights, lists and hashes.                               *)
(*                                                                         *)
(* Both rest on sums over sets of any size, which take induction.  The     *)
(* first two sections have it as facts about sets.  The scheduler comes    *)
(* next: the shares of adjustWeights, the total they are divided by, and   *)
(* the picks.  Then the balancer: lists, running sums of weights, and the  *)
(* invariant that what is counted since a list changed are the picks of    *)
(* the last positions, which is why a full cycle is fair.                  *)
(***************************************************************************)
EXTENDS MCBalancing, FiniteSetTheorems, TLAPS

(* Induction.  The induction theorems of the library take the property as  *)
(* an operator; here it is a set, of numbers or of sets.                   *)

LEMMA SmallestNumber ==
  ASSUME NEW N \in SUBSET Nat, N # {}
  PROVE  \E m \in N : \A n \in N : m <= n
<1>1. \E m \in N : \A n \in N : ~(<<n, m>> \in OpToRel(<, Nat))
  BY NatLessThanWellFounded, WFMin
<1>2. \A n, m \in Nat : n < m => <<n, m>> \in OpToRel(<, Nat)
  BY DEF OpToRel
<1>3. \A n, m \in N : ~(n < m) => m <= n
  OBVIOUS
<1>4. QED
  BY <1>1, <1>2, <1>3

LEMMA InductionOnNat ==
  ASSUME NEW P, 0 \in P, \A n \in Nat : n \in P => n + 1 \in P
  PROVE  Nat \subseteq P
<1> SUFFICES ASSUME Nat \ P # {} PROVE FALSE
  OBVIOUS
<1>1. PICK m \in Nat \ P : \A n \in Nat \ P : m <= n
  BY SmallestNumber
<1>2. m - 1 \in Nat /\ m - 1 \in P
  BY <1>1
<1>3. QED
  BY <1>1, <1>2

\* What holds of the empty set, and still holds when an element is added, holds of a
\* finite set.
LEMMA InductionOnSet ==
  ASSUME NEW S, IsFiniteSet(S), NEW P,
         {} \in P, \A s \in SUBSET S : \A x \in S \ s : s \in P => s \cup {x} \in P
  PROVE  S \in P
<1> DEFINE N == {n \in Nat : \A s \in SUBSET S : Cardinality(s) = n => s \in P}
<1>0. \A s \in SUBSET S : IsFiniteSet(s)
  BY FS_Subset
<1>1. 0 \in N
  BY <1>0, FS_EmptySet
<1>2. ASSUME NEW n \in Nat, n \in N PROVE n + 1 \in N
  <2> SUFFICES ASSUME NEW s \in SUBSET S, Cardinality(s) = n + 1 PROVE s \in P
    OBVIOUS
  <2>1. s # {}
    BY FS_EmptySet, n + 1 # 0
  <2>2. PICK x \in s : TRUE
    BY <2>1
  <2>3. Cardinality(s \ {x}) = n
    <3>1. IsFiniteSet(s)
      BY <1>0
    <3>2. Cardinality(s \ {x}) = Cardinality(s) - 1
      BY <2>2, <3>1, FS_RemoveElement
    <3>3. QED
      BY <3>2
  <2>4. s \ {x} \in P
    BY <1>2, <2>3
  <2>5. (s \ {x}) \cup {x} = s
    BY <2>2
  <2>6. QED
    BY <2>4, <2>5
<1> HIDE DEF N
<1>3. Nat \subseteq N
  BY <1>1, <1>2, InductionOnNat
<1>4. Cardinality(S) \in N
  BY <1>3, FS_CardinalityType
<1>5. QED
  BY <1>4 DEF N
-----------------------------------------------------------------------------
(* Sums.  SumFunctionOnSet takes the elements one after the other, and it  *)
(* does not say in which order; a sum is the same in any.                  *)

Chooser(c, S) == \A s \in SUBSET S : s # {} => c[s] \in s

\* The recursive function of a fold over the subsets of S, with values in V.
FoldUp(g, step, base, c, S) ==
  g = [s \in SUBSET S |-> IF s = {} THEN base ELSE step[<<c[s], g[s \ {c[s]}]>>]]

LEMMA FoldUpExists ==
  ASSUME NEW S, IsFiniteSet(S), NEW c, Chooser(c, S),
         NEW V, NEW base \in V, NEW step \in [S \X V -> V]
  PROVE  \E g \in [SUBSET S -> V] : FoldUp(g, step, base, c, S)
<1> DEFINE Small(n) == {s \in SUBSET S : Cardinality(s) <= n}
           Next(g, s) == IF s = {} THEN base ELSE step[<<c[s], g[s \ {c[s]}]>>]
           FoldTo(g, n) == g \in [Small(n) -> V] /\ g = [s \in Small(n) |-> Next(g, s)]
           N == {n \in Nat : \E g : FoldTo(g, n)}
<1>0. \A s \in SUBSET S :
        IsFiniteSet(s) /\ Cardinality(s) \in Nat /\ Cardinality(s) <= Cardinality(S)
  BY FS_Subset, FS_CardinalityType
<1>1. 0 \in N
  <2>1. Small(0) = {{}}
    BY <1>0, FS_EmptySet
  <2>2. FoldTo([s \in Small(0) |-> base], 0)
    BY <2>1
  <2>3. QED
    BY <2>2
<1>2. ASSUME NEW n \in Nat, n \in N PROVE n + 1 \in N
  <2>1. PICK g : FoldTo(g, n)
    BY <1>2
  <2> DEFINE h == [s \in Small(n + 1) |-> Next(g, s)]
  <2>2. Small(n) \subseteq Small(n + 1)
    BY <1>0
  <2>3. \A s \in Small(n) : h[s] = g[s] /\ g[s] \in V
    BY <2>1, <2>2
  <2>4. \A s \in Small(n + 1) : s # {} => c[s] \in S /\ s \ {c[s]} \in Small(n)
    <3> SUFFICES ASSUME NEW s \in Small(n + 1), s # {}
                 PROVE  c[s] \in S /\ s \ {c[s]} \in Small(n)
      OBVIOUS
    <3>1. c[s] \in s /\ IsFiniteSet(s)
      BY <1>0 DEF Chooser
    <3>2. Cardinality(s \ {c[s]}) = Cardinality(s) - 1
      BY <3>1, FS_RemoveElement
    <3>3. QED
      BY <1>0, <3>1, <3>2
  <2> HIDE DEF Small
  <2> HIDE DEF h
  <2>5. \A s \in Small(n + 1) : Next(h, s) = Next(g, s) /\ Next(g, s) \in V
    <3> SUFFICES ASSUME NEW s \in Small(n + 1), s # {}
                 PROVE  Next(h, s) = Next(g, s) /\ Next(g, s) \in V
      OBVIOUS
    <3>1. c[s] \in S /\ h[s \ {c[s]}] = g[s \ {c[s]}] /\ g[s \ {c[s]}] \in V
      BY <2>3, <2>4
    <3>2. \A x \in S : \A v \in V : step[<<x, v>>] \in V
      OBVIOUS
    <3>3. QED
      BY <3>1, <3>2
  <2> HIDE DEF Next
  <2>6. FoldTo(h, n + 1)
    BY <2>5 DEF h
  <2> HIDE DEF h, FoldTo
  <2>7. QED
    BY <2>6
<1> HIDE DEF N
<1>3. Cardinality(S) \in N
  BY <1>1, <1>2, InductionOnNat, FS_CardinalityType
<1>4. PICK g : FoldTo(g, Cardinality(S))
  BY <1>3 DEF N
<1>5. Small(Cardinality(S)) = SUBSET S
  BY <1>0
<1>6. QED
  BY <1>4, <1>5 DEF FoldUp

\* A function on the subsets of S that takes away one element after the other.
TakesAway(g, f, S) ==
  /\ g[{}] = 0
  /\ \A s \in SUBSET S : s # {} => \E x \in s : g[s] = f[x] + g[s \ {x}]

\* It may be any element.
Additive(g, f, S) ==
  /\ g[{}] = 0
  /\ \A s \in SUBSET S : g[s] \in Int
  /\ \A s \in SUBSET S : \A x \in s : g[s] = f[x] + g[s \ {x}]

LEMMA AnyElement ==
  ASSUME NEW S, IsFiniteSet(S), NEW f, \A x \in S : f[x] \in Int, NEW g, TakesAway(g, f, S)
  PROVE  Additive(g, f, S)
<1> DEFINE Good(s) == g[s] \in Int /\ \A x \in s : g[s] = f[x] + g[s \ {x}]
           N == {n \in Nat : \A s \in SUBSET S : Cardinality(s) <= n => Good(s)}
<1>0. \A s \in SUBSET S : IsFiniteSet(s) /\ Cardinality(s) \in Nat
  BY FS_Subset, FS_CardinalityType
<1>1. 0 \in N
  <2>1. \A s \in SUBSET S : Cardinality(s) <= 0 => s = {}
    BY <1>0, FS_EmptySet
  <2>2. Good({})
    BY DEF TakesAway
  <2>3. QED
    BY <2>1, <2>2
<1>2. ASSUME NEW n \in Nat, n \in N PROVE n + 1 \in N
  <2> SUFFICES ASSUME NEW s \in SUBSET S, Cardinality(s) = n + 1 PROVE Good(s)
    BY <1>0, <1>2
  <2>0. \A t \in SUBSET S : Cardinality(t) <= n => Good(t)
    BY <1>2
  <2> HIDE DEF Good, N
  <2>1. ASSUME NEW x \in s PROVE Good(s \ {x})
    <3>1. Cardinality(s \ {x}) = Cardinality(s) - 1
      BY <1>0, FS_RemoveElement
    <3>2. Cardinality(s \ {x}) <= n
      BY <3>1
    <3>3. QED
      BY <2>0, <3>2
  <2> USE DEF Good
  <2>2. PICK x \in s : g[s] = f[x] + g[s \ {x}]
    <3>1. s # {}
      BY FS_EmptySet, n + 1 # 0
    <3>2. QED
      BY <3>1 DEF TakesAway
  <2>3. g[s] \in Int
    <3>1. g[s \ {x}] \in Int /\ f[x] \in Int
      BY <2>1
    <3>2. QED
      BY <2>2, <3>1
  <2>4. ASSUME NEW y \in s, y # x PROVE g[s] = f[y] + g[s \ {y}]
    <3> DEFINE r == (s \ {x}) \ {y}
    <3>1. g[s \ {x}] = f[y] + g[r]
      BY <2>1, <2>4
    <3>2. (s \ {y}) \ {x} = r
      OBVIOUS
    <3>3. g[s \ {y}] = f[x] + g[r]
      <4>1. g[s \ {y}] = f[x] + g[(s \ {y}) \ {x}]
        BY <2>1, <2>4
      <4>2. QED
        BY <3>2, <4>1
    <3>4. f[x] \in Int /\ f[y] \in Int /\ g[r] \in Int
      <4>1. IsFiniteSet(s) /\ IsFiniteSet(s \ {x})
        BY <1>0
      <4>2. /\ Cardinality(s \ {x}) = Cardinality(s) - 1
            /\ Cardinality(r) = Cardinality(s \ {x}) - 1
        BY <2>4, <4>1, FS_RemoveElement
      <4>3. Cardinality(r) <= n
        BY <4>2
      <4>4. Good(r)
        BY <2>0, <4>3
      <4>5. QED
        BY <2>1, <4>4
    <3> HIDE DEF r
    <3>5. QED
      BY <2>2, <3>1, <3>3, <3>4
  <2>5. QED
    BY <2>2, <2>3, <2>4
<1> HIDE DEF N
<1>3. Nat \subseteq N
  BY <1>1, <1>2, InductionOnNat
<1>4. \A s \in SUBSET S : Good(s)
  <2> SUFFICES ASSUME NEW s \in SUBSET S PROVE Good(s)
    OBVIOUS
  <2>1. Cardinality(s) \in N /\ Cardinality(s) <= Cardinality(s)
    BY <1>0, <1>3
  <2> HIDE DEF Good
  <2>2. QED
    BY <2>1 DEF N
<1>5. QED
  BY <1>4 DEF Additive, TakesAway

\* Two such functions agree where their summands do.
LEMMA AdditiveUnique ==
  ASSUME NEW S, NEW T, NEW f, NEW e, NEW g, NEW h, Additive(g, f, S), Additive(h, e, T),
         NEW s \in SUBSET S, IsFiniteSet(s), s \subseteq T, \A x \in s : f[x] = e[x]
  PROVE  g[s] = h[s]
<1> DEFINE P == {t \in SUBSET s : g[t] = h[t]}
<1>1. {} \in P
  BY DEF Additive
<1>2. ASSUME NEW t \in SUBSET s, NEW x \in s \ t, t \in P PROVE t \cup {x} \in P
  <2>1. (t \cup {x}) \ {x} = t
    OBVIOUS
  <2>2. g[t \cup {x}] = f[x] + g[t] /\ h[t \cup {x}] = e[x] + h[t]
    BY <2>1 DEF Additive
  <2>3. QED
    BY <1>2, <2>2
<1> HIDE DEF P
<1>3. s \in P
  BY <1>1, <1>2, InductionOnSet
<1>4. QED
  BY <1>3 DEF P

\* The sum of a function over a finite set, for short.
Sum(f, S) == SumFunctionOnSet(f, S)

LEMMA SumIsAdditive ==
  ASSUME NEW S, IsFiniteSet(S), NEW f, \A x \in S : f[x] \in Int
  PROVE  \E g : Additive(g, f, S) /\ Sum(f, S) = g[S]
<1> DEFINE c == [s \in SUBSET S |-> CHOOSE x \in s : TRUE]
           step == [p \in S \X Int |-> f[p[1]] + p[2]]
           IsIter(g) == g = [s \in SUBSET S |-> IF s = {} THEN 0
                               ELSE LET x == CHOOSE x \in s : TRUE IN f[x] + g[s \ {x}]]
           iter == CHOOSE g : IsIter(g)
<1>1. Chooser(c, S)
  BY DEF Chooser
<1>2. PICK g \in [SUBSET S -> Int] : FoldUp(g, step, 0, c, S)
  <2>1. step \in [S \X Int -> Int] /\ 0 \in Int
    OBVIOUS
  <2> HIDE DEF step, c
  <2>2. QED
    BY <1>1, <2>1, FoldUpExists
<1>3. \A s \in SUBSET S : s # {} => step[<<c[s], g[s \ {c[s]}]>>] = f[c[s]] + g[s \ {c[s]}]
  <2>1. \A x \in S : \A v \in Int : step[<<x, v>>] = f[x] + v
    OBVIOUS
  <2>2. \A s \in SUBSET S : s # {} => c[s] \in S /\ g[s \ {c[s]}] \in Int
    BY <1>1 DEF Chooser
  <2> HIDE DEF step, c
  <2>3. QED
    BY <2>1, <2>2
<1>4. IsIter(g)
  <2>1. g = [s \in SUBSET S |-> IF s = {} THEN 0 ELSE f[c[s]] + g[s \ {c[s]}]]
    <3> HIDE DEF c, step
    <3>1. QED
      BY <1>2, <1>3 DEF FoldUp
  <2>2. QED
    BY <2>1
<1>5. IsIter(iter)
  <2> HIDE DEF IsIter
  <2>1. QED
    BY <1>4
<1>6. Sum(f, S) = iter[S]
  BY DEF Sum, SumFunctionOnSet, FoldFunctionOnSet, MapThenFoldSet
<1> HIDE DEF iter
<1>7. TakesAway(iter, f, S)
  BY <1>5 DEF TakesAway
<1>8. QED
  BY <1>6, <1>7, AnyElement

\* A sum may be taken apart at any element.
LEMMA SumTakesApart ==
  ASSUME NEW S, IsFiniteSet(S), NEW f, \A x \in S : f[x] \in Int
  PROVE  /\ Sum(f, {}) = 0
         /\ Sum(f, S) \in Int
         /\ \A x \in S : Sum(f, S) = f[x] + Sum(f, S \ {x})
<1>1. PICK g : Additive(g, f, S) /\ Sum(f, S) = g[S]
  BY SumIsAdditive
<1>2. ASSUME NEW T \in SUBSET S PROVE Sum(f, T) = g[T]
  <2>1. IsFiniteSet(T)
    BY FS_Subset
  <2>2. PICK h : Additive(h, f, T) /\ Sum(f, T) = h[T]
    BY <2>1, SumIsAdditive
  <2>3. QED
    BY <1>1, <2>1, <2>2, AdditiveUnique
<1>3. QED
  BY <1>1, <1>2 DEF Additive

LEMMA SumOfSame ==
  ASSUME NEW S, IsFiniteSet(S), NEW f, NEW e, \A x \in S : f[x] \in Int /\ e[x] = f[x]
  PROVE  Sum(f, S) = Sum(e, S)
<1>1. PICK g : Additive(g, f, S) /\ Sum(f, S) = g[S]
  BY SumIsAdditive
<1>2. PICK h : Additive(h, e, S) /\ Sum(e, S) = h[S]
  BY SumIsAdditive
<1>3. g[S] = h[S]
  BY <1>1, <1>2, AdditiveUnique
<1>4. QED
  BY <1>1, <1>2, <1>3

\* No summand is larger than the sum, if none is below 0.
LEMMA SumOfNat ==
  ASSUME NEW S, IsFiniteSet(S), NEW f, \A x \in S : f[x] \in Nat
  PROVE  /\ Sum(f, S) \in Nat
         /\ \A x \in S : f[x] <= Sum(f, S)
<1> DEFINE P == {s \in SUBSET S : Sum(f, s) \in Nat}
<1>1. {} \in P
  BY SumTakesApart
<1>2. ASSUME NEW s \in SUBSET S, NEW x \in S \ s, s \in P PROVE s \cup {x} \in P
  <2>1. IsFiniteSet(s \cup {x}) /\ (s \cup {x}) \ {x} = s
    BY FS_Subset
  <2>2. Sum(f, s \cup {x}) = f[x] + Sum(f, s)
    BY <2>1, SumTakesApart
  <2>3. QED
    BY <1>2, <2>2
<1> HIDE DEF P
<1>3. \A s \in SUBSET S : IsFiniteSet(s) => s \in P
  <2> SUFFICES ASSUME NEW s \in SUBSET S, IsFiniteSet(s) PROVE s \in P
    OBVIOUS
  <2>1. \A t \in SUBSET s : \A x \in s \ t : t \in P => t \cup {x} \in P
    BY <1>2
  <2>2. QED
    BY <1>1, <2>1, InductionOnSet
<1>4. \A s \in SUBSET S : Sum(f, s) \in Nat
  BY <1>3, FS_Subset DEF P
<1>5. \A x \in S : Sum(f, S) = f[x] + Sum(f, S \ {x})
  BY SumTakesApart
<1>6. \A x \in S : S \ {x} \in SUBSET S
  OBVIOUS
<1>7. \A a, b, c \in Nat : c = a + b => a <= c
  OBVIOUS
<1>8. QED
  BY <1>4, <1>5, <1>6, <1>7

\* Sums are compared summand by summand: k * e + d <= m * f at each element gives it for
\* the sums.
LEMMA SumsCompare ==
  ASSUME NEW S, IsFiniteSet(S), NEW e, NEW f, NEW k \in Int, NEW m \in Int, NEW d \in Int,
         \A x \in S : e[x] \in Int /\ f[x] \in Int /\ k * e[x] + d <= m * f[x]
  PROVE  k * Sum(e, S) + d * Cardinality(S) <= m * Sum(f, S)
<1> DEFINE Holds(s) == k * Sum(e, s) + d * Cardinality(s) <= m * Sum(f, s)
           P == {s \in SUBSET S : Holds(s)}
<1>0. \A s \in SUBSET S : IsFiniteSet(s) /\ Cardinality(s) \in Nat
  BY FS_Subset, FS_CardinalityType
<1>1. {} \in P
  <2>1. Sum(e, {}) = 0 /\ Sum(f, {}) = 0 /\ Cardinality({}) = 0
    BY SumTakesApart, FS_EmptySet
  <2>2. k * 0 + d * 0 <= m * 0
    OBVIOUS
  <2>3. QED
    BY <2>1, <2>2
<1>2. ASSUME NEW s \in SUBSET S, NEW x \in S \ s, s \in P PROVE s \cup {x} \in P
  <2> DEFINE t == s \cup {x}
  <2>1. IsFiniteSet(s) /\ IsFiniteSet(t) /\ t \ {x} = s /\ x \in t /\ Cardinality(s) \in Nat
    BY <1>0
  <2> HIDE DEF t
  <2>2. Sum(e, t) = e[x] + Sum(e, s) /\ Sum(f, t) = f[x] + Sum(f, s)
    <3>1. t \subseteq S
      BY DEF t
    <3>2. Sum(e, t) = e[x] + Sum(e, s)
      BY <2>1, <3>1, SumTakesApart
    <3>3. Sum(f, t) = f[x] + Sum(f, s)
      BY <2>1, <3>1, SumTakesApart
    <3>4. QED
      BY <3>2, <3>3
  <2>3. Cardinality(t) = Cardinality(s) + 1
    BY <2>1, FS_AddElement DEF t
  <2>4. Sum(e, s) \in Int /\ Sum(f, s) \in Int /\ e[x] \in Int /\ f[x] \in Int
    BY <2>1, SumTakesApart
  <2>5. k * e[x] + d <= m * f[x] /\ Holds(s)
    BY <1>2
  <2>6. \A a, b, u, v, c \in Int :
          k * a + d <= m * b /\ k * u + d * c <= m * v
            => k * (a + u) + d * (c + 1) <= m * (b + v)
    <3> TAKE a, b, u, v, c \in Int
    <3>1. k * (a + u) = k * a + k * u /\ d * (c + 1) = d * c + d /\ m * (b + v) = m * b + m * v
      OBVIOUS
    <3>2. k * a \in Int /\ k * u \in Int /\ d * c \in Int /\ m * b \in Int /\ m * v \in Int
      OBVIOUS
    <3>3. QED
      BY <3>1, <3>2
  <2>7. Holds(t)
    BY <2>1, <2>2, <2>3, <2>4, <2>5, <2>6
  <2>8. QED
    BY <2>7 DEF t
<1> HIDE DEF P
<1>3. S \in P
  BY <1>1, <1>2, InductionOnSet
<1>4. QED
  BY <1>3 DEF P

-----------------------------------------------------------------------------
(* Arithmetic.                                                             *)

LEMMA Quotient ==
  ASSUME NEW a \in Nat, NEW b \in Nat \ {0}
  PROVE  /\ a \div b \in Nat
         /\ b * (a \div b) <= a /\ a < b * (a \div b) + b
  OBVIOUS

LEMMA Cancel ==
  ASSUME NEW t \in Nat \ {0}, NEW x \in Int, NEW y \in Int
  PROVE  /\ t * x <= t * y => x <= y
         /\ t * x < t * y => x < y
<1>1. x >= y + 1 => t * x >= t * y + t
  <2>1. x >= y + 1 => t * (x - y - 1) >= 0
    OBVIOUS
  <2>2. t * (x - y - 1) = t * x - t * y - t
    OBVIOUS
  <2>3. QED
    BY <2>1, <2>2
<1>2. x >= y => t * x >= t * y
  <2>1. x >= y => t * (x - y) >= 0
    OBVIOUS
  <2>2. t * (x - y) = t * x - t * y
    OBVIOUS
  <2>3. QED
    BY <2>1, <2>2
<1>3. t * x \in Int /\ t * y \in Int
  OBVIOUS
<1>4. QED
  BY <1>1, <1>2, <1>3

\* A larger number has a larger quotient.
LEMMA QuotientGrows ==
  ASSUME NEW a \in Nat, NEW c \in Nat, NEW b \in Nat \ {0}, a <= c
  PROVE  a \div b <= c \div b
<1> DEFINE p == a \div b
           q == c \div b
<1>1. p \in Nat /\ q \in Nat /\ b * p <= a /\ c < b * q + b
  BY Quotient
<1> HIDE DEF p, q
<1>2. b * (q + 1) = b * q + b /\ b * p \in Int /\ b * q \in Int
  BY <1>1
<1>3. b * p < b * (q + 1)
  BY <1>1, <1>2
<1>4. p < q + 1
  BY <1>1, <1>3, Cancel
<1>5. QED
  BY <1>1, <1>4 DEF p, q

\* Round rounds half up.
LEMMA Rounding ==
  ASSUME NEW a \in Nat, NEW b \in Nat \ {0}
  PROVE  /\ Round(a, b) \in Nat
         /\ (2 * b) * Round(a, b) <= 2 * a + b
         /\ \A c \in Nat : a <= c => Round(a, b) <= Round(c, b)
<1>1. 2 * a + b \in Nat /\ 2 * b \in Nat \ {0}
  OBVIOUS
<1>2. \A c \in Nat : a <= c => 2 * c + b \in Nat /\ 2 * a + b <= 2 * c + b
  OBVIOUS
<1>3. QED
  BY <1>1, <1>2, Quotient, QuotientGrows DEF Round

\* Zeros add nothing.
LEMMA SumWithoutZeros ==
  ASSUME NEW S, IsFiniteSet(S), NEW f, \A x \in S : f[x] \in Int,
         NEW T \in SUBSET S, \A x \in S \ T : f[x] = 0
  PROVE  Sum(f, S) = Sum(f, T)
<1> DEFINE P == {s \in SUBSET S : Sum(f, s) = Sum(f, s \cap T)}
<1>1. {} \in P
  OBVIOUS
<1>2. ASSUME NEW s \in SUBSET S, NEW x \in S \ s, s \in P PROVE s \cup {x} \in P
  <2> DEFINE t == s \cup {x}
  <2>1. /\ IsFiniteSet(t) /\ IsFiniteSet(t \cap T) /\ IsFiniteSet(s)
        /\ t \ {x} = s /\ x \in t /\ t \subseteq S
    BY FS_Subset
  <2> HIDE DEF t
  <2>2. Sum(f, t) = f[x] + Sum(f, s) /\ Sum(f, s) \in Int
    BY <2>1, SumTakesApart
  <2>3. CASE x \in T
    <3>1. (t \cap T) \ {x} = s \cap T /\ x \in t \cap T
      BY <2>3 DEF t
    <3>2. IsFiniteSet(t \cap T) /\ \A y \in t \cap T : f[y] \in Int
      BY <2>1
    <3>3. Sum(f, t \cap T) = f[x] + Sum(f, s \cap T)
      <4> DEFINE u == t \cap T
      <4>1. IsFiniteSet(u) /\ (\A y \in u : f[y] \in Int) /\ x \in u /\ u \ {x} = s \cap T
        BY <3>1, <3>2
      <4> HIDE DEF u
      <4>2. Sum(f, u) = f[x] + Sum(f, u \ {x})
        BY <4>1, SumTakesApart
      <4>3. QED
        BY <4>1, <4>2 DEF u
    <3>4. QED
      BY <1>2, <2>1, <2>2, <3>3 DEF t
  <2>4. CASE x \notin T
    <3>1. t \cap T = s \cap T /\ f[x] = 0
      BY <2>4 DEF t
    <3>2. Sum(f, t) = Sum(f, s) /\ Sum(f, s) = Sum(f, s \cap T)
      BY <1>2, <2>2, <3>1
    <3>3. QED
      BY <2>1, <3>1, <3>2 DEF t
  <2>5. QED
    BY <2>3, <2>4
<1> HIDE DEF P
<1>3. S \in P /\ S \cap T = T
  BY <1>1, <1>2, InductionOnSet
<1>4. QED
  BY <1>3 DEF P

-----------------------------------------------------------------------------
(* adjustWeights.  It is about any finite set of paths, with scores and     *)
(* weights of any size.                                                     *)

PathMap(ps) ==
  /\ IsFiniteSet(DOMAIN ps)
  /\ \A n \in DOMAIN ps : ps[n] \in [Score : Nat, Weight : Nat, Active : BOOLEAN]

ScoreOf(ps) == [n \in DOMAIN ps |-> ps[n].Score]

LEMMA ScoredAmongActive ==
  ASSUME NEW ps, PathMap(ps)
  PROVE  /\ ScoredOf(ps) \subseteq ActiveOf(ps) /\ ActiveOf(ps) \subseteq DOMAIN ps
         /\ IsFiniteSet(ScoredOf(ps)) /\ IsFiniteSet(ActiveOf(ps))
         /\ Cardinality(ScoredOf(ps)) \in Nat /\ Cardinality(ActiveOf(ps)) \in Nat
         /\ Cardinality(ScoredOf(ps)) <= Cardinality(ActiveOf(ps))
         /\ Sum(ScoreOf(ps), ScoredOf(ps)) \in Nat
         /\ ScoredOf(ps) # {} =>
              /\ Sum(ScoreOf(ps), ScoredOf(ps)) \in Nat \ {0}
              /\ Cardinality(ActiveOf(ps)) >= 1
<1>1. ScoredOf(ps) \subseteq ActiveOf(ps) /\ ActiveOf(ps) \subseteq DOMAIN ps
  BY DEF ScoredOf, ActiveOf
<1>2. IsFiniteSet(ActiveOf(ps)) /\ IsFiniteSet(ScoredOf(ps))
  BY <1>1, FS_Subset DEF PathMap
<1>3. /\ Cardinality(ScoredOf(ps)) \in Nat /\ Cardinality(ActiveOf(ps)) \in Nat
      /\ Cardinality(ScoredOf(ps)) <= Cardinality(ActiveOf(ps))
  BY <1>1, <1>2, FS_Subset, FS_CardinalityType
<1>4. \A n \in ScoredOf(ps) : ScoreOf(ps)[n] \in Nat /\ ScoreOf(ps)[n] > 0
  BY <1>1 DEF PathMap, ScoreOf, ScoredOf
<1>5. /\ Sum(ScoreOf(ps), ScoredOf(ps)) \in Nat
      /\ \A n \in ScoredOf(ps) : ScoreOf(ps)[n] <= Sum(ScoreOf(ps), ScoredOf(ps))
  BY <1>2, <1>4, SumOfNat
<1>6. ASSUME ScoredOf(ps) # {}
      PROVE  Sum(ScoreOf(ps), ScoredOf(ps)) # 0 /\ Cardinality(ActiveOf(ps)) >= 1
  <2>1. PICK n \in ScoredOf(ps) : TRUE
    BY <1>6
  <2>2. Sum(ScoreOf(ps), ScoredOf(ps)) # 0
    BY <1>4, <1>5, <2>1
  <2>3. Cardinality(ActiveOf(ps)) # 0
    BY <1>1, <1>2, <2>1, FS_EmptySet
  <2>4. QED
    BY <1>3, <2>2, <2>3
<1>7. QED
  BY <1>1, <1>2, <1>3, <1>5, <1>6

\* The share of a path before it is made a percentage.
LEMMA RawShares ==
  ASSUME NEW ps, PathMap(ps), ScoredOf(ps) # {}
  PROVE  LET t == Sum(ScoreOf(ps), ScoredOf(ps))
             k == Cardinality(ScoredOf(ps))
         IN /\ \A n \in DOMAIN ps : Raw(ps)[n] \in 0 .. 60 /\ (~ps[n].Active => Raw(ps)[n] = 0)
            /\ \A n \in ActiveOf(ps) :
                 /\ Raw(ps)[n] >= 5
                 /\ (2 * t) * Raw(ps)[n] + (-(11 * t)) <= (40 * k) * ScoreOf(ps)[n]
            /\ \A n, p \in ActiveOf(ps) :
                 ps[n].Score <= ps[p].Score => Raw(ps)[n] <= Raw(ps)[p]
<1> DEFINE t == Sum(ScoreOf(ps), ScoredOf(ps))
           k == Cardinality(ScoredOf(ps))
           a(n) == 20 * ps[n].Score * k
<1>1. t \in Nat \ {0} /\ k \in Nat
  BY ScoredAmongActive
<1>2. \A n \in DOMAIN ps : Raw(ps)[n] = IF ps[n].Active THEN Clamp(Round(a(n), t)) ELSE 0
  BY DEF Raw, Sum, ScoreOf
<1> HIDE DEF t, k
<1>3. \A n \in DOMAIN ps : ps[n].Score \in Nat /\ a(n) \in Nat /\ ScoreOf(ps)[n] = ps[n].Score
  <2>1. \A s \in Nat : 20 * s * k \in Nat
    BY <1>1
  <2>2. \A n \in DOMAIN ps : ps[n].Score \in Nat /\ ScoreOf(ps)[n] = ps[n].Score
    BY DEF PathMap, ScoreOf
  <2>3. QED
    BY <2>1, <2>2
<1> HIDE DEF a
<1>4. \A n \in DOMAIN ps : Round(a(n), t) \in Nat /\ (2 * t) * Round(a(n), t) <= 2 * a(n) + t
  BY <1>1, <1>3, Rounding
<1>5. \A r \in Nat : Clamp(r) \in 5 .. 60 /\ Clamp(r) <= r + 5
  BY DEF Clamp
<1>6. ASSUME NEW n \in ActiveOf(ps)
      PROVE  Raw(ps)[n] >= 5 /\ (2 * t) * Raw(ps)[n] + (-(11 * t)) <= (40 * k) * ScoreOf(ps)[n]
  <2> DEFINE r == Round(a(n), t)
             w == Raw(ps)[n]
             s == ps[n].Score
  <2>1. n \in DOMAIN ps /\ w = Clamp(r)
    BY <1>2 DEF ActiveOf
  <2>2. r \in Nat /\ (2 * t) * r <= 2 * a(n) + t
    BY <1>4, <2>1
  <2>3. w \in 5 .. 60 /\ w <= r + 5
    BY <1>5, <2>1, <2>2
  <2>4. s \in Nat /\ a(n) = 20 * s * k /\ a(n) \in Nat
    BY <1>3, <2>1 DEF a
  <2> HIDE DEF r, w, s
  <2>5. (2 * t) * w <= (2 * t) * (r + 5)
    <3>1. \A u \in Nat : \A x, y \in Int : x <= y => u * x <= u * y
      <4> TAKE u \in Nat
      <4> TAKE x, y \in Int
      <4>1. x <= y => u * (y - x) >= 0
        OBVIOUS
      <4>2. u * (y - x) = u * y - u * x /\ u * y \in Int /\ u * x \in Int
        OBVIOUS
      <4>3. QED
        BY <4>1, <4>2
    <3>2. 2 * t \in Nat /\ r + 5 \in Int /\ w \in Int
      BY <1>1, <2>2, <2>3
    <3>3. QED
      BY <2>3, <3>1, <3>2
  <2>6. (2 * t) * (r + 5) = (2 * t) * r + 10 * t /\ (2 * t) * r \in Int /\ (2 * t) * w \in Int
    BY <1>1, <2>2, <2>3
  <2>7. 2 * a(n) = (40 * k) * s
    BY <1>1, <2>4
  <2>8. (2 * t) * w + (-(11 * t)) <= (40 * k) * s
    <3>1. (40 * k) * s \in Int /\ t \in Int
      BY <1>1, <2>4
    <3>2. QED
      BY <2>2, <2>4, <2>5, <2>6, <2>7, <3>1
  <2>9. QED
    BY <1>3, <2>1, <2>3, <2>8 DEF w, s
<1>7. ASSUME NEW n \in ActiveOf(ps), NEW p \in ActiveOf(ps), ps[n].Score <= ps[p].Score
      PROVE  Raw(ps)[n] <= Raw(ps)[p]
  <2>1. n \in DOMAIN ps /\ p \in DOMAIN ps
    BY DEF ActiveOf
  <2>2. a(n) <= a(p)
    <3>1. \A x, y \in Nat : x <= y => 20 * x * k <= 20 * y * k
      <4> TAKE x, y \in Nat
      <4>1. x <= y => k * (y - x) >= 0
        BY <1>1
      <4>2. k * (y - x) = k * y - k * x /\ 20 * x * k = 20 * (k * x) /\ 20 * y * k = 20 * (k * y)
        BY <1>1
      <4>3. k * x \in Int /\ k * y \in Int
        BY <1>1
      <4>4. QED
        BY <4>1, <4>2, <4>3
    <3>2. QED
      BY <1>3, <1>7, <2>1, <3>1 DEF a
  <2>3. Round(a(n), t) <= Round(a(p), t) /\ Round(a(n), t) \in Nat /\ Round(a(p), t) \in Nat
    BY <1>1, <1>3, <2>1, <2>2, Rounding
  <2>4. \A x, y \in Nat : x <= y => Clamp(x) <= Clamp(y)
    BY DEF Clamp
  <2>5. Raw(ps)[n] = Clamp(Round(a(n), t)) /\ Raw(ps)[p] = Clamp(Round(a(p), t))
    BY <1>2, <2>1 DEF ActiveOf
  <2>6. QED
    BY <2>3, <2>4, <2>5
<1>8. \A n \in DOMAIN ps : Raw(ps)[n] \in 0 .. 60 /\ (~ps[n].Active => Raw(ps)[n] = 0)
  <2>1. \A x \in 5 .. 60 : x \in 0 .. 60
    OBVIOUS
  <2>2. QED
    BY <1>2, <1>4, <1>5, <2>1
<1>9. QED
  BY <1>6, <1>7, <1>8 DEF t, k

-----------------------------------------------------------------------------
(* The shares of adjustWeights.                                            *)

\* What the shares come to: the sum of the raw ones is small enough to leave each its one
\* per cent as long as there are no more than 19 active paths.
LEMMA RawSum ==
  ASSUME NEW ps, PathMap(ps), ScoredOf(ps) # {}
  PROVE  LET sum == Sum(Raw(ps), ActiveOf(ps))
         IN /\ sum \in Nat \ {0}
            /\ \A n \in ActiveOf(ps) : Raw(ps)[n] <= sum
            /\ 2 * sum <= 51 * Cardinality(ActiveOf(ps))
<1> DEFINE A == ActiveOf(ps)
           t == Sum(ScoreOf(ps), ScoredOf(ps))
           k == Cardinality(ScoredOf(ps))
           c == Cardinality(A)
           sum == Sum(Raw(ps), A)
<1>1. /\ t \in Nat \ {0} /\ k \in Nat /\ c \in Nat /\ k <= c /\ c >= 1
      /\ IsFiniteSet(A) /\ ScoredOf(ps) \subseteq A /\ A \subseteq DOMAIN ps
  BY ScoredAmongActive
<1>2. \A n \in A : /\ Raw(ps)[n] \in Nat /\ Raw(ps)[n] >= 5
                   /\ (2 * t) * Raw(ps)[n] + (-(11 * t)) <= (40 * k) * ScoreOf(ps)[n]
  BY <1>1, RawShares
<1>3. \A n \in A : ScoreOf(ps)[n] \in Nat /\ (n \notin ScoredOf(ps) => ScoreOf(ps)[n] = 0)
  BY <1>1 DEF ScoreOf, PathMap, ScoredOf
<1>4. Sum(ScoreOf(ps), A) = t
  BY <1>1, <1>3, SumWithoutZeros
<1>5. sum \in Nat /\ \A n \in A : Raw(ps)[n] <= sum
  BY <1>1, <1>2, SumOfNat
<1>6. A # {}
  BY <1>1, FS_EmptySet
<1> HIDE DEF A, t, k, c
<1>7. sum # 0
  BY <1>2, <1>5, <1>6
<1>8. (2 * t) * sum + (-(11 * t)) * c <= (40 * k) * t
  <2>1. 2 * t \in Int /\ -(11 * t) \in Int /\ 40 * k \in Int
    BY <1>1
  <2>2. (2 * t) * Sum(Raw(ps), A) + (-(11 * t)) * Cardinality(A) <= (40 * k) * Sum(ScoreOf(ps), A)
    <3>1. \A n \in A : /\ Raw(ps)[n] \in Int /\ ScoreOf(ps)[n] \in Int
                       /\ (2 * t) * Raw(ps)[n] + (-(11 * t)) <= (40 * k) * ScoreOf(ps)[n]
      BY <1>2, <1>3
    <3>2. QED
      BY <1>1, <2>1, <3>1, SumsCompare
  <2>3. QED
    BY <1>4, <2>2 DEF c
<1> HIDE DEF sum
<1>9. t * (2 * sum) <= t * (51 * c)
  <2>1. t * (2 * sum) = (2 * t) * sum /\ (2 * t) * sum \in Int
    BY <1>1, <1>5
  <2>2. (-(11 * t)) * c = -(11 * (t * c)) /\ t * c \in Int
    BY <1>1
  <2>3. (40 * k) * t <= 40 * (t * c)
    <3>1. t * (c - k) >= 0
      BY <1>1
    <3>2. t * (c - k) = t * c - t * k /\ (40 * k) * t = 40 * (t * k) /\ t * k \in Int
      BY <1>1
    <3>3. QED
      BY <2>2, <3>1, <3>2
  <2>4. t * (51 * c) = 51 * (t * c) /\ (40 * k) * t \in Int
    BY <1>1
  <2>5. QED
    BY <1>8, <2>1, <2>2, <2>3, <2>4
<1>10. 2 * sum <= 51 * c
  <2>1. 2 * sum \in Int /\ 51 * c \in Int
    BY <1>1, <1>5
  <2>2. QED
    BY <1>1, <1>9, <2>1, Cancel
<1>11. QED
  BY <1>5, <1>7, <1>10 DEF sum, A, c

LEMMA PercentShares ==
  ASSUME NEW ps, PathMap(ps), ScoredOf(ps) # {}
  PROVE  LET share == Percent(Raw(ps), ps)
         IN /\ \A n \in DOMAIN ps : share[n] \in 0 .. 100 /\ (~ps[n].Active => share[n] = 0)
            /\ Cardinality(ActiveOf(ps)) <= 19 => \A n \in ActiveOf(ps) : share[n] > 0
            /\ \A n, p \in ActiveOf(ps) : ps[n].Score <= ps[p].Score => share[n] <= share[p]
            /\ Sum(share, ActiveOf(ps)) <= 100
            /\ Sum(share, ActiveOf(ps)) > 100 - Cardinality(ActiveOf(ps))
<1> DEFINE A == ActiveOf(ps)
           c == Cardinality(A)
           raw == Raw(ps)
           sum == Sum(raw, A)
           share == Percent(raw, ps)
<1>1. IsFiniteSet(A) /\ c \in Nat /\ c >= 1 /\ A \subseteq DOMAIN ps
  BY ScoredAmongActive
<1>2. /\ sum \in Nat \ {0} /\ 2 * sum <= 51 * c
      /\ \A n \in A : raw[n] <= sum
  BY RawSum
<1>3. /\ \A n \in DOMAIN ps : raw[n] \in Nat /\ (~ps[n].Active => raw[n] = 0)
      /\ \A n \in A : raw[n] >= 5
      /\ \A n, p \in A : ps[n].Score <= ps[p].Score => raw[n] <= raw[p]
  BY RawShares
<1>4. \A n \in DOMAIN ps : share[n] = (raw[n] * 100) \div sum /\ (n \in A <=> ps[n].Active)
  BY DEF Percent, Sum, ActiveOf, PathMap
<1> HIDE DEF A, c, raw, sum, share
<1>5. \A n \in DOMAIN ps : /\ share[n] \in Nat
                           /\ sum * share[n] <= 100 * raw[n]
                           /\ 100 * raw[n] < sum * share[n] + sum
  <2> SUFFICES ASSUME NEW n \in DOMAIN ps
               PROVE  /\ share[n] \in Nat
                      /\ sum * share[n] <= 100 * raw[n]
                      /\ 100 * raw[n] < sum * share[n] + sum
    OBVIOUS
  <2>1. raw[n] * 100 \in Nat /\ 100 * raw[n] = raw[n] * 100
    BY <1>3
  <2>2. QED
    BY <1>2, <1>4, <2>1, Quotient
<1>6. \A n \in DOMAIN ps : share[n] <= 100 /\ (~ps[n].Active => share[n] = 0)
  <2> SUFFICES ASSUME NEW n \in DOMAIN ps
               PROVE  share[n] <= 100 /\ (~ps[n].Active => share[n] = 0)
    OBVIOUS
  <2>1. raw[n] <= sum /\ raw[n] \in Nat
    BY <1>2, <1>3, <1>4
  <2>2. sum * share[n] <= sum * 100 /\ sum * share[n] \in Int
    BY <1>2, <1>5, <2>1
  <2>3. share[n] <= 100
    BY <1>2, <1>5, <2>2, Cancel
  <2>4. ASSUME ~ps[n].Active PROVE share[n] = 0
    <3>1. raw[n] = 0
      BY <1>3, <2>4
    <3>2. sum * share[n] <= sum * 0
      BY <1>2, <1>5, <3>1
    <3>3. share[n] <= 0
      BY <1>2, <1>5, <3>2, Cancel
    <3>4. QED
      BY <1>5, <3>3
  <2>5. QED
    BY <2>3, <2>4
<1>7. ASSUME c <= 19, NEW n \in A PROVE share[n] > 0
  <2>1. n \in DOMAIN ps /\ raw[n] >= 5 /\ raw[n] \in Nat
    BY <1>1, <1>3, <1>7
  <2>2. sum < 500
    BY <1>1, <1>2, <1>7
  <2>3. share[n] # 0
    <3>1. ASSUME share[n] = 0 PROVE FALSE
      <4>1. sum * share[n] = 0
        BY <1>2, <3>1
      <4>2. 100 * raw[n] < sum * share[n] + sum
        BY <1>5, <2>1
      <4>3. QED
        BY <1>2, <2>1, <2>2, <4>1, <4>2
    <3>2. QED
      BY <3>1
  <2>4. QED
    BY <1>5, <2>1, <2>3
<1>8. ASSUME NEW n \in A, NEW p \in A, ps[n].Score <= ps[p].Score PROVE share[n] <= share[p]
  <2>1. n \in DOMAIN ps /\ p \in DOMAIN ps /\ raw[n] <= raw[p] /\ raw[n] \in Nat /\ raw[p] \in Nat
    BY <1>1, <1>3, <1>8
  <2>2. raw[n] * 100 \in Nat /\ raw[p] * 100 \in Nat /\ raw[n] * 100 <= raw[p] * 100
    BY <2>1
  <2>3. QED
    BY <1>2, <1>4, <2>1, <2>2, QuotientGrows
<1>9. Sum(share, A) \in Int
  BY <1>1, <1>5, SumTakesApart
<1>10. Sum(share, A) <= 100
  <2>1. sum * Sum(share, A) + 0 * Cardinality(A) <= 100 * Sum(raw, A)
    <3>1. \A n \in A : share[n] \in Int /\ raw[n] \in Int /\ sum * share[n] + 0 <= 100 * raw[n]
      <4> SUFFICES ASSUME NEW n \in A
                   PROVE  share[n] \in Int /\ raw[n] \in Int /\ sum * share[n] + 0 <= 100 * raw[n]
        OBVIOUS
      <4>1. n \in DOMAIN ps /\ sum * share[n] \in Int
        BY <1>1, <1>2, <1>5
      <4>2. QED
        BY <1>3, <1>5, <4>1
    <3>2. sum \in Int /\ 0 \in Int /\ 100 \in Int
      BY <1>2
    <3>3. QED
      BY <1>1, <3>1, <3>2, SumsCompare
  <2>2. sum * Sum(share, A) <= sum * 100
    <3>1. 0 * Cardinality(A) = 0 /\ sum * Sum(share, A) \in Int /\ Sum(raw, A) = sum
      BY <1>1, <1>2, <1>9 DEF c, sum
    <3>2. QED
      BY <1>2, <2>1, <3>1
  <2>3. QED
    BY <1>2, <1>9, <2>2, Cancel
<1>11. Sum(share, A) > 100 - c
  <2>1. 100 * Sum(raw, A) + (1 - sum) * Cardinality(A) <= sum * Sum(share, A)
    <3>1. \A n \in A : share[n] \in Int /\ raw[n] \in Int
                       /\ 100 * raw[n] + (1 - sum) <= sum * share[n]
      <4> SUFFICES ASSUME NEW n \in A
                   PROVE  share[n] \in Int /\ raw[n] \in Int
                          /\ 100 * raw[n] + (1 - sum) <= sum * share[n]
        OBVIOUS
      <4>1. n \in DOMAIN ps /\ sum * share[n] \in Int
        BY <1>1, <1>2, <1>5
      <4>2. QED
        BY <1>2, <1>3, <1>5, <4>1
    <3>2. sum \in Int /\ 1 - sum \in Int /\ 100 \in Int
      BY <1>2
    <3>3. QED
      BY <1>1, <3>1, <3>2, SumsCompare
  <2>2. sum * (100 - c) < sum * Sum(share, A)
    <3>1. Sum(raw, A) = sum /\ Cardinality(A) = c
      BY DEF c, sum
    <3>2. (1 - sum) * c = c - sum * c /\ sum * (100 - c) = 100 * sum - sum * c
      BY <1>1, <1>2
    <3>3. sum * c \in Int /\ sum * Sum(share, A) \in Int
      BY <1>1, <1>2, <1>9
    <3>4. QED
      BY <1>1, <1>2, <2>1, <3>1, <3>2, <3>3
  <2>3. 100 - c \in Int
    BY <1>1
  <2>4. QED
    BY <1>2, <1>9, <2>2, <2>3, Cancel
<1>12. \A n \in DOMAIN ps : share[n] \in 0 .. 100
  BY <1>5, <1>6
<1>13. QED
  BY <1>6, <1>7, <1>8, <1>10, <1>11, <1>12 DEF A, c, raw, share

\* What adjustWeights makes of any finite set of paths, with scores of any size: shares
\* between 0 and 100, none for an inactive path, none smaller for a better one, and together
\* less than one per cent short of 100 for each active path; none is 0 among up to 19.
THEOREM AdjustedShares ==
  ASSUME NEW ps, PathMap(ps), ScoredOf(ps) # {}
  PROVE  LET new == Adjusted(ps)
         IN /\ DOMAIN new = DOMAIN ps /\ PathMap(new) /\ ActiveOf(new) = ActiveOf(ps)
            /\ \A n \in DOMAIN ps : /\ new[n].Score = ps[n].Score /\ new[n].Active = ps[n].Active
                                    /\ new[n].Weight \in 0 .. 100
                                    /\ ~ps[n].Active => new[n].Weight = 0
            /\ Shared(new, ActiveWeight(new))
            /\ Cardinality(ActiveOf(ps)) <= 19 => \A n \in ActiveOf(ps) : new[n].Weight > 0
<1> DEFINE new == Adjusted(ps)
           share == Percent(Raw(ps), ps)
           A == ActiveOf(ps)
<1>1. /\ \A n \in DOMAIN ps : share[n] \in 0 .. 100 /\ (~ps[n].Active => share[n] = 0)
      /\ Cardinality(A) <= 19 => \A n \in A : share[n] > 0
      /\ \A n, p \in A : ps[n].Score <= ps[p].Score => share[n] <= share[p]
      /\ Sum(share, A) <= 100
      /\ Sum(share, A) > 100 - Cardinality(A)
  BY PercentShares
<1>2. IsFiniteSet(A) /\ A \subseteq DOMAIN ps
  BY ScoredAmongActive
<1>3. new = [n \in DOMAIN ps |-> [ps[n] EXCEPT !.Weight = share[n]]]
  BY DEF Adjusted
<1> HIDE DEF new, share
<1>4. DOMAIN new = DOMAIN ps
  BY <1>3
<1>5. \A n \in DOMAIN ps : /\ new[n] \in [Score : Nat, Weight : Nat, Active : BOOLEAN]
                           /\ new[n].Score = ps[n].Score /\ new[n].Active = ps[n].Active
                           /\ new[n].Weight = share[n]
  <2> SUFFICES ASSUME NEW n \in DOMAIN ps
               PROVE  /\ new[n] \in [Score : Nat, Weight : Nat, Active : BOOLEAN]
                      /\ new[n].Score = ps[n].Score /\ new[n].Active = ps[n].Active
                      /\ new[n].Weight = share[n]
    OBVIOUS
  <2>1. new[n] = [ps[n] EXCEPT !.Weight = share[n]] /\ share[n] \in Nat
    BY <1>1, <1>3
  <2>2. ps[n] \in [Score : Nat, Weight : Nat, Active : BOOLEAN]
    BY DEF PathMap
  <2>3. QED
    BY <2>1, <2>2
<1>6. PathMap(new) /\ ActiveOf(new) = A
  BY <1>4, <1>5 DEF PathMap, ActiveOf
<1>7. ActiveWeight(new) = Sum(share, A)
  <2> DEFINE w == [n \in DOMAIN new |-> new[n].Weight]
  <2>1. \A n \in A : share[n] \in Int /\ w[n] = share[n]
    BY <1>1, <1>2, <1>4, <1>5
  <2>2. ActiveWeight(new) = Sum(w, A)
    BY <1>6 DEF ActiveWeight, Sum
  <2> HIDE DEF w
  <2>3. QED
    BY <1>2, <2>1, <2>2, SumOfSame
<1>8. Shared(new, ActiveWeight(new))
  <2>1. \A n, p \in A : new[n].Score <= new[p].Score => new[n].Weight <= new[p].Weight
    BY <1>1, <1>2, <1>5
  <2>2. QED
    BY <1>1, <1>6, <1>7, <2>1 DEF Shared
<1>9. QED
  BY <1>1, <1>2, <1>4, <1>5, <1>6, <1>8 DEF new

\* Five paths share as the measurements of UpdatePath do, whatever they score: the two
\* limits of adjustWeights leave every active path a weight, and an inactive one none.
THEOREM AdjustSharesTheorem == MCBalancingSpec => []AdjustShares
<1>1. ASSUME NEW ps \in [1 .. 5 -> States], ScoredOf(ps) # {}
      PROVE  /\ Shared(Adjusted(ps), ActiveWeight(Adjusted(ps)))
             /\ \A n \in 1 .. 5 : Adjusted(ps)[n].Weight > 0 <=> ps[n].Active
  <2>1. DOMAIN ps = 1 .. 5 /\ \A n \in 1 .. 5 : ps[n] \in [Score : Nat, Weight : Nat, Active : BOOLEAN]
    <3> DEFINE Records == [Score : Nat, Weight : Nat, Active : BOOLEAN]
    <3>1. \A x \in Nat : \A b \in BOOLEAN : [Score |-> x, Weight |-> 0, Active |-> b] \in Records
      OBVIOUS
    <3> HIDE DEF Records
    <3>2. ASSUME NEW s \in States PROVE s \in Records
      <4>1. CASE s = [Score |-> 0, Weight |-> 0, Active |-> FALSE]
        BY <3>1, <4>1
      <4>2. CASE \E x \in {0, 1, 20, 99} : s = [Score |-> x, Weight |-> 0, Active |-> TRUE]
        <5>1. PICK x \in {0, 1, 20, 99} : s = [Score |-> x, Weight |-> 0, Active |-> TRUE]
          BY <4>2
        <5>2. x \in Nat
          OBVIOUS
        <5>3. QED
          BY <3>1, <5>1, <5>2
      <4>3. QED
        BY <4>1, <4>2 DEF States
    <3>3. QED
      BY <3>2 DEF Records
  <2>2. IsFiniteSet(1 .. 5) /\ Cardinality(1 .. 5) = 5
    BY FS_Interval, 1 \in Int, 5 \in Int, ~(1 > 5), 5 - 1 + 1 = 5
  <2>3. PathMap(ps)
    BY <2>1, <2>2 DEF PathMap
  <2>4. Cardinality(ActiveOf(ps)) <= 19
    <3>1. ActiveOf(ps) \subseteq 1 .. 5
      BY <2>1 DEF ActiveOf
    <3>2. Cardinality(ActiveOf(ps)) <= 5 /\ Cardinality(ActiveOf(ps)) \in Nat
      BY <2>2, <3>1, FS_Subset, FS_CardinalityType
    <3>3. QED
      BY <3>2
  <2>5. \A n \in 1 .. 5 : n \in ActiveOf(ps) <=> ps[n].Active
    BY <2>1 DEF ActiveOf
  <2>6. \A n \in 1 .. 5 : ~ps[n].Active => Adjusted(ps)[n].Weight = 0
    BY <1>1, <2>1, <2>3, AdjustedShares
  <2>7. \A n \in ActiveOf(ps) : Adjusted(ps)[n].Weight > 0
    BY <1>1, <2>3, <2>4, AdjustedShares
  <2>8. Shared(Adjusted(ps), ActiveWeight(Adjusted(ps)))
    BY <1>1, <2>3, AdjustedShares
  <2>9. QED
    BY <2>5, <2>6, <2>7, <2>8
<1>2. AdjustShares
  BY <1>1 DEF AdjustShares
<1>3. QED
  BY <1>2, PTL

-----------------------------------------------------------------------------
(* The scheduler.                                                          *)

LEMMA PathsTyped ==
  ASSUME SchedulerTypeOK
  PROVE  PathMap(paths) /\ IsFiniteSet(ActiveOf(paths))
<1>1. IsFiniteSet(DOMAIN paths)
  BY SchedulerAssumption, FS_Subset DEF SchedulerTypeOK, SchedulerAssumption
<1>2. \A s \in Scores \cup {0} : s \in Nat
  BY SchedulerAssumption DEF SchedulerAssumption
<1>3. PathMap(paths)
  BY <1>1, <1>2 DEF PathMap, SchedulerTypeOK, PathState
<1>4. QED
  BY <1>3, ScoredAmongActive

LEMMA ActiveWeightBounds ==
  ASSUME NEW ps, PathMap(ps)
  PROVE  /\ ActiveWeight(ps) \in Nat
         /\ \A n \in ActiveOf(ps) : ps[n].Weight <= ActiveWeight(ps)
<1> DEFINE w == [n \in DOMAIN ps |-> ps[n].Weight]
<1>1. IsFiniteSet(ActiveOf(ps)) /\ ActiveOf(ps) \subseteq DOMAIN ps
  BY ScoredAmongActive
<1>2. \A n \in ActiveOf(ps) : w[n] \in Nat /\ w[n] = ps[n].Weight
  BY <1>1 DEF PathMap
<1>3. ActiveWeight(ps) = Sum(w, ActiveOf(ps))
  BY DEF ActiveWeight, Sum
<1> HIDE DEF w
<1>4. QED
  BY <1>1, <1>2, <1>3, SumOfNat

\* The paths an operation leaves, and the total it computes of them, are typed.
LEMMA PathsLeft ==
  ASSUME NEW ps, DOMAIN ps \subseteq Names, \A n \in DOMAIN ps : ps[n] \in PathState
  PROVE  PathMap(ps) /\ ActiveWeight(ps) \in Nat
<1>1. IsFiniteSet(DOMAIN ps)
  BY SchedulerAssumption, FS_Subset DEF SchedulerAssumption
<1>2. \A s \in Scores \cup {0} : s \in Nat
  BY SchedulerAssumption DEF SchedulerAssumption
<1>3. PathMap(ps)
  BY <1>1, <1>2 DEF PathMap, PathState
<1>4. QED
  BY <1>3, ActiveWeightBounds

LEMMA MeasuredPaths ==
  ASSUME SchedulerTypeOK, NEW n \in DOMAIN paths, NEW score \in Scores, NEW lossy \in BOOLEAN
  PROVE  LET ps == Measured(n, score, lossy)
         IN DOMAIN ps = DOMAIN paths /\ \A p \in DOMAIN ps : ps[p] \in PathState
<1> DEFINE new == [Score |-> score, Weight |-> paths[n].Weight, Active |-> score > 0 /\ ~lossy]
<1>1. paths[n].Weight \in 0 .. 100
  BY DEF SchedulerTypeOK, PathState
<1>2. (score > 0 /\ ~lossy) \in BOOLEAN
  OBVIOUS
<1>3. new \in PathState
  BY <1>1, <1>2 DEF PathState
<1>4. Measured(n, score, lossy) = [paths EXCEPT ![n] = new]
  BY DEF Measured
<1> HIDE DEF new
<1>5. QED
  BY <1>3, <1>4 DEF SchedulerTypeOK

LEMMA SchedulerTypeStep ==
  ASSUME SchedulerTypeOK, [SchedulerNext]_vars
  PROVE  SchedulerTypeOK'
<1> USE SchedulerAssumption DEF SchedulerAssumption
<1>1. ASSUME NEW m \in Modes, SetMode(m) PROVE SchedulerTypeOK'
  <2>1. ActiveWeight(paths) \in Nat
    BY PathsLeft DEF SchedulerTypeOK
  <2>2. QED
    BY <1>1, <2>1 DEF SetMode, SchedulerTypeOK
<1>2. ASSUME DOMAIN paths' \subseteq Names, \A p \in DOMAIN paths' : paths'[p] \in PathState,
             totalWeight' = ActiveWeight(paths'), UNCHANGED mode
      PROVE  SchedulerTypeOK'
  <2>1. ActiveWeight(paths') \in Nat
    BY <1>2, PathsLeft
  <2>2. QED
    BY <1>2, <2>1 DEF SchedulerTypeOK
<1>3. ASSUME NEW n \in Names, NEW w \in InitialWeights, AddPath(n, w) PROVE SchedulerTypeOK'
  <2>1. [Score |-> 0, Weight |-> w, Active |-> FALSE] \in PathState
    BY DEF PathState
  <2>2. DOMAIN paths' \subseteq Names /\ \A p \in DOMAIN paths' : paths'[p] \in PathState
    BY <1>3, <2>1 DEF AddPath, SchedulerTypeOK
  <2>3. QED
    BY <1>2, <1>3, <2>2 DEF AddPath
<1>4. ASSUME NEW n \in Names, RemovePath(n) PROVE SchedulerTypeOK'
  <2>1. DOMAIN paths' \subseteq Names /\ \A p \in DOMAIN paths' : paths'[p] \in PathState
    BY <1>4 DEF RemovePath, SchedulerTypeOK
  <2>2. QED
    BY <1>2, <1>4, <2>1 DEF RemovePath
<1>5. ASSUME NEW n \in Names, NEW active \in BOOLEAN, SetActive(n, active) PROVE SchedulerTypeOK'
  <2>1. \A s \in PathState : [s EXCEPT !.Active = active] \in PathState
    BY DEF PathState
  <2>2. DOMAIN paths' \subseteq Names /\ \A p \in DOMAIN paths' : paths'[p] \in PathState
    BY <1>5, <2>1 DEF SetActive, SchedulerTypeOK
  <2>3. QED
    BY <1>2, <1>5, <2>2 DEF SetActive
<1>6. ASSUME NEW n \in Names, NEW score \in Scores, NEW lossy \in BOOLEAN,
             UpdatePath(n, score, lossy)
      PROVE  SchedulerTypeOK'
  <2> DEFINE ps == Measured(n, score, lossy)
  <2>1. /\ n \in DOMAIN paths /\ mode' = mode
        /\ IF mode = "weighted" /\ ScoredOf(ps) # {}
           THEN paths' = Adjusted(ps) /\ totalWeight' = ActiveWeight(paths')
           ELSE paths' = ps /\ UNCHANGED totalWeight
    BY <1>6 DEF UpdatePath
  <2>2. DOMAIN ps = DOMAIN paths /\ \A p \in DOMAIN ps : ps[p] \in PathState
    BY <2>1, MeasuredPaths
  <2>3. DOMAIN ps \subseteq Names /\ PathMap(ps)
    BY <2>2, PathsLeft DEF SchedulerTypeOK
  <2> HIDE DEF ps
  <2>4. CASE mode = "weighted" /\ ScoredOf(ps) # {}
    <3>1. /\ DOMAIN Adjusted(ps) = DOMAIN ps /\ PathMap(Adjusted(ps))
          /\ \A p \in DOMAIN ps : /\ Adjusted(ps)[p].Score = ps[p].Score
                                  /\ Adjusted(ps)[p].Weight \in 0 .. 100
      BY <2>3, <2>4, AdjustedShares
    <3>2. \A p \in DOMAIN ps : Adjusted(ps)[p] \in PathState
      BY <2>2, <3>1 DEF PathMap, PathState
    <3>3. QED
      BY <1>2, <2>1, <2>3, <2>4, <3>1, <3>2
  <2>5. CASE ~(mode = "weighted" /\ ScoredOf(ps) # {})
    BY <2>1, <2>2, <2>3, <2>5 DEF SchedulerTypeOK
  <2>6. QED
    BY <2>4, <2>5
<1>7. CASE UNCHANGED vars
  BY <1>7 DEF vars, SchedulerTypeOK
<1>8. QED
  BY <1>1, <1>3, <1>4, <1>5, <1>6, <1>7 DEF SchedulerNext

-----------------------------------------------------------------------------
(* The theorems of the scheduler: its types, the total, the picks, the      *)
(* shares.                                                                 *)

LEMMA SchedulerTypeInit == NewScheduler => SchedulerTypeOK
  BY SchedulerAssumption DEF NewScheduler, SchedulerTypeOK, SchedulerAssumption

\* Weights are percentages and the total is a number, after any sequence of operations.
THEOREM SchedulerTypeTheorem == SchedulerSpec => []SchedulerTypeOK
<1>1. QED
  BY SchedulerTypeInit, SchedulerTypeStep, PTL DEF SchedulerSpec

\* The empty scheduler of NewScheduler has scored nothing.
LEMMA ExactInit == NewScheduler => WeightedTotalExact
  BY DEF NewScheduler, WeightedTotalExact, ScoredOf, ActiveOf

\* UpdatePath leaves a total that is not exact only where no path has scored:
\* the early return of adjustWeights.
LEMMA ExactUpdate ==
  ASSUME NEW n, NEW score, NEW lossy, UpdatePath(n, score, lossy)
  PROVE  WeightedTotalExact'
<1>1. CASE mode = "weighted" /\ ScoredOf(Measured(n, score, lossy)) # {}
  BY <1>1 DEF UpdatePath, WeightedTotalExact
<1>2. CASE mode = "weighted" /\ ScoredOf(Measured(n, score, lossy)) = {}
  BY <1>2 DEF UpdatePath, WeightedTotalExact
<1>3. CASE mode # "weighted"
  BY <1>3 DEF UpdatePath, WeightedTotalExact
<1>4. QED
  BY <1>1, <1>2, <1>3

\* Every operation of the scheduler keeps the total exact.
LEMMA ExactStep == WeightedTotalExact /\ [SchedulerNext]_vars => WeightedTotalExact'
<1> SUFFICES ASSUME WeightedTotalExact, [SchedulerNext]_vars PROVE WeightedTotalExact'
  OBVIOUS
<1>1. ASSUME NEW m \in Modes, SetMode(m) PROVE WeightedTotalExact'
  BY <1>1 DEF SetMode, WeightedTotalExact
<1>2. ASSUME NEW n \in Names, NEW w \in InitialWeights, AddPath(n, w) PROVE WeightedTotalExact'
  BY <1>2 DEF AddPath, WeightedTotalExact
<1>3. ASSUME NEW n \in Names, RemovePath(n) PROVE WeightedTotalExact'
  BY <1>3 DEF RemovePath, WeightedTotalExact
<1>4. ASSUME NEW n \in Names, NEW active \in BOOLEAN, SetActive(n, active)
      PROVE  WeightedTotalExact'
  BY <1>4 DEF SetActive, WeightedTotalExact
<1>5. CASE UNCHANGED vars
  BY <1>5 DEF vars, WeightedTotalExact
<1>6. QED
  BY <1>1, <1>2, <1>3, <1>4, <1>5, ExactUpdate DEF SchedulerNext

\* In weighted mode the total SelectPath divides by is the sum of the active
\* weights as long as a path has scored, after any sequence of operations.
THEOREM WeightedTotalTheorem == SchedulerSpec => []WeightedTotalExact
<1>1. QED
  BY ExactInit, ExactStep, PTL DEF SchedulerSpec

\* The weights of some of the active paths, as SelectPath adds them up.
LEMMA WeightsBefore ==
  ASSUME SchedulerTypeOK, NEW before \in SUBSET ActiveOf(paths)
  PROVE  SumFunctionOnSet([p \in before |-> paths[p].Weight], before) =
           Sum([p \in DOMAIN paths |-> paths[p].Weight], before)
<1> DEFINE e == [p \in before |-> paths[p].Weight]
           w == [p \in DOMAIN paths |-> paths[p].Weight]
<1>1. IsFiniteSet(before) /\ before \subseteq DOMAIN paths
  BY PathsTyped, FS_Subset DEF ActiveOf
<1>2. \A p \in before : e[p] \in Int /\ w[p] = e[p]
  BY <1>1, PathsTyped DEF PathMap
<1> HIDE DEF e, w
<1>3. Sum(e, before) = Sum(w, before)
  BY <1>1, <1>2, SumOfSame
<1>4. QED
  BY <1>3 DEF Sum, e, w

\* When the total is exact a path picked for being the last is not past the total.
LEMMA ExactPicks ==
  ASSUME SchedulerTypeOK, totalWeight = ActiveWeight(paths)
  PROVE  /\ \A n \in Picks : paths[n].Weight > 0
         /\ \A n \in ActiveOf(paths) : paths[n].Weight > 0 => n \in Picks
<1> DEFINE w == [p \in DOMAIN paths |-> paths[p].Weight]
           A == ActiveOf(paths)
           start(before) == SumFunctionOnSet([p \in before |-> paths[p].Weight], before)
<1>1. PathMap(paths) /\ IsFiniteSet(A) /\ A \subseteq DOMAIN paths
  BY PathsTyped DEF ActiveOf
<1>2. \A n \in A : w[n] \in Nat /\ w[n] = paths[n].Weight
  BY <1>1 DEF PathMap
<1>3. totalWeight = Sum(w, A)
  BY DEF ActiveWeight, Sum
<1>4. \A before \in SUBSET A : start(before) = Sum(w, before)
  BY WeightsBefore
<1> HIDE DEF w, A, start
<1>5. \A n \in A : Sum(w, A) = w[n] + Sum(w, A \ {n}) /\ Sum(w, A \ {n}) \in Nat /\ w[n] <= Sum(w, A)
  <2> SUFFICES ASSUME NEW n \in A
               PROVE  /\ Sum(w, A) = w[n] + Sum(w, A \ {n})
                      /\ Sum(w, A \ {n}) \in Nat /\ w[n] <= Sum(w, A)
    OBVIOUS
  <2>1. IsFiniteSet(A \ {n}) /\ \A p \in A \ {n} : w[p] \in Nat
    BY <1>1, <1>2, FS_Subset
  <2>2. Sum(w, A \ {n}) \in Nat
    BY <2>1, SumOfNat
  <2>3. Sum(w, A) = w[n] + Sum(w, A \ {n})
    BY <1>1, <1>2, SumTakesApart
  <2>4. w[n] <= Sum(w, A)
    BY <1>1, <1>2, SumOfNat
  <2>5. QED
    BY <2>2, <2>3, <2>4
<1>6. ASSUME NEW n \in Picks PROVE paths[n].Weight > 0
  <2>1. n \in A
    BY DEF Picks, A
  <2>2. PICK before \in SUBSET (A \ {n}) :
          \/ start(before) < start(before) + paths[n].Weight /\ start(before) < totalWeight
          \/ before = A \ {n} /\ start(before) + paths[n].Weight < totalWeight
    BY DEF Picks, A, start
  <2>3. start(before) = Sum(w, before) /\ paths[n].Weight = w[n] /\ w[n] \in Nat
    BY <1>2, <1>4, <2>1
  <2>4. Sum(w, before) \in Nat
    <3>1. IsFiniteSet(before) /\ \A p \in before : w[p] \in Nat
      BY <1>1, <1>2, FS_Subset
    <3>2. QED
      BY <3>1, SumOfNat
  <2>5. CASE before = A \ {n} /\ start(before) + paths[n].Weight < totalWeight
    BY <1>3, <1>5, <2>1, <2>3, <2>4, <2>5
  <2>6. CASE start(before) < start(before) + paths[n].Weight
    BY <2>3, <2>4, <2>6
  <2>7. QED
    BY <2>2, <2>5, <2>6
<1>7. ASSUME NEW n \in A, paths[n].Weight > 0 PROVE n \in Picks
  <2>1. {} \in SUBSET (A \ {n}) /\ start({}) = 0
    <3>1. Sum(w, {}) = 0
      BY <1>1, <1>2, SumTakesApart
    <3>2. QED
      BY <1>4, <3>1
  <2>2. start({}) < start({}) + paths[n].Weight /\ start({}) < totalWeight
    <3>1. paths[n].Weight \in Nat /\ paths[n].Weight > 0
      BY <1>2, <1>7
    <3>2. paths[n].Weight <= totalWeight /\ totalWeight \in Nat
      <4>1. w[n] <= Sum(w, A) /\ w[n] \in Nat /\ Sum(w, A \ {n}) \in Nat
        BY <1>2, <1>5
      <4>2. Sum(w, A) = w[n] + Sum(w, A \ {n})
        BY <1>5
      <4>3. QED
        BY <1>2, <1>3, <4>1, <4>2
    <3>3. QED
      BY <2>1, <3>1, <3>2
  <2>3. QED
    BY <2>1, <2>2 DEF Picks, A, start
<1>8. QED
  BY <1>6, <1>7 DEF A

\* SelectPath never returns a path that has been given no traffic, although it ends on the
\* last one when the clock falls past them all.
THEOREM PicksTheorem == SchedulerSpec => []PicksCarryWeight
<1>1. SchedulerTypeOK /\ WeightedTotalExact => PicksCarryWeight
  BY ExactPicks DEF WeightedTotalExact, PicksCarryWeight
<1>2. QED
  BY <1>1, SchedulerTypeTheorem, WeightedTotalTheorem, PTL

\* Each measurement shares the traffic out again, in weighted mode, when there are no more
\* than 19 paths: every active path may be picked, a better one has no smaller weight, and
\* rounding loses less than one per cent for each.
THEOREM UpdateSharesTheorem ==
  ASSUME Cardinality(Names) <= 19
  PROVE  SchedulerSpec => UpdateShares
<1> DEFINE Exact == SchedulerTypeOK /\ totalWeight = ActiveWeight(paths)
           AllPicked == \A p \in ActiveOf(paths) : paths[p].Weight > 0 => p \in Picks
<1>0. Exact' => AllPicked'
  <2>1. Exact => AllPicked
    BY ExactPicks
  <2> HIDE DEF Exact, AllPicked
  <2>2. QED
    BY <2>1, PTL
<1>1. ASSUME SchedulerTypeOK, SchedulerTypeOK', WeightedTotalExact',
             mode = "weighted", ScoredOf(paths') # {},
             NEW n \in Names, NEW score \in Scores, NEW lossy \in BOOLEAN,
             UpdatePath(n, score, lossy)
      PROVE  Picks' = ActiveOf(paths') /\ Shared(paths', totalWeight')
  <2> DEFINE ps == Measured(n, score, lossy)
  <2>1. /\ n \in DOMAIN paths /\ mode' = mode
        /\ IF ScoredOf(ps) # {}
           THEN paths' = Adjusted(ps) /\ totalWeight' = ActiveWeight(paths')
           ELSE paths' = ps /\ UNCHANGED totalWeight
    BY <1>1 DEF UpdatePath
  <2>2. PathMap(ps) /\ DOMAIN ps \subseteq Names
    <3>1. DOMAIN ps = DOMAIN paths /\ \A p \in DOMAIN ps : ps[p] \in PathState
      BY <1>1, <2>1, MeasuredPaths
    <3>2. QED
      BY <1>1, <3>1, PathsLeft DEF SchedulerTypeOK
  <2> HIDE DEF ps
  <2>3. ScoredOf(ps) # {} /\ paths' = Adjusted(ps) /\ totalWeight' = ActiveWeight(paths')
    BY <1>1, <2>1
  <2>4. Cardinality(ActiveOf(ps)) <= 19
    <3>1. ActiveOf(ps) \subseteq Names /\ IsFiniteSet(Names)
      BY <2>2, SchedulerAssumption DEF ActiveOf, SchedulerAssumption
    <3>2. Cardinality(ActiveOf(ps)) <= Cardinality(Names)
      BY <3>1, FS_Subset
    <3>3. Cardinality(ActiveOf(ps)) \in Nat /\ Cardinality(Names) \in Nat
      BY <3>1, FS_Subset, FS_CardinalityType
    <3>4. QED
      BY <3>2, <3>3
  <2>5. /\ ActiveOf(paths') = ActiveOf(ps) /\ Shared(paths', totalWeight')
        /\ \A p \in ActiveOf(paths') : paths'[p].Weight > 0
    BY <2>2, <2>3, <2>4, AdjustedShares
  <2>6. \A p \in ActiveOf(paths') : p \in Picks'
    BY <1>0, <1>1, <2>3, <2>5
  <2>7. Picks' \subseteq ActiveOf(paths')
    BY DEF Picks
  <2>8. QED
    BY <2>5, <2>6, <2>7
<1>2. SchedulerTypeOK /\ WeightedTotalExact /\ [SchedulerNext]_vars
        => (mode = "weighted" /\ ScoredOf(paths') # {}
            /\ (\E n \in Names, score \in Scores, lossy \in BOOLEAN : UpdatePath(n, score, lossy))
              => Picks' = ActiveOf(paths') /\ Shared(paths', totalWeight'))
  BY <1>1, SchedulerTypeStep, ExactStep
<1>3. QED
  BY <1>2, SchedulerTypeTheorem, WeightedTotalTheorem, PTL DEF UpdateShares, SchedulerSpec

-----------------------------------------------------------------------------
(* Lists.  FoldLeft takes the positions away from the last one down.       *)

LEMMA LargestOf ==
  ASSUME NEW n \in Nat, NEW s \in SUBSET (1 .. n), s # {}
  PROVE  Max(s) \in s /\ \A y \in s : Max(s) >= y
<1> DEFINE D == {n - x : x \in s}
<1>1. D \in SUBSET Nat /\ D # {}
  <2>1. \A x \in s : n - x \in Nat
    OBVIOUS
  <2>2. QED
    BY <2>1
<1>2. PICK m \in D : \A d \in D : m <= d
  BY <1>1, SmallestNumber
<1>3. PICK x \in s : m = n - x
  BY <1>2
<1>4. \A y \in s : x >= y
  <2> SUFFICES ASSUME NEW y \in s PROVE x >= y
    OBVIOUS
  <2>1. n - y \in D
    OBVIOUS
  <2>2. m <= n - y
    BY <1>2, <2>1
  <2>3. x \in Int /\ y \in Int
    OBVIOUS
  <2>4. QED
    BY <1>3, <2>2, <2>3
<1> HIDE DEF D
<1>5. QED
  BY <1>4 DEF Max

LEMMA LastPosition ==
  ASSUME NEW n \in Nat, NEW k \in 1 .. n
  PROVE  Max(1 .. k) = k /\ (1 .. k) \ {k} = 1 .. k - 1
<1>1. Max(1 .. k) \in 1 .. k /\ \A y \in 1 .. k : Max(1 .. k) >= y
  <2>1. (1 .. k) \in SUBSET (1 .. n) /\ 1 .. k # {}
    OBVIOUS
  <2>2. QED
    BY <2>1, LargestOf
<1>2. QED
  BY <1>1

\* A list folded from the left with a step of any kind: the value of each prefix is that of
\* the one before, and its last element.
PrefixFold(g, n, base, step) ==
  g = [s \in SUBSET (1 .. n) |-> IF s = {} THEN base ELSE step[<<Max(s), g[s \ {Max(s)}]>>]]

LEMMA FoldOfPrefixes ==
  ASSUME NEW n \in Nat, NEW V, NEW base \in V, NEW step \in [(1 .. n) \X V -> V]
  PROVE  \E g \in [SUBSET (1 .. n) -> V] : PrefixFold(g, n, base, step)
<1> DEFINE S == 1 .. n
           c == [s \in SUBSET S |-> Max(s)]
<1>1. IsFiniteSet(S)
  BY FS_Interval
<1>2. Chooser(c, S)
  BY LargestOf DEF Chooser
<1>3. PICK g \in [SUBSET S -> V] : FoldUp(g, step, base, c, S)
  <2> HIDE DEF c, S
  <2>1. step \in [S \X V -> V]
    BY DEF S
  <2>2. QED
    BY <1>1, <1>2, <2>1, FoldUpExists
<1>4. g = [s \in SUBSET S |-> IF s = {} THEN base ELSE step[<<Max(s), g[s \ {Max(s)}]>>]]
  BY <1>3 DEF FoldUp
<1>5. QED
  BY <1>4 DEF PrefixFold

-----------------------------------------------------------------------------
(* The list of healthy backends, in the order of the list.                 *)

HealthyIn(list) == FoldLeft(LAMBDA bs, b : IF b.healthy THEN Append(bs, b) ELSE bs, <<>>, list)

\* It is what is left of each prefix in turn.
LEMMA HealthyPrefixes ==
  ASSUME NEW B, NEW list \in Seq(B)
  PROVE  \E h \in [0 .. Len(list) -> Seq(B)] :
           /\ h[0] = <<>>
           /\ \A k \in 1 .. Len(list) :
                h[k] = IF list[k].healthy THEN Append(h[k - 1], list[k]) ELSE h[k - 1]
           /\ HealthyIn(list) = h[Len(list)]
<1> DEFINE n == Len(list)
           Keep(x, v) == IF list[x].healthy THEN Append(v, list[x]) ELSE v
           step == [p \in (1 .. n) \X Seq(B) |-> Keep(p[1], p[2])]
           IsIter(g) == g = [s \in SUBSET DOMAIN list |-> IF s = {} THEN <<>>
                               ELSE LET x == Max(s)
                                    IN IF list[x].healthy THEN Append(g[s \ {x}], list[x])
                                                          ELSE g[s \ {x}]]
           iter == CHOOSE g : IsIter(g)
<1>0. n \in Nat /\ DOMAIN list = 1 .. n
  OBVIOUS
<1>1. PICK g \in [SUBSET (1 .. n) -> Seq(B)] :
        g = [s \in SUBSET (1 .. n) |-> IF s = {} THEN <<>> ELSE step[<<Max(s), g[s \ {Max(s)}]>>]]
  <2>1. \A x \in 1 .. n : \A v \in Seq(B) : Keep(x, v) \in Seq(B)
    OBVIOUS
  <2>2. step \in [(1 .. n) \X Seq(B) -> Seq(B)] /\ <<>> \in Seq(B)
    BY <2>1
  <2> HIDE DEF step, n
  <2>3. \E g \in [SUBSET (1 .. n) -> Seq(B)] : PrefixFold(g, n, <<>>, step)
    BY <1>0, <2>2, FoldOfPrefixes
  <2>4. QED
    BY <2>3 DEF PrefixFold
<1>2. \A s \in SUBSET (1 .. n) : s # {} => Max(s) \in 1 .. n /\ g[s \ {Max(s)}] \in Seq(B)
  <2> SUFFICES ASSUME NEW s \in SUBSET (1 .. n), s # {}
               PROVE  Max(s) \in 1 .. n /\ g[s \ {Max(s)}] \in Seq(B)
    OBVIOUS
  <2>1. Max(s) \in s
    BY <1>0, LargestOf
  <2> HIDE DEF n
  <2>2. QED
    BY <2>1
<1>3. \A x \in 1 .. n : \A v \in Seq(B) : step[<<x, v>>] = Keep(x, v)
  OBVIOUS
<1>4. IsIter(g)
  <2> HIDE DEF step, n, Keep
  <2>1. g = [s \in SUBSET (1 .. n) |-> IF s = {} THEN <<>> ELSE Keep(Max(s), g[s \ {Max(s)}])]
    BY <1>1, <1>2, <1>3
  <2>2. QED
    BY <1>0, <2>1 DEF Keep
<1>5. IsIter(iter)
  <2> HIDE DEF IsIter
  <2>1. QED
    BY <1>4
<1>6. HealthyIn(list) = iter[DOMAIN list]
  BY DEF HealthyIn, FoldLeft, MapThenFoldSet

<1> HIDE DEF iter
<1> DEFINE h == [k \in 0 .. n |-> iter[1 .. k]]
           Next(k) == h[k] = IF list[k].healthy THEN Append(h[k - 1], list[k]) ELSE h[k - 1]
<1>7. h[0] = <<>>
  <2>1. 1 .. 0 = {} /\ iter[{}] = <<>>
    BY <1>5
  <2>2. QED
    BY <2>1
<1>8. \A k \in 1 .. n : Next(k)
  <2> SUFFICES ASSUME NEW k \in 1 .. n PROVE Next(k)
    OBVIOUS
  <2>1. (1 .. k) \in SUBSET (1 .. n) /\ 1 .. k # {}
    OBVIOUS
  <2>2. iter[1 .. k] = LET x == Max(1 .. k)
                       IN IF list[x].healthy THEN Append(iter[(1 .. k) \ {x}], list[x])
                                             ELSE iter[(1 .. k) \ {x}]
    BY <1>0, <1>5, <2>1
  <2>3. Max(1 .. k) = k /\ (1 .. k) \ {k} = 1 .. k - 1
    BY <1>0, LastPosition
  <2>4. h[k] = iter[1 .. k] /\ h[k - 1] = iter[1 .. k - 1]
    BY <1>0
  <2> HIDE DEF h
  <2>5. QED
    BY <2>2, <2>3, <2>4
<1>9. HealthyIn(list) = h[n]
  BY <1>0, <1>6
<1> HIDE DEF h
<1>10. \A k \in 0 .. n : h[k] \in Seq(B)
  <2> DEFINE P == {k \in Nat : k <= n => h[k] \in Seq(B)}
  <2>1. 0 \in P
    BY <1>7, <<>> \in Seq(B)
  <2>2. ASSUME NEW k \in Nat, k \in P PROVE k + 1 \in P
    <3> SUFFICES ASSUME k + 1 <= n PROVE h[k + 1] \in Seq(B)
      OBVIOUS
    <3>1. k + 1 \in 1 .. n /\ (k + 1) - 1 = k /\ h[k] \in Seq(B)
      BY <1>0, <2>2
    <3>2. h[k + 1] = IF list[k + 1].healthy THEN Append(h[k], list[k + 1]) ELSE h[k]
      BY <1>8, <3>1
    <3>3. list[k + 1] \in B
      BY <3>1
    <3>4. QED
      BY <3>1, <3>2, <3>3
  <2> HIDE DEF P
  <2>3. Nat \subseteq P
    BY <2>1, <2>2, InductionOnNat
  <2>4. QED
    BY <1>0, <2>3 DEF P
<1>11. h \in [0 .. n -> Seq(B)]
  BY <1>10 DEF h
<1>12. QED
  BY <1>7, <1>8, <1>9, <1>11

LEMMA HealthyList ==
  ASSUME NEW B, NEW list \in Seq(B)
  PROVE  HealthyIn(list) \in Seq(B) /\ Len(HealthyIn(list)) <= Len(list)
<1> DEFINE n == Len(list)
<1>0. n \in Nat
  OBVIOUS
<1>1. PICK h \in [0 .. n -> Seq(B)] :
        /\ h[0] = <<>>
        /\ \A k \in 1 .. n : h[k] = IF list[k].healthy THEN Append(h[k - 1], list[k]) ELSE h[k - 1]
        /\ HealthyIn(list) = h[n]
  BY HealthyPrefixes
<1> DEFINE P == {k \in Nat : k <= n => Len(h[k]) <= k}
<1>2. 0 \in P
  BY <1>1
<1>3. ASSUME NEW k \in Nat, k \in P PROVE k + 1 \in P
  <2> SUFFICES ASSUME k + 1 <= n PROVE Len(h[k + 1]) <= k + 1
    OBVIOUS
  <2>1. k + 1 \in 1 .. n /\ (k + 1) - 1 = k /\ h[k] \in Seq(B) /\ Len(h[k]) <= k
    BY <1>0, <1>3
  <2>2. h[k + 1] = IF list[k + 1].healthy THEN Append(h[k], list[k + 1]) ELSE h[k]
    BY <1>1, <2>1
  <2>3. Len(h[k]) \in Nat /\ Len(Append(h[k], list[k + 1])) = Len(h[k]) + 1
    BY <2>1
  <2>4. QED
    BY <2>1, <2>2, <2>3
<1> HIDE DEF P
<1>4. Nat \subseteq P
  BY <1>2, <1>3, InductionOnNat
<1>5. Len(h[n]) <= n
  BY <1>0, <1>4 DEF P
<1>6. h[n] \in Seq(B)
  BY <1>0
<1>7. QED
  BY <1>1, <1>5, <1>6

\* Lists that agree in health and weight have healthy lists that agree in weight.
SameWeights(bs, cs) == Len(bs) = Len(cs) /\ \A i \in 1 .. Len(bs) : bs[i].weight = cs[i].weight

LEMMA HealthyAlike ==
  ASSUME NEW B, NEW list \in Seq(B), NEW other \in Seq(B), SameWeights(list, other),
         \A i \in 1 .. Len(list) : list[i].healthy = other[i].healthy
  PROVE  SameWeights(HealthyIn(list), HealthyIn(other))
<1> DEFINE n == Len(list)
<1>0. n \in Nat /\ Len(other) = n
  BY DEF SameWeights
<1>1. PICK h \in [0 .. n -> Seq(B)] :
        /\ h[0] = <<>>
        /\ \A k \in 1 .. n : h[k] = IF list[k].healthy THEN Append(h[k - 1], list[k]) ELSE h[k - 1]
        /\ HealthyIn(list) = h[n]
  BY HealthyPrefixes
<1>2. PICK e \in [0 .. n -> Seq(B)] :
        /\ e[0] = <<>>
        /\ \A k \in 1 .. n : e[k] = IF other[k].healthy THEN Append(e[k - 1], other[k]) ELSE e[k - 1]
        /\ HealthyIn(other) = e[n]
  BY <1>0, HealthyPrefixes
<1> DEFINE P == {k \in Nat : k <= n => SameWeights(h[k], e[k])}
<1>3. 0 \in P
  BY <1>1, <1>2 DEF SameWeights
<1>4. ASSUME NEW k \in Nat, k \in P PROVE k + 1 \in P
  <2> SUFFICES ASSUME k + 1 <= n PROVE SameWeights(h[k + 1], e[k + 1])
    OBVIOUS
  <2>1. /\ k + 1 \in 1 .. n /\ (k + 1) - 1 = k /\ h[k] \in Seq(B) /\ e[k] \in Seq(B)
        /\ SameWeights(h[k], e[k])
    <3>1. k \in 0 .. n /\ k + 1 \in 1 .. n /\ (k + 1) - 1 = k
      BY <1>0
    <3>2. SameWeights(h[k], e[k])
      BY <1>4, <3>1
    <3> HIDE DEF P, n
    <3>3. QED
      BY <3>1, <3>2
  <2>2. h[k + 1] = IF list[k + 1].healthy THEN Append(h[k], list[k + 1]) ELSE h[k]
    BY <1>1, <2>1
  <2>3. e[k + 1] = IF other[k + 1].healthy THEN Append(e[k], other[k + 1]) ELSE e[k]
    BY <1>2, <2>1
  <2>4. /\ list[k + 1].healthy = other[k + 1].healthy
        /\ list[k + 1].weight = other[k + 1].weight
        /\ list[k + 1] \in B /\ other[k + 1] \in B
    BY <1>0, <2>1 DEF SameWeights
  <2> DEFINE x == list[k + 1]
             y == other[k + 1]
             bs == h[k]
             cs == e[k]
  <2>5. SameWeights(Append(bs, x), Append(cs, y))
    <3>1. bs \in Seq(B) /\ cs \in Seq(B) /\ x \in B /\ y \in B /\ x.weight = y.weight
          /\ SameWeights(bs, cs)
      BY <2>1, <2>4
    <3> HIDE DEF x, y, bs, cs
    <3>2. QED
      BY <3>1 DEF SameWeights
  <2>6. QED
    BY <2>1, <2>2, <2>3, <2>4, <2>5
<1> HIDE DEF P
<1>5. Nat \subseteq P
  BY <1>3, <1>4, InductionOnNat
<1>6. SameWeights(h[n], e[n])
  BY <1>0, <1>5 DEF P
<1>7. QED
  BY <1>1, <1>2, <1>6

-----------------------------------------------------------------------------
(* Running sums of weights, and the position that a target falls on.       *)

BackendSet == [name : BackendNames, weight : Weights, load : Loads \cup {<<0, 0>>},
               healthy : BOOLEAN]

LEMMA WeightsAreNumbers ==
  ASSUME NEW bs \in Seq(BackendSet)
  PROVE  Len(bs) \in Nat /\ DOMAIN bs = 1 .. Len(bs) /\ \A j \in 1 .. Len(bs) : bs[j].weight \in Nat
<1>1. \A b \in BackendSet : b.weight \in Weights
  BY DEF BackendSet
<1>2. Weights \subseteq Nat
  BY BalancerAssumption DEF BalancerAssumption
<1>3. \A j \in 1 .. Len(bs) : bs[j] \in BackendSet
  OBVIOUS
<1>4. \A j \in 1 .. Len(bs) : bs[j].weight \in Nat
  <2> HIDE DEF BackendSet
  <2> SUFFICES ASSUME NEW j \in 1 .. Len(bs) PROVE bs[j].weight \in Nat
    OBVIOUS
  <2>1. bs[j].weight \in Weights
    BY <1>1, <1>3
  <2>2. QED
    BY <1>2, <2>1
<1>5. Len(bs) \in Nat /\ DOMAIN bs = 1 .. Len(bs)
  OBVIOUS
<1>6. QED
  BY <1>4, <1>5

LEMMA RunningSum ==
  ASSUME NEW bs \in Seq(BackendSet)
  PROVE  /\ WeightUpTo(bs, 0) = 0
         /\ \A i \in 0 .. Len(bs) : WeightUpTo(bs, i) \in Nat
         /\ \A i \in 1 .. Len(bs) : WeightUpTo(bs, i) = WeightUpTo(bs, i - 1) + bs[i].weight
<1> DEFINE n == Len(bs)
           w == [j \in DOMAIN bs |-> bs[j].weight]
<1>1. n \in Nat /\ \A j \in 1 .. n : w[j] \in Nat /\ w[j] = bs[j].weight
  BY WeightsAreNumbers
<1>2. \A i \in Int : WeightUpTo(bs, i) = Sum(w, 1 .. i)
  BY DEF WeightUpTo, Sum
<1> HIDE DEF w, n
<1>3. ASSUME NEW i \in 0 .. n PROVE IsFiniteSet(1 .. i) /\ \A x \in 1 .. i : w[x] \in Nat /\ w[x] \in Int
  <2>1. i \in Int /\ 1 .. i \subseteq 1 .. n
    BY <1>1
  <2>2. QED
    BY <1>1, <2>1, FS_Interval
<1>4. WeightUpTo(bs, 0) = 0
  <2>1. 1 .. 0 = {} /\ Sum(w, {}) = 0
    BY FS_EmptySet, SumTakesApart
  <2>2. QED
    BY <1>2, <2>1
<1>5. ASSUME NEW i \in 0 .. n PROVE WeightUpTo(bs, i) \in Nat
  <2>1. Sum(w, 1 .. i) \in Nat
    BY <1>3, SumOfNat
  <2>2. QED
    BY <1>1, <1>2, <2>1
<1>6. ASSUME NEW i \in 1 .. n PROVE WeightUpTo(bs, i) = WeightUpTo(bs, i - 1) + bs[i].weight
  <2>1. i \in 1 .. i /\ (1 .. i) \ {i} = 1 .. i - 1 /\ i \in 0 .. n /\ i \in Int /\ i - 1 \in Int
    BY <1>1
  <2>2. Sum(w, 1 .. i) = w[i] + Sum(w, (1 .. i) \ {i})
    BY <1>3, <2>1, SumTakesApart
  <2>3. i - 1 \in 0 .. n
    BY <1>1
  <2>4. WeightUpTo(bs, i) = w[i] + WeightUpTo(bs, i - 1)
    BY <1>2, <2>1, <2>2
  <2>5. w[i] \in Nat /\ w[i] = bs[i].weight /\ WeightUpTo(bs, i - 1) \in Nat
    BY <1>1, <1>5, <2>3
  <2>6. QED
    BY <2>4, <2>5
<1>7. QED
  BY <1>4, <1>5, <1>6 DEF n

LEMMA RunningSumGrows ==
  ASSUME NEW bs \in Seq(BackendSet), NEW i \in 0 .. Len(bs), NEW j \in 0 .. Len(bs), i <= j
  PROVE  WeightUpTo(bs, i) <= WeightUpTo(bs, j)
<1> DEFINE P == {k \in Nat : i <= k /\ k <= Len(bs) => WeightUpTo(bs, i) <= WeightUpTo(bs, k)}
<1>0. Len(bs) \in Nat /\ WeightUpTo(bs, i) \in Nat
  BY RunningSum
<1>1. 0 \in P
  BY <1>0
<1>2. ASSUME NEW k \in Nat, k \in P PROVE k + 1 \in P
  <2> SUFFICES ASSUME i <= k + 1, k + 1 <= Len(bs)
               PROVE  WeightUpTo(bs, i) <= WeightUpTo(bs, k + 1)
    OBVIOUS
  <2>1. CASE i = k + 1
    BY <1>0, <2>1
  <2>2. CASE i <= k
    <3>1. k \in 0 .. Len(bs) /\ k + 1 \in 1 .. Len(bs) /\ (k + 1) - 1 = k
      BY <1>0
    <3>2. WeightUpTo(bs, k + 1) = WeightUpTo(bs, k) + bs[k + 1].weight
      BY <3>1, RunningSum
    <3>3. WeightUpTo(bs, k) \in Nat /\ bs[k + 1].weight \in Nat
      BY <3>1, RunningSum, WeightsAreNumbers
    <3>4. WeightUpTo(bs, i) <= WeightUpTo(bs, k)
      BY <1>2, <2>2, <3>1
    <3>5. QED
      BY <1>0, <3>2, <3>3, <3>4
  <2>3. QED
    BY <2>1, <2>2
<1> HIDE DEF P
<1>3. Nat \subseteq P
  BY <1>1, <1>2, InductionOnNat
<1>4. QED
  BY <1>0, <1>3 DEF P

\* Below the total weight a target falls on one position, and on that one alone.
Falls(bs, target, i) == WeightUpTo(bs, i - 1) <= target /\ target < WeightUpTo(bs, i)

LEMMA TargetFalls ==
  ASSUME NEW bs \in Seq(BackendSet), NEW target \in Nat, target < TotalWeight(bs)
  PROVE  /\ AtWeight(bs, target) \in 1 .. Len(bs)
         /\ Falls(bs, target, AtWeight(bs, target))
<1> DEFINE n == Len(bs)
           Covers(i) == target < WeightUpTo(bs, i)
           N == {i \in 0 .. n : Covers(i)}
<1>0. n \in Nat /\ \A i \in 0 .. n : WeightUpTo(bs, i) \in Nat
  BY RunningSum
<1>1. n \in N /\ N \subseteq Nat
  BY <1>0 DEF TotalWeight
<1>2. PICK m \in N : \A k \in N : m <= k
  BY <1>1, SmallestNumber
<1>3. m # 0 /\ m \in 1 .. n
  <2>1. ~Covers(0)
    BY RunningSum
  <2>2. QED
    BY <1>0, <2>1
<1>4. Covers(m) /\ \A j \in 1 .. m - 1 : ~Covers(j)
  <2>1. ASSUME NEW j \in 1 .. m - 1, Covers(j) PROVE FALSE
    <3>1. j \in N /\ j < m
      BY <1>0, <1>3, <2>1
    <3> HIDE DEF N
    <3>2. QED
      BY <1>2, <1>3, <3>1
  <2>2. QED
    BY <2>1
<1> DEFINE i == AtWeight(bs, target)
<1>5. i \in DOMAIN bs /\ Covers(i) /\ \A j \in 1 .. i - 1 : ~Covers(j)
  <2>1. m \in DOMAIN bs
    BY <1>3
  <2> HIDE DEF Covers, N
  <2>2. \E k \in DOMAIN bs : Covers(k) /\ \A j \in 1 .. k - 1 : ~Covers(j)
    BY <1>4, <2>1
  <2>3. i = CHOOSE k \in DOMAIN bs : Covers(k) /\ \A j \in 1 .. k - 1 : ~Covers(j)
    BY DEF AtWeight, Covers
  <2> HIDE DEF i
  <2>4. QED
    BY <2>2, <2>3
<1> HIDE DEF i
<1>6. i \in 1 .. n
  BY <1>5
<1>7. WeightUpTo(bs, i - 1) <= target
  <2>1. CASE i = 1
    <3>1. i - 1 = 0
      BY <2>1
    <3>2. QED
      BY <3>1, RunningSum
  <2>2. CASE i # 1
    <3>1. i - 1 \in 1 .. i - 1 /\ i - 1 \in 0 .. n
      BY <1>0, <1>6, <2>2
    <3>2. ~(target < WeightUpTo(bs, i - 1)) /\ WeightUpTo(bs, i - 1) \in Nat
      BY <1>0, <1>5, <3>1
    <3>3. QED
      BY <3>2
  <2>3. QED
    BY <2>1, <2>2
<1>8. QED
  BY <1>5, <1>6, <1>7 DEF Falls, i

LEMMA FallsOnce ==
  ASSUME NEW bs \in Seq(BackendSet), NEW target \in Nat, target < TotalWeight(bs),
         NEW i \in 1 .. Len(bs)
  PROVE  AtWeight(bs, target) = i <=> Falls(bs, target, i)
<1> DEFINE a == AtWeight(bs, target)
<1>1. a \in 1 .. Len(bs) /\ Falls(bs, target, a)
  BY TargetFalls
<1> HIDE DEF a
<1>2. ASSUME Falls(bs, target, i), a < i PROVE FALSE
  <2>1. a \in 0 .. Len(bs) /\ i - 1 \in 0 .. Len(bs) /\ a <= i - 1
    BY <1>1, <1>2
  <2>2. WeightUpTo(bs, a) <= WeightUpTo(bs, i - 1)
    BY <2>1, RunningSumGrows
  <2>3. WeightUpTo(bs, a) \in Nat /\ WeightUpTo(bs, i - 1) \in Nat
    BY <2>1, RunningSum
  <2>4. QED
    BY <1>1, <1>2, <2>2, <2>3 DEF Falls
<1>3. ASSUME Falls(bs, target, i), i < a PROVE FALSE
  <2>1. i \in 0 .. Len(bs) /\ a - 1 \in 0 .. Len(bs) /\ i <= a - 1
    BY <1>1, <1>3
  <2>2. WeightUpTo(bs, i) <= WeightUpTo(bs, a - 1)
    BY <2>1, RunningSumGrows
  <2>3. WeightUpTo(bs, i) \in Nat /\ WeightUpTo(bs, a - 1) \in Nat
    BY <2>1, RunningSum
  <2>4. QED
    BY <1>1, <1>3, <2>2, <2>3 DEF Falls
<1>4. Falls(bs, target, i) => a = i
  <2>1. a \in Int /\ i \in Int /\ (a < i \/ i < a \/ a = i)
    BY <1>1
  <2>2. QED
    BY <1>2, <1>3, <2>1
<1>5. QED
  BY <1>1, <1>4 DEF a

\* The targets that fall on a position are as many as it weighs.
LEMMA TargetsOfPosition ==
  ASSUME NEW bs \in Seq(BackendSet), NEW i \in 1 .. Len(bs)
  PROVE  Cardinality({r \in 0 .. TotalWeight(bs) - 1 : AtWeight(bs, r) = i}) = bs[i].weight
<1> DEFINE n == Len(bs)
           T == TotalWeight(bs)
           a == WeightUpTo(bs, i - 1)
           b == WeightUpTo(bs, i)
<1>1. n \in Nat /\ i \in 0 .. n /\ i - 1 \in 0 .. n /\ n \in 0 .. n /\ i <= n
  OBVIOUS
<1>2. a \in Nat /\ b \in Nat /\ T \in Nat /\ bs[i].weight \in Nat /\ b = a + bs[i].weight
  BY <1>1, RunningSum, WeightsAreNumbers DEF TotalWeight
<1>3. b <= T
  BY <1>1, RunningSumGrows DEF TotalWeight
<1>4. \A r \in 0 .. T - 1 : AtWeight(bs, r) = i <=> a <= r /\ r < b
  BY <1>2, FallsOnce DEF Falls
<1> HIDE DEF T, a, b
<1>5. {r \in 0 .. T - 1 : AtWeight(bs, r) = i} = a .. b - 1
  BY <1>2, <1>3, <1>4
<1>6. Cardinality(a .. b - 1) = bs[i].weight
  <2>1. a \in Int /\ b - 1 \in Int
    BY <1>2
  <2>2. Cardinality(a .. b - 1) = IF a > b - 1 THEN 0 ELSE (b - 1) - a + 1
    BY <2>1, FS_Interval
  <2>3. QED
    BY <1>2, <2>2
<1>7. QED
  BY <1>5, <1>6 DEF T

\* Equal weights, equal positions.
LEMMA SamePositions ==
  ASSUME NEW bs \in Seq(BackendSet), NEW cs \in Seq(BackendSet), SameWeights(bs, cs)
  PROVE  /\ TotalWeight(bs) = TotalWeight(cs)
         /\ \A t \in Nat : t < TotalWeight(bs) => AtWeight(bs, t) = AtWeight(cs, t)
<1> DEFINE n == Len(bs)
           w == [j \in DOMAIN bs |-> bs[j].weight]
           v == [j \in DOMAIN cs |-> cs[j].weight]
<1>1. n \in Nat /\ Len(cs) = n /\ \A j \in 1 .. n : w[j] \in Nat /\ v[j] = w[j]
  BY WeightsAreNumbers DEF SameWeights
<1>2. \A i \in Int : WeightUpTo(bs, i) = Sum(w, 1 .. i) /\ WeightUpTo(cs, i) = Sum(v, 1 .. i)
  BY DEF WeightUpTo, Sum
<1> HIDE DEF w, v, n
<1>3. ASSUME NEW i \in 0 .. n PROVE WeightUpTo(bs, i) = WeightUpTo(cs, i)
  <2>1. IsFiniteSet(1 .. i) /\ \A x \in 1 .. i : w[x] \in Int /\ v[x] = w[x]
    BY <1>1, FS_Interval
  <2>2. Sum(w, 1 .. i) = Sum(v, 1 .. i)
    BY <2>1, SumOfSame
  <2>3. QED
    BY <1>1, <1>2, <2>2
<1>4. TotalWeight(bs) = TotalWeight(cs)
  BY <1>1, <1>3 DEF TotalWeight, n
<1>5. ASSUME NEW t \in Nat, t < TotalWeight(bs) PROVE AtWeight(bs, t) = AtWeight(cs, t)
  <2> DEFINE i == AtWeight(bs, t)
  <2>1. i \in 1 .. n /\ Falls(bs, t, i)
    BY <1>5, TargetFalls DEF n
  <2> HIDE DEF i
  <2>2. i \in 0 .. n /\ i - 1 \in 0 .. n
    BY <1>1, <2>1
  <2>3. Falls(cs, t, i)
    BY <1>3, <2>1, <2>2 DEF Falls
  <2>4. AtWeight(cs, t) = i
    BY <1>1, <1>4, <1>5, <2>1, <2>3, FallsOnce
  <2>5. QED
    BY <2>4 DEF i
<1>6. QED
  BY <1>4, <1>5

-----------------------------------------------------------------------------
(* Remainders.                                                             *)

LEMMA Remainder ==
  ASSUME NEW x \in Int, NEW n \in Nat \ {0}
  PROVE  x % n \in 0 .. n - 1 /\ x \div n \in Int /\ x = n * (x \div n) + (x % n)
  OBVIOUS

LEMMA Multiples ==
  ASSUME NEW n \in Nat \ {0}, NEW p \in Int
  PROVE  /\ p >= 1 => n * p >= n
         /\ p <= -1 => n * p <= -n
<1>1. p >= 1 => n * (p - 1) >= 0
  OBVIOUS
<1>2. p <= -1 => n * (-1 - p) >= 0
  OBVIOUS
<1>3. n * (p - 1) = n * p - n /\ n * (-1 - p) = -n - n * p
  OBVIOUS
<1>4. n * p \in Int
  OBVIOUS
<1>5. QED
  BY <1>1, <1>2, <1>3, <1>4

LEMMA RemainderIs ==
  ASSUME NEW x \in Int, NEW n \in Nat \ {0}, NEW q \in Int, NEW r \in 0 .. n - 1, x = n * q + r
  PROVE  x % n = r
<1> DEFINE k == x \div n
           s == x % n
<1>1. s \in 0 .. n - 1 /\ k \in Int /\ x = n * k + s
  BY Remainder
<1> HIDE DEF k, s
<1>2. n * (k - q) = n * k - n * q /\ n * k \in Int /\ n * q \in Int /\ k - q \in Int
  BY <1>1
<1>3. n * (k - q) = r - s
  BY <1>1, <1>2
<1>4. ~(k - q >= 1) /\ ~(k - q <= -1)
  <2>1. k - q >= 1 => n * (k - q) >= n
    BY <1>2, Multiples
  <2>2. k - q <= -1 => n * (k - q) <= -n
    BY <1>2, Multiples
  <2>3. r - s < n /\ r - s > -n /\ r - s \in Int
    BY <1>1
  <2>4. QED
    BY <1>3, <2>1, <2>2, <2>3
<1>5. k = q
  BY <1>1, <1>4
<1>6. QED
  BY <1>1, <1>5 DEF s

-----------------------------------------------------------------------------
(* A cycle of n positions.  The age of one is how many steps ago the       *)
(* counter was there.                                                      *)

Age(n, c, r) == (c - r) % n

LEMMA AgeStep ==
  ASSUME NEW n \in Nat \ {0}, NEW c \in Int, NEW d \in Int, d % n = (c + 1) % n,
         NEW r \in 0 .. n - 1
  PROVE  /\ Age(n, c, r) \in 0 .. n - 1
         /\ Age(n, d, r) = IF Age(n, c, r) = n - 1 THEN 0 ELSE Age(n, c, r) + 1
         /\ Age(n, d, r) = 0 <=> r = d % n
<1>0. r \in Int /\ n \in Int /\ c - r \in Int /\ d - r \in Int /\ c + 1 \in Int
  OBVIOUS
<1>1. PICK q \in Int, a \in 0 .. n - 1 : a = Age(n, c, r) /\ c - r = n * q + a
  BY <1>0, Remainder DEF Age
<1>2. PICK k \in Int, s \in 0 .. n - 1 : s = d % n /\ d = n * k + s
  BY Remainder
<1>3. PICK l \in Int : c + 1 = n * l + s
  <2>1. c + 1 = n * ((c + 1) \div n) + ((c + 1) % n) /\ (c + 1) \div n \in Int
    BY <1>0, Remainder
  <2>2. QED
    BY <1>2, <2>1
<1>4. n * q \in Int /\ n * k \in Int /\ n * l \in Int /\ q + k - l \in Int /\ q + k - l + 1 \in Int
  OBVIOUS
<1>5. /\ n * (q + k - l) = n * q + n * k - n * l
      /\ n * (q + k - l + 1) = n * q + n * k - n * l + n
  OBVIOUS
<1>6. d - r = n * (q + k - l) + (a + 1)
  <2>1. \A u, v, w \in Int : c - r = u + a /\ d = v + s /\ c + 1 = w + s => d - r = u + v - w + (a + 1)
    OBVIOUS
  <2>2. d - r = n * q + n * k - n * l + (a + 1)
    BY <1>1, <1>2, <1>3, <1>4, <2>1
  <2>3. QED
    BY <1>5, <2>2
<1>7. Age(n, d, r) = IF a = n - 1 THEN 0 ELSE a + 1
  <2>1. CASE a = n - 1
    <3>1. d - r = n * (q + k - l + 1) + 0 /\ 0 \in 0 .. n - 1
      BY <1>0, <1>4, <1>5, <1>6, <2>1
    <3>2. QED
      BY <1>0, <1>4, <2>1, <3>1, RemainderIs DEF Age
  <2>2. CASE a # n - 1
    <3>1. a + 1 \in 0 .. n - 1
      BY <2>2
    <3>2. (d - r) % n = a + 1
      BY <1>0, <1>4, <1>6, <3>1, RemainderIs
    <3>3. QED
      BY <2>2, <3>2 DEF Age
  <2>3. QED
    BY <2>1, <2>2
<1>8. Age(n, d, r) = 0 <=> r = d % n
  <2>1. ASSUME r = s PROVE Age(n, d, r) = 0
    <3>1. d - r = n * k + 0 /\ 0 \in 0 .. n - 1
      BY <1>0, <1>2, <1>4, <2>1
    <3>2. QED
      BY <1>0, <3>1, RemainderIs DEF Age
  <2>2. ASSUME Age(n, d, r) = 0 PROVE r = s
    <3>1. PICK p \in Int : d - r = n * p + 0
      BY <1>0, <2>2, Remainder DEF Age
    <3>2. d = n * p + r /\ n * p \in Int
      BY <1>0, <3>1
    <3>3. d % n = r
      BY <3>2, RemainderIs
    <3>4. QED
      BY <1>2, <3>3
  <2>3. QED
    BY <1>2, <2>1, <2>2
<1>9. QED
  BY <1>1, <1>7, <1>8

-----------------------------------------------------------------------------
(* Picks, counted by position.                                             *)

LEMMA OneMore ==
  ASSUME NEW M \in Nat, NEW f \in [1 .. M -> Nat], NEW j \in 1 .. M
  PROVE  Sum([f EXCEPT ![j] = @ + 1], 1 .. M) = Sum(f, 1 .. M) + 1
<1> DEFINE e == [f EXCEPT ![j] = @ + 1]
           S == 1 .. M
<1>1. /\ IsFiniteSet(S) /\ IsFiniteSet(S \ {j})
      /\ \A x \in S : f[x] \in Int /\ e[x] \in Int
      /\ \A x \in S \ {j} : e[x] = f[x]
      /\ e[j] = f[j] + 1 /\ j \in S
  <2>1. IsFiniteSet(S) /\ S \ {j} \in SUBSET S
    BY FS_Interval
  <2>2. IsFiniteSet(S \ {j})
    BY <2>1, FS_Subset
  <2>3. QED
    BY <2>1, <2>2
<1> HIDE DEF e, S
<1>2. Sum(e, S) = e[j] + Sum(e, S \ {j})
  BY <1>1, SumTakesApart
<1>3. Sum(f, S) = f[j] + Sum(f, S \ {j})
  BY <1>1, SumTakesApart
<1>4. Sum(f, S \ {j}) = Sum(e, S \ {j}) /\ Sum(f, S \ {j}) \in Int
  <2>1. \A x \in S \ {j} : f[x] \in Int /\ e[x] = f[x]
    BY <1>1
  <2>2. QED
    BY <1>1, <2>1, SumOfSame, SumTakesApart
<1>5. f[j] \in Int
  BY <1>1
<1>6. QED
  BY <1>1, <1>2, <1>3, <1>4, <1>5 DEF e, S

LEMMA NoneYet ==
  ASSUME NEW M \in Nat
  PROVE  Sum([i \in 1 .. M |-> 0], 1 .. M) = 0
<1> DEFINE f == [i \in 1 .. M |-> 0]
<1>1. IsFiniteSet(1 .. M) /\ \A x \in 1 .. M : f[x] \in Int /\ f[x] = 0
  BY FS_Interval
<1> HIDE DEF f
<1>2. Sum(f, 1 .. M) = Sum(f, {})
  BY <1>1, SumWithoutZeros
<1>3. QED
  BY <1>1, <1>2, SumTakesApart DEF f

\* Of a cycle of n positions, each belonging to one of M backends, the last picks were
\* counted: sv[i] is how many of the m most recent positions belong to i.
Counted(n, M, pos, c, sv) ==
  /\ sv \in [1 .. M -> Nat]
  /\ Sum(sv, 1 .. M) <= n
  /\ \A i \in 1 .. M :
       sv[i] = Cardinality({r \in 0 .. n - 1 : pos[r] = i /\ Age(n, c, r) < Sum(sv, 1 .. M)})

\* One pick: a new cycle begins when the last one is full.
LEMMA CountedStep ==
  ASSUME NEW n \in Nat \ {0}, NEW M \in Nat, NEW pos \in [0 .. n - 1 -> 1 .. M],
         NEW c \in Int, NEW d \in Int, d % n = (c + 1) % n, NEW sv, Counted(n, M, pos, c, sv)
  PROVE  Counted(n, M, pos, d,
           [(IF Sum(sv, 1 .. M) >= n THEN [i \in 1 .. M |-> 0] ELSE sv) EXCEPT ![pos[d % n]] = @ + 1])
<1> DEFINE m == Sum(sv, 1 .. M)
           r0 == d % n
           j == pos[r0]
           old == IF m >= n THEN [i \in 1 .. M |-> 0] ELSE sv
           k == IF m >= n THEN 0 ELSE m
           tv == [old EXCEPT ![j] = @ + 1]
           Set(e, l, i) == {r \in 0 .. n - 1 : pos[r] = i /\ Age(n, e, r) < l}
<1>0. m \in Nat /\ m <= n
  <2>1. IsFiniteSet(1 .. M) /\ \A i \in 1 .. M : sv[i] \in Nat
    <3>1. IsFiniteSet(1 .. M)
      BY FS_Interval
    <3>2. sv \in [1 .. M -> Nat]
      BY DEF Counted
    <3>3. QED
      BY <3>1, <3>2
  <2>2. QED
    BY <2>1, SumOfNat DEF Counted
<1>1. r0 \in 0 .. n - 1 /\ j \in 1 .. M
  BY Remainder
<1>2. k \in 0 .. n - 1 /\ old \in [1 .. M -> Nat] /\ Sum(old, 1 .. M) = k
  <2>1. CASE m >= n
    BY <2>1, NoneYet
  <2>2. CASE ~(m >= n)
    BY <1>0, <2>2 DEF Counted
  <2>3. QED
    BY <2>1, <2>2
<1>3. \A i \in 1 .. M : old[i] = Cardinality(Set(c, k, i))
  <2>1. CASE m >= n
    <3>1. \A r \in 0 .. n - 1 : ~(Age(n, c, r) < 0)
      BY Remainder DEF Age
    <3>2. \A i \in 1 .. M : Set(c, k, i) = {} /\ old[i] = 0
      BY <2>1, <3>1
    <3> HIDE DEF Set, old
    <3>3. QED
      BY <3>2, FS_EmptySet
  <2>2. CASE ~(m >= n)
    BY <2>2 DEF Counted
  <2>3. QED
    BY <2>1, <2>2
<1> HIDE DEF r0, old, k
<1>4. tv \in [1 .. M -> Nat] /\ tv[j] = old[j] + 1 /\ \A i \in 1 .. M : i # j => tv[i] = old[i]
  BY <1>1, <1>2
<1>5. Sum(tv, 1 .. M) = k + 1
  BY <1>1, <1>2, OneMore
<1>6. ASSUME NEW r \in 0 .. n - 1
      PROVE  /\ Age(n, d, r) < k + 1 <=> Age(n, c, r) < k \/ r = r0
             /\ r = r0 => ~(Age(n, c, r) < k)
  <2>1. /\ Age(n, c, r) \in 0 .. n - 1
        /\ Age(n, d, r) = IF Age(n, c, r) = n - 1 THEN 0 ELSE Age(n, c, r) + 1
        /\ Age(n, d, r) = 0 <=> r = r0
    BY AgeStep DEF r0
  <2> DEFINE a == Age(n, c, r)
             b == Age(n, d, r)
  <2>2. a \in 0 .. n - 1 /\ b = (IF a = n - 1 THEN 0 ELSE a + 1) /\ (b = 0 <=> r = r0)
    BY <2>1
  <2> HIDE DEF a, b
  <2>3. (b < k + 1 <=> a < k \/ r = r0) /\ (r = r0 => ~(a < k))
    <3>1. k \in 0 .. n - 1
      BY <1>2
    <3>2. CASE a = n - 1
      <4>1. b = 0 /\ r = r0
        BY <2>2, <3>2
      <4>2. QED
        BY <3>1, <3>2, <4>1
    <3>3. CASE a # n - 1
      <4>1. b = a + 1 /\ a \in Nat
        BY <2>2, <3>3
      <4>2. r # r0
        BY <2>2, <4>1
      <4>3. QED
        BY <3>1, <4>1, <4>2
    <3>4. QED
      BY <3>2, <3>3
  <2>4. QED
    BY <2>3 DEF a, b
<1>7. \A i \in 1 .. M : tv[i] = Cardinality(Set(d, k + 1, i))
  <2> SUFFICES ASSUME NEW i \in 1 .. M PROVE tv[i] = Cardinality(Set(d, k + 1, i))
    OBVIOUS
  <2>1. IsFiniteSet(Set(c, k, i))
    <3>1. IsFiniteSet(0 .. n - 1) /\ Set(c, k, i) \subseteq 0 .. n - 1
      BY FS_Interval
    <3> HIDE DEF Set
    <3>2. QED
      BY <3>1, FS_Subset
  <2>2. CASE i = j
    <3>1. Set(d, k + 1, i) = Set(c, k, i) \cup {r0} /\ r0 \notin Set(c, k, i)
      BY <1>1, <1>6, <2>2
    <3> HIDE DEF Set
    <3>2. Cardinality(Set(d, k + 1, i)) = Cardinality(Set(c, k, i)) + 1
      BY <2>1, <3>1, FS_AddElement
    <3>3. QED
      BY <1>3, <1>4, <2>2, <3>2
  <2>3. CASE i # j
    <3>1. Set(d, k + 1, i) = Set(c, k, i)
      BY <1>1, <1>6, <2>3
    <3> HIDE DEF Set, tv
    <3>2. QED
      BY <1>3, <1>4, <2>3, <3>1
  <2>4. QED
    BY <2>2, <2>3
<1> HIDE DEF tv
<1>8. k + 1 <= n
  BY <1>2
<1>9. Counted(n, M, pos, d, tv)
  BY <1>4, <1>5, <1>7, <1>8 DEF Counted
<1>10. QED
  BY <1>9 DEF tv, old, r0

-----------------------------------------------------------------------------
(* Hashes.  The last of the hashes 1 .. T counts as 0.                     *)

LEMMA HashesOfPosition ==
  ASSUME NEW bs \in Seq(BackendSet), TotalWeight(bs) > 0, NEW i \in 1 .. Len(bs)
  PROVE  Cardinality({h \in 1 .. TotalWeight(bs) : IPHashSelect(bs, h) = i}) = bs[i].weight
<1> DEFINE T == TotalWeight(bs)
           R == {r \in 0 .. T - 1 : AtWeight(bs, r) = i}
           H == {h \in 1 .. T : IPHashSelect(bs, h) = i}
<1>1. T \in Nat \ {0}
  BY RunningSum, WeightsAreNumbers DEF TotalWeight
<1>2. Cardinality(R) = bs[i].weight
  BY TargetsOfPosition
<1>3. \A h \in 1 .. T : IPHashSelect(bs, h) = AtWeight(bs, h % T)
  BY <1>1 DEF IPHashSelect
<1>4. T % T = 0 /\ \A h \in 1 .. T - 1 : h % T = h
  <2>1. T = T * 1 + 0 /\ 0 \in 0 .. T - 1
    BY <1>1
  <2>2. T % T = 0
    BY <1>1, <2>1, RemainderIs
  <2>3. ASSUME NEW h \in 1 .. T - 1 PROVE h % T = h
    <3>1. h = T * 0 + h /\ h \in 0 .. T - 1 /\ h \in Int
      BY <1>1
    <3>2. QED
      BY <1>1, <3>1, RemainderIs
  <2>4. QED
    BY <2>2, <2>3
<1> HIDE DEF T
<1>5. \A h \in 1 .. T - 1 : h \in H <=> h \in R
  BY <1>1, <1>3, <1>4
<1>6. T \in H <=> 0 \in R
  BY <1>1, <1>3, <1>4
<1>7. IsFiniteSet(R) /\ R \subseteq 0 .. T - 1 /\ H \subseteq 1 .. T
  <2>1. IsFiniteSet(0 .. T - 1) /\ R \subseteq 0 .. T - 1
    <3>1. 0 \in Int /\ T - 1 \in Int
      BY <1>1
    <3>2. QED
      BY <3>1, FS_Interval
  <2>2. IsFiniteSet(R)
    BY <2>1, FS_Subset
  <2>3. QED
    BY <2>1, <2>2
<1> HIDE DEF R, H
<1>8. H \ {T} = R \ {0}
  <2>1. ASSUME NEW h \in H, h # T PROVE h \in R \ {0}
    <3>1. h \in 1 .. T - 1
      BY <1>1, <1>7, <2>1
    <3>2. QED
      BY <1>5, <2>1, <3>1
  <2>2. ASSUME NEW h \in R, h # 0 PROVE h \in H \ {T}
    <3>1. h \in 1 .. T - 1
      BY <1>1, <1>7, <2>2
    <3>2. h # T
      BY <1>1, <3>1
    <3>3. QED
      BY <1>5, <2>2, <3>1, <3>2
  <2>3. QED
    BY <2>1, <2>2
<1>9. Cardinality(H) = Cardinality(R)
  <2>1. CASE 0 \notin R
    <3>1. H = R
      BY <1>1, <1>6, <1>7, <1>8, <2>1
    <3>2. QED
      BY <3>1
  <2>2. CASE 0 \in R
    <3>1. H = (R \ {0}) \cup {T} /\ T \notin R \ {0}
      BY <1>1, <1>6, <1>7, <1>8, <2>2
    <3>2. IsFiniteSet(R \ {0}) /\ Cardinality(R \ {0}) = Cardinality(R) - 1
      <4>1. R \ {0} \in SUBSET R
        OBVIOUS
      <4>2. QED
        BY <1>7, <2>2, <4>1, FS_RemoveElement, FS_Subset
    <3>3. Cardinality(H) = Cardinality(R \ {0}) + 1
      BY <3>1, <3>2, FS_AddElement
    <3>4. Cardinality(R) \in Nat
      BY <1>7, FS_CardinalityType
    <3>5. QED
      BY <3>2, <3>3, <3>4
  <2>3. QED
    BY <2>1, <2>2
<1>11. QED
  BY <1>2, <1>9 DEF H, T

-----------------------------------------------------------------------------
(* The inductive invariant of the balancer.                                *)

Turns == {"roundRobin", "ipHash", "weighted"}

CycleOf(bs, alg) == IF alg = "weighted" THEN TotalWeight(bs) ELSE Len(bs)

PositionOf(bs, alg) ==
  [r \in 0 .. CycleOf(bs, alg) - 1 |-> IF alg = "weighted" THEN AtWeight(bs, r) ELSE r + 1]

CounterOf(alg, cur, rr) == IF alg = "weighted" THEN rr ELSE cur - 1

\* The picks counted are those of the last positions, wherever the counter stood before.
TurnsCounted(bs, alg, cur, rr, sv) ==
  alg \in Turns /\ CycleOf(bs, alg) > 0
    => Counted(CycleOf(bs, alg), MaxBackends, PositionOf(bs, alg), CounterOf(alg, cur, rr), sv)

Within(bs, sv) ==
  sv \in [1 .. MaxBackends -> Nat] /\ \A i \in 1 .. MaxBackends : sv[i] > 0 => i \in 1 .. Len(bs)

ListTyped(list) == list \in Seq(BackendSet) /\ Len(list) <= MaxBackends

BalancerInv ==
  /\ ListTyped(backends)
  /\ current \in 0 .. Period - 1 /\ roundRobin \in Nat
  /\ Within(HealthyIn(backends), served)
  /\ TurnsCounted(HealthyIn(backends), algorithm, current, roundRobin, served)

LEMMA HealthyTyped ==
  ASSUME NEW list, ListTyped(list)
  PROVE  ListTyped(HealthyIn(list))
<1>1. HealthyIn(list) \in Seq(BackendSet) /\ Len(HealthyIn(list)) <= Len(list)
  BY HealthyList DEF ListTyped
<1>2. Len(list) \in Nat /\ Len(list) <= MaxBackends /\ Len(HealthyIn(list)) \in Nat
  BY <1>1 DEF ListTyped
<1>3. QED
  BY <1>1, <1>2, BalancerAssumption DEF ListTyped, BalancerAssumption

LEMMA CycleTyped ==
  ASSUME NEW bs, ListTyped(bs), NEW alg
  PROVE  /\ CycleOf(bs, alg) \in Nat
         /\ CycleOf(bs, alg) > 0 => PositionOf(bs, alg) \in [0 .. CycleOf(bs, alg) - 1 -> 1 .. Len(bs)]
<1>1. bs \in Seq(BackendSet) /\ Len(bs) \in Nat
  BY DEF ListTyped
<1>2. TotalWeight(bs) \in Nat
  BY <1>1, RunningSum DEF TotalWeight
<1>3. CASE alg = "weighted"
  <2>1. \A r \in 0 .. TotalWeight(bs) - 1 : AtWeight(bs, r) \in 1 .. Len(bs)
    BY <1>1, <1>2, TargetFalls
  <2>2. QED
    BY <1>2, <1>3, <2>1 DEF CycleOf, PositionOf
<1>4. CASE alg # "weighted"
  BY <1>1, <1>4 DEF CycleOf, PositionOf
<1>5. QED
  BY <1>3, <1>4

\* When the list changes the count starts anew.
LEMMA NothingCounted ==
  ASSUME NEW list, ListTyped(list), NEW alg, NEW cur \in Int, NEW rr \in Int
  PROVE  /\ Within(HealthyIn(list), None0)
         /\ TurnsCounted(HealthyIn(list), alg, cur, rr, None0)
<1> USE BalancerAssumption DEF BalancerAssumption
<1> DEFINE bs == HealthyIn(list)
           n == CycleOf(bs, alg)
           pos == PositionOf(bs, alg)
           c == CounterOf(alg, cur, rr)
<1>1. n \in Nat
  BY HealthyTyped, CycleTyped
<1>2. c \in Int
  BY DEF CounterOf
<1>3. None0 \in [1 .. MaxBackends -> Nat] /\ \A i \in 1 .. MaxBackends : None0[i] = 0
  BY DEF None0
<1>4. Sum(None0, 1 .. MaxBackends) = 0
  BY NoneYet DEF None0
<1> HIDE DEF n, pos, c, bs
<1>5. ASSUME n > 0 PROVE Counted(n, MaxBackends, pos, c, None0)
  <2>1. \A r \in 0 .. n - 1 : ~(Age(n, c, r) < 0)
    BY <1>1, <1>2, <1>5, Remainder DEF Age
  <2>2. {r \in 0 .. n - 1 : FALSE} = {}
    OBVIOUS
  <2>3. \A i \in 1 .. MaxBackends : {r \in 0 .. n - 1 : pos[r] = i /\ Age(n, c, r) < 0} = {}
    BY <2>1
  <2>4. \A i \in 1 .. MaxBackends :
          None0[i] = Cardinality({r \in 0 .. n - 1 : pos[r] = i /\ Age(n, c, r) < 0})
    BY <1>3, <2>3, FS_EmptySet
  <2>5. Sum(None0, 1 .. MaxBackends) <= n
    BY <1>1, <1>4
  <2>6. QED
    BY <1>3, <1>4, <2>4, <2>5 DEF Counted
<1>6. Within(bs, None0)
  BY <1>3 DEF Within
<1>7. QED
  BY <1>5, <1>6 DEF TurnsCounted, n, pos, c, bs

-----------------------------------------------------------------------------
(* The counters, and a pick.                                               *)

LEMMA SameRemainder ==
  ASSUME NEW n \in Nat \ {0}, NEW x \in Int, NEW y \in Int, NEW z \in Int, x = n * z + y
  PROVE  x % n = y % n
<1>1. PICK k \in Int, s \in 0 .. n - 1 : s = y % n /\ y = n * k + s
  BY Remainder
<1>2. n * (z + k) = n * z + n * k /\ n * z \in Int /\ n * k \in Int
  OBVIOUS
<1>3. x = n * (z + k) + s /\ z + k \in Int
  BY <1>1, <1>2
<1>4. x % n = s
  BY <1>3, RemainderIs
<1>5. QED
  BY <1>1, <1>4

\* The counter of round robin starts again, and no backend notices.
LEMMA CounterStartsAgain ==
  ASSUME NEW n \in 1 .. MaxBackends, NEW c \in Nat
  PROVE  /\ (c + 1) % Period \in 0 .. Period - 1
         /\ (((c + 1) % Period) - 1) % n = c % n
<1> USE BalancerAssumption DEF BalancerAssumption
<1>1. n \in Nat \ {0} /\ Period \in Nat \ {0} /\ Period % n = 0
  OBVIOUS
<1> DEFINE d == (c + 1) % Period
           q == (c + 1) \div Period
           p == Period \div n
<1>2. d \in 0 .. Period - 1 /\ q \in Int /\ c + 1 = Period * q + d
  BY <1>1, Remainder
<1>3. p \in Int /\ Period = n * p + 0
  BY <1>1, Remainder
<1> HIDE DEF d, q, p
<1>4. Period * q = n * (p * q) /\ p * q \in Int /\ n * (p * q) \in Int
  <2>1. \A a, b \in Int : (n * a + 0) * b = n * (a * b)
    OBVIOUS
  <2>2. Period * q = n * (p * q)
    BY <1>2, <1>3, <2>1
  <2>3. QED
    BY <1>1, <1>2, <1>3, <2>2
<1>5. c = n * (p * q) + (d - 1)
  BY <1>2, <1>4
<1>6. c % n = (d - 1) % n
  <2>1. d - 1 \in Int /\ c \in Int
    BY <1>2
  <2>2. QED
    BY <1>1, <1>4, <1>5, <2>1, SameRemainder
<1>7. QED
  BY <1>2, <1>6 DEF d

\* A pick keeps the count, if it is of the backend at the next position.
LEMMA PickCounted ==
  ASSUME NEW bs, ListTyped(bs), NEW alg, NEW cur \in Int, NEW rr \in Int,
         NEW cur2 \in Int, NEW rr2 \in Int,
         NEW sv, Within(bs, sv), TurnsCounted(bs, alg, cur, rr, sv), NEW i \in 1 .. Len(bs),
         alg \in Turns /\ CycleOf(bs, alg) > 0
           => LET n == CycleOf(bs, alg)
                  d == CounterOf(alg, cur2, rr2)
              IN /\ d % n = (CounterOf(alg, cur, rr) + 1) % n
                 /\ i = PositionOf(bs, alg)[d % n]
  PROVE  LET sv2 == [(IF Sum(sv, 1 .. MaxBackends) >= CycleOf(bs, alg) THEN None0 ELSE sv)
                       EXCEPT ![i] = @ + 1]
         IN Within(bs, sv2) /\ TurnsCounted(bs, alg, cur2, rr2, sv2)
<1> USE BalancerAssumption DEF BalancerAssumption
<1> DEFINE n == CycleOf(bs, alg)
           pos == PositionOf(bs, alg)
           c == CounterOf(alg, cur, rr)
           d == CounterOf(alg, cur2, rr2)
           old == IF Sum(sv, 1 .. MaxBackends) >= n THEN None0 ELSE sv
           sv2 == [old EXCEPT ![i] = @ + 1]
<1>1. n \in Nat /\ c \in Int /\ d \in Int /\ Len(bs) \in Nat /\ Len(bs) <= MaxBackends
  BY CycleTyped DEF CounterOf, ListTyped
<1>2. Within(bs, sv2)
  <2>1. old \in [1 .. MaxBackends -> Nat] /\ \A k \in 1 .. MaxBackends : old[k] > 0 => k \in 1 .. Len(bs)
    BY DEF Within, None0
  <2> HIDE DEF old
  <2>2. sv2 \in [1 .. MaxBackends -> Nat]
    BY <1>1, <2>1
  <2>3. \A k \in 1 .. MaxBackends : sv2[k] > 0 => k \in 1 .. Len(bs)
    BY <1>1, <2>1
  <2>4. QED
    BY <2>2, <2>3 DEF Within
<1>3. ASSUME alg \in Turns, n > 0 PROVE Counted(n, MaxBackends, pos, d, sv2)
  <2>1. /\ d % n = (c + 1) % n
        /\ i = pos[d % n]
    BY <1>3
  <2>2. pos \in [0 .. n - 1 -> 1 .. MaxBackends]
    <3>1. pos \in [0 .. n - 1 -> 1 .. Len(bs)]
      BY <1>3, CycleTyped
    <3> HIDE DEF pos, n
    <3>2. QED
      BY <1>1, <3>1
  <2>3. Counted(n, MaxBackends, pos, c, sv)
    BY <1>3 DEF TurnsCounted
  <2> HIDE DEF n, pos, c, d
  <2>4. n \in Nat \ {0} /\ MaxBackends \in Nat
    BY <1>1, <1>3
  <2>5. Counted(n, MaxBackends, pos, d,
          [(IF Sum(sv, 1 .. MaxBackends) >= n THEN [k \in 1 .. MaxBackends |-> 0] ELSE sv)
             EXCEPT ![pos[d % n]] = @ + 1])
    BY <1>1, <2>1, <2>2, <2>3, <2>4, CountedStep
  <2>6. QED
    BY <2>1, <2>5 DEF None0
<1> HIDE DEF sv2
<1>4. TurnsCounted(bs, alg, cur2, rr2, sv2)
  BY <1>3 DEF TurnsCounted
<1>5. QED
  BY <1>2, <1>4 DEF sv2

-----------------------------------------------------------------------------
(* The operations on the list.                                             *)

LEMMA FirstNamed ==
  ASSUME NEW name, ListTyped(backends), First(name) # 0
  PROVE  First(name) \in 1 .. Len(backends)
<1> DEFINE I == {i \in 1 .. Len(backends) : backends[i].name = name}
<1>1. First(name) = IF I # {} THEN Min(I) ELSE 0
  BY DEF First, SelectInSeq
<1>2. I # {} /\ I \in SUBSET Nat
  BY <1>1 DEF ListTyped
<1>3. \E m \in I : \A k \in I : m <= k
  BY <1>2, SmallestNumber
<1> HIDE DEF I
<1>4. Min(I) \in I
  BY <1>3 DEF Min
<1>5. QED
  BY <1>1, <1>2, <1>4 DEF I

LEMMA ListChanges ==
  ASSUME BalancerInv, ListTyped(backends'), served' = None0,
         UNCHANGED <<algorithm, current, roundRobin>>
  PROVE  BalancerInv'
<1>1. current \in Int /\ roundRobin \in Int
  BY BalancerAssumption DEF BalancerInv, BalancerAssumption
<1>2. /\ Within(HealthyIn(backends'), None0)
      /\ TurnsCounted(HealthyIn(backends'), algorithm, current, roundRobin, None0)
  BY <1>1, NothingCounted
<1>3. QED
  BY <1>2 DEF BalancerInv

LEMMA AddBackendStep ==
  ASSUME BalancerInv, NEW name \in BackendNames, NEW weight \in Weights, AddBackend(name, weight)
  PROVE  BalancerInv'
<1>1. Backend(name, weight) \in BackendSet
  BY DEF Backend, BackendSet
<1>2. backends \in Seq(BackendSet) /\ Len(backends) + 1 <= MaxBackends
  BY BalancerAssumption DEF BalancerInv, ListTyped, AddBackend, BalancerAssumption
<1>3. ListTyped(backends')
  <2>1. backends' = Append(backends, Backend(name, weight))
    BY DEF AddBackend
  <2>2. QED
    BY <1>1, <1>2, <2>1 DEF ListTyped
<1>4. QED
  BY <1>3, ListChanges DEF AddBackend

LEMMA RemoveBackendStep ==
  ASSUME BalancerInv, NEW name \in BackendNames, RemoveBackend(name)
  PROVE  BalancerInv'
<1> DEFINE i == First(name)
<1>1. backends \in Seq(BackendSet) /\ Len(backends) <= MaxBackends /\ i \in 1 .. Len(backends)
  BY FirstNamed DEF BalancerInv, ListTyped, RemoveBackend
<1>2. backends' = SubSeq(backends, 1, i - 1) \o SubSeq(backends, i + 1, Len(backends))
  BY DEF RemoveBackend, RemoveAt
<1> HIDE DEF i
<1>3. ListTyped(backends')
  <2> DEFINE a == SubSeq(backends, 1, i - 1)
             b == SubSeq(backends, i + 1, Len(backends))
  <2>1. a \in Seq(BackendSet) /\ Len(a) = i - 1
    BY <1>1
  <2>2. b \in Seq(BackendSet) /\ Len(b) = Len(backends) - i
    BY <1>1
  <2> HIDE DEF a, b
  <2>3. a \o b \in Seq(BackendSet) /\ Len(a \o b) = Len(a) + Len(b)
    BY <2>1, <2>2
  <2>4. Len(a \o b) <= MaxBackends
    BY <1>1, <2>1, <2>2, <2>3, BalancerAssumption DEF BalancerAssumption
  <2>5. QED
    BY <1>2, <2>3, <2>4 DEF ListTyped, a, b
<1>4. QED
  BY <1>3, ListChanges DEF RemoveBackend

LEMMA MarkStep ==
  ASSUME BalancerInv, NEW name \in BackendNames, NEW healthy \in BOOLEAN, Mark(name, healthy)
  PROVE  BalancerInv'
<1> DEFINE i == First(name)
           b == backends[i]
<1>1. backends \in Seq(BackendSet) /\ Len(backends) <= MaxBackends /\ i \in 1 .. Len(backends)
  BY FirstNamed DEF BalancerInv, ListTyped, Mark
<1>2. [b EXCEPT !.healthy = healthy] \in BackendSet
  <2>1. b \in BackendSet
    BY <1>1
  <2> HIDE DEF b
  <2>2. QED
    BY <2>1 DEF BackendSet
<1>3. backends' = [backends EXCEPT ![i] = [b EXCEPT !.healthy = healthy]]
  BY DEF Mark
<1> HIDE DEF i, b
<1>4. ListTyped(backends')
  BY <1>1, <1>2, <1>3 DEF ListTyped
<1>5. QED
  BY <1>4, ListChanges DEF Mark

\* New figures change neither health nor weights: the count goes on.
LEMMA UpdateMetricsStep ==
  ASSUME BalancerInv, NEW name \in BackendNames, NEW load \in Loads, UpdateMetrics(name, load)
  PROVE  BalancerInv'
<1> DEFINE i == First(name)
           b == backends[i]
           e == [b EXCEPT !.load = load]
           bs == HealthyIn(backends)
           cs == HealthyIn(backends')
<1>1. backends \in Seq(BackendSet) /\ Len(backends) <= MaxBackends /\ i \in 1 .. Len(backends)
  BY FirstNamed DEF BalancerInv, ListTyped, UpdateMetrics
<1>2. e \in BackendSet /\ e.healthy = b.healthy /\ e.weight = b.weight
  <2>1. b \in BackendSet
    BY <1>1
  <2> HIDE DEF b
  <2>2. QED
    BY <2>1 DEF BackendSet
<1>3. backends' = [backends EXCEPT ![i] = e]
  BY DEF UpdateMetrics
<1>4. b = backends[i]
  OBVIOUS
<1> HIDE DEF i, b, e
<1>5. /\ backends' \in Seq(BackendSet) /\ Len(backends') = Len(backends)
      /\ \A k \in 1 .. Len(backends) : /\ backends[k].weight = backends'[k].weight
                                       /\ backends[k].healthy = backends'[k].healthy
  BY <1>1, <1>2, <1>3, <1>4
<1>6. ListTyped(backends) /\ ListTyped(backends') /\ ListTyped(bs) /\ ListTyped(cs)
  BY <1>1, <1>5, HealthyTyped DEF ListTyped
<1>7. SameWeights(bs, cs)
  BY <1>1, <1>5, HealthyAlike DEF SameWeights
<1> HIDE DEF bs, cs
<1>8. /\ Len(bs) = Len(cs) /\ TotalWeight(bs) = TotalWeight(cs) /\ TotalWeight(bs) \in Nat
      /\ \A t \in Nat : t < TotalWeight(bs) => AtWeight(bs, t) = AtWeight(cs, t)
  <2>1. bs \in Seq(BackendSet) /\ cs \in Seq(BackendSet) /\ Len(bs) \in Nat
    BY <1>6 DEF ListTyped
  <2>2. QED
    BY <1>7, <2>1, SamePositions, RunningSum DEF SameWeights, TotalWeight
<1>9. CycleOf(bs, algorithm) = CycleOf(cs, algorithm)
  BY <1>8 DEF CycleOf
<1>10. PositionOf(bs, algorithm) = PositionOf(cs, algorithm)
  <2>1. CASE algorithm = "weighted"
    <3>1. \A r \in 0 .. TotalWeight(bs) - 1 : AtWeight(bs, r) = AtWeight(cs, r)
      BY <1>8
    <3>2. CycleOf(bs, algorithm) = TotalWeight(bs) /\ CycleOf(cs, algorithm) = TotalWeight(bs)
      BY <1>8, <2>1 DEF CycleOf
    <3>3. QED
      BY <2>1, <3>1, <3>2 DEF PositionOf
  <2>2. CASE algorithm # "weighted"
    BY <1>9, <2>2 DEF PositionOf
  <2>3. QED
    BY <2>1, <2>2
<1>11. Within(cs, served) /\ TurnsCounted(cs, algorithm, current, roundRobin, served)
  BY <1>8, <1>9, <1>10 DEF BalancerInv, Within, TurnsCounted, bs
<1>12. QED
  BY <1>6, <1>11 DEF BalancerInv, UpdateMetrics, cs

-----------------------------------------------------------------------------
(* The choices.                                                            *)

LEMMA HealthyIs == Healthy = HealthyIn(backends)
  BY DEF Healthy, HealthyIn

LEMMA CycleIs ==
  ASSUME NEW bs
  PROVE  Cycle(bs) = CycleOf(bs, algorithm)
  BY DEF Cycle, CycleOf

LEMMA ServedSum ==
  ASSUME served \in [1 .. MaxBackends -> Nat]
  PROVE  SumFunction(served) = Sum(served, 1 .. MaxBackends)
<1>1. DOMAIN served = 1 .. MaxBackends
  OBVIOUS
<1>2. SumFunction(served) = SumFunctionOnSet(served, DOMAIN served)
  BY DEF SumFunction
<1>3. QED
  BY <1>1, <1>2 DEF Sum

LEMMA PickStep ==
  ASSUME BalancerInv, NEW i \in 1 .. Len(Healthy), Picked(i),
         UNCHANGED <<backends, algorithm>>,
         current' \in 0 .. Period - 1, roundRobin' \in Nat,
         algorithm \in Turns /\ CycleOf(Healthy, algorithm) > 0
           => LET n == CycleOf(Healthy, algorithm)
                  d == CounterOf(algorithm, current', roundRobin')
              IN /\ d % n = (CounterOf(algorithm, current, roundRobin) + 1) % n
                 /\ i = PositionOf(Healthy, algorithm)[d % n]
  PROVE  BalancerInv'
<1> DEFINE bs == HealthyIn(backends)
           sv2 == [(IF Sum(served, 1 .. MaxBackends) >= CycleOf(bs, algorithm) THEN None0 ELSE served)
                     EXCEPT ![i] = @ + 1]
<1>1. Healthy = bs
  BY HealthyIs
<1>2. /\ ListTyped(bs) /\ Within(bs, served)
      /\ TurnsCounted(bs, algorithm, current, roundRobin, served)
  BY HealthyTyped DEF BalancerInv
<1>3. /\ current \in Int /\ roundRobin \in Int /\ current' \in Int /\ roundRobin' \in Int
  BY BalancerAssumption DEF BalancerInv, BalancerAssumption
<1>4. served' = sv2
  <2>1. served \in [1 .. MaxBackends -> Nat]
    BY <1>2 DEF Within
  <2>2. QED
    BY <1>1, <2>1, ServedSum, CycleIs DEF Picked
<1> HIDE DEF bs
<1>5. Within(bs, sv2) /\ TurnsCounted(bs, algorithm, current', roundRobin', sv2)
  BY <1>1, <1>2, <1>3, PickCounted
<1> HIDE DEF sv2
<1>6. QED
  BY <1>4, <1>5 DEF BalancerInv, bs

LEMMA RoundRobinStep ==
  ASSUME BalancerInv, Healthy # <<>>, algorithm \in {"roundRobin", "ipHash"}, RoundRobinSelect(Healthy)
  PROVE  BalancerInv'
<1> DEFINE n == Len(Healthy)
           i == (current % n) + 1
<1>1. ListTyped(Healthy)
  BY HealthyIs, HealthyTyped DEF BalancerInv
<1>2. n \in 1 .. MaxBackends
  BY <1>1, BalancerAssumption DEF ListTyped, BalancerAssumption
<1>3. current \in Nat
  BY BalancerAssumption DEF BalancerInv, BalancerAssumption
<1>4. /\ current' = (current + 1) % Period
      /\ current' \in 0 .. Period - 1
      /\ (current' - 1) % n = current % n
  BY <1>2, <1>3, CounterStartsAgain DEF RoundRobinSelect
<1>5. current % n \in 0 .. n - 1 /\ i \in 1 .. n
  <2>1. n \in Nat \ {0} /\ current \in Int
    BY <1>2, <1>3
  <2> HIDE DEF n
  <2>2. current % n \in 0 .. n - 1
    BY <2>1, Remainder
  <2>3. QED
    BY <2>1, <2>2
<1>6. CycleOf(Healthy, algorithm) = n
  BY DEF CycleOf
<1>7. PositionOf(Healthy, algorithm)[current % n] = i
  BY <1>5, <1>6 DEF PositionOf
<1>8. /\ CounterOf(algorithm, current', roundRobin') = current' - 1
      /\ CounterOf(algorithm, current, roundRobin) + 1 = current
  BY <1>3 DEF CounterOf
<1>9. /\ Picked(i)
      /\ UNCHANGED <<backends, algorithm>>
      /\ roundRobin' \in Nat
  BY DEF RoundRobinSelect, BalancerInv
<1> HIDE DEF n, i
<1>10. QED
  BY <1>4, <1>5, <1>6, <1>7, <1>8, <1>9, PickStep DEF n

LEMMA WeightedStep ==
  ASSUME BalancerInv, algorithm = "weighted", TotalWeight(Healthy) > 0, WeightedSelect(Healthy)
  PROVE  BalancerInv'
<1> DEFINE n == TotalWeight(Healthy)
           d == roundRobin'
           i == AtWeight(Healthy, d)
<1>1. ListTyped(Healthy) /\ Healthy \in Seq(BackendSet)
  BY HealthyIs, HealthyTyped DEF BalancerInv, ListTyped
<1>2. n \in Nat \ {0}
  BY <1>1, RunningSum, WeightsAreNumbers DEF TotalWeight
<1>3. roundRobin \in Int /\ d = (roundRobin + 1) % n
  BY DEF BalancerInv, WeightedSelect
<1>4. d \in 0 .. n - 1
  BY <1>2, <1>3, Remainder
<1>5. d % n = d
  <2>1. d = n * 0 + d /\ d \in Int
    BY <1>2, <1>4
  <2>2. QED
    BY <1>2, <1>4, <2>1, RemainderIs
<1>6. i \in 1 .. Len(Healthy)
  BY <1>1, <1>2, <1>4, TargetFalls
<1>7. CycleOf(Healthy, algorithm) = n
  BY DEF CycleOf
<1>8. PositionOf(Healthy, algorithm)[d] = i
  BY <1>4, <1>7 DEF PositionOf
<1>9. /\ CounterOf(algorithm, current', roundRobin') = d
      /\ CounterOf(algorithm, current, roundRobin) = roundRobin
  BY DEF CounterOf
<1>10. /\ Picked(i)
       /\ UNCHANGED <<backends, algorithm>>
       /\ current' \in 0 .. Period - 1 /\ roundRobin' \in Nat
  BY <1>2, <1>4 DEF WeightedSelect, BalancerInv
<1> HIDE DEF n, i
<1>11. QED
  BY <1>3, <1>5, <1>6, <1>7, <1>8, <1>9, <1>10, PickStep

LEMMA StatelessStep ==
  ASSUME BalancerInv, NEW i \in Stateless(Healthy), Picked(i),
         UNCHANGED <<backends, algorithm, current, roundRobin>>,
         algorithm \in Turns => CycleOf(Healthy, algorithm) = 0
  PROVE  BalancerInv'
<1>1. Healthy \in Seq(BackendSet)
  BY HealthyIs, HealthyTyped DEF BalancerInv, ListTyped
<1>2. i \in 1 .. Len(Healthy)
  BY <1>1 DEF Stateless
<1>3. current' \in 0 .. Period - 1 /\ roundRobin' \in Nat
  BY DEF BalancerInv
<1>4. ~(algorithm \in Turns /\ CycleOf(Healthy, algorithm) > 0)
  <2>1. ~(0 > 0)
    OBVIOUS
  <2>2. QED
    BY <2>1
<1>5. QED
  BY <1>2, <1>3, <1>4, PickStep

LEMMA SelectStep ==
  ASSUME BalancerInv, Healthy # <<>>, SelectNext(Healthy)
  PROVE  BalancerInv'
<1>1. CASE algorithm \in {"roundRobin", "ipHash"}
  BY <1>1, RoundRobinStep DEF SelectNext
<1>2. CASE algorithm = "weighted" /\ TotalWeight(Healthy) > 0
  BY <1>2, WeightedStep DEF SelectNext
<1>3. CASE algorithm \notin {"roundRobin", "ipHash"} /\ ~(algorithm = "weighted" /\ TotalWeight(Healthy) > 0)
  <2>1. PICK i \in Stateless(Healthy) :
          Picked(i) /\ UNCHANGED <<backends, algorithm, current, roundRobin>>
    BY <1>3 DEF SelectNext
  <2>2. algorithm \in Turns => CycleOf(Healthy, algorithm) = 0
    <3>1. TotalWeight(Healthy) \in Nat
      <4>1. Healthy \in Seq(BackendSet)
        BY HealthyIs, HealthyTyped DEF BalancerInv, ListTyped
      <4>2. QED
        BY <4>1, RunningSum, WeightsAreNumbers DEF TotalWeight
    <3>2. QED
      BY <1>3, <3>1 DEF Turns, CycleOf
  <2>3. QED
    BY <2>1, <2>2, StatelessStep
<1>4. QED
  BY <1>1, <1>2, <1>3

LEMMA BalancerInit ==
  ASSUME NewBalancer
  PROVE  BalancerInv
<1> USE BalancerAssumption DEF BalancerAssumption
<1>1. ListTyped(backends)
  BY DEF NewBalancer, ListTyped
<1>2. /\ Within(HealthyIn(backends), None0)
      /\ TurnsCounted(HealthyIn(backends), algorithm, 0, 0, None0)
  BY <1>1, NothingCounted
<1>3. QED
  BY <1>1, <1>2 DEF NewBalancer, BalancerInv

LEMMA BalancerStep ==
  ASSUME BalancerInv, [BalancerNext]_bvars
  PROVE  BalancerInv'
<1>1. ASSUME NEW name \in BackendNames, RemoveBackend(name) PROVE BalancerInv'
  BY <1>1, RemoveBackendStep
<1>2. ASSUME NEW name \in BackendNames, MarkHealthy(name) PROVE BalancerInv'
  BY <1>2, MarkStep DEF MarkHealthy
<1>3. ASSUME NEW name \in BackendNames, MarkUnhealthy(name) PROVE BalancerInv'
  BY <1>3, MarkStep DEF MarkUnhealthy
<1>4. ASSUME NEW name \in BackendNames, NEW weight \in Weights, AddBackend(name, weight)
      PROVE BalancerInv'
  BY <1>4, AddBackendStep
<1>5. ASSUME NEW name \in BackendNames, NEW load \in Loads, UpdateMetrics(name, load)
      PROVE BalancerInv'
  BY <1>5, UpdateMetricsStep
<1>6. CASE NextBackend
  BY <1>6, SelectStep DEF NextBackend
<1>7. CASE UNCHANGED bvars
  BY <1>7 DEF bvars, BalancerInv
<1>8. ASSUME NEW hash \in Hashes, NextWithIP(hash) PROVE BalancerInv'
  BY <1>7, <1>8, SelectStep DEF NextWithIP
<1>9. QED
  BY <1>1, <1>2, <1>3, <1>4, <1>5, <1>6, <1>7, <1>8 DEF BalancerNext

-----------------------------------------------------------------------------
(* What follows from the invariant.                                        *)

LEMMA BalancerTyped ==
  ASSUME BalancerInv
  PROVE  BalancerTypeOK
<1>1. \A i \in DOMAIN served : served[i] > 0 => i \in DOMAIN Healthy
  <2>1. Healthy \in Seq(BackendSet) /\ Healthy = HealthyIn(backends)
    BY HealthyIs, HealthyTyped DEF BalancerInv, ListTyped
  <2>2. QED
    BY <2>1 DEF BalancerInv, Within
<1>2. QED
  BY <1>1 DEF BalancerInv, BalancerTypeOK, ListTyped, BackendSet

\* A full cycle visits every position.
LEMMA CycleIsFair ==
  ASSUME BalancerInv
  PROVE  FairShare
<1> DEFINE n == CycleOf(Healthy, algorithm)
           sum == Sum(served, 1 .. MaxBackends)
           pos == PositionOf(Healthy, algorithm)
           c == CounterOf(algorithm, current, roundRobin)
<1>1. /\ Healthy = HealthyIn(backends) /\ ListTyped(Healthy) /\ Healthy \in Seq(BackendSet)
      /\ Len(Healthy) \in Nat /\ Len(Healthy) <= MaxBackends
  BY HealthyIs, HealthyTyped DEF BalancerInv, ListTyped
<1>2. SumFunction(served) = sum /\ Cycle(Healthy) = n
  BY ServedSum, CycleIs DEF BalancerInv, Within
<1>3. n \in Nat /\ c \in Int
  BY <1>1, CycleTyped, BalancerAssumption DEF BalancerInv, CounterOf, BalancerAssumption
<1>4. ASSUME algorithm \in Turns, sum > 0, sum = n, NEW i \in 1 .. Len(Healthy)
      PROVE  served[i] = IF algorithm = "weighted" THEN Healthy[i].weight ELSE 1
  <2>1. n > 0
    BY <1>4
  <2>2. Counted(n, MaxBackends, pos, c, served)
    BY <1>1, <1>4, <2>1 DEF BalancerInv, TurnsCounted
  <2>3. i \in 1 .. MaxBackends
    BY <1>1, BalancerAssumption DEF BalancerAssumption
  <2>4. served[i] = Cardinality({r \in 0 .. n - 1 : pos[r] = i /\ Age(n, c, r) < n})
    BY <1>4, <2>2, <2>3 DEF Counted
  <2>5. \A r \in 0 .. n - 1 : Age(n, c, r) < n
    <3> HIDE DEF n, c
    <3>1. QED
      BY <1>3, <2>1, Remainder DEF Age
  <2>6. served[i] = Cardinality({r \in 0 .. n - 1 : pos[r] = i})
    <3> HIDE DEF n, c, pos
    <3>1. {r \in 0 .. n - 1 : pos[r] = i /\ Age(n, c, r) < n} = {r \in 0 .. n - 1 : pos[r] = i}
      BY <2>5
    <3>2. QED
      BY <2>4, <3>1
  <2>7. CASE algorithm = "weighted"
    <3>1. n = TotalWeight(Healthy) /\ \A r \in 0 .. n - 1 : pos[r] = AtWeight(Healthy, r)
      BY <2>7 DEF CycleOf, PositionOf
    <3>2. {r \in 0 .. n - 1 : pos[r] = i} = {r \in 0 .. n - 1 : AtWeight(Healthy, r) = i}
      BY <3>1
    <3>3. QED
      BY <1>1, <2>6, <2>7, <3>1, <3>2, TargetsOfPosition
  <2>8. CASE algorithm # "weighted"
    <3>1. n = Len(Healthy) /\ \A r \in 0 .. n - 1 : pos[r] = r + 1
      BY <2>8 DEF CycleOf, PositionOf
    <3> HIDE DEF n, pos
    <3>2. {r \in 0 .. n - 1 : pos[r] = i} = {i - 1}
      BY <1>1, <3>1
    <3>3. Cardinality({i - 1}) = 1
      BY FS_Singleton
    <3>4. QED
      BY <2>6, <2>8, <3>2, <3>3
  <2>9. QED
    BY <2>7, <2>8
<1> HIDE DEF n, sum
<1>5. DOMAIN Healthy = 1 .. Len(Healthy)
  BY <1>1
<1>6. QED
  BY <1>2, <1>4, <1>5 DEF FairShare, Turns

LEMMA HashesAreShared ==
  ASSUME BalancerInv
  PROVE  HashesShareByWeight
<1>1. Healthy \in Seq(BackendSet)
  BY HealthyIs, HealthyTyped DEF BalancerInv, ListTyped
<1>2. DOMAIN Healthy = 1 .. Len(Healthy)
  BY <1>1
<1>3. QED
  BY <1>1, <1>2, HashesOfPosition DEF HashesShareByWeight

LEMMA BalancerInvHolds == BalancerSpec => []BalancerInv
<1>1. NewBalancer => BalancerInv
  BY BalancerInit
<1>2. BalancerInv /\ [BalancerNext]_bvars => BalancerInv'
  BY BalancerStep
<1>3. QED
  BY <1>1, <1>2, PTL DEF BalancerSpec

\* Over every full cycle, however the list, the marks and the figures changed before it
\* began, round robin gives each healthy backend one pick and weighted round robin as many
\* as it weighs: roundRobinSelect and weightedRoundRobinSelect are fair.
THEOREM FairShareTheorem == BalancerSpec => []FairShare
<1>1. BalancerInv => FairShare
  BY CycleIsFair
<1>2. QED
  BY <1>1, BalancerInvHolds, PTL

\* ipHashSelect gives each healthy backend as many hashes, of as many as the total weight,
\* as it weighs.
THEOREM HashesShareTheorem == BalancerSpec => []HashesShareByWeight
<1>1. BalancerInv => HashesShareByWeight
  BY HashesAreShared
<1>2. QED
  BY <1>1, BalancerInvHolds, PTL

\* The types of the scheduler and of the balancer, and that no pick is counted for a
\* position beyond the healthy list.
THEOREM BalancingTypeTheorem == MCBalancingSpec => []BalancingTypeOK
<1> DEFINE Inv == SchedulerTypeOK /\ BalancerInv
<1>1. MCBalancingInit => Inv
  BY SchedulerTypeInit, BalancerInit DEF MCBalancingInit
<1>2. Inv /\ [MCBalancingNext]_<<part, vars, bvars>> => Inv'
  <2> SUFFICES ASSUME Inv, [MCBalancingNext]_<<part, vars, bvars>> PROVE Inv'
    OBVIOUS
  <2>1. [SchedulerNext]_vars /\ [BalancerNext]_bvars
    BY DEF MCBalancingNext
  <2>2. SchedulerTypeOK'
    BY <2>1, SchedulerTypeStep
  <2>3. BalancerInv'
    BY <2>1, BalancerStep
  <2>4. QED
    BY <2>2, <2>3
<1>3. Inv => BalancingTypeOK
  BY BalancerTyped DEF BalancingTypeOK
<1>4. QED
  BY <1>1, <1>2, <1>3, PTL DEF MCBalancingSpec
=============================================================================
