----------------------------- MODULE FunctionSums ----------------------------
(***************************************************************************)
(* Facts about the sum of the values of a function over a finite set, as   *)
(* FoldFunction computes it: by taking away one element of the domain      *)
(* after the other, in an order fixed by CHOOSE.  What a change of one     *)
(* value does to it, that it is linear and monotone, that two sums can be  *)
(* swapped, and that a sum of cardinalities counts.                        *)
(***************************************************************************)
EXTENDS Integers, FiniteSets, Functions, FiniteSetTheorems, WellFoundedInduction, TLAPS

Sum(f) == FoldFunction(+, 0, f)

\* What the fold computes: the sums over all subsets of the domain.
PartialSums(f, D) ==
  CHOOSE sum : sum = [s \in SUBSET D |->
    IF s = {} THEN 0 ELSE f[CHOOSE x \in s : TRUE] + sum[s \ {CHOOSE x \in s : TRUE}]]

LEMMA SumIsFold ==
  ASSUME NEW f PROVE Sum(f) = PartialSums(f, DOMAIN f)[DOMAIN f]
BY DEF Sum, FoldFunction, FoldFunctionOnSet, MapThenFoldSet, PartialSums

\* A set of naturals has a least one.
LEMMA Least ==
  ASSUME NEW A, A \subseteq Nat, A # {}
  PROVE  \E n \in A : \A m \in A : n <= m
<1>1. PICK n \in A : \A m \in A : ~ (<<m, n>> \in OpToRel(<, Nat))
  BY WFMin, NatLessThanWellFounded
<1>2. \A m \in A : ~ (m < n)
  BY <1>1 DEF OpToRel
<1>3. \A m \in A : m \in Nat /\ n \in Nat
  BY <1>1
<1> QED
  BY <1>2, <1>3

\* A finite set of integers has a greatest.
LEMMA Greatest ==
  ASSUME NEW S \in SUBSET Int, IsFiniteSet(S), S # {}
  PROVE  \E m \in S : \A y \in S : y <= m
<1> DEFINE Has(A) == \E m \in A : \A y \in A : y <= m
           Bad == {k \in Nat : \E A \in SUBSET S : A # {} /\ Cardinality(A) = k /\ ~Has(A)}
<1>1. ASSUME Bad # {} PROVE FALSE
  <2>1. PICK k \in Bad : \A j \in Bad : k <= j
    <3>1. Bad \subseteq Nat
      OBVIOUS
    <3> HIDE DEF Bad
    <3> QED
      BY <1>1, <3>1, Least
  <2>2. PICK A \in SUBSET S : A # {} /\ Cardinality(A) = k /\ ~Has(A)
    OBVIOUS
  <2>3. PICK x \in A : TRUE
    BY <2>2
  <2>4. A \ {x} \in SUBSET S /\ Cardinality(A \ {x}) = k - 1 /\ k - 1 \in Nat
    <3>1. IsFiniteSet(A)
      BY FS_Subset
    <3>2. Cardinality(A \ {x}) = Cardinality(A) - 1 /\ IsFiniteSet(A \ {x})
      BY <2>3, <3>1, FS_RemoveElement
    <3>3. Cardinality(A \ {x}) \in Nat
      BY <3>2, FS_CardinalityType
    <3> QED
      BY <2>2, <3>2, <3>3
  <2>5. Has(A \ {x})
    <3>1. CASE A \ {x} = {}
      <4>1. A = {x} /\ x \in Int
        BY <2>3, <3>1
      <4>2. Has(A)
        BY <4>1
      <4> QED
        BY <2>2, <4>2
    <3>2. CASE A \ {x} # {}
      <4> SUFFICES ASSUME ~Has(A \ {x}) PROVE FALSE
        OBVIOUS
      <4>1. k - 1 \in Bad
        BY <2>4, <3>2
      <4>2. k <= k - 1 /\ k \in Nat
        BY <2>1, <4>1
      <4> QED
        BY <4>2
    <3> QED
      BY <3>1, <3>2
  <2>6. PICK m \in A \ {x} : \A y \in A \ {x} : y <= m
    BY <2>5
  <2>7. m \in Int /\ x \in Int /\ m \in A
    BY <2>3, <2>6
  <2>8. CASE x <= m
    BY <2>2, <2>6, <2>7, <2>8
  <2>9. CASE m <= x
    <3>1. \A y \in A : y \in Int /\ y <= x
      BY <2>6, <2>7, <2>9
    <3> QED
      BY <2>2, <2>3, <3>1
  <2> QED
    BY <2>7, <2>8, <2>9
<1>2. Cardinality(S) \in Nat
  BY FS_CardinalityType
<1> QED
  BY <1>1, <1>2

\* The values of a function over a finite set are finitely many.
LEMMA ImageFinite ==
  ASSUME NEW S, IsFiniteSet(S), NEW f
  PROVE  IsFiniteSet({f[x] : x \in S})
<1> DEFINE T == {f[x] : x \in S}
           g == [x \in S |-> f[x]]
<1>1. g \in Surjection(S, T)
  BY DEF Surjection
<1> HIDE DEF g, T
<1>2. IsFiniteSet(T)
  BY <1>1, FS_Surjection
<1> QED
  BY <1>2 DEF T

\* And a least.
LEMMA Smallest ==
  ASSUME NEW S \in SUBSET Int, IsFiniteSet(S), S # {}
  PROVE  \E m \in S : \A y \in S : m <= y
<1>1. PICK neg : neg = [y \in S |-> -y]
  OBVIOUS
<1>2. PICK T : T = {neg[y] : y \in S}
  OBVIOUS
<1>3. IsFiniteSet(T) /\ T \in SUBSET Int /\ T # {}
  <2>1. IsFiniteSet(T)
    BY <1>2, ImageFinite
  <2>2. \A y \in S : neg[y] \in Int
    BY <1>1
  <2> QED
    BY <1>2, <2>1, <2>2
<1>4. PICK m \in T : \A y \in T : y <= m
  BY <1>3, Greatest
<1>5. PICK x \in S : m = -x
  BY <1>1, <1>2, <1>4
<1>6. \A y \in S : -y <= m /\ y \in Int
  BY <1>1, <1>2, <1>4
<1> QED
  BY <1>5, <1>6

First(s) == CHOOSE x \in s : TRUE

\* g has the partial sums over the subsets of at most n elements.
Upto(D, n) == {s \in SUBSET D : Cardinality(s) <= n}

SumsOver(f, D, g, n) ==
  g = [s \in Upto(D, n) |-> IF s = {} THEN 0 ELSE f[First(s)] + g[s \ {First(s)}]]

LEMMA SubsetFacts ==
  ASSUME NEW D, IsFiniteSet(D), NEW s \in SUBSET D
  PROVE  /\ IsFiniteSet(s) /\ Cardinality(s) \in Nat /\ Cardinality(s) <= Cardinality(D)
         /\ Cardinality(D) \in Nat /\ (Cardinality(s) = 0 <=> s = {})
         /\ \A x \in s : s \ {x} \in SUBSET D /\ Cardinality(s \ {x}) = Cardinality(s) - 1
<1>1. IsFiniteSet(s) /\ Cardinality(s) <= Cardinality(D)
  BY FS_Subset
<1>2. Cardinality(s) \in Nat /\ Cardinality(D) \in Nat /\ (Cardinality(s) = 0 <=> s = {})
  BY <1>1, FS_CardinalityType, FS_EmptySet
<1>3. \A x \in s : Cardinality(s \ {x}) = Cardinality(s) - 1
  BY <1>1, FS_RemoveElement
<1> QED
  BY <1>1, <1>2, <1>3

LEMMA FirstIn ==
  ASSUME NEW s, s # {} PROVE First(s) \in s
BY DEF First

LEMMA OneMore ==
  ASSUME NEW D, IsFiniteSet(D), NEW f, NEW g, NEW n \in Nat, SumsOver(f, D, g, n)
  PROVE  \E h : SumsOver(f, D, h, n + 1)
<1> DEFINE h == [s \in Upto(D, n + 1) |-> IF s = {} THEN 0 ELSE f[First(s)] + g[s \ {First(s)}]]
<1>1. \A s \in Upto(D, n) : g[s] = IF s = {} THEN 0 ELSE f[First(s)] + g[s \ {First(s)}]
  BY DEF SumsOver
<1>2. \A s \in Upto(D, n) : s \in Upto(D, n + 1)
  <2> SUFFICES ASSUME NEW s \in Upto(D, n) PROVE s \in Upto(D, n + 1)
    OBVIOUS
  <2>1. Cardinality(s) \in Nat /\ Cardinality(s) <= n
    BY SubsetFacts DEF Upto
  <2> QED
    BY <2>1 DEF Upto
<1>3. \A s \in Upto(D, n) : h[s] = g[s]
  BY <1>1, <1>2
<1>4. ASSUME NEW s \in Upto(D, n + 1), s # {}
      PROVE  s \ {First(s)} \in Upto(D, n)
  <2>1. s \in SUBSET D /\ Cardinality(s) \in Nat /\ Cardinality(s) <= n + 1
    BY SubsetFacts DEF Upto
  <2>2. s \ {First(s)} \in SUBSET D /\ Cardinality(s \ {First(s)}) = Cardinality(s) - 1
    BY <1>4, <2>1, SubsetFacts, FirstIn
  <2> QED
    BY <2>1, <2>2 DEF Upto
<1>5. \A s \in Upto(D, n + 1) : s # {} => h[s \ {First(s)}] = g[s \ {First(s)}]
  BY <1>3, <1>4
<1>6. h = [s \in Upto(D, n + 1) |-> IF s = {} THEN 0 ELSE f[First(s)] + h[s \ {First(s)}]]
  BY <1>5
<1>7. SumsOver(f, D, h, n + 1)
  BY <1>6 DEF SumsOver
<1> QED
  BY <1>7

LEMMA SumsExist ==
  ASSUME NEW D, IsFiniteSet(D), NEW f, NEW n \in Nat
  PROVE  \E g : SumsOver(f, D, g, n)
<1> DEFINE Bad == {m \in Nat : ~ \E g : SumsOver(f, D, g, m)}
<1> SUFFICES ASSUME Bad # {} PROVE FALSE
  OBVIOUS
<1>1. PICK m \in Bad : \A k \in Bad : m <= k
  <2>1. Bad \subseteq Nat
    OBVIOUS
  <2> HIDE DEF Bad
  <2> QED
    BY <2>1, Least
<1>2. m # 0
  <2> DEFINE g == [s \in {{}} |-> 0]
  <2>1. Upto(D, 0) = {{}}
    <3>1. \A s \in SUBSET D : Cardinality(s) <= 0 <=> s = {}
      BY SubsetFacts
    <3> QED
      BY <3>1 DEF Upto
  <2>2. SumsOver(f, D, g, 0)
    BY <2>1 DEF SumsOver
  <2> QED
    BY <2>2
<1>3. m - 1 \in Nat /\ m - 1 \notin Bad
  BY <1>1, <1>2
<1>4. PICK g : SumsOver(f, D, g, m - 1)
  BY <1>3
<1>5. \E h : SumsOver(f, D, h, m - 1 + 1)
  BY <1>3, <1>4, OneMore
<1>6. m - 1 + 1 = m
  BY <1>1
<1> QED
  BY <1>5, <1>6

\* The equation of the fold.
LEMMA PartialSum ==
  ASSUME NEW D, IsFiniteSet(D), NEW f
  PROVE  /\ PartialSums(f, D)[{}] = 0
         /\ \A s \in SUBSET D : s # {} =>
              PartialSums(f, D)[s] = f[First(s)] + PartialSums(f, D)[s \ {First(s)}]
<1>1. PICK g : SumsOver(f, D, g, Cardinality(D))
  BY SumsExist, FS_CardinalityType
<1>2. Upto(D, Cardinality(D)) = SUBSET D
  BY SubsetFacts DEF Upto
<1>3. g = [s \in SUBSET D |->
            IF s = {} THEN 0 ELSE f[CHOOSE x \in s : TRUE] + g[s \ {CHOOSE x \in s : TRUE}]]
  BY <1>1, <1>2 DEF SumsOver, First
<1>4. PartialSums(f, D) = [s \in SUBSET D |->
        IF s = {} THEN 0
        ELSE f[CHOOSE x \in s : TRUE] + PartialSums(f, D)[s \ {CHOOSE x \in s : TRUE}]]
  BY <1>3 DEF PartialSums
<1>5. PartialSums(f, D) = [s \in SUBSET D |->
        IF s = {} THEN 0 ELSE f[First(s)] + PartialSums(f, D)[s \ {First(s)}]]
  BY <1>4 DEF First
<1> HIDE DEF PartialSums
<1> QED
  BY <1>5

\* The order does not matter: a sum is any element and the rest.
LEMMA TakeAny ==
  ASSUME NEW D, IsFiniteSet(D), NEW f \in [D -> Int]
  PROVE  /\ \A s \in SUBSET D : PartialSums(f, D)[s] \in Int
         /\ \A s \in SUBSET D : \A x \in s :
              PartialSums(f, D)[s] = f[x] + PartialSums(f, D)[s \ {x}]
<1> DEFINE P(s) == PartialSums(f, D)[s]
           Right(s) == P(s) \in Int /\ \A x \in s : P(s) = f[x] + P(s \ {x})
           Bad == {n \in Nat : \E s \in SUBSET D : Cardinality(s) = n /\ ~Right(s)}
<1>0. /\ P({}) = 0
      /\ \A s \in SUBSET D : s # {} => P(s) = f[First(s)] + P(s \ {First(s)})
  BY PartialSum
<1> HIDE DEF P
<1>1. ASSUME Bad # {} PROVE FALSE
  <2>1. PICK n \in Bad : \A k \in Bad : n <= k
    <3>1. Bad \subseteq Nat
      OBVIOUS
    <3> HIDE DEF Bad
    <3> QED
      BY <1>1, <3>1, Least
  <2>2. PICK s \in SUBSET D : Cardinality(s) = n /\ ~Right(s)
    OBVIOUS
  <2>3. \A r \in SUBSET D : Cardinality(r) < n => Right(r)
    <3> SUFFICES ASSUME NEW r \in SUBSET D, Cardinality(r) < n, ~Right(r) PROVE FALSE
      OBVIOUS
    <3>1. Cardinality(r) \in Nat
      BY SubsetFacts
    <3>2. Cardinality(r) \in Bad
      BY <3>1
    <3> QED
      BY <2>1, <3>1, <3>2
  <2>4. CASE s = {}
    BY <1>0, <2>2, <2>4
  <2>5. CASE s # {}
    <3> DEFINE c == First(s)
    <3>1. c \in s /\ s \ {c} \in SUBSET D /\ P(s) = f[c] + P(s \ {c})
      BY <1>0, <2>5, FirstIn
    <3> HIDE DEF c
    <3>2. \A x \in s : s \ {x} \in SUBSET D /\ Cardinality(s \ {x}) < n
      BY <2>2, SubsetFacts
    <3>3. \A x \in s : Right(s \ {x})
      BY <2>3, <3>2
    <3>4. P(s) \in Int
      BY <3>1, <3>3
    <3>5. ASSUME NEW x \in s PROVE P(s) = f[x] + P(s \ {x})
      <4>1. CASE x = c
        BY <3>1, <4>1
      <4>2. CASE x # c
        <5>1. x \in s \ {c} /\ c \in s \ {x} /\ (s \ {c}) \ {x} = (s \ {x}) \ {c}
          BY <3>1, <4>2
        <5>2. P(s \ {c}) = f[x] + P((s \ {c}) \ {x})
          BY <3>1, <3>3, <5>1
        <5>3. P(s \ {x}) = f[c] + P((s \ {c}) \ {x})
          BY <3>3, <5>1
        <5>4. Cardinality((s \ {c}) \ {x}) < n /\ (s \ {c}) \ {x} \in SUBSET D
          <6>1. \A y \in s \ {c} : Cardinality((s \ {c}) \ {y}) = Cardinality(s \ {c}) - 1
                                  /\ Cardinality(s \ {c}) \in Nat
            BY <3>1, SubsetFacts
          <6> QED
            BY <2>1, <3>1, <3>2, <5>1, <6>1
        <5>5. P((s \ {c}) \ {x}) \in Int
          BY <2>3, <5>4
        <5>6. f[x] \in Int /\ f[c] \in Int
          BY <3>1
        <5> QED
          BY <3>1, <5>2, <5>3, <5>5, <5>6
      <4> QED
        BY <4>1, <4>2
    <3> QED
      BY <2>2, <3>4, <3>5
  <2> QED
    BY <2>4, <2>5
<1>2. ASSUME NEW s \in SUBSET D PROVE Right(s)
  <2>1. Cardinality(s) \in Nat
    BY SubsetFacts
  <2> QED
    BY <1>1, <2>1
<1> QED
  BY <1>2 DEF P

LEMMA TakeOne ==
  ASSUME NEW D, IsFiniteSet(D), NEW f \in [D -> Int], NEW x \in D
  PROVE  PartialSums(f, D)[D] = f[x] + PartialSums(f, D)[D \ {x}]
<1>1. \A s \in SUBSET D : \A y \in s :
        PartialSums(f, D)[s] = f[y] + PartialSums(f, D)[s \ {y}]
  BY TakeAny
<1>2. D \in SUBSET D
  OBVIOUS
<1> QED
  BY <1>1, <1>2

\* Functions that agree on a set have the same sum over it.
LEMMA SameSums ==
  ASSUME NEW D, IsFiniteSet(D), NEW E, IsFiniteSet(E), NEW f \in [D -> Int], NEW g \in [E -> Int],
         NEW r \in SUBSET D, r \in SUBSET E, \A x \in r : f[x] = g[x]
  PROVE  PartialSums(f, D)[r] = PartialSums(g, E)[r]
<1> DEFINE P(s) == PartialSums(f, D)[s]
           Q(s) == PartialSums(g, E)[s]
           Bad == {n \in Nat : \E s \in SUBSET r : Cardinality(s) = n /\ P(s) # Q(s)}
<1>0. /\ P({}) = 0 /\ Q({}) = 0
      /\ \A s \in SUBSET D : \A x \in s : P(s) = f[x] + P(s \ {x})
      /\ \A s \in SUBSET E : \A x \in s : Q(s) = g[x] + Q(s \ {x})
  <2>1. P({}) = 0 /\ Q({}) = 0
    BY PartialSum
  <2>2. \A s \in SUBSET D : \A x \in s : P(s) = f[x] + P(s \ {x})
    BY TakeAny
  <2>3. \A s \in SUBSET E : \A x \in s : Q(s) = g[x] + Q(s \ {x})
    BY TakeAny
  <2> QED
    BY <2>1, <2>2, <2>3
<1> HIDE DEF P, Q
<1>1. ASSUME Bad # {} PROVE FALSE
  <2>1. PICK n \in Bad : \A k \in Bad : n <= k
    <3>1. Bad \subseteq Nat
      OBVIOUS
    <3> HIDE DEF Bad
    <3> QED
      BY <1>1, <3>1, Least
  <2>2. PICK s \in SUBSET r : Cardinality(s) = n /\ P(s) # Q(s)
    OBVIOUS
  <2>3. PICK x \in s : TRUE
    BY <1>0, <2>2
  <2>4. s \in SUBSET D /\ s \in SUBSET E /\ s \ {x} \in SUBSET r /\ Cardinality(s \ {x}) = n - 1 /\ n \in Nat
    <3>1. s \in SUBSET D /\ s \in SUBSET E
      OBVIOUS
    <3> QED
      BY <2>2, <2>3, <3>1, SubsetFacts
  <2>5. n - 1 \in Nat
    <3>1. Cardinality(s) # 0
      BY <2>2, <2>3, <2>4, SubsetFacts
    <3> QED
      BY <2>2, <2>4, <3>1
  <2>6. P(s \ {x}) = Q(s \ {x})
    <3> SUFFICES ASSUME P(s \ {x}) # Q(s \ {x}) PROVE FALSE
      OBVIOUS
    <3>1. n - 1 \in Bad
      BY <2>4, <2>5
    <3> QED
      BY <2>1, <2>5, <3>1
  <2>7. P(s) = f[x] + P(s \ {x}) /\ Q(s) = g[x] + Q(s \ {x}) /\ f[x] = g[x]
    BY <1>0, <2>3, <2>4
  <2> QED
    BY <2>2, <2>6, <2>7
<1>2. Cardinality(r) \in Nat
  BY SubsetFacts
<1> QED
  BY <1>1, <1>2 DEF P, Q

------------------------------------------------------------------------------

\* The sum of integers is one of their number, none of naturals is negative.
THEOREM SumType ==
  ASSUME NEW D, IsFiniteSet(D), NEW f \in [D -> Int]
  PROVE  Sum(f) \in Int
<1>1. DOMAIN f = D /\ D \in SUBSET D
  OBVIOUS
<1>2. PartialSums(f, D)[D] \in Int
  BY <1>1, TakeAny
<1> QED
  BY <1>1, <1>2, SumIsFold

\* Nothing sums to nought.
THEOREM SumOfNone ==
  ASSUME NEW f, DOMAIN f = {} PROVE Sum(f) = 0
<1>1. IsFiniteSet({}) /\ {} \in SUBSET {}
  BY FS_EmptySet
<1>2. PartialSums(f, {})[{}] = 0
  BY <1>1, PartialSum
<1> QED
  BY <1>2, SumIsFold

\* A changed value changes the sum by as much.
THEOREM SumUpdate ==
  ASSUME NEW D, IsFiniteSet(D), NEW f \in [D -> Int], NEW g \in [D -> Int],
         NEW x \in D, \A y \in D : y # x => g[y] = f[y]
  PROVE  Sum(g) = Sum(f) - f[x] + g[x]
<1>1. \A y \in D : f[y] \in Int /\ g[y] \in Int
  OBVIOUS
<1>2. DOMAIN f = D /\ DOMAIN g = D /\ D \in SUBSET D /\ D \ {x} \in SUBSET D
  OBVIOUS
<1>3. PartialSums(f, D)[D \ {x}] = PartialSums(g, D)[D \ {x}]
  <2>1. \A y \in D \ {x} : f[y] = g[y]
    OBVIOUS
  <2> QED
    BY <1>1, <1>2, <2>1, SameSums
<1>4. PartialSums(f, D)[D] = f[x] + PartialSums(f, D)[D \ {x}]
  BY TakeOne
<1>5. PartialSums(f, D)[D \ {x}] \in Int
  BY <1>2, TakeAny
<1>6. PartialSums(g, D)[D] = g[x] + PartialSums(g, D)[D \ {x}]
  BY TakeOne
<1>7. Sum(f) = PartialSums(f, D)[D] /\ Sum(g) = PartialSums(g, D)[D]
  BY <1>2, SumIsFold
<1>8. f[x] \in Int /\ g[x] \in Int
  OBVIOUS
<1> QED
  BY <1>3, <1>4, <1>5, <1>6, <1>7, <1>8

\* A value more adds as much.
THEOREM SumGrows ==
  ASSUME NEW D, IsFiniteSet(D), NEW x, x \notin D, NEW f \in [D -> Int],
         NEW g \in [D \cup {x} -> Int], \A y \in D : g[y] = f[y]
  PROVE  Sum(g) = Sum(f) + g[x]
<1> DEFINE E == D \cup {x}
<1>1. IsFiniteSet(E) /\ D \in SUBSET E /\ E \in SUBSET E /\ D \in SUBSET D /\ E \ {x} = D /\ x \in E
  BY FS_AddElement
<1>2. DOMAIN f = D /\ DOMAIN g = E /\ g \in [E -> Int]
  OBVIOUS
<1> HIDE DEF E
<1>3. PartialSums(g, E)[E] = g[x] + PartialSums(g, E)[D]
  <2>1. PartialSums(g, E)[E] = g[x] + PartialSums(g, E)[E \ {x}]
    BY <1>1, <1>2, TakeOne
  <2> QED
    BY <1>1, <2>1
<1>4. PartialSums(f, D)[D] = PartialSums(g, E)[D]
  <2>1. \A y \in D : f[y] = g[y]
    OBVIOUS
  <2> QED
    BY <1>1, <1>2, <2>1, SameSums
<1>5. PartialSums(f, D)[D] \in Int /\ g[x] \in Int
  BY <1>1, <1>2, TakeAny
<1>6. Sum(f) = PartialSums(f, D)[D] /\ Sum(g) = PartialSums(g, E)[E]
  BY <1>2, SumIsFold
<1> QED
  BY <1>3, <1>4, <1>5, <1>6

OneTermMore(g, f, D, x) ==
  /\ x \notin D /\ f \in [D -> Int] /\ g \in [D \cup {x} -> Int]
  /\ \A y \in D : g[y] = f[y]

LEMMA SumOfOneMore ==
  ASSUME NEW D, IsFiniteSet(D), NEW x, NEW f, NEW g, OneTermMore(g, f, D, x)
  PROVE  Sum(g) = Sum(f) + g[x]
BY SumGrows DEF OneTermMore

OneTermForAnother(g, f, D, x, y) ==
  /\ x \in D /\ y \notin D /\ f \in [D -> Int] /\ g \in [(D \ {x}) \cup {y} -> Int]
  /\ \A z \in D \ {x} : g[z] = f[z]

\* A term that gives way to another changes the sum by the difference.
THEOREM SumExchange ==
  ASSUME NEW D, IsFiniteSet(D), NEW x, NEW y, NEW f, NEW g, OneTermForAnother(g, f, D, x, y)
  PROVE  Sum(g) = Sum(f) - f[x] + g[y]
<1> USE DEF OneTermForAnother
<1> DEFINE rest == D \ {x}
           h == [z \in rest |-> f[z]]
<1>1. IsFiniteSet(rest) /\ x \notin rest /\ y \notin rest /\ rest \cup {x} = D
  BY FS_RemoveElement
<1>2. h \in [rest -> Int] /\ f[x] \in Int /\ g[y] \in Int
  OBVIOUS
<1>3. (\A z \in rest : f[z] = h[z]) /\ (\A z \in rest : g[z] = h[z])
  OBVIOUS
<1> HIDE DEF rest, h
<1>4. f \in [rest \cup {x} -> Int] /\ g \in [rest \cup {y} -> Int]
  BY <1>1 DEF rest
<1>5. Sum(f) = Sum(h) + f[x]
  <2>1. OneTermMore(f, h, rest, x)
    BY <1>1, <1>2, <1>3, <1>4 DEF OneTermMore
  <2> QED
    BY <1>1, <2>1, SumOfOneMore
<1>6. Sum(g) = Sum(h) + g[y]
  <2>1. OneTermMore(g, h, rest, y)
    BY <1>1, <1>2, <1>3, <1>4 DEF OneTermMore
  <2> QED
    BY <1>1, <2>1, SumOfOneMore
<1>7. Sum(h) \in Int
  BY <1>1, <1>2, SumType
<1> QED
  BY <1>2, <1>5, <1>6, <1>7

LEMMA NatSums ==
  ASSUME NEW D, IsFiniteSet(D), NEW f \in [D -> Nat], NEW r \in SUBSET D
  PROVE  /\ PartialSums(f, D)[r] \in Nat
         /\ (\A x \in r : f[x] = 0) => PartialSums(f, D)[r] = 0
<1> DEFINE P(s) == PartialSums(f, D)[s]
           Right(s) == P(s) \in Nat /\ ((\A x \in s : f[x] = 0) => P(s) = 0)
           Bad == {n \in Nat : \E s \in SUBSET D : Cardinality(s) = n /\ ~Right(s)}
<1>0. P({}) = 0
  BY PartialSum
<1>1. ASSUME NEW s \in SUBSET D, NEW x \in s PROVE P(s) = f[x] + P(s \ {x})
  <2>1. f \in [D -> Int]
    OBVIOUS
  <2> QED
    BY <2>1, TakeAny
<1> HIDE DEF P
<1>2. ASSUME Bad # {} PROVE FALSE
  <2>1. PICK n \in Bad : \A k \in Bad : n <= k
    <3>1. Bad \subseteq Nat
      OBVIOUS
    <3> HIDE DEF Bad
    <3> QED
      BY <1>2, <3>1, Least
  <2>2. PICK s \in SUBSET D : Cardinality(s) = n /\ ~Right(s)
    OBVIOUS
  <2>3. PICK x \in s : TRUE
    BY <1>0, <2>2
  <2>4. s \ {x} \in SUBSET D /\ Cardinality(s \ {x}) = n - 1 /\ n - 1 \in Nat
    <3>1. s \ {x} \in SUBSET D /\ Cardinality(s \ {x}) = n - 1
      BY <2>2, <2>3, SubsetFacts
    <3>2. Cardinality(s \ {x}) \in Nat
      BY <3>1, SubsetFacts
    <3> QED
      BY <3>1, <3>2
  <2>5. Right(s \ {x})
    <3> SUFFICES ASSUME ~Right(s \ {x}) PROVE FALSE
      OBVIOUS
    <3>1. n - 1 \in Bad
      BY <2>4
    <3>2. n <= n - 1 /\ n \in Nat
      BY <2>1, <3>1
    <3> QED
      BY <3>2
  <2>6. P(s) = f[x] + P(s \ {x}) /\ f[x] \in Nat
    BY <1>1, <2>3
  <2> QED
    BY <2>2, <2>3, <2>5, <2>6
<1>3. Cardinality(r) \in Nat
  BY SubsetFacts
<1> QED
  BY <1>2, <1>3 DEF P

\* The sum of naturals is one, and zero if they all are.
THEOREM SumOfNats ==
  ASSUME NEW D, IsFiniteSet(D), NEW f \in [D -> Nat]
  PROVE  /\ Sum(f) \in Nat
         /\ (\A x \in D : f[x] = 0) => Sum(f) = 0
<1>1. DOMAIN f = D /\ D \in SUBSET D
  OBVIOUS
<1>2. Sum(f) = PartialSums(f, D)[D]
  BY <1>1, SumIsFold
<1> QED
  BY <1>1, <1>2, NatSums

\* Sums compare as their terms do, and change sign with them.
LEMMA CompareSums ==
  ASSUME NEW D, IsFiniteSet(D), NEW f \in [D -> Int], NEW g \in [D -> Int], NEW r \in SUBSET D
  PROVE  /\ (\A x \in r : f[x] <= g[x]) => PartialSums(f, D)[r] <= PartialSums(g, D)[r]
         /\ (\A x \in r : f[x] = -g[x]) => PartialSums(f, D)[r] = -PartialSums(g, D)[r]
<1> DEFINE P(s) == PartialSums(f, D)[s]
           Q(s) == PartialSums(g, D)[s]
           Right(s) == /\ (\A x \in s : f[x] <= g[x]) => P(s) <= Q(s)
                       /\ (\A x \in s : f[x] = -g[x]) => P(s) = -Q(s)
           Bad == {n \in Nat : \E s \in SUBSET D : Cardinality(s) = n /\ ~Right(s)}
<1>0. /\ P({}) = 0 /\ Q({}) = 0
      /\ \A s \in SUBSET D : P(s) \in Int /\ Q(s) \in Int
      /\ \A s \in SUBSET D : \A x \in s : P(s) = f[x] + P(s \ {x})
      /\ \A s \in SUBSET D : \A x \in s : Q(s) = g[x] + Q(s \ {x})
  <2>1. P({}) = 0 /\ Q({}) = 0
    BY PartialSum
  <2>2. \A s \in SUBSET D : P(s) \in Int /\ \A x \in s : P(s) = f[x] + P(s \ {x})
    BY TakeAny
  <2>3. \A s \in SUBSET D : Q(s) \in Int /\ \A x \in s : Q(s) = g[x] + Q(s \ {x})
    BY TakeAny
  <2> QED
    BY <2>1, <2>2, <2>3
<1> HIDE DEF P, Q
<1>1. ASSUME Bad # {} PROVE FALSE
  <2>1. PICK n \in Bad : \A k \in Bad : n <= k
    <3>1. Bad \subseteq Nat
      OBVIOUS
    <3> HIDE DEF Bad
    <3> QED
      BY <1>1, <3>1, Least
  <2>2. PICK s \in SUBSET D : Cardinality(s) = n /\ ~Right(s)
    OBVIOUS
  <2>3. PICK x \in s : TRUE
    <3>1. CASE s = {}
      BY <1>0, <2>2, <3>1
    <3> QED
      BY <3>1
  <2>4. s \ {x} \in SUBSET D /\ Cardinality(s \ {x}) = n - 1 /\ n - 1 \in Nat
    <3>1. s \ {x} \in SUBSET D /\ Cardinality(s \ {x}) = n - 1
      BY <2>2, <2>3, SubsetFacts
    <3>2. Cardinality(s \ {x}) \in Nat
      BY <3>1, SubsetFacts
    <3> QED
      BY <3>1, <3>2
  <2>5. Right(s \ {x})
    <3> SUFFICES ASSUME ~Right(s \ {x}) PROVE FALSE
      OBVIOUS
    <3>1. n - 1 \in Bad
      BY <2>4
    <3>2. n <= n - 1 /\ n \in Nat
      BY <2>1, <3>1
    <3> QED
      BY <3>2
  <2>6. /\ P(s) = f[x] + P(s \ {x}) /\ Q(s) = g[x] + Q(s \ {x})
        /\ f[x] \in Int /\ g[x] \in Int
        /\ P(s \ {x}) \in Int /\ Q(s \ {x}) \in Int
    BY <1>0, <2>3, <2>4
  <2>7. Right(s)
    <3>1. ASSUME \A y \in s : f[y] <= g[y] PROVE P(s) <= Q(s)
      BY <2>3, <2>5, <2>6, <3>1
    <3>2. ASSUME \A y \in s : f[y] = -g[y] PROVE P(s) = -Q(s)
      BY <2>3, <2>5, <2>6, <3>2
    <3> QED
      BY <3>1, <3>2
  <2> QED
    BY <2>2, <2>7
<1>2. Cardinality(r) \in Nat
  BY SubsetFacts
<1>3. Right(r)
  BY <1>1, <1>2
<1> QED
  BY <1>3 DEF P, Q

\* A sum of terms within those of another is within it.
THEOREM SumBounds ==
  ASSUME NEW D, IsFiniteSet(D), NEW f \in [D -> Int], NEW g \in [D -> Int],
         \A x \in D : -g[x] <= f[x] /\ f[x] <= g[x]
  PROVE  /\ -Sum(g) <= Sum(f) /\ Sum(f) <= Sum(g)
         /\ (\A x \in D : f[x] = -g[x]) => Sum(f) = -Sum(g)
<1> DEFINE h == [x \in D |-> -g[x]]
<1>1. h \in [D -> Int] /\ D \in SUBSET D /\ DOMAIN f = D /\ DOMAIN g = D
      /\ \A x \in D : h[x] = -g[x] /\ h[x] <= f[x] /\ f[x] <= g[x]
  OBVIOUS
<1> HIDE DEF h
<1>2. Sum(f) = PartialSums(f, D)[D] /\ Sum(g) = PartialSums(g, D)[D]
  BY <1>1, SumIsFold
<1>3. PartialSums(h, D)[D] = -PartialSums(g, D)[D]
  BY <1>1, CompareSums
<1>4. PartialSums(h, D)[D] <= PartialSums(f, D)[D]
  BY <1>1, CompareSums
<1>5. PartialSums(f, D)[D] <= PartialSums(g, D)[D]
  BY <1>1, CompareSums
<1>6. (\A x \in D : f[x] = -g[x]) => PartialSums(f, D)[D] = -PartialSums(g, D)[D]
  BY <1>1, CompareSums
<1> QED
  BY <1>2, <1>3, <1>4, <1>5, <1>6

LEMMA LeastSums ==
  ASSUME NEW D, IsFiniteSet(D), NEW f \in [D -> Int], NEW m \in Int, \A x \in D : m <= f[x],
         NEW r \in SUBSET D
  PROVE  Cardinality(r) * m <= PartialSums(f, D)[r]
<1> DEFINE P(s) == PartialSums(f, D)[s]
           Right(s) == Cardinality(s) * m <= P(s)
           Bad == {n \in Nat : \E s \in SUBSET D : Cardinality(s) = n /\ ~Right(s)}
<1>0. /\ P({}) = 0
      /\ \A s \in SUBSET D : P(s) \in Int
      /\ \A s \in SUBSET D : \A x \in s : P(s) = f[x] + P(s \ {x})
  BY PartialSum, TakeAny
<1> HIDE DEF P
<1>1. ASSUME Bad # {} PROVE FALSE
  <2>1. PICK n \in Bad : \A j \in Bad : n <= j
    <3>1. Bad \subseteq Nat
      OBVIOUS
    <3> HIDE DEF Bad
    <3> QED
      BY <1>1, <3>1, Least
  <2>2. PICK s \in SUBSET D : Cardinality(s) = n /\ ~Right(s)
    BY <2>1
  <2>3. n \in Nat
    BY <2>1
  <2>4. s # {}
    <3>1. Cardinality({}) = 0 /\ 0 * m = 0
      BY FS_EmptySet
    <3>2. Right({})
      BY <1>0, <3>1
    <3> QED
      BY <2>2, <3>2
  <2>5. PICK x \in s : TRUE
    BY <2>4
  <2>6. /\ s \ {x} \in SUBSET D /\ Cardinality(s \ {x}) = n - 1 /\ n # 0
        /\ f[x] \in Int /\ m <= f[x]
    BY <2>2, <2>4, <2>5, SubsetFacts
  <2>7. Right(s \ {x})
    <3>1. n - 1 \in Nat /\ ~(n <= n - 1)
      BY <2>3, <2>6
    <3>2. n - 1 \notin Bad
      BY <2>1, <3>1
    <3> QED
      BY <2>6, <3>1, <3>2
  <2>8. n * m = (n - 1) * m + m /\ n * m \in Int /\ (n - 1) * m \in Int
    BY <2>3
  <2> QED
    BY <1>0, <2>2, <2>6, <2>7, <2>8
<1>2. Cardinality(r) \in Nat
  BY SubsetFacts
<1> QED
  BY <1>1, <1>2 DEF P

\* A sum of terms none of which is below m is no less than m times their number.
THEOREM SumAtLeast ==
  ASSUME NEW D, IsFiniteSet(D), NEW f \in [D -> Int], NEW m \in Int, \A x \in D : m <= f[x]
  PROVE  Cardinality(D) * m <= Sum(f)
<1>1. DOMAIN f = D /\ D \in SUBSET D
  OBVIOUS
<1> QED
  BY <1>1, LeastSums, SumIsFold

\* A term of naturals is no more than their sum.
THEOREM TermWithinSum ==
  ASSUME NEW D, IsFiniteSet(D), NEW f \in [D -> Nat], NEW x \in D
  PROVE  f[x] <= Sum(f)
<1>1. DOMAIN f = D /\ D \in SUBSET D /\ D \ {x} \in SUBSET D /\ f \in [D -> Int] /\ f[x] \in Nat
  OBVIOUS
<1>2. PartialSums(f, D)[D] = f[x] + PartialSums(f, D)[D \ {x}]
  BY <1>1, TakeOne
<1>3. PartialSums(f, D)[D \ {x}] \in Nat
  BY <1>1, NatSums
<1> QED
  BY <1>1, <1>2, <1>3, SumIsFold

\* h is f and c times g.
Combines(h, f, c, g, D) ==
  /\ f \in [D -> Int] /\ g \in [D -> Int] /\ h \in [D -> Int]
  /\ \A x \in D : h[x] = f[x] + c * g[x]

\* Sums are linear.
LEMMA LinearSums ==
  ASSUME NEW D, IsFiniteSet(D), NEW f, NEW g, NEW h, NEW c \in Int, Combines(h, f, c, g, D)
  PROVE  \A r \in SUBSET D :
           PartialSums(h, D)[r] = PartialSums(f, D)[r] + c * PartialSums(g, D)[r]
<1> USE DEF Combines
<1> DEFINE P(s) == PartialSums(f, D)[s]
           Q(s) == PartialSums(g, D)[s]
           R(s) == PartialSums(h, D)[s]
           Right(s) == R(s) = P(s) + c * Q(s)
           Bad == {n \in Nat : \E s \in SUBSET D : Cardinality(s) = n /\ ~Right(s)}
<1>0. /\ P({}) = 0 /\ Q({}) = 0 /\ R({}) = 0
      /\ \A s \in SUBSET D : P(s) \in Int /\ Q(s) \in Int
      /\ \A s \in SUBSET D : \A x \in s : P(s) = f[x] + P(s \ {x})
      /\ \A s \in SUBSET D : \A x \in s : Q(s) = g[x] + Q(s \ {x})
      /\ \A s \in SUBSET D : \A x \in s : R(s) = h[x] + R(s \ {x})
  <2>1. P({}) = 0 /\ Q({}) = 0 /\ R({}) = 0
    BY PartialSum
  <2>2. /\ \A s \in SUBSET D : P(s) \in Int
        /\ \A s \in SUBSET D : \A x \in s : P(s) = f[x] + P(s \ {x})
    BY TakeAny
  <2>3. /\ \A s \in SUBSET D : Q(s) \in Int
        /\ \A s \in SUBSET D : \A x \in s : Q(s) = g[x] + Q(s \ {x})
    BY TakeAny
  <2>4. \A s \in SUBSET D : \A x \in s : R(s) = h[x] + R(s \ {x})
    BY TakeAny
  <2> QED
    BY <2>1, <2>2, <2>3, <2>4
<1> HIDE DEF P, Q, R
<1>1. ASSUME Bad # {} PROVE FALSE
  <2>1. PICK n \in Bad : \A k \in Bad : n <= k
    <3>1. Bad \subseteq Nat
      OBVIOUS
    <3> HIDE DEF Bad
    <3> QED
      BY <1>1, <3>1, Least
  <2>2. PICK s \in SUBSET D : Cardinality(s) = n /\ ~Right(s)
    OBVIOUS
  <2>3. c * 0 = 0
    OBVIOUS
  <2>4. PICK x \in s : TRUE
    <3>1. CASE s = {}
      BY <1>0, <2>2, <2>3, <3>1
    <3> QED
      BY <3>1
  <2>5. s \ {x} \in SUBSET D /\ Cardinality(s \ {x}) = n - 1 /\ n \in Nat /\ n - 1 \in Nat
    <3>1. /\ s \ {x} \in SUBSET D /\ Cardinality(s \ {x}) = Cardinality(s) - 1
          /\ Cardinality(s) \in Nat /\ Cardinality(s) # 0
      BY <2>4, SubsetFacts
    <3> QED
      BY <2>2, <3>1
  <2>6. Right(s \ {x})
    <3> SUFFICES ASSUME ~Right(s \ {x}) PROVE FALSE
      OBVIOUS
    <3>1. n - 1 \in Bad
      BY <2>5
    <3> QED
      BY <2>1, <2>5, <3>1
  <2>7. /\ P(s) = f[x] + P(s \ {x}) /\ Q(s) = g[x] + Q(s \ {x}) /\ R(s) = h[x] + R(s \ {x})
        /\ h[x] = f[x] + c * g[x] /\ R(s \ {x}) = P(s \ {x}) + c * Q(s \ {x})
    BY <1>0, <2>4, <2>6
  <2>8. /\ f[x] \in Int /\ g[x] \in Int /\ P(s \ {x}) \in Int /\ Q(s \ {x}) \in Int
    BY <1>0, <2>4, <2>5
  <2>9. \A i, j, k, l \in Int : (i + c * j) + (k + c * l) = (i + k) + c * (j + l)
    OBVIOUS
  <2> QED
    BY <2>2, <2>7, <2>8, <2>9
<1>2. \A r \in SUBSET D : Cardinality(r) \in Nat
  BY SubsetFacts
<1>3. \A r \in SUBSET D : Right(r)
  BY <1>1, <1>2
<1> QED
  BY <1>3 DEF P, Q, R

THEOREM SumsAddUp ==
  ASSUME NEW D, IsFiniteSet(D), NEW f, NEW g, NEW h, NEW c \in Int, Combines(h, f, c, g, D)
  PROVE  Sum(h) = Sum(f) + c * Sum(g)
<1>1. DOMAIN f = D /\ DOMAIN g = D /\ DOMAIN h = D /\ D \in SUBSET D
  BY DEF Combines
<1>2. PartialSums(h, D)[D] = PartialSums(f, D)[D] + c * PartialSums(g, D)[D]
  BY <1>1, LinearSums
<1> QED
  BY <1>1, <1>2, SumIsFold

\* g is f where it is not nought.
LeavesOutNoughts(g, f, E, D) ==
  /\ E \in SUBSET D /\ f \in [D -> Int] /\ g \in [E -> Int]
  /\ \A x \in E : g[x] = f[x]
  /\ \A x \in D \ E : f[x] = 0

\* Terms that are nought can be left out.
THEOREM SumWithoutNoughts ==
  ASSUME NEW D, IsFiniteSet(D), NEW E, NEW f, NEW g, LeavesOutNoughts(g, f, E, D)
  PROVE  Sum(g) = Sum(f)
<1> USE DEF LeavesOutNoughts
<1> DEFINE P(s) == PartialSums(f, D)[s]
           Right(s) == E \subseteq s => P(s) = P(E)
           Bad == {n \in Nat : \E s \in SUBSET D : Cardinality(s) = n /\ ~Right(s)}
<1>0. \A s \in SUBSET D : P(s) \in Int /\ \A x \in s : P(s) = f[x] + P(s \ {x})
  BY TakeAny
<1> HIDE DEF P
<1>1. ASSUME Bad # {} PROVE FALSE
  <2>1. PICK n \in Bad : \A k \in Bad : n <= k
    <3>1. Bad \subseteq Nat
      OBVIOUS
    <3> HIDE DEF Bad
    <3> QED
      BY <1>1, <3>1, Least
  <2>2. PICK s \in SUBSET D : Cardinality(s) = n /\ ~Right(s)
    OBVIOUS
  <2>3. PICK x \in s : x \notin E
    BY <2>2
  <2>4. s \ {x} \in SUBSET D /\ Cardinality(s \ {x}) = n - 1 /\ n \in Nat /\ n - 1 \in Nat
    <3>1. /\ s \ {x} \in SUBSET D /\ Cardinality(s \ {x}) = Cardinality(s) - 1
          /\ Cardinality(s) \in Nat /\ Cardinality(s) # 0
      BY <2>3, SubsetFacts
    <3> QED
      BY <2>2, <3>1
  <2>5. Right(s \ {x})
    <3> SUFFICES ASSUME ~Right(s \ {x}) PROVE FALSE
      OBVIOUS
    <3>1. n - 1 \in Bad
      BY <2>4
    <3> QED
      BY <2>1, <2>4, <3>1
  <2>6. P(s) = P(s \ {x})
    <3>1. P(s) = 0 + P(s \ {x}) /\ P(s \ {x}) \in Int
      BY <1>0, <2>3, <2>4
    <3> QED
      BY <3>1
  <2> QED
    BY <2>2, <2>3, <2>5, <2>6
<1>2. Cardinality(D) \in Nat /\ D \in SUBSET D
  BY FS_CardinalityType
<1>3. P(D) = P(E)
  BY <1>1, <1>2
<1>4. IsFiniteSet(E) /\ E \in SUBSET E /\ DOMAIN f = D /\ DOMAIN g = E
  BY FS_Subset
<1>5. PartialSums(g, E)[E] = PartialSums(f, D)[E]
  BY <1>4, SameSums
<1> QED
  BY <1>3, <1>4, <1>5, SumIsFold DEF P

\* The sums of the rows and the sums of the columns add up to the same.
RowSums(F, A)       == [a \in A |-> Sum(F[a])]
ColumnSums(F, A, B) == [b \in B |-> Sum([a \in A |-> F[a][b]])]

LEMMA OneRowMore ==
  ASSUME NEW A, IsFiniteSet(A), NEW B, IsFiniteSet(B), NEW z, z \notin A,
         NEW F, \A a \in A \cup {z} : F[a] \in [B -> Int],
         Sum(RowSums(F, A)) = Sum(ColumnSums(F, A, B))
  PROVE  Sum(RowSums(F, A \cup {z})) = Sum(ColumnSums(F, A \cup {z}, B))
<1>1. \A a \in A \cup {z} : Sum(F[a]) \in Int
  BY SumType
<1> PICK f : f = RowSums(F, A)
  OBVIOUS
<1> PICK g : g = RowSums(F, A \cup {z})
  OBVIOUS
<1>2. f \in [A -> Int] /\ g \in [A \cup {z} -> Int] /\ g[z] = Sum(F[z]) /\ \A a \in A : g[a] = f[a]
  BY <1>1 DEF RowSums
<1>3. Sum(g) = Sum(f) + Sum(F[z])
  <2>1. OneTermMore(g, f, A, z)
    BY <1>2 DEF OneTermMore
  <2> QED
    BY <1>2, <2>1, SumOfOneMore
<1>4. ASSUME NEW b \in B
      PROVE  /\ Sum([a \in A |-> F[a][b]]) \in Int
             /\ Sum([a \in A \cup {z} |-> F[a][b]]) = Sum([a \in A |-> F[a][b]]) + F[z][b]
             /\ F[z][b] \in Int
  <2> PICK h : h = [a \in A |-> F[a][b]]
    OBVIOUS
  <2> PICK k : k = [a \in A \cup {z} |-> F[a][b]]
    OBVIOUS
  <2>1. \A a \in A \cup {z} : F[a][b] \in Int
    OBVIOUS
  <2>2. h \in [A -> Int] /\ k \in [A \cup {z} -> Int] /\ k[z] = F[z][b] /\ \A a \in A : k[a] = h[a]
    BY <2>1
  <2>3. OneTermMore(k, h, A, z)
    BY <2>2 DEF OneTermMore
  <2>4. Sum(k) = Sum(h) + k[z]
    BY <2>3, SumOfOneMore
  <2>5. Sum(h) \in Int
    BY <2>2, SumType
  <2> QED
    BY <2>1, <2>2, <2>4, <2>5
<1> PICK u : u = ColumnSums(F, A, B)
  OBVIOUS
<1> PICK v : v = ColumnSums(F, A \cup {z}, B)
  OBVIOUS
<1>5. Combines(v, u, 1, F[z], B)
  <2>1. u = [b \in B |-> u[b]] /\ v = [b \in B |-> v[b]]
    BY DEF ColumnSums
  <2>2. \A b \in B : u[b] \in Int /\ v[b] = u[b] + F[z][b] /\ F[z][b] \in Int
    BY <1>4 DEF ColumnSums
  <2>3. \A i, j \in Int : i + j = i + 1 * j /\ i + j \in Int
    OBVIOUS
  <2>4. \A b \in B : v[b] = u[b] + 1 * F[z][b] /\ v[b] \in Int
    BY <2>2, <2>3
  <2>5. u \in [B -> Int] /\ v \in [B -> Int]
    BY <2>1, <2>2, <2>4
  <2>6. F[z] \in [B -> Int]
    OBVIOUS
  <2> QED
    BY <2>4, <2>5, <2>6 DEF Combines
<1>6. Sum(v) = Sum(u) + 1 * Sum(F[z])
  BY <1>5, SumsAddUp
<1>7. Sum(u) \in Int /\ Sum(F[z]) \in Int
  BY <1>1, <1>5, SumType DEF Combines
<1> QED
  BY <1>3, <1>6, <1>7

THEOREM SumsSwap ==
  ASSUME NEW A, IsFiniteSet(A), NEW B, IsFiniteSet(B), NEW F, \A a \in A : F[a] \in [B -> Int]
  PROVE  Sum(RowSums(F, A)) = Sum(ColumnSums(F, A, B))
<1> DEFINE Right(s) == Sum(RowSums(F, s)) = Sum(ColumnSums(F, s, B))
           Bad == {n \in Nat : \E s \in SUBSET A : Cardinality(s) = n /\ ~Right(s)}
<1>0. Right({})
  <2>1. Sum(RowSums(F, {})) = 0
    BY SumOfNone DEF RowSums
  <2>2. \A b \in B : Sum([a \in {} |-> F[a][b]]) = 0
    BY SumOfNone
  <2>3. ColumnSums(F, {}, B) \in [B -> Nat] /\ \A b \in B : ColumnSums(F, {}, B)[b] = 0
    BY <2>2 DEF ColumnSums
  <2>4. Sum(ColumnSums(F, {}, B)) = 0
    BY <2>3, SumOfNats
  <2> QED
    BY <2>1, <2>4
<1>1. ASSUME Bad # {} PROVE FALSE
  <2>1. PICK n \in Bad : \A k \in Bad : n <= k
    <3>1. Bad \subseteq Nat
      OBVIOUS
    <3> HIDE DEF Bad
    <3> QED
      BY <1>1, <3>1, Least
  <2>2. PICK s \in SUBSET A : Cardinality(s) = n /\ ~Right(s)
    OBVIOUS
  <2>3. PICK x \in s : TRUE
    BY <1>0, <2>2
  <2>4. /\ s \ {x} \in SUBSET A /\ Cardinality(s \ {x}) = n - 1 /\ n \in Nat /\ n - 1 \in Nat
        /\ IsFiniteSet(s \ {x}) /\ x \notin s \ {x} /\ (s \ {x}) \cup {x} = s
    <3>1. /\ s \ {x} \in SUBSET A /\ Cardinality(s \ {x}) = Cardinality(s) - 1
          /\ Cardinality(s) \in Nat /\ Cardinality(s) # 0
      BY <2>3, SubsetFacts
    <3>2. IsFiniteSet(s \ {x})
      BY <3>1, FS_Subset
    <3> QED
      BY <2>2, <2>3, <3>1, <3>2
  <2>5. Right(s \ {x})
    <3> SUFFICES ASSUME ~Right(s \ {x}) PROVE FALSE
      OBVIOUS
    <3>1. n - 1 \in Bad
      BY <2>4
    <3> QED
      BY <2>1, <2>4, <3>1
  <2> PICK t : t = s \ {x}
    OBVIOUS
  <2>6. IsFiniteSet(t) /\ x \notin t /\ t \cup {x} = s /\ \A a \in t \cup {x} : F[a] \in [B -> Int]
    BY <2>3, <2>4
  <2>7. Sum(RowSums(F, t)) = Sum(ColumnSums(F, t, B))
    BY <2>5
  <2>8. Sum(RowSums(F, t \cup {x})) = Sum(ColumnSums(F, t \cup {x}, B))
    BY <2>6, <2>7, OneRowMore
  <2> QED
    BY <2>2, <2>6, <2>8
<1>2. Cardinality(A) \in Nat /\ A \in SUBSET A
  BY FS_CardinalityType
<1> QED
  BY <1>1, <1>2

\* Finite sets that have nothing in common are counted one after the other.
Apart(F, D) ==
  /\ \A x \in D : IsFiniteSet(F[x])
  /\ \A x, y \in D : x # y => F[x] \cap F[y] = {}

SizesOf(F, D) == [x \in D |-> Cardinality(F[x])]
AllOf(F, D) == UNION {F[x] : x \in D}

LEMMA OneSetMore ==
  ASSUME NEW D, IsFiniteSet(D), NEW z, z \notin D, NEW F, Apart(F, D \cup {z}),
         IsFiniteSet(AllOf(F, D)), Cardinality(AllOf(F, D)) = Sum(SizesOf(F, D))
  PROVE  /\ IsFiniteSet(AllOf(F, D \cup {z}))
         /\ Cardinality(AllOf(F, D \cup {z})) = Sum(SizesOf(F, D \cup {z}))
<1> PICK A : A = AllOf(F, D)
  OBVIOUS
<1> PICK B : B = F[z]
  OBVIOUS
<1>1. AllOf(F, D \cup {z}) = A \cup B
  BY DEF AllOf
<1>2. A \cap B = {}
  BY DEF AllOf, Apart
<1>3. IsFiniteSet(A) /\ IsFiniteSet(B)
  BY DEF Apart
<1>4. IsFiniteSet(A \cup B) /\ Cardinality(A \cup B) = Cardinality(A) + Cardinality(B) - Cardinality({})
  BY <1>2, <1>3, FS_Union
<1>5. Cardinality({}) = 0 /\ Cardinality(A) \in Nat /\ Cardinality(B) \in Nat
  BY <1>3, FS_EmptySet, FS_CardinalityType
<1>6. Cardinality(A \cup B) = Cardinality(A) + Cardinality(B)
  BY <1>4, <1>5
<1>7. \A x \in D \cup {z} : Cardinality(F[x]) \in Int
  BY FS_CardinalityType DEF Apart
<1>8. OneTermMore(SizesOf(F, D \cup {z}), SizesOf(F, D), D, z)
  BY <1>7 DEF OneTermMore, SizesOf
<1>9. Sum(SizesOf(F, D \cup {z})) = Sum(SizesOf(F, D)) + SizesOf(F, D \cup {z})[z]
  BY <1>8, SumOfOneMore
<1>10. SizesOf(F, D \cup {z})[z] = Cardinality(B)
  BY DEF SizesOf
<1> QED
  BY <1>1, <1>4, <1>6, <1>9, <1>10

THEOREM SumCountsAll ==
  ASSUME NEW D, IsFiniteSet(D), NEW F, Apart(F, D)
  PROVE  IsFiniteSet(AllOf(F, D)) /\ Cardinality(AllOf(F, D)) = Sum(SizesOf(F, D))
<1> DEFINE Right(s) == IsFiniteSet(AllOf(F, s)) /\ Cardinality(AllOf(F, s)) = Sum(SizesOf(F, s))
           Bad == {n \in Nat : \E s \in SUBSET D : Cardinality(s) = n /\ ~Right(s)}
<1>0. Right({})
  <2>1. AllOf(F, {}) = {}
    BY DEF AllOf
  <2>2. Sum(SizesOf(F, {})) = 0
    BY SumOfNone DEF SizesOf
  <2> QED
    BY <2>1, <2>2, FS_EmptySet
<1>1. ASSUME Bad # {} PROVE FALSE
  <2>1. PICK n \in Bad : \A k \in Bad : n <= k
    <3>1. Bad \subseteq Nat
      OBVIOUS
    <3> HIDE DEF Bad
    <3> QED
      BY <1>1, <3>1, Least
  <2>2. PICK s \in SUBSET D : Cardinality(s) = n /\ ~Right(s)
    OBVIOUS
  <2>3. PICK x \in s : TRUE
    BY <1>0, <2>2
  <2>4. /\ s \ {x} \in SUBSET D /\ Cardinality(s \ {x}) = n - 1 /\ n \in Nat /\ n - 1 \in Nat
        /\ IsFiniteSet(s \ {x}) /\ x \notin s \ {x} /\ (s \ {x}) \cup {x} = s
    <3>1. /\ s \ {x} \in SUBSET D /\ Cardinality(s \ {x}) = Cardinality(s) - 1
          /\ Cardinality(s) \in Nat /\ Cardinality(s) # 0
      BY <2>3, SubsetFacts
    <3>2. IsFiniteSet(s \ {x})
      BY <3>1, FS_Subset
    <3> QED
      BY <2>2, <2>3, <3>1, <3>2
  <2>5. Right(s \ {x})
    <3> SUFFICES ASSUME ~Right(s \ {x}) PROVE FALSE
      OBVIOUS
    <3>1. n - 1 \in Bad
      BY <2>4
    <3> QED
      BY <2>1, <2>4, <3>1
  <2> PICK t : t = s \ {x}
    OBVIOUS
  <2>6. IsFiniteSet(t) /\ x \notin t /\ t \cup {x} = s /\ Apart(F, t \cup {x})
    BY <2>3, <2>4 DEF Apart
  <2>7. Right(t)
    BY <2>5
  <2>8. Right(t \cup {x})
    BY <2>6, <2>7, OneSetMore
  <2> QED
    BY <2>2, <2>6, <2>8
<1>2. Cardinality(D) \in Nat /\ D \in SUBSET D
  BY FS_CardinalityType
<1> QED
  BY <1>1, <1>2

\* Whole numbers divided without remainder.
LEMMA DivideExactly ==
  ASSUME NEW a \in Int, NEW b \in Nat, b > 0
  PROVE  /\ (a * b) \div b = a /\ (b * a) \div b = a /\ a \div b \in Int
         /\ a % b = 0 => a = b * (a \div b)
<1>1. a = b * (a \div b) + (a % b)
  OBVIOUS
<1>2. (a * b) \div b = a
  OBVIOUS
<1>3. a * b = b * a /\ a \div b \in Int
  OBVIOUS
<1>4. a % b = 0 => a = b * (a \div b)
  BY <1>1, <1>3
<1> QED
  BY <1>2, <1>3, <1>4
==============================================================================
