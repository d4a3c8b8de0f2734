---------------------------- MODULE DataInduction ----------------------------
(***************************************************************************)
(* Induction over data, as facts about sets: what holds of 0 and of n + 1  *)
(* whenever it holds of n is the set it holds of, so no operator has to be *)
(* instantiated.  With it, what the pure parts of the system rest on: the  *)
(* extremes of a set of numbers, and that a finite set can be put in order.*)
(***************************************************************************)
EXTENDS Integers, FiniteSetsExt, FiniteSetTheorems, TLAPS

LEMMA NatLess == OpToRel(<, Nat) = {p \in Nat \X Nat : p[1] < p[2]}
  BY DEF OpToRel

\* Every non-empty set of naturals has a least element.
LEMMA LeastNatural ==
  ASSUME NEW T \in SUBSET Nat, T # {}
  PROVE  \E x \in T : \A y \in T : x <= y
<1> DEFINE R == {p \in Nat \X Nat : p[1] < p[2]}
<1>1. IsWellFoundedOn(R, Nat)
  BY NatLess, NatLessThanWellFounded
<1> HIDE DEF R
<1>2. PICK x \in T : \A y \in T : <<y, x>> \notin R
  BY <1>1, WFMin
<1>3. ASSUME NEW y \in T
      PROVE  x <= y
  <2>1. x \in Nat /\ y \in Nat
    OBVIOUS
  <2>2. y < x => <<y, x>> \in R
    BY <2>1 DEF R
  <2>3. QED
    BY <1>2, <2>1, <2>2
<1>4. QED
  BY <1>3

\* Induction: a set that holds 0 and the successors of its members.
LEMMA SetInduction ==
  ASSUME NEW S, 0 \in S, \A n \in Nat : n \in S => n + 1 \in S
  PROVE  Nat \subseteq S
<1> DEFINE T == Nat \ S
<1>1. CASE T # {}
  <2>1. PICK x \in T : \A y \in T : x <= y
    BY <1>1, LeastNatural
  <2>2. x \in Nat /\ x # 0 /\ x - 1 \in Nat
    BY <2>1
  <2>3. x - 1 \in T
    BY <2>1, <2>2
  <2>4. QED
    BY <2>1, <2>2, <2>3
<1>2. QED
  BY <1>1

LEMMA MinOfNaturals ==
  ASSUME NEW T \in SUBSET Nat, T # {}
  PROVE  Min(T) \in T /\ \A y \in T : Min(T) <= y
  BY LeastNatural DEF Min

\* A set of numbers up to b that is not empty has a greatest one: the one
\* that is the least far from b.
LEMMA MaxOfBounded ==
  ASSUME NEW b \in Nat, NEW S, S \subseteq 0 .. b, S # {}
  PROVE  Max(S) \in S /\ \A p \in S : p <= Max(S)
<1> DEFINE T == {k \in 0 .. b : b - k \in S}
<1>1. \A p \in S : p \in 0 .. b /\ b - p \in 0 .. b /\ b - (b - p) = p
  OBVIOUS
<1>2. T \in SUBSET Nat /\ \A p \in S : b - p \in T
  BY <1>1
<1>3. T # {}
  BY <1>2
<1>4. \A k \in T : k \in 0 .. b /\ b - k \in S
  OBVIOUS
<1> HIDE DEF T
<1>5. PICK k \in T : \A j \in T : k <= j
  BY <1>2, <1>3, LeastNatural
<1>6. b - k \in S
  BY <1>4
<1>7. ASSUME NEW p \in S
      PROVE  b - k >= p
  <2>1. p \in 0 .. b /\ k \in 0 .. b /\ k <= b - p
    BY <1>1, <1>2, <1>4, <1>5
  <2>2. QED
    BY <2>1
<1>8. \A x, y \in S : x >= y <=> y <= x
  BY <1>1
<1>9. QED
  BY <1>6, <1>7, <1>8 DEF Max

\* The smaller and the greater of two numbers.
LEMMA MinOfTwo ==
  ASSUME NEW a \in Int, NEW b \in Int
  PROVE  Min({a, b}) = IF a <= b THEN a ELSE b
<1>1. CASE a <= b
  BY <1>1 DEF Min
<1>2. CASE ~(a <= b)
  BY <1>2 DEF Min
<1>3. QED
  BY <1>1, <1>2

LEMMA MaxOfTwo ==
  ASSUME NEW a \in Int, NEW b \in Int
  PROVE  Max({a, b}) = IF a >= b THEN a ELSE b
<1>1. CASE a >= b
  BY <1>1 DEF Max
<1>2. CASE ~(a >= b)
  BY <1>2 DEF Max
<1>3. QED
  BY <1>1, <1>2

-----------------------------------------------------------------------------
(* Orders.  A relation is a set of pairs.                                  *)
Orders(R, U) ==
  /\ \A a \in U : <<a, a>> \notin R
  /\ \A a, b \in U : a # b => <<a, b>> \in R \/ <<b, a>> \in R
  /\ \A a, b, c \in U : <<a, b>> \in R /\ <<b, c>> \in R => <<a, c>> \in R

LEMMA LastExists ==
  ASSUME NEW R, NEW U, Orders(R, U), IsFiniteSet(U), U # {}
  PROVE  \E m \in U : \A x \in U : x # m => <<x, m>> \in R
<1> DEFINE HasLast(V) == \E m \in V : \A x \in V : x # m => <<x, m>> \in R
           S == {n \in Nat : \A V \in SUBSET U :
                               Cardinality(V) = n + 1 => HasLast(V)}
<1>1. \A V \in SUBSET U : IsFiniteSet(V) /\ Cardinality(V) \in Nat
  BY FS_Subset, FS_CardinalityType
<1>2. 0 \in S
  <2>1. ASSUME NEW V \in SUBSET U, Cardinality(V) = 1
        PROVE  HasLast(V)
    <3>1. PICK x \in V : TRUE
      BY <1>1, <2>1, FS_EmptySet
    <3>2. Cardinality(V \ {x}) = 0 /\ IsFiniteSet(V \ {x})
      BY <1>1, <2>1, <3>1, FS_RemoveElement
    <3>3. V \ {x} = {}
      BY <3>2, FS_EmptySet
    <3>4. QED
      BY <3>1, <3>3
  <2>2. QED
    BY <2>1
<1>3. ASSUME NEW n \in Nat, n \in S
      PROVE  n + 1 \in S
  <2>1. ASSUME NEW V \in SUBSET U, Cardinality(V) = n + 2
        PROVE  HasLast(V)
    <3>1. PICK x \in V : TRUE
      BY <1>1, <2>1, FS_EmptySet
    <3>2. Cardinality(V \ {x}) = n + 1
      BY <1>1, <2>1, <3>1, FS_RemoveElement
    <3>3. PICK m \in V \ {x} : \A y \in V \ {x} : y # m => <<y, m>> \in R
      BY <1>3, <3>2
    <3>4. CASE <<x, m>> \in R
      BY <3>3, <3>4
    <3>5. CASE <<m, x>> \in R
      <4>1. \A y \in V : y # x => <<y, x>> \in R
        BY <3>1, <3>3, <3>5 DEF Orders
      <4>2. QED
        BY <3>1, <4>1
    <3>6. QED
      BY <3>1, <3>3, <3>4, <3>5 DEF Orders
  <2>2. QED
    BY <1>3, <2>1
<1> DEFINE k == Cardinality(U) - 1
<1>4. k \in Nat /\ Cardinality(U) = k + 1
  BY <1>1, FS_EmptySet
<1> HIDE DEF S, k
<1>5. k \in S
  BY <1>2, <1>3, <1>4, SetInduction
<1>6. QED
  BY <1>4, <1>5 DEF S

LEMMA Enumerates ==
  ASSUME NEW R, NEW U, Orders(R, U), IsFiniteSet(U)
  PROVE  \E o \in [1 .. Cardinality(U) -> U] :
           \A i, j \in 1 .. Cardinality(U) : i < j => <<o[i], o[j]>> \in R
<1> DEFINE InOrder(o, n) == \A i, j \in 1 .. n : i < j => <<o[i], o[j]>> \in R
           S == {n \in Nat : \A V \in SUBSET U : Cardinality(V) = n =>
                               \E o \in [1 .. n -> V] : InOrder(o, n)}
<1>1. \A V \in SUBSET U : IsFiniteSet(V) /\ Cardinality(V) \in Nat
  BY FS_Subset, FS_CardinalityType
<1>2. 0 \in S
  <2>1. ASSUME NEW V \in SUBSET U
        PROVE  \E o \in [1 .. 0 -> V] : InOrder(o, 0)
    <3> DEFINE o == [i \in 1 .. 0 |-> i]
    <3>1. o \in [1 .. 0 -> V]
      OBVIOUS
    <3>2. InOrder(o, 0)
      OBVIOUS
    <3> HIDE DEF o
    <3>3. QED
      BY <3>1, <3>2
  <2>2. QED
    BY <2>1
<1>3. ASSUME NEW n \in Nat, n \in S
      PROVE  n + 1 \in S
  <2>1. ASSUME NEW V \in SUBSET U, Cardinality(V) = n + 1
        PROVE  \E o \in [1 .. n + 1 -> V] : InOrder(o, n + 1)
    <3>1. V # {} /\ Orders(R, V)
      BY <2>1, FS_EmptySet DEF Orders
    <3>2. PICK m \in V : \A x \in V : x # m => <<x, m>> \in R
      BY <1>1, <3>1, LastExists
    <3>3. Cardinality(V \ {m}) = n
      BY <1>1, <2>1, <3>2, FS_RemoveElement
    <3>4. PICK o \in [1 .. n -> V \ {m}] : InOrder(o, n)
      BY <1>3, <3>3
    <3> DEFINE p == [i \in 1 .. n + 1 |-> IF i = n + 1 THEN m ELSE o[i]]
    <3>5. p \in [1 .. n + 1 -> V]
      BY <3>2, <3>4
    <3>6. ASSUME NEW i \in 1 .. n + 1, NEW j \in 1 .. n + 1, i < j
          PROVE  <<p[i], p[j]>> \in R
      <4>1. i \in 1 .. n /\ p[i] = o[i] /\ o[i] \in V \ {m}
        BY <3>4, <3>6
      <4>2. CASE j = n + 1
        BY <3>2, <4>1, <4>2
      <4>3. CASE j # n + 1
        BY <3>4, <3>6, <4>1, <4>3
      <4>4. QED
        BY <4>2, <4>3
    <3> HIDE DEF p
    <3>7. QED
      BY <3>5, <3>6
  <2>2. QED
    BY <1>3, <2>1
<1>4. Cardinality(U) \in S
  <2> HIDE DEF S
  <2>1. QED
    BY <1>1, <1>2, <1>3, SetInduction
<1>5. QED
  BY <1>4

\* What the places of a set put in order are: each member has one place.
LEMMA InOrderIsBijective ==
  ASSUME NEW R, NEW U, Orders(R, U), IsFiniteSet(U),
         NEW o \in [1 .. Cardinality(U) -> U],
         \A i, j \in 1 .. Cardinality(U) : i < j => <<o[i], o[j]>> \in R
  PROVE  /\ \A i, j \in 1 .. Cardinality(U) : o[i] = o[j] => i = j
         /\ \A x \in U : \E i \in 1 .. Cardinality(U) : o[i] = x
         /\ \A i, j \in 1 .. Cardinality(U) : <<o[i], o[j]>> \in R => i < j
<1> DEFINE n == Cardinality(U)
<1>1. n \in Nat
  BY FS_CardinalityType
<1>2. ASSUME NEW i \in 1 .. n, NEW j \in 1 .. n, o[i] = o[j]
      PROVE  i = j
  <2>1. o[i] \in U /\ <<o[i], o[i]>> \notin R
    BY DEF Orders
  <2>2. ~(i < j) /\ ~(j < i)
    BY <1>2, <2>1
  <2>3. QED
    BY <1>1, <2>2
<1>3. ASSUME NEW i \in 1 .. n, NEW j \in 1 .. n, <<o[i], o[j]>> \in R
      PROVE  i < j
  <2>1. o[i] \in U /\ o[j] \in U
    OBVIOUS
  <2>2. i # j
    BY <1>3, <2>1 DEF Orders
  <2>3. ~(j < i)
    BY <1>3, <2>1 DEF Orders
  <2>4. QED
    BY <1>1, <2>2, <2>3
<1>4. \A x \in U : \E i \in 1 .. n : o[i] = x
  <2>1. IsFiniteSet(1 .. n) /\ Cardinality(1 .. n) = n
    BY <1>1, FS_Interval
  <2>2. o \in Injection(1 .. n, U)
    BY <1>2 DEF Injection, IsInjective
  <2>3. o \in Surjection(1 .. n, U)
    BY <2>1, <2>2, FS_Injection
  <2>4. QED
    BY <2>3 DEF Surjection
<1>5. QED
  BY <1>2, <1>3, <1>4
=============================================================================
