------------------------------ MODULE NatLemmas -----------------------------
(***************************************************************************)
(* Facts about numbers the proofs about several modules rest on: least     *)
(* elements, powers of two and remainders.                                 *)
(***************************************************************************)
EXTENDS Integers, FiniteSetTheorems, WellFoundedInduction, TLAPS

\* The usual order of the naturals as a well-founded relation.
Less == {ss \in Nat \X Nat : ss[1] < ss[2]}

LEMMA LessWellFounded == IsWellFoundedOn(Less, Nat)
  BY NatLessThanWellFounded DEF OpToRel, Less

\* Every nonempty set of naturals has a least element.
LEMMA LeastElement ==
  ASSUME NEW S, S \subseteq Nat, S # {}
  PROVE  \E x \in S : \A y \in S : x <= y
<1>1. PICK x \in S : \A y \in S : ~ (<<y, x>> \in Less)
  BY LessWellFounded, WFMin, Zenon
<1>2. ASSUME NEW y \in S PROVE x <= y
  <2>1. <<y, x>> \notin Less
    BY <1>1
  <2> QED BY <2>1 DEF Less
<1> QED BY <1>2
-----------------------------------------------------------------------------
(***************************************************************************)
(* Powers of two.                                                          *)
(***************************************************************************)
LEMMA PowerPositive ==
  ASSUME NEW n \in Nat
  PROVE  2^n \in Nat \ {0}
<1> DEFINE S == 1 .. n
<1>1. IsFiniteSet(S) /\ Cardinality(S) = n
  BY FS_Interval
<1>2. IsFiniteSet(SUBSET S) /\ Cardinality(SUBSET S) = 2^n
  BY <1>1, FS_SUBSET
<1>3. SUBSET S # {}
  OBVIOUS
<1> HIDE DEF S
<1> QED BY <1>2, <1>3, FS_CardinalityType, FS_EmptySet

\* A set with one element more has twice the subsets.
LEMMA PowerDouble ==
  ASSUME NEW n \in Nat
  PROVE  2^(n + 1) = 2 * 2^n
<1> DEFINE S == 1 .. n
           T == 1 .. n + 1
           Old == SUBSET S
           More == {A \cup {n + 1} : A \in Old}
           add == [A \in Old |-> A \cup {n + 1}]
<1>1. T = S \cup {n + 1} /\ n + 1 \notin S
  OBVIOUS
<1>2. /\ IsFiniteSet(S) /\ Cardinality(S) = n
      /\ IsFiniteSet(T) /\ Cardinality(T) = n + 1
  BY FS_Interval
<1>3. /\ IsFiniteSet(Old) /\ Cardinality(Old) = 2^n
      /\ IsFiniteSet(SUBSET T) /\ Cardinality(SUBSET T) = 2^(n + 1)
  BY <1>2, FS_SUBSET
<1> HIDE DEF S, T
<1>4. SUBSET T = Old \cup More /\ Old \cap More = {}
  <2>1. ASSUME NEW A \in SUBSET T PROVE A \in Old \cup More
    <3>1. CASE n + 1 \in A
      <4>1. A \ {n + 1} \in Old /\ A = (A \ {n + 1}) \cup {n + 1}
        BY <1>1, <3>1
      <4> QED BY <4>1
    <3>2. CASE n + 1 \notin A
      BY <1>1, <3>2
    <3> QED BY <3>1, <3>2
  <2>2. Old \subseteq SUBSET T /\ More \subseteq SUBSET T
    <3>1. \A A \in Old : A \subseteq T /\ A \cup {n + 1} \subseteq T
      BY <1>1
    <3> QED BY <3>1
  <2>3. \A A \in Old : n + 1 \notin A
    BY <1>1
  <2>4. \A B \in More : n + 1 \in B
    OBVIOUS
  <2> HIDE DEF Old, More
  <2> QED BY <2>1, <2>2, <2>3, <2>4
<1>5. add \in Bijection(Old, More)
  <2>1. \A A, B \in Old : add[A] = add[B] => A = B
    BY <1>1
  <2>2. add \in [Old -> More] /\ \A B \in More : \E A \in Old : add[A] = B
    OBVIOUS
  <2> HIDE DEF add, Old, More
  <2> QED BY <2>1, <2>2 DEF Bijection, Injection, Surjection, IsInjective
<1>6. IsFiniteSet(More) /\ Cardinality(More) = 2^n
  BY <1>3, <1>5, FS_Bijection DEF ExistsBijection
<1> HIDE DEF Old, More
<1>7. Cardinality(Old \cup More) = 2^n + 2^n - 0
  BY <1>3, <1>4, <1>6, FS_Union, FS_EmptySet
<1>8. 2^n \in Nat /\ 2^(n + 1) = 2^n + 2^n - 0
  BY <1>3, <1>4, <1>7, PowerPositive
<1> QED BY <1>8

\* By the least summand for which it would not hold.
LEMMA PowerSum ==
  ASSUME NEW m \in Nat, NEW n \in Nat
  PROVE  2^(m + n) = 2^m * 2^n
<1> DEFINE Bad == {k \in Nat : 2^(m + k) # 2^m * 2^k}
<1> SUFFICES ASSUME Bad # {} PROVE FALSE
  OBVIOUS
<1>1. Bad \subseteq Nat
  OBVIOUS
<1>2. PICK k \in Bad : \A j \in Bad : k <= j
  <2> HIDE DEF Bad
  <2> QED BY <1>1, LeastElement, Zenon
<1>3. k # 0
  <2>1. 2^(m + 0) = 2^m * 2^0
    <3>1. 2^0 = 1 /\ m + 0 = m /\ 2^m \in Nat
      BY PowerPositive
    <3> QED BY <3>1
  <2> QED BY <1>2, <2>1
<1>4. k - 1 \in Nat /\ k - 1 \notin Bad
  BY <1>1, <1>2, <1>3
<1> DEFINE j == k - 1
<1>5. 2^(m + j) = 2^m * 2^j
  BY <1>4
<1>6. j \in Nat /\ k = j + 1 /\ m + k = (m + j) + 1 /\ m + j \in Nat
  BY <1>4
<1> HIDE DEF j
<1>7. 2^k = 2 * 2^j /\ 2^(m + k) = 2 * 2^(m + j)
  BY <1>6, PowerDouble
<1>8. 2^m \in Nat /\ 2^j \in Nat
  BY <1>6, PowerPositive
<1>9. 2^(m + k) = 2^m * 2^k
  <2> DEFINE x == 2^m
             y == 2^j
  <2>1. x \in Nat /\ y \in Nat /\ 2 * (x * y) = x * (2 * y)
    <3> HIDE DEF x, y
    <3>1. \A u, v \in Nat : 2 * (u * v) = u * (2 * v)
      OBVIOUS
    <3>2. x \in Nat /\ y \in Nat
      BY <1>8 DEF x, y
    <3> QED BY <3>1, <3>2
  <2> HIDE DEF x, y
  <2> QED BY <1>5, <1>7, <2>1 DEF x, y
<1> QED BY <1>2, <1>9
-----------------------------------------------------------------------------
(***************************************************************************)
(* Remainders.                                                             *)
(***************************************************************************)
LEMMA Division ==
  ASSUME NEW x \in Int, NEW n \in Nat \ {0}
  PROVE  /\ x \div n \in Int /\ x % n \in 0 .. n - 1
         /\ x = (x \div n) * n + (x % n)
  OBVIOUS

LEMMA DivisionUnique ==
  ASSUME NEW q \in Int, NEW n \in Nat \ {0}, NEW r \in 0 .. n - 1
  PROVE  (q * n + r) % n = r /\ (q * n + r) \div n = q
  OBVIOUS

\* A remainder can be taken sooner as well.
LEMMA ModAdd ==
  ASSUME NEW x \in Int, NEW y \in Int, NEW n \in Nat \ {0}
  PROVE  ((x % n) + y) % n = (x + y) % n
<1> DEFINE p == x \div n
           s == x % n
           q == (s + y) \div n
           r == (s + y) % n
<1>1. p \in Int /\ s \in 0 .. n - 1 /\ x = p * n + s
  BY Division
<1>2. s + y \in Int
  BY <1>1
<1>3. q \in Int /\ r \in 0 .. n - 1 /\ s + y = q * n + r
  <2> HIDE DEF s
  <2> QED BY <1>2, Division
<1> HIDE DEF p, q, r, s
<1>4. x + y = (p + q) * n + r
  BY <1>1, <1>3
<1>5. (x + y) % n = r
  <2>1. p + q \in Int
    BY <1>1, <1>3
  <2> QED BY <1>3, <1>4, <2>1, DivisionUnique
<1> QED BY <1>5 DEF r, s
=============================================================================
