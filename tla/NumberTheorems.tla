-------------------------- MODULE NumberTheorems --------------------------
(***************************************************************************)
(* Facts about natural numbers that the proofs of several components use:   *)
(* a set of them has a smallest member and, when it is bounded, a greatest  *)
(* one, and numbers less than a ring's size apart have slots of their own.  *)
(***************************************************************************)
EXTENDS Integers, FiniteSetsExt, FiniteSetTheorems, TLAPS

\* Nat is well ordered. The proper-subset order of finite sets is well founded,
\* and so is, with it, the order of the intervals 1 .. n.
LEMMA HasMinimum ==
    ASSUME NEW S \in SUBSET Nat, S # {}
    PROVE  \E m \in S : \A n \in S : m <= n
<1> DEFINE Below(n) == 1 .. n
           Ordering == StrictSubsetOrdering(Nat)
           Intervals == {Below(n) : n \in S}
<1>1. Intervals \subseteq FiniteSubsetsOf(Nat) /\ Intervals # {}
  <2>1. ASSUME NEW n \in S PROVE IsFiniteSet(Below(n)) /\ Below(n) \in SUBSET Nat
    BY FS_Interval
  <2>2. QED
    BY <2>1 DEF FiniteSubsetsOf
<1>2. IsWellFoundedOn(Ordering, FiniteSubsetsOf(Nat))
  BY FS_StrictSubsetOrderingWellFounded
<1>3. PICK x \in Intervals : \A y \in Intervals : ~ (<<y, x>> \in Ordering)
  <2> HIDE DEF Intervals, Ordering
  <2>1. QED
    BY <1>1, <1>2, WFMin
<1>4. PICK m \in S : x = Below(m)
  OBVIOUS
<1>5. ASSUME NEW n \in S, n < m PROVE FALSE
  <2>1. Below(n) \subseteq Below(m) /\ m \in Below(m) /\ m \notin Below(n)
    BY <1>5
  <2>2. Below(n) \in Intervals /\ Below(n) \in SUBSET Nat /\ Below(m) \in SUBSET Nat
    OBVIOUS
  <2>3. <<Below(n), x>> \in Ordering
    BY <1>4, <2>1, <2>2 DEF StrictSubsetOrdering
  <2>4. QED
    BY <1>3, <2>2, <2>3
<1>6. QED
  BY <1>5

\* The least member of a set of numbers is a member, and none is less.
LEMMA MinProperties ==
    ASSUME NEW S \in SUBSET Nat, S # {}
    PROVE  Min(S) \in S /\ \A n \in S : Min(S) <= n
  BY HasMinimum DEF Min

\* The greatest of the numbers up to b is the one with the smallest distance to b.
LEMMA HasMaximum ==
    ASSUME NEW b \in Nat, NEW S \in SUBSET (0 .. b), S # {}
    PROVE  \E m \in S : \A n \in S : n <= m
<1> DEFINE Distances == {b - n : n \in S}
<1>1. Distances \in SUBSET Nat /\ Distances # {}
  <2>1. \A n \in S : b - n \in Nat
    OBVIOUS
  <2>2. QED
    BY <2>1
<1>2. PICK d \in Distances : \A e \in Distances : d <= e
  <2> HIDE DEF Distances
  <2>1. QED
    BY <1>1, HasMinimum
<1>3. PICK m \in S : d = b - m
  OBVIOUS
<1>4. ASSUME NEW n \in S PROVE n <= m
  BY <1>2, <1>3
<1>5. QED
  BY <1>4

\* The same of the greatest member of a bounded set.
LEMMA MaxProperties ==
    ASSUME NEW b \in Nat, NEW S \in SUBSET (0 .. b), S # {}
    PROVE  Max(S) \in S /\ \A n \in S : n <= Max(S)
  BY HasMaximum DEF Max

\* The greatest member of an interval is its end.
LEMMA MaxOfInterval ==
    ASSUME NEW a \in Nat, NEW b \in Nat, a <= b
    PROVE  Max(a .. b) = b
<1>1. a .. b \in SUBSET (0 .. b) /\ a .. b # {} /\ b \in a .. b
  OBVIOUS
<1>2. Max(a .. b) \in a .. b /\ b <= Max(a .. b)
  BY <1>1, MaxProperties
<1>3. QED
  BY <1>2

\* How many numbers come after one, up to another.
LEMMA CardinalityOfInterval ==
    ASSUME NEW a \in Nat, NEW b \in Nat, a <= b
    PROVE  Cardinality(a + 1 .. b) = b - a
<1>1. Cardinality(a + 1 .. b) = IF a + 1 > b THEN 0 ELSE b - (a + 1) + 1
  BY FS_Interval
<1>2. QED
  BY <1>1

-----------------------------------------------------------------------------
(* Slots of a ring *)

\* Quotient and remainder, and what the two make together.
LEMMA RemainderType ==
    ASSUME NEW size \in Nat \ {0}, NEW n \in Nat
    PROVE  /\ n % size \in 0 .. size - 1
           /\ n \div size \in Nat
           /\ n = size * (n \div size) + (n % size)
  OBVIOUS

\* A multiple of a number is no less than the number.
LEMMA MultipleIsNoLess ==
    ASSUME NEW n \in Nat, NEW q \in Int, q > 0
    PROVE  n * q >= n
  BY Z3

\* Numbers less than a ring's size apart have different places in the ring.
LEMMA RemaindersDiffer ==
    ASSUME NEW size \in Nat \ {0}, NEW i \in Nat, NEW k \in Nat, i < k, k < i + size
    PROVE  i % size # k % size
<1> SUFFICES ASSUME i % size = k % size PROVE FALSE
  OBVIOUS
<1> DEFINE d == k \div size - i \div size
<1>1. k - i = size * d /\ d \in Int
  BY RemainderType
<1>2. d > 0
  BY <1>1
<1>3. size * d >= size
  BY <1>1, <1>2, MultipleIsNoLess
<1>4. QED
  BY <1>1, <1>3

\* What is left of a multiple and a rest is the rest.
LEMMA RemainderIs ==
    ASSUME NEW size \in Nat \ {0}, NEW q \in Nat, NEW s \in 0 .. size - 1
    PROVE  (size * q + s) % size = s
<1> DEFINE n == size * q + s
           d == q - (n \div size)
<1>1. n \in Nat
  <2>1. size * q \in Nat
    OBVIOUS
  <2>2. QED
    BY <2>1
<1>2. /\ n % size \in 0 .. size - 1 /\ n \div size \in Nat
      /\ n = size * (n \div size) + (n % size)
  BY <1>1, RemainderType
<1> HIDE DEF n
<1>3. d \in Int /\ size * d = (n % size) - s
  <2>1. n = size * q + s
    BY DEF n
  <2>2. size * d = size * q - size * (n \div size)
    BY <1>2
  <2>3. QED
    BY <1>1, <1>2, <2>1, <2>2
<1>4. ~ d > 0
  <2>1. d > 0 => size * d >= size
    BY <1>3, MultipleIsNoLess
  <2>2. QED
    BY <1>1, <1>2, <1>3, <2>1
<1>5. ~ - d > 0
  <2>1. - d > 0 => size * (- d) >= size
    BY <1>3, MultipleIsNoLess
  <2>2. size * (- d) = s - (n % size)
    BY <1>2, <1>3
  <2>3. QED
    BY <1>2, <1>3, <2>1, <2>2
<1>6. d = 0
  BY <1>3, <1>4, <1>5
<1>7. n % size = s
  <2> HIDE DEF d
  <2>1. size * d = 0
    BY <1>6
  <2>2. QED
    BY <1>1, <1>2, <1>3, <2>1
<1>8. QED
  BY <1>7 DEF n

\* A ring's size further on is the same slot.
LEMMA RemainderRepeats ==
    ASSUME NEW size \in Nat \ {0}, NEW n \in Nat
    PROVE  (n + size) % size = n % size
<1> DEFINE q == n \div size
<1>1. n % size \in 0 .. size - 1 /\ q \in Nat /\ n = size * q + (n % size)
  BY RemainderType
<1>2. n + size = size * (q + 1) + (n % size)
  <2>1. size * (q + 1) = size * q + size
    BY <1>1
  <2>2. QED
    BY <1>1, <2>1
<1>3. (size * (q + 1) + (n % size)) % size = n % size
  <2> DEFINE t == n % size
  <2>1. q + 1 \in Nat /\ t \in 0 .. size - 1
    BY <1>1
  <2> HIDE DEF q, t
  <2>2. (size * (q + 1) + t) % size = t
    BY <2>1, RemainderIs
  <2>3. QED
    BY <2>2 DEF t
<1>4. QED
  BY <1>2, <1>3

\* Any size numbers in a row go through all the slots.
LEMMA RemainderInWindow ==
    ASSUME NEW size \in Nat \ {0}, NEW m \in Nat, m >= size, NEW s \in 0 .. size - 1
    PROVE  \E k \in m - (size - 1) .. m : k % size = s
<1> DEFINE q == m \div size
           r == m % size
<1>1. r \in 0 .. size - 1 /\ q \in Nat /\ m = size * q + r
  BY RemainderType
<1>2. q > 0
  BY <1>1
<1>3. CASE s <= r
  <2>1. (size * q + s) % size = s
    BY <1>1, RemainderIs
  <2>2. size * q + s \in m - (size - 1) .. m
    BY <1>1, <1>3
  <2>3. QED
    BY <2>1, <2>2
<1>4. CASE s > r
  <2>1. (size * (q - 1) + s) % size = s
    <3>1. q - 1 \in Nat
      BY <1>1, <1>2
    <3> HIDE DEF q
    <3>2. QED
      BY <3>1, RemainderIs
  <2>2. size * (q - 1) = size * q - size
    BY <1>1
  <2>3. size * (q - 1) + s \in m - (size - 1) .. m
    BY <1>1, <1>4, <2>2
  <2>4. QED
    BY <2>1, <2>3
<1>5. QED
  BY <1>1, <1>3, <1>4
=============================================================================
