---------------------------- MODULE NumberLemmas ----------------------------
(***************************************************************************)
(* What the proofs of several modules need about numbers: least and        *)
(* greatest elements, sizes of sets, slots of a ring and remainders.       *)
(***************************************************************************)
EXTENDS Integers, FiniteSets, FiniteSetTheorems, WellFoundedInduction, TLAPS

-----------------------------------------------------------------------------
(* Least and greatest elements of sets of numbers. *)

\* Every non-empty set of natural numbers has a least element.
LEMMA LeastNat ==
  ASSUME NEW S \in SUBSET Nat, S # {}
  PROVE  \E m \in S : \A n \in S : m <= n
<1> DEFINE T == {0..m : m \in S}
<1>1. T \subseteq FiniteSubsetsOf(Nat)
  <2> SUFFICES ASSUME NEW m \in S PROVE 0..m \in FiniteSubsetsOf(Nat)
    OBVIOUS
  <2>1. m \in Nat /\ IsFiniteSet(0..m)
    BY FS_Interval
  <2> QED BY <2>1 DEF FiniteSubsetsOf
<1>2. \E x \in T : \A y \in T : ~ (<<y, x>> \in StrictSubsetOrdering(Nat))
  <2>1. T # {}
    OBVIOUS
  <2>2. IsWellFoundedOn(StrictSubsetOrdering(Nat), FiniteSubsetsOf(Nat))
    BY FS_StrictSubsetOrderingWellFounded
  <2> HIDE DEF T
  <2> QED BY <1>1, <2>1, <2>2, WFMin
<1>3. PICK m \in S : \A y \in T : ~ (<<y, 0..m>> \in StrictSubsetOrdering(Nat))
  BY <1>2
<1>4. ASSUME NEW n \in S, n < m PROVE FALSE
  <2>1. 0..n \in T
    OBVIOUS
  <2>2. 0..n \subseteq 0..m /\ m \in 0..m /\ m \notin 0..n
    BY <1>4
  <2>3. <<0..n, 0..m>> \in StrictSubsetOrdering(Nat)
    BY <2>2 DEF StrictSubsetOrdering
  <2> QED BY <2>1, <2>3, <1>3
<1> QED BY <1>4, <1>3

\* Every non-empty set of natural numbers with a bound has a greatest element.
LEMMA GreatestNat ==
  ASSUME NEW S \in SUBSET Nat, S # {}, NEW b \in Nat, \A n \in S : n <= b
  PROVE  \E m \in S : \A n \in S : n <= m
<1> DEFINE T == {t \in Nat : \E n \in S : t = b - n}
<1>1. T # {}
  <2>1. PICK n \in S : TRUE
    OBVIOUS
  <2>2. n \in Nat /\ n <= b
    BY <2>1
  <2>3. b - n \in Nat
    BY <2>2
  <2>4. b - n \in T
    BY <2>3
  <2> QED BY <2>4
<1>2. PICK t \in T : \A u \in T : t <= u
  <2> HIDE DEF T
  <2>1. T \in SUBSET Nat
    BY DEF T
  <2> QED BY <1>1, <2>1, LeastNat
<1>3. PICK m \in S : t = b - m
  OBVIOUS
<1>4. ASSUME NEW n \in S PROVE n <= m
  <2>1. n \in Nat /\ n <= b /\ m \in Nat /\ m <= b
    OBVIOUS
  <2>2. b - n \in T
    BY <2>1
  <2>3. b - m <= b - n
    BY <2>2, <1>2, <1>3
  <2> QED BY <2>1, <2>3
<1> QED BY <1>4, <1>3

-----------------------------------------------------------------------------
(* Slots of a ring of n. *)

\* i steps from b, i at most a round, wrap at most once.
LEMMA RingSlot ==
  ASSUME NEW n \in Nat \ {0}, NEW b \in 0..(n - 1), NEW i \in 0..n
  PROVE  /\ (b + i) % n = IF b + i < n THEN b + i ELSE b + i - n
         /\ (b + i) % n \in 0..(n - 1)
OBVIOUS

\* Steps along the ring add up.
LEMMA RingAdds ==
  ASSUME NEW n \in Nat \ {0}, NEW b \in 0..(n - 1), NEW i \in 0..n, NEW j \in 0..n, i + j <= n
  PROVE  (((b + i) % n) + j) % n = (b + (i + j)) % n
<1> DEFINE s == (b + i) % n
<1>1. s = (IF b + i < n THEN b + i ELSE b + i - n) /\ s \in 0..(n - 1)
  BY RingSlot
<1>2. i + j \in 0..n
  OBVIOUS
<1>3. (b + (i + j)) % n = IF b + (i + j) < n THEN b + (i + j) ELSE b + (i + j) - n
  BY <1>2, RingSlot
<1> HIDE DEF s
<1>4. (s + j) % n = IF s + j < n THEN s + j ELSE s + j - n
  BY <1>1, RingSlot
<1>5. (s + j) % n = (b + (i + j)) % n
  BY <1>1, <1>3, <1>4
<1> QED BY <1>5 DEF s

\* Less than a round of steps does not come back.
LEMMA RingInjective ==
  ASSUME NEW n \in Nat \ {0}, NEW b \in 0..(n - 1), NEW i \in 0..(n - 1), NEW j \in 0..(n - 1),
         (b + i) % n = (b + j) % n
  PROVE  i = j
<1>1. i \in 0..n /\ j \in 0..n
  OBVIOUS
<1>2. (b + i) % n = IF b + i < n THEN b + i ELSE b + i - n
  BY <1>1, RingSlot
<1>3. (b + j) % n = IF b + j < n THEN b + j ELSE b + j - n
  BY <1>1, RingSlot
<1>4. (IF b + i < n THEN b + i ELSE b + i - n) = (IF b + j < n THEN b + j ELSE b + j - n)
  BY <1>2, <1>3
<1> QED BY <1>4

\* Every slot is less than a round away.
LEMMA RingOnto ==
  ASSUME NEW n \in Nat \ {0}, NEW b \in 0..(n - 1), NEW s \in 0..(n - 1)
  PROVE  \E i \in 0..(n - 1) : s = (b + i) % n
<1> DEFINE d == IF b <= s THEN s - b ELSE s - b + n
<1>1. d \in 0..(n - 1) /\ d \in 0..n
  OBVIOUS
<1>2. (IF b + d < n THEN b + d ELSE b + d - n) = s
  OBVIOUS
<1> HIDE DEF d
<1>3. (b + d) % n = IF b + d < n THEN b + d ELSE b + d - n
  BY <1>1, RingSlot
<1> QED BY <1>1, <1>2, <1>3

-----------------------------------------------------------------------------
(* The rank of an element: how many elements of the set are below it. *)

Rank(S, x) == Cardinality({y \in S : y < x})

\* The ranks of n elements are below n.
LEMMA RankRange ==
  ASSUME NEW S \in SUBSET Nat, IsFiniteSet(S), NEW x \in S
  PROVE  Rank(S, x) \in 0..(Cardinality(S) - 1)
<1> DEFINE T == {y \in S : y < x}
<1>1. T \in SUBSET S /\ x \notin T
  OBVIOUS
<1>2. IsFiniteSet(T) /\ Cardinality(T) <= Cardinality(S) /\ Cardinality(T) # Cardinality(S)
  BY <1>1, FS_Subset
<1>3. Cardinality(T) \in Nat /\ Cardinality(S) \in Nat
  BY <1>2, FS_CardinalityType
<1> QED BY <1>2, <1>3 DEF Rank

\* A greater element has a greater rank.
LEMMA RankMonotonic ==
  ASSUME NEW S \in SUBSET Nat, IsFiniteSet(S), NEW x \in S, NEW y \in S, x < y
  PROVE  Rank(S, x) < Rank(S, y)
<1> DEFINE T == {z \in S : z < x}
           U == {z \in S : z < y}
<1>1. T \in SUBSET U /\ x \in U /\ x \notin T /\ U \in SUBSET S
  <2>1. \A z \in S : z \in Nat
    OBVIOUS
  <2>2. \A z \in S : z < x => z < y
    BY <2>1
  <2>3. ~(x < x)
    BY <2>1
  <2> QED BY <2>2, <2>3
<1>2. IsFiniteSet(U)
  BY <1>1, FS_Subset
<1>3. IsFiniteSet(T) /\ Cardinality(T) <= Cardinality(U) /\ Cardinality(T) # Cardinality(U)
  BY <1>1, <1>2, FS_Subset
<1>4. Cardinality(T) \in Nat /\ Cardinality(U) \in Nat
  BY <1>2, <1>3, FS_CardinalityType
<1> QED BY <1>3, <1>4 DEF Rank

\* The rank tells an element.
LEMMA RankInjective ==
  ASSUME NEW S \in SUBSET Nat, IsFiniteSet(S), NEW x \in S, NEW y \in S, Rank(S, x) = Rank(S, y)
  PROVE  x = y
<1>1. Rank(S, x) \in Int /\ Rank(S, y) \in Int /\ x \in Nat /\ y \in Nat
  BY RankRange, FS_CardinalityType
<1>2. ~(x < y)
  BY <1>1, RankMonotonic
<1>3. ~(y < x)
  BY <1>1, RankMonotonic
<1> QED BY <1>1, <1>2, <1>3

\* Every rank below the size is taken.
LEMMA RankOnto ==
  ASSUME NEW S \in SUBSET Nat, IsFiniteSet(S), NEW k \in 0..(Cardinality(S) - 1)
  PROVE  \E x \in S : Rank(S, x) = k
<1> DEFINE n == Cardinality(S)
           f == [x \in S |-> Rank(S, x)]
<1>1. n \in Nat
  BY FS_CardinalityType
<1>2. IsFiniteSet(0..(n - 1)) /\ Cardinality(0..(n - 1)) = n
  BY <1>1, FS_Interval
<1>3. f \in [S -> 0..(n - 1)]
  BY RankRange
<1>4. \A x, y \in S : f[x] = f[y] => x = y
  BY RankInjective
<1>5. f \in Injection(S, 0..(n - 1))
  BY <1>3, <1>4 DEF Injection, IsInjective
<1>6. f \in Surjection(S, 0..(n - 1))
  BY <1>2, <1>5, FS_Injection
<1> QED BY <1>6 DEF Surjection

\* Counted from above: below, above and the element itself are the whole set.
LEMMA RankFromAbove ==
  ASSUME NEW S \in SUBSET Nat, IsFiniteSet(S), NEW x \in S
  PROVE  Cardinality({y \in S : y > x}) = Cardinality(S) - 1 - Rank(S, x)
<1> DEFINE T == {y \in S : y < x}
           U == {y \in S : y > x}
<1>1. T \in SUBSET S /\ U \in SUBSET S /\ x \notin T /\ T \cup {x} \in SUBSET S
  OBVIOUS
<1>2. IsFiniteSet(T) /\ IsFiniteSet(U) /\ IsFiniteSet(T \cup {x})
  BY <1>1, FS_Subset
<1>3. Cardinality(T \cup {x}) = Cardinality(T) + 1
  BY <1>1, <1>2, FS_AddElement
<1>4. U = S \ (T \cup {x}) /\ S \cap (T \cup {x}) = T \cup {x}
  <2>1. \A y \in S : y \in Nat /\ x \in Nat
    OBVIOUS
  <2>2. \A y \in S : y > x <=> ~(y < x) /\ y # x
    BY <2>1
  <2> QED BY <2>2
<1>5. Cardinality(U) = Cardinality(S) - Cardinality(S \cap (T \cup {x}))
  BY <1>4, FS_Difference
<1>6. Cardinality(T) \in Nat /\ Cardinality(S) \in Nat
  BY <1>2, FS_CardinalityType
<1> QED BY <1>3, <1>4, <1>5, <1>6 DEF Rank

-----------------------------------------------------------------------------
(* Sizes of images. *)

\* A function that tells the elements of a set apart keeps its size.
LEMMA ImageSize ==
  ASSUME NEW S, IsFiniteSet(S), NEW f, \A x, y \in S : f[x] = f[y] => x = y
  PROVE  /\ IsFiniteSet({f[x] : x \in S})
         /\ Cardinality({f[x] : x \in S}) = Cardinality(S)
<1> DEFINE T == {f[x] : x \in S}
           g == [x \in S |-> f[x]]
<1>1. g \in Bijection(S, T)
  BY DEF Bijection, Injection, Surjection, IsInjective
<1>2. ExistsBijection(S, T)
  BY <1>1 DEF ExistsBijection
<1> HIDE DEF T
<1>3. IsFiniteSet(T) /\ Cardinality(T) = Cardinality(S)
  BY <1>2, FS_Bijection
<1> QED BY <1>3 DEF T

-----------------------------------------------------------------------------
(* Remainders: the slots of a ring indexed by an ever growing number. *)

\* Division with remainder.
LEMMA Quotient ==
  ASSUME NEW n \in Nat \ {0}, NEW x \in Int
  PROVE  /\ x \div n \in Int /\ x % n \in 0..(n - 1)
         /\ x = n * (x \div n) + (x % n)
OBVIOUS

\* The remainder is the only one in its range.
LEMMA RemainderIs ==
  ASSUME NEW n \in Nat \ {0}, NEW x \in Int, NEW q \in Int, NEW r \in 0..(n - 1), x = n * q + r
  PROVE  x % n = r
<1>1. /\ x \div n \in Int /\ x % n \in 0..(n - 1)
      /\ x = n * (x \div n) + (x % n)
  BY Quotient
<1> DEFINE p == x \div n
           s == x % n
<1>2. p \in Int /\ s \in 0..(n - 1) /\ n * p + s = n * q + r
  BY <1>1
<1> HIDE DEF p, s
<1>3. s = r
  BY <1>2
<1> QED BY <1>3 DEF s

\* The remainder of the successor is the next slot of the ring.
LEMMA RemainderNext ==
  ASSUME NEW n \in Nat \ {0}, NEW x \in Int
  PROVE  (x + 1) % n = IF x % n = n - 1 THEN 0 ELSE (x % n) + 1
<1> DEFINE q == x \div n
           r == x % n
<1>1. q \in Int /\ r \in 0..(n - 1) /\ x = n * q + r
  BY Quotient
<1> HIDE DEF q, r
<1>2. CASE r = n - 1
  <2>1. x + 1 = n * (q + 1) + 0 /\ q + 1 \in Int /\ 0 \in 0..(n - 1) /\ x + 1 \in Int
    BY <1>1, <1>2
  <2>2. (x + 1) % n = 0
    BY <2>1, RemainderIs
  <2> QED BY <1>2, <2>2 DEF r
<1>3. CASE r # n - 1
  <2>1. x + 1 = n * q + (r + 1) /\ r + 1 \in 0..(n - 1) /\ x + 1 \in Int
    BY <1>1, <1>3
  <2>2. (x + 1) % n = r + 1
    BY <2>1, <1>1, RemainderIs
  <2> QED BY <1>3, <2>2 DEF r
<1> QED BY <1>2, <1>3

\* Numbers less than the ring's length apart have different slots.
LEMMA RemaindersDiffer ==
  ASSUME NEW n \in Nat \ {0}, NEW x \in Int, NEW y \in Int, x < y, y - x < n
  PROVE  x % n # y % n
<1> DEFINE p == x \div n
           q == y \div n
           r == x % n
<1> SUFFICES ASSUME y % n = r PROVE FALSE
  OBVIOUS
<1>1. p \in Int /\ q \in Int /\ r \in 0..(n - 1) /\ x = n * p + r /\ y = n * q + r
  BY Quotient
<1> HIDE DEF p, q, r
<1>2. n * (q - p) = y - x
  BY <1>1
<1>3. q - p \in Int /\ ~(q - p <= 0) /\ ~(q - p >= 1)
  <2>1. q - p \in Int
    BY <1>1
  <2>2. ASSUME q - p <= 0 PROVE FALSE
    <3>1. n * (q - p) <= 0
      BY <2>1, <2>2
    <3> QED BY <3>1, <1>2
  <2>3. ASSUME q - p >= 1 PROVE FALSE
    <3>1. n * (q - p) >= n
      BY <2>1, <2>3
    <3> QED BY <3>1, <1>2
  <2> QED BY <2>1, <2>2, <2>3
<1> QED BY <1>3

\* The slot behind the slot of a number is the slot of its successor.
LEMMA RemainderOfNext ==
  ASSUME NEW n \in Nat \ {0}, NEW x \in Int
  PROVE  ((x % n) + 1) % n = (x + 1) % n
<1> DEFINE r == x % n
<1>1. r \in 0..(n - 1) /\ r = n * 0 + r /\ r \in Int
  BY Quotient
<1>2. r % n = r
  <2> HIDE DEF r
  <2> QED BY <1>1, RemainderIs
<1>3. (r + 1) % n = IF r = n - 1 THEN 0 ELSE r + 1
  <2> HIDE DEF r
  <2> QED BY <1>1, <1>2, RemainderNext
<1> QED BY <1>3, RemainderNext

-----------------------------------------------------------------------------
(* Increasing sequences of numbers. *)

\* Numbers that increase do so by at least 1 from each to the next.
LEMMA Increasing ==
  ASSUME NEW n \in Nat, NEW f, \A k \in 1..n : f[k] \in Nat,
         \A j, k \in 1..n : j < k => f[j] < f[k]
  PROVE  \A j, k \in 1..n : j <= k => f[k] >= f[j] + (k - j)
<1> DEFINE S == {m \in Nat : \E j, k \in 1..n : k - j = m /\ f[k] < f[j] + (k - j)}
<1> SUFFICES ASSUME NEW x \in 1..n, NEW y \in 1..n, x <= y, ~(f[y] >= f[x] + (y - x)) PROVE FALSE
  OBVIOUS
<1>0. S # {}
  <2>1. f[x] \in Nat /\ f[y] \in Nat /\ y - x \in Nat
    OBVIOUS
  <2>2. f[y] < f[x] + (y - x)
    BY <2>1
  <2>3. y - x \in S
    BY <2>1, <2>2
  <2> QED BY <2>3
<1>1. PICK m \in S : \A l \in S : m <= l
  BY <1>0, LeastNat
<1>2. PICK j \in 1..n, k \in 1..n : k - j = m /\ f[k] < f[j] + (k - j)
  OBVIOUS
<1>3. m \in Nat /\ f[j] \in Nat /\ f[k] \in Nat
  OBVIOUS
<1>4. m # 0
  <2> SUFFICES ASSUME m = 0 PROVE FALSE
    OBVIOUS
  <2>1. j = k
    BY <1>2
  <2> QED BY <1>2, <1>3, <2>1
<1>5. k - 1 \in 1..n /\ k - 1 < k /\ (k - 1) - j = m - 1 /\ m - 1 \in Nat
  BY <1>2, <1>3, <1>4
<1>6. f[k - 1] < f[k] /\ f[k - 1] \in Nat
  BY <1>5
<1>7. f[k - 1] < f[j] + ((k - 1) - j)
  BY <1>2, <1>3, <1>5, <1>6
<1>8. m - 1 \in S
  BY <1>5, <1>7
<1> QED BY <1>1, <1>3, <1>8
=============================================================================
