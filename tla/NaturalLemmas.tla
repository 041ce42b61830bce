---------------------------- MODULE NaturalLemmas ----------------------------
(***************************************************************************)
(* Induction over the natural numbers, stated about sets of numbers rather *)
(* than about predicates, and division with remainder.                     *)
(***************************************************************************)
EXTENDS Integers, WellFoundedInduction, TLAPS

(* A set of natural numbers that is not empty has a smallest element.      *)
LEMMA Minimum ==
  ASSUME NEW S \in SUBSET Nat, S # {}
  PROVE  \E m \in S : \A k \in S : m <= k
<1> DEFINE R == OpToRel(<, Nat)
<1>1. IsWellFoundedOn(R, Nat)
  BY NatLessThanWellFounded
<1> HIDE DEF R
<1>2. PICK m \in S : \A k \in S : ~ (<<k, m>> \in R)
  BY <1>1, WFMin
<1>3. \A k, n \in Nat : k < n => <<k, n>> \in R
  BY DEF R, OpToRel
<1>4. \A k \in S : ~ (k < m)
  BY <1>2, <1>3
<1> QED
  BY <1>4

(* A set that contains 0 and, with a number below n, the next one, contains *)
(* all numbers up to n.                                                    *)
LEMMA UpTo ==
  ASSUME NEW n \in Nat, NEW S, 0 \in S, \A k \in 0 .. n - 1 : k \in S => k + 1 \in S
  PROVE  0 .. n \subseteq S
<1> DEFINE Others == {k \in 0 .. n : k \notin S}
<1>1. SUFFICES ASSUME Others # {} PROVE FALSE
  OBVIOUS
<1>2. PICK m \in Others : \A k \in Others : m <= k
  <2>1. Others \in SUBSET Nat
    OBVIOUS
  <2> HIDE DEF Others
  <2> QED
    BY <1>1, <2>1, Minimum
<1>3. m \in 0 .. n /\ m # 0 /\ m - 1 \in 0 .. n - 1
  BY <1>2
<1>4. m - 1 \in S
  BY <1>2, <1>3
<1> QED
  BY <1>2, <1>3, <1>4

(* Division with remainder by d.                                           *)
LEMMA Division ==
  ASSUME NEW d \in Nat \ {0}, NEW i \in Nat
  PROVE  /\ i \div d \in Nat
         /\ i % d \in 0 .. d - 1
         /\ i = (i \div d) * d + (i % d)
<1> DEFINE q == i \div d
           r == i % d
<1>1. q \in Nat /\ r \in 0 .. d - 1 /\ i = q * d + r
  OBVIOUS
<1> QED
  BY <1>1

(* A multiple of d lies d above the one before it.                         *)
LEMMA Multiples ==
  ASSUME NEW d \in Nat, NEW n \in Nat
  PROVE  /\ n * d \in Nat
         /\ (n + 1) * d = n * d + d
         /\ \A m \in Nat : m <= n => m * d <= n * d
OBVIOUS

(* There is only one quotient and one remainder.                           *)
LEMMA DivisionIs ==
  ASSUME NEW d \in Nat \ {0}, NEW q \in Nat, NEW r \in 0 .. d - 1
  PROVE  (q * d + r) \div d = q /\ (q * d + r) % d = r
<1> DEFINE i == q * d + r
           p == i \div d
           s == i % d
<1>1. i \in Nat
  OBVIOUS
<1>2. p \in Nat /\ s \in 0 .. d - 1 /\ i = p * d + s
  BY <1>1, Division
<1>3. q * d + r = p * d + s
  BY <1>2
<1> HIDE DEF i, p, s
<1>4. ~ (p < q)
  <2> SUFFICES ASSUME p < q PROVE FALSE
    OBVIOUS
  <2>1. p + 1 <= q /\ p + 1 \in Nat
    BY <1>2
  <2>2. (p + 1) * d <= q * d /\ (p + 1) * d = p * d + d /\ p * d \in Nat /\ q * d \in Nat
    BY <1>2, <2>1, Multiples
  <2> QED
    BY <1>2, <1>3, <2>2
<1>5. ~ (q < p)
  <2> SUFFICES ASSUME q < p PROVE FALSE
    OBVIOUS
  <2>1. q + 1 <= p /\ q + 1 \in Nat
    BY <1>2
  <2>2. (q + 1) * d <= p * d /\ (q + 1) * d = q * d + d /\ p * d \in Nat /\ q * d \in Nat
    BY <1>2, <2>1, Multiples
  <2> QED
    BY <1>2, <1>3, <2>2
<1>6. p = q
  BY <1>2, <1>4, <1>5
<1>7. p * d \in Nat /\ p * d = q * d
  BY <1>2, <1>6, Multiples
<1>8. s = r
  BY <1>2, <1>3, <1>7
<1> QED
  BY <1>6, <1>8 DEF i, p, s

(* What lies below the n-th multiple of d has a quotient below n, and only *)
(* that.                                                                   *)
LEMMA QuotientBelow ==
  ASSUME NEW d \in Nat \ {0}, NEW n \in Nat, NEW i \in Nat
  PROVE  i < n * d <=> i \div d < n
<1> DEFINE q == i \div d
           r == i % d
<1>1. q \in Nat /\ r \in 0 .. d - 1 /\ i = q * d + r
  BY Division
<1> HIDE DEF q, r
<1>2. ASSUME q < n PROVE i < n * d
  <2>1. q + 1 <= n /\ q + 1 \in Nat
    BY <1>1, <1>2
  <2>2. (q + 1) * d <= n * d /\ (q + 1) * d = q * d + d /\ q * d \in Nat /\ n * d \in Nat
    BY <1>1, <2>1, Multiples
  <2> QED
    BY <1>1, <2>2
<1>3. ASSUME ~ (q < n) PROVE ~ (i < n * d)
  <2>1. n <= q
    BY <1>1, <1>3
  <2>2. n * d <= q * d /\ q * d \in Nat /\ n * d \in Nat
    BY <1>1, <2>1, Multiples
  <2> QED
    BY <1>1, <2>2
<1> QED
  BY <1>2, <1>3 DEF q
=============================================================================
