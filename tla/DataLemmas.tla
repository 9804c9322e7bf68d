----------------------------- MODULE DataLemmas -----------------------------
(***************************************************************************)
(* What the proofs about more than one component need of numbers: the      *)
(* least counterexample, by which facts about recursive functions are      *)
(* proved, and its mirror image.                                           *)
(***************************************************************************)
EXTENDS Integers, WellFoundedInduction, TLAPS

\* A set of naturals has a least element.
LEMMA LeastNumber ==
    ASSUME NEW T \in SUBSET Nat, T # {}
    PROVE  \E x \in T : \A y \in T : x <= y
<1> DEFINE less == {ss \in Nat \X Nat : ss[1] < ss[2]}
<1>1. IsWellFoundedOn(less, Nat)
  BY NatLessThanWellFounded DEF OpToRel
<1> HIDE DEF less
<1>2. PICK x \in T : \A y \in T : ~(<<y, x>> \in less)
  BY <1>1, WFMin
<1>3. \A y \in T : y < x => <<y, x>> \in less
  BY DEF less
<1>4. \A y \in T : y \in Int /\ x \in Int
  OBVIOUS
<1>5. \A y \in T : ~(y < x)
  BY <1>2, <1>3
<1>6. \A y \in T : x <= y
  BY <1>4, <1>5
<1> QED
  BY <1>6

\* A set of numbers up to n has a greatest element.
LEMMA GreatestNumber ==
    ASSUME NEW n \in Nat, NEW S \in SUBSET (0 .. n), S # {}
    PROVE  \E x \in S : \A y \in S : y <= x
<1> DEFINE bounds == {b \in Nat : \A i \in S : i <= b}
<1>1. n \in bounds /\ bounds \subseteq Nat
  OBVIOUS
<1>2. PICK b \in bounds : \A c \in bounds : b <= c
  BY <1>1, LeastNumber
<1>3. b \in S
  <2> SUFFICES ASSUME b \notin S PROVE FALSE
    OBVIOUS
  <2>1. \A i \in S : i < b /\ i \in Nat
    BY <1>2
  <2>2. PICK i \in S : TRUE
    OBVIOUS
  <2>3. b - 1 \in Nat
    BY <1>2, <2>1, <2>2
  <2>4. b - 1 \in bounds
    BY <1>2, <2>1, <2>3
  <2> QED
    BY <1>2, <2>3, <2>4
<1> QED
  BY <1>2, <1>3

\* Induction over the numbers up to n, as a fact about a set.
LEMMA UpTo ==
    ASSUME NEW n \in Nat, NEW S, 0 \in S,
           \A k \in 0 .. n - 1 : k \in S => k + 1 \in S
    PROVE  0 .. n \subseteq S
<1> DEFINE T == (0 .. n) \ S
<1> SUFFICES ASSUME T # {} PROVE FALSE
  OBVIOUS
<1>1. PICK m \in T : \A x \in T : m <= x
  <2>1. T \subseteq Nat
    OBVIOUS
  <2> QED
    BY <2>1, LeastNumber
<1>2. m - 1 \in 0 .. n - 1 /\ m - 1 \notin T
  BY <1>1
<1>3. (m - 1) + 1 = m
  BY <1>1
<1> QED
  BY <1>1, <1>2, <1>3

\* Quotient and remainder.
LEMMA DivMod ==
    ASSUME NEW M \in Nat \ {0}, NEW a \in Nat
    PROVE  /\ a \div M \in Nat /\ a % M \in 0 .. M - 1
           /\ a = M * (a \div M) + (a % M)
OBVIOUS

\* There is no other.
LEMMA DivModOf ==
    ASSUME NEW M \in Nat \ {0}, NEW q \in Nat, NEW r \in 0 .. M - 1
    PROVE  (M * q + r) % M = r /\ (M * q + r) \div M = q
<1> DEFINE x == M * q + r
           d == x \div M
           t == x % M
<1>1. x \in Nat
  OBVIOUS
<1>2. d \in Nat /\ t \in 0 .. M - 1 /\ x = M * d + t
  BY <1>1, DivMod
<1> HIDE DEF d, t
<1>3. ~(d < q)
  <2> SUFFICES ASSUME d < q PROVE FALSE
    OBVIOUS
  <2>1. M * (d + 1) <= M * q
    BY <1>2
  <2>2. M * (d + 1) = M * d + M
    BY <1>2
  <2> QED
    BY <1>2, <2>1, <2>2
<1>4. ~(q < d)
  <2> SUFFICES ASSUME q < d PROVE FALSE
    OBVIOUS
  <2>1. M * (q + 1) <= M * d
    BY <1>2
  <2>2. M * (q + 1) = M * q + M
    OBVIOUS
  <2> QED
    BY <1>2, <2>1, <2>2
<1>5. d = q /\ t = r
  BY <1>2, <1>3, <1>4
<1> QED
  BY <1>5 DEF d, t

\* M numbers in a row leave every remainder.
LEMMA Remainders ==
    ASSUME NEW M \in Nat \ {0}, NEW a \in Nat, NEW S \in SUBSET Nat, a .. a + M - 1 \subseteq S
    PROVE  {s % M : s \in S} = 0 .. M - 1
<1>1. ASSUME NEW s \in S PROVE s % M \in 0 .. M - 1
  BY DivMod
<1>2. ASSUME NEW r \in 0 .. M - 1 PROVE \E s \in S : s % M = r
  <2>1. PICK q \in Nat, t \in 0 .. M - 1 : a = M * q + t
    BY DivMod
  <2>2. CASE t <= r
    <3> DEFINE s == M * q + r
    <3>1. s \in a .. a + M - 1
      BY <2>1, <2>2
    <3>2. s % M = r
      BY DivModOf
    <3> QED
      BY <3>1, <3>2
  <2>3. CASE ~(t <= r)
    <3> DEFINE s == M * (q + 1) + r
    <3>1. M * (q + 1) = M * q + M
      OBVIOUS
    <3>2. s \in a .. a + M - 1
      BY <2>1, <2>3, <3>1
    <3>3. s % M = r
      BY DivModOf
    <3> QED
      BY <3>2, <3>3
  <2> QED
    BY <2>2, <2>3
<1> QED
  BY <1>1, <1>2
=============================================================================
