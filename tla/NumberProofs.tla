---------------------------- MODULE NumberProofs ----------------------------
(***************************************************************************)
(* The arithmetic of slots in a circular array, the least number of a set, *)
(* and induction.                                                          *)
(***************************************************************************)
EXTENDS FiniteSetsExt, WellFoundedInduction, TLAPS

\* The least element of a set of numbers.
LEMMA MinProperties ==
    ASSUME NEW S \in SUBSET Nat, S # {}
    PROVE  /\ Min(S) \in S
           /\ \A n \in S : Min(S) <= n
<1>1. \E m \in S : \A n \in S : ~ (<<n, m>> \in OpToRel(<, Nat))
  BY NatLessThanWellFounded, WFMin
<1>2. PICK m \in S : \A n \in S : ~ (<<n, m>> \in OpToRel(<, Nat))
  BY <1>1
<1>3. ASSUME NEW n \in S PROVE m <= n
  <2>1. CASE n < m
    <3>1. <<n, m>> \in Nat \X Nat /\ <<n, m>>[1] < <<n, m>>[2]
      BY <2>1
    <3>2. <<n, m>> \in OpToRel(<, Nat)
      BY <3>1 DEF OpToRel
    <3> QED
      BY <1>2, <3>2
  <2> QED
    BY <2>1
<1> QED
  BY <1>3 DEF Min

\* Induction, for a set in place of a predicate.
LEMMA SetInduction ==
    ASSUME NEW S, 0 \in S, \A n \in Nat : n \in S => n + 1 \in S
    PROVE  Nat \subseteq S
<1> DEFINE Rest == Nat \ S
<1>1. SUFFICES ASSUME Rest # {} PROVE FALSE
  OBVIOUS
<1>2. Min(Rest) \in Rest /\ \A n \in Rest : Min(Rest) <= n
  BY <1>1, MinProperties
<1>3. PICK m \in Rest : \A n \in Rest : m <= n
  BY <1>2
<1>4. m - 1 \in Nat /\ m - 1 \notin Rest
  BY <1>3
<1>5. m \in S
  BY <1>4
<1> QED
  BY <1>5

LEMMA DivMod ==
    ASSUME NEW s \in Nat \ {0}, NEW a \in Nat
    PROVE  a = s * (a \div s) + (a % s) /\ (a \div s) \in Int
OBVIOUS

LEMMA MultiplePositive ==
    ASSUME NEW s \in Nat \ {0}, NEW k \in Int
    PROVE  (k >= 1 => s * k >= s) /\ (k <= 0 => s * k <= 0)
OBVIOUS

LEMMA MultipleDifference ==
    ASSUME NEW s \in Int, NEW k \in Int, NEW j \in Int
    PROVE  s * (k - j) = s * k - s * j
OBVIOUS

\* Two different numbers less than the size of an array apart have different
\* slots: within a window, no packet takes the place of another.
LEMMA SlotsDiffer ==
    ASSUME NEW s \in Nat \ {0}, NEW a \in Nat, NEW b \in Nat, a < b, b < a + s
    PROVE  a % s # b % s
<1> DEFINE i == a \div s
           j == b \div s
<1>1. /\ i \in Int /\ a = s * i + (a % s)
      /\ j \in Int /\ b = s * j + (b % s)
  BY DivMod
<1>2. SUFFICES ASSUME a % s = b % s PROVE FALSE
  OBVIOUS
<1>3. a % s \in Int /\ s * i \in Int /\ s * j \in Int
  BY <1>1
<1> HIDE DEF i, j
<1>4. b - a = s * (j - i) /\ j - i \in Int
  BY <1>1, <1>2, <1>3, MultipleDifference
<1>5. CASE j - i >= 1
  BY <1>4, <1>5, MultiplePositive
<1>6. CASE j - i <= 0
  BY <1>4, <1>6, MultiplePositive
<1> QED
  BY <1>4, <1>5, <1>6
=============================================================================
