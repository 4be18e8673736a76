----------------------------- MODULE NumberFacts -----------------------------
(***************************************************************************)
(* Facts about natural numbers that several proofs need: least and         *)
(* greatest elements, and induction over a set of numbers.  They follow    *)
(* from the fact that finite sets are well-founded under inclusion.        *)
(***************************************************************************)
EXTENDS Integers, FiniteSetsExt, FiniteSetTheorems, TLAPS

\* A set of natural numbers has a least element.
LEMMA LeastNatural ==
  ASSUME NEW T, T \subseteq Nat, T # {}
  PROVE  \E x \in T : \A y \in T : x <= y
<1> DEFINE R == StrictSubsetOrdering(Nat)
           U == { 1..n : n \in T }
<1>1. IsWellFoundedOn(R, FiniteSubsetsOf(Nat))
  BY FS_StrictSubsetOrderingWellFounded
<1>2. U # {} /\ U \subseteq FiniteSubsetsOf(Nat)
  <2>1. \A n \in T : 1..n \in SUBSET Nat /\ IsFiniteSet(1..n)
    BY FS_Interval
  <2> QED
    BY <2>1 DEF FiniteSubsetsOf
<1>3. \E x \in U : \A y \in U : ~ (<<y, x>> \in R)
  <2> HIDE DEF R, U
  <2> QED
    BY <1>1, <1>2, WFMin
<1>4. PICK n \in T : \A m \in T : ~ (<<1..m, 1..n>> \in R)
  BY <1>3
<1>5. ASSUME NEW m \in T, m < n PROVE FALSE
  <2>1. n \in 1..n /\ n \notin 1..m /\ 1..m \subseteq 1..n
    BY <1>5
  <2>2. 1..m # 1..n
    BY <2>1
  <2>3. 1..m \in SUBSET Nat /\ 1..n \in SUBSET Nat
    BY <1>5
  <2>4. <<1..m, 1..n>> \in R
    BY <2>1, <2>2, <2>3, Zenon DEF StrictSubsetOrdering
  <2> QED
    BY <2>4, <1>4, <1>5
<1> QED
  BY <1>4, <1>5

\* Induction.
LEMMA NaturalInduction ==
  ASSUME NEW S, 0 \in S, \A n \in Nat : n \in S => n + 1 \in S
  PROVE  Nat \subseteq S
<1>1. SUFFICES ASSUME Nat \ S # {} PROVE FALSE
  OBVIOUS
<1>2. PICK x \in Nat \ S : \A y \in Nat \ S : x <= y
  BY <1>1, LeastNatural
<1>3. x # 0 /\ x - 1 \in Nat
  BY <1>2
<1>4. x - 1 \in S
  BY <1>2, <1>3
<1> QED
  BY <1>2, <1>3, <1>4

\* A bounded set of natural numbers has a greatest element, and Max is it.
LEMMA GreatestNatural ==
  ASSUME NEW T, T \subseteq Nat, T # {}, NEW b \in Nat, \A y \in T : y <= b
  PROVE  Max(T) \in T /\ \A y \in T : y <= Max(T)
<1> DEFINE U == { n \in Nat : \A y \in T : y <= n }
<1>1. PICK n \in U : \A m \in U : n <= m
  <2>1. U \subseteq Nat /\ b \in U
    OBVIOUS
  <2> QED
    BY <2>1, LeastNatural
<1>2. n \in T
  <2>1. SUFFICES ASSUME n \notin T PROVE FALSE
    OBVIOUS
  <2>2. \A y \in T : y <= n - 1
    BY <1>1, <2>1
  <2>3. n - 1 \in Nat
    <3>1. PICK y \in T : y \in Nat /\ y <= n - 1
      BY <2>2
    <3> QED
      BY <3>1
  <2> QED
    BY <1>1, <2>2, <2>3
<1>3. \E t \in T : \A s \in T : t >= s
  BY <1>1, <1>2
<1>4. Max(T) \in T /\ \A s \in T : Max(T) >= s
  BY <1>3 DEF Max
<1> QED
  BY <1>4

\* A set of natural numbers has a minimum, and Min is it.
LEMMA MinOfNaturals ==
  ASSUME NEW T, T \subseteq Nat, T # {}
  PROVE  Min(T) \in T /\ \A y \in T : Min(T) <= y
<1>1. \E t \in T : \A s \in T : t <= s
  BY LeastNatural
<1> QED
  BY <1>1 DEF Min
=============================================================================
