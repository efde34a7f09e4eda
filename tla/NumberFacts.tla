---------------------------- MODULE NumberFacts ----------------------------
(* Least and greatest elements of sets of numbers, for the proofs about    *)
(* definitions that choose one.                                            *)
EXTENDS Integers, FiniteSetTheorems, WellFoundedInduction, TLAPS

\* A set of natural numbers has a least element: the intervals 0..y are finite,
\* and the strict inclusion of finite sets is well founded.
LEMMA LeastNatural ==
  ASSUME NEW T, T \subseteq Nat, T # {}
  PROVE  \E x \in T : \A y \in T : x <= y
<1> DEFINE Down == {0..y : y \in T}
           Below == StrictSubsetOrdering(Nat)
<1>1. Down \subseteq FiniteSubsetsOf(Nat)
  <2>1. ASSUME NEW y \in T PROVE 0..y \in FiniteSubsetsOf(Nat)
    BY FS_Interval DEF FiniteSubsetsOf
  <2>2. QED
    BY <2>1
<1>2. Down # {}
  OBVIOUS
<1>3. PICK X \in Down : \A Y \in Down : <<Y, X>> \notin Below
  <2> HIDE DEF Down, Below
  <2>1. IsWellFoundedOn(Below, FiniteSubsetsOf(Nat))
    BY FS_StrictSubsetOrderingWellFounded DEF Below
  <2>2. QED
    BY <1>1, <1>2, <2>1, WFMin
<1>4. PICK x \in T : X = 0..x
  OBVIOUS
<1>5. ASSUME NEW y \in T PROVE x <= y
  <2>1. SUFFICES ASSUME y < x PROVE FALSE
    OBVIOUS
  <2>2. 0..y \subseteq 0..x /\ x \in 0..x /\ x \notin 0..y
    BY <2>1
  <2>3. 0..y \in Down /\ 0..y \in FiniteSubsetsOf(Nat) /\ 0..x \in FiniteSubsetsOf(Nat)
    BY <1>1
  <2>4. <<0..y, 0..x>> \in Below
    BY <2>2, <2>3 DEF StrictSubsetOrdering, FiniteSubsetsOf
  <2>5. QED
    BY <1>3, <1>4, <2>3, <2>4
<1>6. QED
  BY <1>5

\* A set of natural numbers up to n has a greatest element.
LEMMA GreatestUpTo ==
  ASSUME NEW n \in Nat, NEW S, S \subseteq 0..n, S # {}
  PROVE  \E x \in S : \A y \in S : x >= y
<1> DEFINE T == {n - y : y \in S}
<1>1. T \subseteq Nat /\ T # {}
  <2>1. PICK z \in S : TRUE
    OBVIOUS
  <2>2. n - z \in T
    BY <2>1
  <2>3. \A y \in S : n - y \in Nat
    OBVIOUS
  <2>4. QED
    BY <2>2, <2>3
<1>2. PICK m \in T : \A y \in T : m <= y
  <2> HIDE DEF T
  <2> QED
    BY <1>1, LeastNatural
<1>3. PICK x \in S : m = n - x
  OBVIOUS
<1>4. ASSUME NEW y \in S PROVE x >= y
  <2>1. n - y \in T
    OBVIOUS
  <2>2. n - x <= n - y
    BY <1>2, <1>3, <2>1
  <2>3. QED
    BY <2>2
<1>5. QED
  BY <1>4
=============================================================================
