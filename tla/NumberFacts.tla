---------------------------- MODULE NumberFacts ----------------------------
(***************************************************************************)
(* The least and the greatest of a set of numbers: a fact about a          *)
(* recursive function is proved from its least counterexample, as the      *)
(* provers cannot instantiate a theorem about every predicate, and the     *)
(* numbers given to commands from the greatest in use.                     *)
(***************************************************************************)
EXTENDS Integers, WellFoundedInduction, TLAPS

\* A set of numbers has a least one.
LEMMA LeastNumber == ASSUME NEW S \in SUBSET Nat, S # {} PROVE \E n \in S : \A m \in S : n <= m
<1> DEFINE R == OpToRel(<, Nat)
<1>1. IsWellFoundedOn(R, Nat)
  BY NatLessThanWellFounded
<1>2. \A m, n \in Nat : <<m, n>> \in R <=> m < n
  BY DEF OpToRel
<1> HIDE DEF R
<1>3. \E n \in S : \A m \in S : <<m, n>> \notin R
  BY <1>1, WFMin
<1>4. PICK n \in S : \A m \in S : <<m, n>> \notin R
  BY <1>3
<1>5. ASSUME NEW m \in S PROVE n <= m
  <2>1. n \in Nat /\ m \in Nat
    OBVIOUS
  <2>2. ~(m < n)
    BY <1>2, <1>4, <2>1
  <2>3. QED
    BY <2>1, <2>2
<1>6. QED
  BY <1>5

\* A set of numbers that has a bound has a greatest one.
LEMMA GreatestNumber ==
  ASSUME NEW S \in SUBSET Nat, S # {}, NEW b \in Nat, \A m \in S : m <= b
  PROVE  \E n \in S : \A m \in S : m <= n
<1> DEFINE T == {k \in Nat : \E m \in S : m = b - k}
<1>0. \A m \in S : m \in Nat /\ b - m \in T /\ b - (b - m) = m
  <2> TAKE m \in S
  <2>1. m \in Nat /\ m <= b
    OBVIOUS
  <2>2. b - m \in Nat /\ b - (b - m) = m
    BY <2>1
  <2>3. QED
    BY <2>1, <2>2
<1>1. T \in SUBSET Nat /\ T # {}
  BY <1>0
<1>2. PICK k \in T : \A m \in T : k <= m
  BY <1>1, LeastNumber
<1>3. PICK n \in S : n = b - k
  OBVIOUS
<1>4. ASSUME NEW m \in S PROVE m <= n
  <2>1. k <= b - m /\ m \in Nat /\ k \in Nat
    BY <1>0, <1>2
  <2>2. QED
    BY <1>3, <2>1
<1>5. QED
  BY <1>4
=============================================================================
