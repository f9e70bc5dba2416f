------------------------------ MODULE Extrema ------------------------------
(***************************************************************************)
(* The least and the greatest of some natural numbers: what the operators  *)
(* of FiniteSetsExt return, for the proofs about modules that use them.    *)
(***************************************************************************)
EXTENDS FiniteSetsExt, WellFoundedInduction, FiniteSetTheorems, TLAPS

(* A set of naturals that is not empty has a least element. *)
LEMMA LeastNatural ==
    ASSUME NEW S \in SUBSET Nat, S # {}
    PROVE  \E x \in S : \A y \in S : x <= y
<1> DEFINE R == OpToRel(<, Nat)
<1>1. IsWellFoundedOn(R, Nat)
  BY NatLessThanWellFounded
<1>2. \A x, y \in S : y < x => <<y, x>> \in R
  BY DEF OpToRel
<1> HIDE DEF R
<1>3. PICK x \in S : \A y \in S : ~(<<y, x>> \in R)
  BY <1>1, WFMin, Zenon
<1>4. \A y \in S : ~(y < x)
  BY <1>2, <1>3, Zenon
<1>5. \A y \in S : x <= y
  BY <1>4
<1> QED
  BY <1>5

(* Min of FiniteSetsExt, of naturals, is the least of them. *)
LEMMA MinIs ==
    ASSUME NEW S \in SUBSET Nat, S # {}
    PROVE  Min(S) \in S /\ \A y \in S : Min(S) <= y
<1>1. PICK x \in S : \A y \in S : x <= y
  BY LeastNatural
<1> DEFINE P(z) == z \in S /\ \A y \in S : z <= y
<1>2. Min(S) = CHOOSE z : P(z)
  BY Zenon DEF Min
<1>3. P(x)
  BY <1>1
<1> HIDE DEF P
<1>4. P(Min(S))
  BY <1>2, <1>3, Zenon
<1> QED
  BY <1>4 DEF P

(* Max of FiniteSetsExt, of bounded naturals, is the greatest of them. *)
LEMMA MaxIs ==
    ASSUME NEW S \in SUBSET Nat, S # {}, NEW n \in Nat, \A x \in S : x <= n
    PROVE  Max(S) \in S /\ \A y \in S : Max(S) >= y
<1> DEFINE T == {k \in Nat : \A x \in S : x <= k}
<1>1. PICK m \in T : \A k \in T : m <= k
  <2>1. n \in T /\ T \in SUBSET Nat
    OBVIOUS
  <2> HIDE DEF T
  <2> QED
    BY <2>1, LeastNatural
<1>2. m \in S
  <2> SUFFICES ASSUME m \notin S PROVE FALSE
    OBVIOUS
  <2>1. \A x \in S : x <= m - 1
    BY <1>1
  <2>2. PICK x \in S : x <= m - 1
    BY <2>1
  <2>3. m - 1 \in T
    BY <2>1, <2>2, <1>1
  <2> QED
    BY <2>3, <1>1
<1> DEFINE P(z) == z \in S /\ \A y \in S : z >= y
<1>3. Max(S) = CHOOSE z : P(z)
  BY Zenon DEF Max
<1>4. P(m)
  BY <1>1, <1>2
<1> HIDE DEF P
<1>5. P(Max(S))
  BY <1>3, <1>4, Zenon
<1> QED
  BY <1>5 DEF P
=============================================================================
