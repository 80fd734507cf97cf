--------------------------- MODULE LeastElements ---------------------------
(***************************************************************************)
(* Least elements of sets of natural numbers, and induction in the form    *)
(* that sets give it: what the proofs about searches of arrays rest on.    *)
(***************************************************************************)
EXTENDS Integers, FiniteSetTheorems, TLAPS

\* A set of natural numbers that is not empty has a least element.
LEMMA LeastElement ==
  ASSUME NEW T, T \subseteq Nat, T # {}
  PROVE  \E x \in T : \A y \in T : x <= y
<1> DEFINE R == StrictSubsetOrdering(Nat)
           below == {0 .. x : x \in T}
<1>1. below \subseteq FiniteSubsetsOf(Nat)
  <2> SUFFICES ASSUME NEW x \in T PROVE 0 .. x \in FiniteSubsetsOf(Nat)
    OBVIOUS
  <2>1. IsFiniteSet(0 .. x)
    BY FS_Interval
  <2> QED
    BY <2>1 DEF FiniteSubsetsOf
<1>2. IsWellFoundedOn(R, FiniteSubsetsOf(Nat))
  BY FS_StrictSubsetOrderingWellFounded
<1>3. \A x, y \in T : x < y => <<0 .. x, 0 .. y>> \in R
  <2> SUFFICES ASSUME NEW x \in T, NEW y \in T, x < y
               PROVE  <<0 .. x, 0 .. y>> \in R
    OBVIOUS
  <2>1. 0 .. x \subseteq 0 .. y /\ 0 .. y \subseteq Nat
    OBVIOUS
  <2>2. y \in 0 .. y /\ y \notin 0 .. x
    OBVIOUS
  <2>3. 0 .. x # 0 .. y
    BY <2>2
  <2> QED
    BY <2>1, <2>3 DEF StrictSubsetOrdering
<1>4. below # {}
  OBVIOUS
<1>5. \E least \in below : \A other \in below : ~(<<other, least>> \in R)
  <2> HIDE DEF R, below
  <2> QED
    BY <1>1, <1>2, <1>4, WFMin
<1>6. PICK x \in T : \A other \in below : ~(<<other, 0 .. x>> \in R)
  BY <1>5
<1>7. ASSUME NEW y \in T
      PROVE  x <= y
  <2>1. ~(<<0 .. y, 0 .. x>> \in R)
    BY <1>6
  <2>2. ~(y < x)
    BY <1>3, <2>1
  <2> QED
    BY <2>2
<1> QED
  BY <1>6, <1>7

\* A set that holds 0, and with each number below n the next, holds all of them
\* up to n.
LEMMA SetInduction ==
  ASSUME NEW n \in Nat, NEW S, 0 \in S, \A k \in 0 .. n - 1 : k \in S => k + 1 \in S
  PROVE  0 .. n \subseteq S
<1> SUFFICES ASSUME 0 .. n \ S # {} PROVE FALSE
  OBVIOUS
<1>1. PICK x \in 0 .. n \ S : \A y \in 0 .. n \ S : x <= y
  <2>1. 0 .. n \ S \subseteq Nat
    OBVIOUS
  <2> QED
    BY <2>1, LeastElement
<1>2. x # 0
  OBVIOUS
<1>3. x - 1 \in 0 .. n - 1 /\ x - 1 \in S
  BY <1>1, <1>2
<1>4. (x - 1) + 1 \in S
  BY <1>3
<1> QED
  BY <1>4
=============================================================================
