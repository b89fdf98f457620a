---------------------------- MODULE LeastNumbers ----------------------------
(* The least and the greatest number of a set, for the proofs about what   *)
(* FiniteSetsExt's Min and Max return.                                     *)
EXTENDS Integers, FiniteSetsExt, WellFoundedInduction, TLAPS

Below == {ss \in Nat \X Nat : ss[1] < ss[2]}

LEMMA BelowIsWellFounded == IsWellFoundedOn(Below, Nat)
  BY NatLessThanWellFounded, Zenon DEF OpToRel, Below

LEMMA MinExists ==
  ASSUME NEW T, T \subseteq Nat, T # {}
  PROVE  Min(T) \in T /\ \A y \in T : Min(T) <= y
<1>1. PICK x \in T : \A y \in T : ~(<<y, x>> \in Below)
  BY BelowIsWellFounded, WFMin, Zenon
<1>2. ASSUME NEW y \in T PROVE x <= y
  <2>1. SUFFICES ASSUME y < x PROVE FALSE
    BY SMT
  <2>2. <<y, x>> \in Below
    BY <2>1, SMT DEF Below
  <2> QED
    BY <2>2, <1>1
<1> QED
  BY <1>2, Zenon DEF Min

LEMMA MaxExists ==
  ASSUME NEW n \in Nat, NEW T, T \subseteq 0..n, T # {}
  PROVE  Max(T) \in T /\ \A y \in T : y <= Max(T)
<1> DEFINE R == {n - y : y \in T}
<1>0. \A y \in T : y \in Nat /\ n - y \in Nat
  <2> SUFFICES ASSUME NEW y \in T PROVE y \in Nat /\ n - y \in Nat
    OBVIOUS
  <2>1. y \in 0..n
    OBVIOUS
  <2> QED
    BY <2>1
<1>1. R \subseteq Nat /\ R # {}
  BY <1>0
<1>2. PICK x \in R : \A y \in R : x <= y
  <2> HIDE DEF R
  <2> QED BY <1>1, MinExists
<1>3. PICK z \in T : x = n - z
  BY <1>2
<1>4. ASSUME NEW y \in T PROVE z >= y
  <2>1. n - y \in R
    OBVIOUS
  <2>2. n - z <= n - y
    BY <2>1, <1>2, <1>3
  <2>3. y \in Nat /\ z \in Nat
    BY <1>0
  <2> QED
    BY <2>2, <2>3
<1>5. \E m \in T : \A y \in T : m >= y
  BY <1>4
<1>6. Max(T) \in T /\ \A y \in T : Max(T) >= y
  BY <1>5, Zenon DEF Max
<1>7. Max(T) \in Nat
  BY <1>0, <1>6
<1> QED
  BY <1>0, <1>6, <1>7
=============================================================================
