----------------------------- MODULE LeastNumber -----------------------------
(***************************************************************************)
(* Induction over data as a fact about sets: a set of naturals that is not *)
(* empty has a least element, so what holds of a number whenever it holds  *)
(* of all smaller ones has no least counterexample.                        *)
(***************************************************************************)
EXTENDS Naturals, WellFoundedInduction, TLAPS

LessPairs == {p \in Nat \X Nat : p[1] < p[2]}

(* The order of the naturals, as the library's theorems take it.           *)
LEMMA LessIsWellFounded == IsWellFoundedOn(LessPairs, Nat)
BY NatLessThanWellFounded DEF OpToRel, LessPairs

(* Every nonempty set of naturals has a least element.                     *)
LEMMA LeastOfNaturals ==
  ASSUME NEW T, T \subseteq Nat, T # {}
  PROVE  \E x \in T : \A y \in T : x <= y
<1>1. PICK x \in T : \A y \in T : ~(<<y, x>> \in LessPairs)
  BY WFMin, LessIsWellFounded
<1>2. ASSUME NEW y \in T
      PROVE  x <= y
  <2>1. x \in Nat /\ y \in Nat
    OBVIOUS
  <2>2. ~(y < x)
    BY <1>1, <2>1, Zenon DEF LessPairs
  <2> QED
    BY <2>1, <2>2
<1> QED
  BY <1>1, <1>2

(* What every number inherits from all smaller ones, every number has: the *)
(* numbers that have it are a set.                                         *)
LEMMA AllNaturals ==
  ASSUME NEW G,
         \A n \in Nat : (\A m \in Nat : m < n => m \in G) => n \in G
  PROVE  Nat \subseteq G
<1> SUFFICES ASSUME Nat \ G # {}
             PROVE  FALSE
  OBVIOUS
<1>1. PICK n \in Nat \ G : \A m \in Nat \ G : n <= m
  BY LeastOfNaturals
<1>2. \A m \in Nat : m < n => m \in G
  BY <1>1
<1> QED
  BY <1>1, <1>2
=============================================================================
