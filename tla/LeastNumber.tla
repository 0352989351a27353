----------------------------- MODULE LeastNumber -----------------------------
(***************************************************************************)
(* Every set of numbers that is not empty has a least one.  A proof that   *)
(* would go by induction on a number takes the least counterexample        *)
(* instead: unlike the induction theorems of the library, this one has no  *)
(* operator to instantiate.                                                *)
(***************************************************************************)
EXTENDS Integers, FiniteSetTheorems, TLAPS

(* Among the intervals from 0 to the members of T, which are finite sets,  *)
(* one is minimal for inclusion.                                           *)
LEMMA LeastUpTo ==
  ASSUME NEW n \in Nat, NEW T, T \subseteq 0 .. n, T # {}
  PROVE  \E x \in T : \A y \in T : x <= y
<1> DEFINE R == StrictSubsetOrdering(0 .. n)
           F == {0 .. k : k \in T}
<1>1. IsWellFoundedOn(R, SUBSET (0 .. n))
  <2>1. IsFiniteSet(0 .. n)
    BY FS_Interval
  <2>2. FiniteSubsetsOf(0 .. n) = SUBSET (0 .. n)
    BY <2>1, FS_FiniteSubsetsOfFinite
  <2> QED
    BY <2>2, FS_StrictSubsetOrderingWellFounded
<1>2. F \subseteq SUBSET (0 .. n)
  <2> SUFFICES ASSUME NEW k \in T PROVE 0 .. k \subseteq 0 .. n
    OBVIOUS
  <2> QED
    OBVIOUS
<1>3. F # {}
  OBVIOUS
<1>4. \E A \in F : \A B \in F : <<B, A>> \notin R
  <2> HIDE DEF R, F
  <2> QED
    BY <1>1, <1>2, <1>3, WFMin
<1>5. PICK x \in T : \A y \in T : <<0 .. y, 0 .. x>> \notin R
  BY <1>4
<1>6. ASSUME NEW y \in T, y < x PROVE FALSE
  <2> DEFINE p == <<0 .. y, 0 .. x>>
  <2>1. 0 .. y \subseteq 0 .. x /\ x \in 0 .. x /\ x \notin 0 .. y
    BY <1>6
  <2>2. 0 .. y \in SUBSET (0 .. n) /\ 0 .. x \in SUBSET (0 .. n) /\ 0 .. y # 0 .. x
    BY <2>1, <1>2
  <2>3. p \in (SUBSET (0 .. n)) \X (SUBSET (0 .. n)) /\ p[1] = 0 .. y /\ p[2] = 0 .. x
    BY <2>2
  <2> HIDE DEF p
  <2>4. p \in StrictSubsetOrdering(0 .. n)
    BY <2>1, <2>2, <2>3 DEF StrictSubsetOrdering
  <2> QED
    BY <2>4, <1>5 DEF p
<1> QED
  BY <1>5, <1>6

THEOREM LeastNat ==
  ASSUME NEW T, T \subseteq Nat, T # {}
  PROVE  \E x \in T : \A y \in T : x <= y
<1>1. PICK n \in T : TRUE
  OBVIOUS
<1> DEFINE U == T \intersect (0 .. n)
<1>2. U \subseteq 0 .. n /\ U # {} /\ n \in Nat
  BY <1>1
<1>3. PICK x \in U : \A y \in U : x <= y
  <2> HIDE DEF U
  <2> QED
    BY <1>2, LeastUpTo
<1>4. \A y \in T : x <= y
  BY <1>2, <1>3
<1> QED
  BY <1>3, <1>4
=============================================================================
