---------------------------- MODULE SetInduction ----------------------------
(***************************************************************************)
(* Induction without a predicate to instantiate: the least number of a set *)
(* of naturals, and induction on a set of naturals.  Both come from the    *)
(* fact that there is no infinite descent of finite sets, which the        *)
(* library states without an operator parameter.  A property P is then     *)
(* proved of every n as n \in {m \in Nat : P(m)}.                          *)
(***************************************************************************)
EXTENDS FiniteSetTheorems, TLAPS

LEMMA LeastNumber ==
  ASSUME NEW T \in SUBSET Nat, T # {}
  PROVE  \E x \in T : \A y \in T : x <= y
<1> DEFINE Below(x) == 0 .. x - 1
           S == {Below(x) : x \in T}
           R == StrictSubsetOrdering(Nat)
<1>1. ASSUME NEW x \in T PROVE Below(x) \in FiniteSubsetsOf(Nat)
  <2>1. IsFiniteSet(Below(x))
    BY FS_Interval
  <2>2. QED
    BY <2>1 DEF FiniteSubsetsOf
<1>2. S \subseteq FiniteSubsetsOf(Nat) /\ S # {}
  BY <1>1
<1>3. IsWellFoundedOn(R, FiniteSubsetsOf(Nat))
  BY FS_StrictSubsetOrderingWellFounded
<1>4. \E X \in S : \A Y \in S : ~ (<<Y, X>> \in R)
  <2> HIDE DEF S, R
  <2>1. QED
    BY <1>2, <1>3, WFMin
<1>5. PICK x \in T : \A y \in T : ~ (<<Below(y), Below(x)>> \in R)
  BY <1>4
<1>6. ASSUME NEW y \in T, y < x PROVE FALSE
  <2>1. Below(y) \subseteq Below(x) /\ y \in Below(x) /\ y \notin Below(y)
    BY <1>6
  <2>2. Below(y) \in SUBSET Nat /\ Below(x) \in SUBSET Nat
    OBVIOUS
  <2> HIDE DEF Below
  <2>3. <<Below(y), Below(x)>> \in R
    BY <2>1, <2>2 DEF StrictSubsetOrdering
  <2>4. QED
    BY <1>5, <2>3
<1>7. QED
  BY <1>6

LEMMA SetNatInduction ==
  ASSUME NEW S \in SUBSET Nat, 0 \in S, \A n \in S : n + 1 \in S
  PROVE  S = Nat
<1> DEFINE T == Nat \ S
<1>1. SUFFICES ASSUME T # {} PROVE FALSE
  OBVIOUS
<1>2. PICK x \in T : \A y \in T : x <= y
  BY <1>1, LeastNumber
<1>3. x # 0 /\ x - 1 \in Nat
  OBVIOUS
<1>4. x - 1 \in S
  BY <1>2, <1>3
<1>5. QED
  BY <1>4
=============================================================================
