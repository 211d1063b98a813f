---------------------------- MODULE NumberTheorems ----------------------------
(***************************************************************************)
(* Facts about natural numbers that several proofs need.                   *)
(*                                                                         *)
(* Induction is stated for a set of numbers instead of a predicate, and    *)
(* follows from the fact that inclusion of finite sets is well-founded.    *)
(***************************************************************************)
EXTENDS Integers, FiniteSets, FiniteSetTheorems, TLAPS

\* A set of numbers has a least one.
LEMMA LeastNumber ==
    ASSUME NEW S \in SUBSET Nat, S # {}
    PROVE  \E m \in S : \A k \in S : m <= k
<1> DEFINE Below == {0 .. m : m \in S}
           Inside == StrictSubsetOrdering(Nat)
<1>1. Below \subseteq FiniteSubsetsOf(Nat)
  <2> SUFFICES ASSUME NEW m \in S PROVE 0 .. m \in SUBSET Nat /\ IsFiniteSet(0 .. m)
    BY DEF FiniteSubsetsOf
  <2>. QED BY FS_Interval
<1>2. Below # {} /\ IsWellFoundedOn(Inside, FiniteSubsetsOf(Nat))
  BY FS_StrictSubsetOrderingWellFounded
<1>. HIDE DEF Below, Inside
<1>3. PICK least \in Below : \A other \in Below : <<other, least>> \notin Inside
  BY <1>1, <1>2, WFMin
<1>4. PICK m \in S : least = 0 .. m
  BY DEF Below
<1>5. ASSUME NEW k \in S PROVE m <= k
  <2>1. <<0 .. k, 0 .. m>> \notin Inside
    BY <1>3, <1>4 DEF Below
  <2>2. k < m => m \in 0 .. m /\ m \notin 0 .. k
    OBVIOUS
  <2>3. k < m => 0 .. k \subseteq 0 .. m /\ 0 .. k # 0 .. m
    BY <2>2
  <2>. QED BY <2>1, <2>3 DEF Inside, StrictSubsetOrdering
<1>. QED BY <1>5

\* A set of numbers that has 0 and every successor has every number.
LEMMA Induction ==
    ASSUME NEW S \in SUBSET Nat, 0 \in S, \A n \in S : n + 1 \in S
    PROVE  S = Nat
<1> SUFFICES ASSUME Nat \ S # {} PROVE FALSE
  OBVIOUS
<1>1. PICK m \in Nat \ S : \A k \in Nat \ S : m <= k
  BY LeastNumber
<1>2. m - 1 \in S
  BY <1>1
<1>. QED BY <1>2

\* The same up to a bound.
LEMMA InductionTo ==
    ASSUME NEW n \in Nat, NEW S, 0 \in S, \A k \in 0 .. n - 1 : k \in S => k + 1 \in S
    PROVE  0 .. n \subseteq S
<1> DEFINE X == {k \in Nat : k <= n => k \in S}
<1>1. 0 \in X
  OBVIOUS
<1>2. ASSUME NEW k \in X PROVE k + 1 \in X
  <2>1. CASE k + 1 <= n
    <3>1. k \in 0 .. n - 1 /\ k \in S
      BY <2>1
    <3>. QED BY <3>1
  <2>. QED BY <2>1
<1>3. X \subseteq Nat
  OBVIOUS
<1>. HIDE DEF X
<1>4. X = Nat
  BY <1>1, <1>2, <1>3, Induction
<1>. QED BY <1>4 DEF X

-----------------------------------------------------------------------------
\* Multiplication keeps the order of numbers.
LEMMA Products ==
    /\ \A a, b, g \in Nat : a <= b => a * g <= b * g
    /\ \A a, b, g \in Nat : a * g < b * g => a < b
    /\ \A a, b \in Nat : a * b \in Nat
<1>1. ASSUME NEW a \in Nat, NEW b \in Nat, NEW g \in Nat, a <= b PROVE a * g <= b * g
  <2>1. b - a \in Nat /\ (b - a) * g \in Nat /\ b * g = a * g + (b - a) * g /\ a * g \in Nat
    BY <1>1
  <2>. QED BY <2>1
<1>. QED BY <1>1

\* A common factor can be cancelled.
LEMMA Cancels ==
    /\ \A a, b \in Nat, g \in Nat \ {0} : a * g <= b * g => a <= b
    /\ \A a, b \in Nat, g \in Nat \ {0} : a * g < b * g => a < b
<1>1. ASSUME NEW a \in Nat, NEW b \in Nat, NEW g \in Nat \ {0}, b < a PROVE b * g < a * g
  <2>1. a - b \in Nat \ {0}
    BY <1>1
  <2>2. (a - b) * g >= 1 /\ a * g = b * g + (a - b) * g /\ b * g \in Nat /\ (a - b) * g \in Nat
    <3>1. 1 * g <= (a - b) * g
      BY <2>1, Products
    <3>. QED BY <2>1, <3>1
  <2>. QED BY <2>2
<1>2. \A a, b, g \in Nat : a * g \in Nat /\ b * g \in Nat
  OBVIOUS
<1>3. \A a, b, g \in Nat : a < b \/ a = b \/ b < a
  OBVIOUS
<1>4. ASSUME NEW a \in Nat, NEW b \in Nat, NEW g \in Nat \ {0}, ~(a <= b) PROVE ~(a * g <= b * g)
  <2>. DEFINE x == a * g
              y == b * g
  <2>1. y < x /\ x \in Nat /\ y \in Nat
    BY <1>1, <1>2, <1>4
  <2>. HIDE DEF x, y
  <2>2. ~(x <= y)
    BY <2>1
  <2>. QED BY <2>2 DEF x, y
<1>. QED BY <1>4, Products

=============================================================================
