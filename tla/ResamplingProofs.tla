--------------------------- MODULE ResamplingProofs ---------------------------
(***************************************************************************)
(* Proofs about Resampling, for any number of particles, any weights and   *)
(* any draws.                                                              *)
(***************************************************************************)
EXTENDS Resampling, NumberTheorems, FiniteSetTheorems, SequenceTheorems, TLAPS

(***************************************************************************)
(* The cumulated weights.                                                  *)
(***************************************************************************)

\* One turn of the recursion.
LEMMA SumsExist ==
    ASSUME NEW n \in Nat, NEW w \in [1 .. n -> Nat]
    PROVE  \E f : f = [k \in 0 .. n |-> IF k = 0 THEN 0 ELSE f[k - 1] + w[k]]
<1> DEFINE Sums(f, m) == /\ f \in [0 .. m -> Nat]
                         /\ f[0] = 0
                         /\ \A k \in 1 .. m : f[k] = f[k - 1] + w[k]
           S == {m \in 0 .. n : \E f : Sums(f, m)}
<1>1. 0 \in S
  <2>1. Sums([k \in 0 .. 0 |-> 0], 0)
    OBVIOUS
  <2>. HIDE DEF Sums
  <2>. QED BY <2>1
<1>2. ASSUME NEW m \in 0 .. n - 1, m \in S PROVE m + 1 \in S
  <2>1. PICK f : Sums(f, m)
    BY <1>2
  <2> DEFINE g == [k \in 0 .. m + 1 |-> IF k = m + 1 THEN f[m] + w[m + 1] ELSE f[k]]
  <2>2. f[m] \in Nat /\ w[m + 1] \in Nat
    BY <2>1
  <2>3. g \in [0 .. m + 1 -> Nat]
    BY <2>1, <2>2
  <2>4. g[0] = 0
    BY <2>1
  <2>5. ASSUME NEW k \in 1 .. m + 1 PROVE g[k] = g[k - 1] + w[k]
    <3>1. CASE k = m + 1
      BY <3>1
    <3>2. CASE k # m + 1
      BY <2>1, <3>2
    <3>. QED BY <3>1, <3>2
  <2>6. Sums(g, m + 1)
    BY <2>3, <2>4, <2>5
  <2>. HIDE DEF Sums, g
  <2>. QED BY <2>6
<1>. HIDE DEF S
<1>3. 0 .. n \subseteq S
  BY <1>1, <1>2, InductionTo
<1>4. PICK f : Sums(f, n)
  <2>. HIDE DEF Sums
  <2>. QED BY <1>3 DEF S
<1>5. f = [k \in 0 .. n |-> f[k]]
  BY <1>4
<1>6. \A k \in 0 .. n : f[k] = IF k = 0 THEN 0 ELSE f[k - 1] + w[k]
  BY <1>4
<1>7. [k \in 0 .. n |-> f[k]] = [k \in 0 .. n |-> IF k = 0 THEN 0 ELSE f[k - 1] + w[k]]
  BY <1>6
<1>. QED BY <1>5, <1>7

Weighed == weights \in [1 .. J -> Nat]

LEMMA UptoSteps ==
    ASSUME Weighed
    PROVE  /\ Upto(0) = 0
           /\ \A k \in 1 .. J : Upto(k) = Upto(k - 1) + weights[k]
           /\ \A k \in 0 .. J : Upto(k) \in Nat
<1>1. J \in Nat \ {0}
  BY ResamplingAssumption
<1>2. Cumulated = [k \in 0 .. J |-> IF k = 0 THEN 0 ELSE Cumulated[k - 1] + weights[k]]
  <2>1. \E f : f = [k \in 0 .. J |-> IF k = 0 THEN 0 ELSE f[k - 1] + weights[k]]
    BY <1>1, SumsExist DEF Weighed
  <2>. QED BY <2>1 DEF Cumulated
<1>3. \A k \in 0 .. J : Cumulated[k] = IF k = 0 THEN 0 ELSE Cumulated[k - 1] + weights[k]
  BY <1>2
<1>4. \A k \in 1 .. J : Cumulated[k] = Cumulated[k - 1] + weights[k]
  BY <1>1, <1>3
<1>5. Cumulated[0] = 0
  BY <1>1, <1>3
<1> DEFINE S == {k \in Nat : Cumulated[k] \in Nat}
<1>6. \A k \in 0 .. J - 1 : k \in S => k + 1 \in S
  BY <1>1, <1>4 DEF Weighed
<1>7. 0 \in S
  BY <1>5
<1>. HIDE DEF S
<1>8. 0 .. J \subseteq S
  BY <1>1, <1>6, <1>7, InductionTo
<1>. QED BY <1>4, <1>5, <1>8 DEF S, Upto

\* Weights are not negative, so the sums never fall.
LEMMA UptoGrows ==
    ASSUME Weighed, NEW a \in 0 .. J, NEW b \in 0 .. J, a <= b
    PROVE  Upto(a) <= Upto(b)
<1>1. J \in Nat \ {0}
  BY ResamplingAssumption
<1> DEFINE S == {n \in Nat : a + n <= J => Upto(a) <= Upto(a + n)}
<1>2. 0 \in S
  BY UptoSteps
<1>3. ASSUME NEW n \in S PROVE n + 1 \in S
  <2>1. CASE a + n + 1 <= J
    <3>1. /\ Upto(a + n + 1) = Upto(a + n) + weights[a + n + 1]
          /\ weights[a + n + 1] \in Nat /\ Upto(a) \in Nat /\ Upto(a + n) \in Nat
      <4>1. a + n + 1 \in 1 .. J /\ a + n \in 0 .. J /\ a + n + 1 - 1 = a + n
        BY <1>1, <2>1 DEF S
      <4>2. \A k \in 1 .. J : Upto(k) = Upto(k - 1) + weights[k] /\ weights[k] \in Nat
        BY UptoSteps DEF Weighed
      <4>3. Upto(a) \in Nat /\ Upto(a + n) \in Nat
        BY <4>1, UptoSteps
      <4>. HIDE DEF S
      <4>. QED BY <4>1, <4>2, <4>3
    <3>2. Upto(a) <= Upto(a + n) /\ a + (n + 1) = a + n + 1
      BY <1>1, <2>1 DEF S
    <3>. QED BY <3>1, <3>2
  <2>. QED BY <2>1
<1>. HIDE DEF S
<1>4. S = Nat
  <2>1. S \subseteq Nat
    BY DEF S
  <2>. QED BY <1>2, <1>3, <2>1, Induction
<1>5. b - a \in S /\ a + (b - a) = b
  BY <1>1, <1>4
<1>. QED BY <1>5 DEF S

LEMMA TotalType ==
    ASSUME Weighed
    PROVE  /\ Total \in Nat /\ Grid \in Nat \ {0}
           /\ \A k \in 0 .. J : Upto(k) <= Total
BY UptoSteps, UptoGrows, ResamplingAssumption DEF Total, Grid

-----------------------------------------------------------------------------
(***************************************************************************)
(* Draws and searches.                                                     *)
(***************************************************************************)

\* A larger sum is exceeded by fewer draws; a later draw exceeds more.
LEMMA ExceedsLess ==
    ASSUME Weighed, NEW d \in Nat, NEW k \in Nat, NEW small \in Nat, NEW large \in Nat,
           small <= large, Exceeds(d, k, large)
    PROVE  Exceeds(d, k, small)
<1>1. J * Grid \in Nat /\ Total \in Nat /\ Grid \in Nat
  BY TotalType, ResamplingAssumption, Products
<1>2. small * (J * Grid) <= large * (J * Grid)
  BY <1>1, Products
<1>3. (d + k * Grid) * Total \in Nat
  BY <1>1, Products
<1>4. \A w \in Nat : w * J * Grid = w * (J * Grid) /\ w * (J * Grid) \in Nat
  BY <1>1, ResamplingAssumption
<1> DEFINE X == (d + k * Grid) * Total
           A == small * (J * Grid)
           B == large * (J * Grid)
<1>5. X > B
  BY <1>4 DEF Exceeds
<1>6. X > A
  <2>1. A \in Nat /\ B \in Nat /\ X \in Nat
    BY <1>3, <1>4
  <2>. HIDE DEF X, A, B
  <2>. QED BY <1>2, <1>5, <2>1 DEF A, B
<1>. QED BY <1>4, <1>6 DEF Exceeds

LEMMA ExceedsLater ==
    ASSUME Weighed, NEW d \in Nat, NEW k \in Nat, NEW e \in Nat, NEW l \in Nat, NEW w \in Nat,
           d + k * Grid <= e + l * Grid, Exceeds(d, k, w)
    PROVE  Exceeds(e, l, w)
<1>1. Total \in Nat /\ Grid \in Nat /\ J \in Nat
  BY TotalType, ResamplingAssumption
<1>2. d + k * Grid \in Nat /\ e + l * Grid \in Nat /\ w * J * Grid \in Nat
  BY <1>1, Products
<1>3. (d + k * Grid) * Total <= (e + l * Grid) * Total
  BY <1>1, <1>2, Products
<1>4. (d + k * Grid) * Total \in Nat /\ (e + l * Grid) * Total \in Nat
  BY <1>1, <1>2, Products
<1> DEFINE X == (d + k * Grid) * Total
           Y == (e + l * Grid) * Total
           B == w * J * Grid
<1>5. X > B /\ Total > 0
  BY DEF Exceeds
<1>6. Y > B
  <2>1. X <= Y /\ X \in Nat /\ Y \in Nat /\ B \in Nat
    BY <1>2, <1>3, <1>4
  <2>. HIDE DEF X, Y, B
  <2>. QED BY <1>5, <2>1
<1>. QED BY <1>5, <1>6 DEF Exceeds

\* No draw exceeds the sum of all weights: the loops end.
LEMMA ExceedsNotTotal ==
    ASSUME Weighed, NEW d \in 0 .. Grid - 1, NEW k \in 0 .. J - 1
    PROVE  ~Exceeds(d, k, Total)
<1>1. Total \in Nat /\ Grid \in Nat \ {0} /\ J \in Nat \ {0}
  BY TotalType, ResamplingAssumption
<1>2. d + k * Grid <= J * Grid
  <2>1. (k + 1) * Grid <= J * Grid
    BY <1>1, Products
  <2>2. (k + 1) * Grid = k * Grid + Grid /\ k * Grid \in Nat /\ J * Grid \in Nat
    BY <1>1, Products
  <2>. QED BY <1>1, <2>1, <2>2
<1>3. d + k * Grid \in Nat /\ J * Grid \in Nat
  BY <1>1, Products
<1>4. (d + k * Grid) * Total <= (J * Grid) * Total
  BY <1>1, <1>2, <1>3, Products
<1>5. Total * J * Grid = (J * Grid) * Total
  BY <1>1
<1> DEFINE X == (d + k * Grid) * Total
           Y == (J * Grid) * Total
<1>6. X \in Nat /\ Y \in Nat
  BY <1>1, <1>3, Products
<1>7. ~(X > Y)
  <2>. HIDE DEF X, Y
  <2>. QED BY <1>4, <1>6 DEF X, Y
<1>. QED BY <1>5, <1>7 DEF Exceeds

\* The slices follow each other.
LEMMA SlicesFollow ==
    ASSUME Weighed, NEW d \in 0 .. Grid - 1, NEW e \in 0 .. Grid - 1,
           NEW k \in Nat, NEW l \in Nat, k < l
    PROVE  d + k * Grid <= e + l * Grid
<1>1. Grid \in Nat \ {0}
  BY TotalType
<1>2. (k + 1) * Grid <= l * Grid
  BY <1>1, Products
<1>3. (k + 1) * Grid = k * Grid + Grid /\ k * Grid \in Nat /\ l * Grid \in Nat
  BY <1>1, Products
<1>. QED BY <1>1, <1>2, <1>3

\* The search ends at the first particle whose sum is not exceeded, and there is one.
Finds(draw, k, n) == /\ ~Exceeds(draw, k, Upto(n))
                     /\ \A m \in 1 .. n - 1 : Exceeds(draw, k, Upto(m))

LEMMA SearchFinds ==
    ASSUME Weighed, NEW draw \in 0 .. Grid - 1, NEW k \in 0 .. J - 1
    PROVE  /\ Search(draw, k) \in 1 .. J /\ Finds(draw, k, Search(draw, k))
           /\ \A n \in 1 .. J : Finds(draw, k, n) => n = Search(draw, k)
<1> DEFINE S == {n \in 1 .. J : ~Exceeds(draw, k, Upto(n))}
<1>1. J \in S
  BY ExceedsNotTotal, ResamplingAssumption DEF Total
<1>2. PICK n \in S : \A m \in S : n <= m
  <2>1. S \in SUBSET Nat
    BY ResamplingAssumption
  <2>. HIDE DEF S
  <2>. QED BY <1>1, <2>1, LeastNumber
<1>3. n \in 1 .. J /\ Finds(draw, k, n)
  <2>1. ASSUME NEW m \in 1 .. n - 1 PROVE Exceeds(draw, k, Upto(m))
    <3>1. m \in 1 .. J /\ ~(n <= m)
      BY ResamplingAssumption
    <3>2. m \notin S
      BY <1>2, <3>1
    <3>. QED BY <3>1, <3>2
  <2>2. n \in 1 .. J /\ ~Exceeds(draw, k, Upto(n))
    OBVIOUS
  <2>. QED BY <2>1, <2>2 DEF Finds
<1>4. ASSUME NEW a \in 1 .. J, NEW b \in 1 .. J, Finds(draw, k, a), Finds(draw, k, b)
      PROVE a = b
  <2>1. ~(a < b) /\ ~(b < a)
    BY <1>4 DEF Finds
  <2>. QED BY <2>1
<1>5. Search(draw, k) = CHOOSE m \in 1 .. J : Finds(draw, k, m)
  BY DEF Search, Finds
<1>. QED BY <1>3, <1>4, <1>5

\* What has been reached: the search ends at the first k particles exactly if their sum
\* is not exceeded.
LEMMA SearchUpto ==
    ASSUME Weighed, NEW draw \in 0 .. Grid - 1, NEW k \in 0 .. J - 1, NEW n \in 1 .. J
    PROVE  Search(draw, k) <= n <=> ~Exceeds(draw, k, Upto(n))
<1>1. Search(draw, k) \in 1 .. J /\ Finds(draw, k, Search(draw, k))
  BY SearchFinds
<1>2. ASSUME Search(draw, k) <= n PROVE ~Exceeds(draw, k, Upto(n))
  <2>1. Upto(Search(draw, k)) <= Upto(n)
    BY <1>1, <1>2, UptoGrows
  <2>2. Upto(Search(draw, k)) \in Nat /\ Upto(n) \in Nat
    BY <1>1, UptoSteps
  <2>3. draw \in Nat /\ k \in Nat
    BY TotalType
  <2>. QED BY <1>1, <2>1, <2>2, <2>3, ExceedsLess DEF Finds
<1>3. ASSUME n < Search(draw, k) PROVE Exceeds(draw, k, Upto(n))
  BY <1>1, <1>3 DEF Finds
<1>. QED BY <1>1, <1>2, <1>3

\* A later slice is found no earlier.
LEMMA SearchGrows ==
    ASSUME Weighed, NEW d \in 0 .. Grid - 1, NEW e \in 0 .. Grid - 1,
           NEW k \in 0 .. J - 1, NEW l \in 0 .. J - 1, k < l
    PROVE  Search(d, k) <= Search(e, l)
<1>1. Search(e, l) \in 1 .. J /\ Search(d, k) \in 1 .. J /\ ~Exceeds(e, l, Upto(Search(e, l)))
  BY SearchFinds DEF Finds
<1>2. d + k * Grid <= e + l * Grid
  BY SlicesFollow
<1>3. ~Exceeds(d, k, Upto(Search(e, l)))
  <2>1. Upto(Search(e, l)) \in Nat /\ d \in Nat /\ e \in Nat
    BY <1>1, UptoSteps, TotalType
  <2>. QED BY <1>1, <1>2, <2>1, ExceedsLater
<1>. QED BY <1>1, <1>3, SearchUpto

-----------------------------------------------------------------------------
(***************************************************************************)
(* The invariant: the loop has found for every slice what a search would,  *)
(* and the particles it has left behind are exceeded by the slice it is at.*)
(***************************************************************************)

Called ==
    /\ method \in {"original", "universal", "systematic"}
    /\ Weighed /\ start \in Nat
    /\ method = "original" => start \in 0 .. Grid - 1

SearchedSoFar ==
    method = "original" =>
        /\ Len(chosen) = j
        /\ \A n \in 1 .. j : chosen[n] = Search(start, n - 1)
        /\ j < J /\ i <= J => \A m \in 1 .. i - 1 : Exceeds(start, j, Upto(m))
        /\ outcome = "returned" => j = J

UniversalReturns == method = "universal" /\ outcome = "returned" => chosen \in Outcomes

SystematicRests == method = "systematic" => i = 1 /\ j = 1 /\ chosen = [k \in 1 .. J |-> 1]

UniversalRests == method = "universal" => i = 1 /\ j = 0

Inv == Called /\ TypeOK /\ SearchedSoFar /\ UniversalReturns /\ SystematicRests /\ UniversalRests

\* The arguments of the call do not change, so neither does what is computed from them.
LEMMA ArgumentsKept ==
    ASSUME UNCHANGED <<method, weights, start>>
    PROVE  /\ Total' = Total /\ Grid' = Grid /\ Outcomes' = Outcomes
           /\ \A k : Upto(k)' = Upto(k)
           /\ \A d, k, w : Exceeds(d, k, w)' <=> Exceeds(d, k, w)
           /\ \A d, k : Search(d, k)' = Search(d, k)
           /\ \A d, k : FallsShortOf(d, k)' <=> FallsShortOf(d, k)
<1>1. Cumulated' = Cumulated
  BY DEF Cumulated
<1>2. \A k : Upto(k)' = Upto(k)
  BY <1>1 DEF Upto
<1>3. Total' = Total
  BY <1>2 DEF Total
<1>4. Grid' = Grid
  BY <1>3 DEF Grid
<1>5. \A d, k, w : Exceeds(d, k, w)' <=> Exceeds(d, k, w)
  BY <1>3, <1>4 DEF Exceeds
<1>6. \A d, k : Search(d, k)' = Search(d, k)
  BY <1>2, <1>5 DEF Search
<1>7. \A k : Found(k)' = Found(k)
  BY <1>4, <1>6 DEF Found
<1>8. Outcomes' = Outcomes
  BY <1>7 DEF Outcomes
<1>9. \A d, k : FallsShortOf(d, k)' <=> FallsShortOf(d, k)
  BY <1>4 DEF FallsShortOf
<1>. QED BY <1>2, <1>3, <1>4, <1>5, <1>6, <1>8, <1>9

LEMMA CalledStep == Called /\ UNCHANGED <<method, weights, start>> => Called'
BY ArgumentsKept DEF Called, Weighed

LEMMA InitInv == Init => Inv
<1> SUFFICES ASSUME Init PROVE Inv
  OBVIOUS
<1>1. J \in Nat \ {0} /\ Weighed
  BY ResamplingAssumption DEF Init, Weighed
<1>2. Grid \in Nat \ {0}
  BY <1>1, TotalType
<1>3. Called
  <2>1. method = "original" => start \in 0 .. Grid - 1
    BY DEF Init
  <2>2. method = "universal" => start \in Nat
    BY DEF Init
  <2>3. method = "systematic" => start \in Nat
    BY DEF Init
  <2>4. method = "original" => start \in Nat
    BY <1>2, <2>1
  <2>. QED BY <1>1, <2>1, <2>2, <2>3, <2>4 DEF Called, Init
<1>4. TypeOK
  <2>1. i \in 1 .. J /\ j \in 0 .. J
    BY <1>1 DEF Init
  <2>2. c = Upto(i)
    <3>1. weights[1] \in Nat /\ Upto(1) = Upto(1 - 1) + weights[1] /\ Upto(0) = 0 /\ 1 - 1 = 0
      BY <1>1, UptoSteps DEF Weighed
    <3>. QED BY <3>1 DEF Init
  <2>3. chosen \in Seq(1 .. J)
    <3>1. [k \in 1 .. J |-> 1] \in Seq(1 .. J) /\ << >> \in Seq(1 .. J)
      BY <1>1
    <3>. QED BY <3>1 DEF Init
  <2>4. outcome = "none" /\ ~(i > J) /\ J \in Nat
    BY <1>1, <2>1 DEF Init
  <2>. QED BY <2>1, <2>2, <2>3, <2>4 DEF TypeOK
<1>5. SearchedSoFar /\ UniversalReturns /\ SystematicRests /\ UniversalRests
  BY DEF Init, SearchedSoFar, UniversalReturns, SystematicRests, UniversalRests
<1>. QED BY <1>3, <1>4, <1>5 DEF Inv

\* The loop over the weights goes on only while a particle is left.
LEMMA AdvanceInv == ASSUME Inv, Advance PROVE Inv'
<1>0. outcome = "none" /\ i \in 1 .. J
  BY ResamplingAssumption DEF Inv, TypeOK, Advance
<1>1. J \in Nat \ {0} /\ Weighed /\ start \in 0 .. Grid - 1 /\ i \in 1 .. J /\ j \in 0 .. J - 1
  BY <1>0, ResamplingAssumption DEF Inv, Called, TypeOK, Advance
<1>2. UNCHANGED <<method, weights, start, outcome>>
  BY DEF Advance
<1>3. Called'
  BY <1>2, CalledStep DEF Inv, Called
<1>4. i # J
  BY <1>1, ExceedsNotTotal DEF Advance, Inv, TypeOK, Total
<1>5. i' = i + 1 /\ i' \in 1 .. J
  BY <1>1, <1>4 DEF Advance
<1>6. c' = Upto(i')
  <2>1. Upto(i + 1) = Upto(i + 1 - 1) + weights[i + 1] /\ i + 1 - 1 = i
    BY <1>1, <1>5, UptoSteps
  <2>2. c = Upto(i)
    BY <1>1 DEF Inv, TypeOK
  <2>. QED BY <1>5, <2>1, <2>2 DEF Advance
<1>7. TypeOK'
  BY <1>0, <1>1, <1>2, <1>5, <1>6, ArgumentsKept DEF TypeOK, Inv, Advance
<1>8. SearchedSoFar'
  <2>1. \A m \in 1 .. i' - 1 : Exceeds(start, j, Upto(m))
    <3>1. \A m \in 1 .. i' - 1 : m \in 1 .. i - 1 \/ m = i
      BY <1>1, <1>5
    <3>2. Exceeds(start, j, Upto(i)) /\ j < J /\ method = "original"
      BY <1>1 DEF Advance, Inv, TypeOK
    <3>3. i <= J
      BY <1>1
    <3>. QED BY <3>1, <3>2, <3>3 DEF Inv, SearchedSoFar
  <2>. QED BY <1>2, <2>1, ArgumentsKept DEF Advance, Inv, SearchedSoFar
<1>9. UniversalReturns' /\ SystematicRests' /\ UniversalRests'
  BY DEF Advance, UniversalReturns, SystematicRests, UniversalRests
<1>. QED BY <1>3, <1>7, <1>8, <1>9 DEF Inv

\* What it chooses is what a search finds.
LEMMA ChooseInv == ASSUME Inv, Choose PROVE Inv'
<1>0. outcome = "none" /\ i \in 1 .. J
  BY ResamplingAssumption DEF Inv, TypeOK, Choose
<1>1. J \in Nat \ {0} /\ Weighed /\ start \in 0 .. Grid - 1 /\ i \in 1 .. J /\ j \in 0 .. J - 1
  BY <1>0, ResamplingAssumption DEF Inv, Called, TypeOK, Choose
<1>2. UNCHANGED <<method, weights, start, outcome, i, c>> /\ j' = j + 1
  BY DEF Choose
<1>3. Called'
  BY <1>2, CalledStep DEF Inv, Called
<1>4. chosen \in Seq(1 .. J) /\ chosen' = Append(chosen, i) /\ Len(chosen) = j /\ method = "original"
  BY DEF Inv, TypeOK, Choose, SearchedSoFar
<1>5. TypeOK'
  <2>1. chosen' \in Seq(1 .. J)
    BY <1>1, <1>4, AppendProperties
  <2>. QED BY <1>0, <1>1, <1>2, <2>1, ArgumentsKept DEF TypeOK, Inv
<1>6. Search(start, j) = i
  <2>1. Finds(start, j, i)
    BY <1>1, <1>4 DEF Choose, Finds, Inv, TypeOK, SearchedSoFar
  <2>. QED BY <1>1, <2>1, SearchFinds
<1>7. SearchedSoFar'
  <2>1. Len(chosen') = j + 1 /\ chosen'[j + 1] = i /\ \A n \in 1 .. j : chosen'[n] = chosen[n]
    BY <1>1, <1>4, AppendProperties
  <2>2. \A n \in 1 .. j + 1 : chosen'[n] = Search(start, n - 1)
    <3>1. \A n \in 1 .. j + 1 : n \in 1 .. j \/ (n = j + 1 /\ n - 1 = j)
      BY <1>1
    <3>. QED BY <1>4, <1>6, <2>1, <3>1 DEF Inv, SearchedSoFar
  <2>3. ASSUME NEW m \in 1 .. i - 1 PROVE Exceeds(start, j + 1, Upto(m))
    <3>1. Exceeds(start, j, Upto(m)) /\ m \in 1 .. J
      BY <1>1, <1>4 DEF Inv, SearchedSoFar
    <3>2. start + j * Grid <= start + (j + 1) * Grid
      BY <1>1, SlicesFollow
    <3>3. start \in Nat /\ j \in Nat /\ j + 1 \in Nat /\ Upto(m) \in Nat
      BY <1>1, <3>1, UptoSteps DEF Inv, Called
    <3>. QED BY <1>1, <3>1, <3>2, <3>3, ExceedsLater
  <2>4. outcome' # "returned"
    BY <1>0, <1>2
  <2>. QED BY <1>2, <2>1, <2>2, <2>3, <2>4, ArgumentsKept DEF SearchedSoFar
<1>8. UniversalReturns' /\ SystematicRests' /\ UniversalRests'
  BY <1>2, <1>4 DEF UniversalReturns, SystematicRests, UniversalRests
<1>. QED BY <1>3, <1>5, <1>7, <1>8 DEF Inv

LEMMA UniversalInv == ASSUME Inv, Universal PROVE Inv'
<1>1. UNCHANGED <<method, weights, start, i, j, c>> /\ method = "universal" /\ outcome' = "returned" /\ i = 1 /\ j = 0
  BY DEF Universal, Inv, UniversalRests
<1>2. Called'
  BY <1>1, CalledStep DEF Inv, Universal
<1>3. chosen' \in Outcomes /\ chosen' \in Seq(1 .. J)
  <2>1. chosen' \in Outcomes /\ chosen' \in [1 .. J -> 1 .. J] /\ J \in Nat
    BY ResamplingAssumption DEF Universal, Outcomes
  <2>2. \A q \in [1 .. J -> 1 .. J] : q \in Seq(1 .. J)
    BY <2>1
  <2>. QED BY <2>1, <2>2
<1>4. TypeOK'
  BY <1>1, <1>3, ArgumentsKept, ResamplingAssumption DEF TypeOK, Inv
<1>5. UniversalReturns'
  BY <1>1, <1>3, ArgumentsKept DEF UniversalReturns
<1>6. SearchedSoFar' /\ SystematicRests' /\ UniversalRests'
  BY <1>1 DEF SearchedSoFar, SystematicRests, UniversalRests, Inv
<1>. QED BY <1>2, <1>4, <1>5, <1>6 DEF Inv

LEMMA ReturnInv == ASSUME Inv, Return \/ ReturnSystematic PROVE Inv'
<1>1. UNCHANGED <<method, weights, start, i, j, c, chosen>> /\ outcome = "none"
      /\ outcome' = "returned"
  BY DEF Return, ReturnSystematic
<1>2. Called'
  BY <1>1, CalledStep DEF Inv
<1>3. TypeOK'
  BY <1>1, ArgumentsKept DEF TypeOK, Inv
<1>4. SearchedSoFar'
  BY <1>1, ArgumentsKept DEF SearchedSoFar, Inv, Return, ReturnSystematic
<1>5. UniversalReturns' /\ SystematicRests' /\ UniversalRests'
  BY <1>1 DEF UniversalReturns, SystematicRests, UniversalRests, Inv, Return, ReturnSystematic
<1>. QED BY <1>2, <1>3, <1>4, <1>5 DEF Inv

\* Where rounding lets the loop run past the weights, everything before has been found.
LEMMA RunOffInv == ASSUME Inv, RunOff PROVE Inv'
<1>1. UNCHANGED <<method, weights, start, j, c, chosen>> /\ i' = J + 1 /\ outcome' = "raised"
      /\ method = "original" /\ c = Total /\ FallsShortOf(start, j) /\ j = J - 1
  BY DEF RunOff, FallsShortOf
<1>2. J \in Nat \ {0}
  BY ResamplingAssumption
<1>3. Called'
  BY <1>1, CalledStep DEF Inv
<1>4. Len(chosen) = J - 1
  BY <1>1 DEF Inv, SearchedSoFar
<1>5. TypeOK'
  BY <1>1, <1>2, <1>4, ArgumentsKept DEF TypeOK, Inv
<1>6. SearchedSoFar'
  BY <1>1, <1>2, ArgumentsKept DEF SearchedSoFar, Inv
<1>7. UniversalReturns' /\ SystematicRests' /\ UniversalRests'
  BY <1>1 DEF UniversalReturns, SystematicRests, UniversalRests
<1>. QED BY <1>3, <1>5, <1>6, <1>7 DEF Inv

LEMMA MissInv == ASSUME Inv, Miss PROVE Inv'
<1>1. UNCHANGED <<method, weights, start, i, j, c, chosen>> /\ method = "universal"
      /\ i = 1 /\ j = 0 /\ outcome' = "raised"
  BY DEF Miss, Inv, UniversalRests
<1>2. Called'
  BY <1>1, CalledStep DEF Inv
<1>3. TypeOK'
  BY <1>1, ArgumentsKept, ResamplingAssumption DEF TypeOK, Inv
<1>4. SearchedSoFar' /\ UniversalReturns' /\ SystematicRests' /\ UniversalRests'
  BY <1>1 DEF SearchedSoFar, UniversalReturns, SystematicRests, UniversalRests
<1>. QED BY <1>2, <1>3, <1>4 DEF Inv

LEMMA InvStep == Inv /\ [Next]_vars => Inv'
<1> SUFFICES ASSUME Inv, [Next]_vars PROVE Inv'
  OBVIOUS
<1>1. CASE UNCHANGED vars
  <2>1. UNCHANGED <<method, weights, start, i, j, c, chosen, outcome>>
    BY <1>1 DEF vars
  <2>. QED BY <2>1, ArgumentsKept DEF Inv, Called, Weighed, TypeOK, SearchedSoFar, UniversalReturns,
                              SystematicRests, UniversalRests
<1>. QED BY <1>1, AdvanceInv, ChooseInv, RunOffInv, UniversalInv, MissInv, ReturnInv DEF Next

LEMMA Invariance == Spec => []Inv
BY InitInv, InvStep, PTL DEF Spec

\* The weights are indexed past the last one only in the last slice, by a draw from its
\* end, with all weight cumulated and every slice before answered: no draw before it
\* exceeds the sum of all weights.
THEOREM ResamplingTypeOK == Spec => []TypeOK
<1>1. Inv => TypeOK
  BY DEF Inv
<1>. QED BY <1>1, Invariance, PTL

\* Had universal_resample drawn a single number, it would return what the original loop
\* returns: for every slice the first particle whose cumulated weight reaches it.
THEOREM ResamplingOriginalIsSearch == Spec => []OriginalIsSearch
<1>1. Inv => OriginalIsSearch
  <2> SUFFICES ASSUME Inv, outcome = "returned", method = "original"
               PROVE  chosen = [k \in 1 .. J |-> Search(start, k - 1)]
    BY DEF OriginalIsSearch
  <2>1. chosen \in Seq(1 .. J) /\ Len(chosen) = J /\ \A n \in 1 .. J : chosen[n] = Search(start, n - 1)
    BY DEF Inv, TypeOK, SearchedSoFar
  <2>2. chosen = [k \in 1 .. J |-> chosen[k]]
    BY <2>1
  <2>. QED BY <2>1, <2>2
<1>. QED BY <1>1, Invariance, PTL

-----------------------------------------------------------------------------
(***************************************************************************)
(* Shares.  The draws in order select particles in order, so the slices    *)
(* that end at one of the first k particles are the first ones; how many   *)
(* they are is their weight, up to a slice.                                *)
(***************************************************************************)

\* A selection by the draws d, one for every slice.
Drawn(d, q) == /\ d \in [1 .. J -> 0 .. Grid - 1]
               /\ q \in [1 .. J -> 1 .. J]
               /\ \A n \in 1 .. J : q[n] = Search(d[n], n - 1)

\* The first m slices end at one of the first k particles, the others do not.
Cut(q, k, m) == m \in 0 .. J /\ \A n \in 1 .. J : q[n] <= k <=> n <= m

LEMMA CutExists ==
    ASSUME Weighed, NEW d, NEW q, Drawn(d, q), NEW k \in 0 .. J
    PROVE  \E m \in 0 .. J : Cut(q, k, m)
<1>1. J \in Nat \ {0}
  BY ResamplingAssumption
<1>2. ASSUME NEW a \in 1 .. J, NEW b \in 1 .. J, a <= b PROVE q[a] <= q[b]
  <2>1. CASE a = b
    BY <1>1, <2>1 DEF Drawn
  <2>2. CASE a < b
    <3>1. a - 1 \in 0 .. J - 1 /\ b - 1 \in 0 .. J - 1 /\ a - 1 < b - 1
      BY <1>1, <2>2
    <3>2. d[a] \in 0 .. Grid - 1 /\ d[b] \in 0 .. Grid - 1
      BY DEF Drawn
    <3>3. Search(d[a], a - 1) <= Search(d[b], b - 1)
      BY <3>1, <3>2, SearchGrows
    <3>. QED BY <3>3 DEF Drawn
  <2>. QED BY <1>1, <1>2, <2>1, <2>2
<1> DEFINE Later == {n \in 1 .. J : q[n] > k}
<1>3. CASE Later = {}
  <2>1. ASSUME NEW n \in 1 .. J PROVE q[n] <= k /\ n <= J
    <3>1. n \notin Later
      BY <1>3
    <3>2. q[n] \in Int /\ k \in Int
      BY <1>1 DEF Drawn
    <3>. QED BY <1>1, <3>1, <3>2
  <2>. QED BY <1>1, <2>1 DEF Cut
<1>4. CASE Later # {}
  <2>1. PICK first \in Later : \A n \in Later : first <= n
    <3>1. Later \in SUBSET Nat
      BY <1>1
    <3>. HIDE DEF Later
    <3>. QED BY <1>4, <3>1, LeastNumber
  <2>2. first \in 1 .. J /\ q[first] > k
    OBVIOUS
  <2>3. ASSUME NEW n \in 1 .. J, n < first PROVE q[n] <= k
    <3>1. n \notin Later
      BY <1>1, <2>1, <2>2, <2>3
    <3>2. q[n] \in Int /\ k \in Int
      BY <1>1 DEF Drawn
    <3>. QED BY <3>1, <3>2
  <2>4. ASSUME NEW n \in 1 .. J, first <= n PROVE ~(q[n] <= k)
    <3>1. q[first] <= q[n]
      BY <1>2, <2>2, <2>4
    <3>2. q[n] \in Int /\ q[first] \in Int /\ k \in Int
      BY <1>1, <2>2 DEF Drawn
    <3>. QED BY <2>2, <3>1, <3>2
  <2>5. \A n \in 1 .. J : q[n] <= k <=> n <= first - 1
    BY <1>1, <2>2, <2>3, <2>4
  <2>6. first - 1 \in 0 .. J
    BY <1>1, <2>2
  <2>. QED BY <2>5, <2>6 DEF Cut
<1>. QED BY <1>3, <1>4

\* The number of copies of a particle is the distance of two cuts.
LEMMA CopiesBetweenCuts ==
    ASSUME NEW q \in [1 .. J -> 1 .. J], NEW k \in 1 .. J,
           NEW a, NEW b, Cut(q, k - 1, a), Cut(q, k, b)
    PROVE  /\ a <= b /\ IsFiniteSet({n \in 1 .. J : q[n] = k})
           /\ Cardinality({n \in 1 .. J : q[n] = k}) = b - a
<1>1. J \in Nat \ {0} /\ a \in 0 .. J /\ b \in 0 .. J
  BY ResamplingAssumption DEF Cut
<1>2. a <= b
  <2>1. CASE a = 0
    BY <1>1, <2>1
  <2>2. CASE a # 0
    <3>1. a \in 1 .. J /\ q[a] <= k - 1
      BY <1>1, <2>2 DEF Cut
    <3>2. q[a] <= k
      BY <1>1, <3>1
    <3>. QED BY <3>1, <3>2 DEF Cut
  <2>. QED BY <2>1, <2>2
<1>3. {n \in 1 .. J : q[n] = k} = a + 1 .. b
  <2>1. ASSUME NEW n \in 1 .. J PROVE q[n] = k <=> q[n] <= k /\ ~(q[n] <= k - 1)
    <3>1. q[n] \in Int /\ k \in Int
      BY <1>1
    <3>2. \A x, y \in Int : x = y <=> x <= y /\ ~(x <= y - 1)
      OBVIOUS
    <3>. QED BY <3>1, <3>2
  <2>2. \A n \in 1 .. J : q[n] = k <=> n <= b /\ ~(n <= a)
    BY <2>1 DEF Cut
  <2>3. \A n \in Int : n \in a + 1 .. b <=> n \in 1 .. J /\ n <= b /\ ~(n <= a)
    BY <1>1
  <2>4. a + 1 .. b \subseteq Int /\ 1 .. J \subseteq Int
    BY <1>1
  <2>. QED BY <2>2, <2>3, <2>4
<1>4. IsFiniteSet(a + 1 .. b) /\ Cardinality(a + 1 .. b) = b - a
  <2>1. a + 1 \in Int /\ b \in Int
    BY <1>1
  <2>2. Cardinality(a + 1 .. b) = IF a + 1 > b THEN 0 ELSE b - (a + 1) + 1
    BY <2>1, FS_Interval
  <2>3. (IF a + 1 > b THEN 0 ELSE b - (a + 1) + 1) = b - a
    BY <1>1, <1>2
  <2>. QED BY <2>1, <2>2, <2>3, FS_Interval
<1>. QED BY <1>2, <1>3, <1>4

\* What the first m slices and the first k particles weigh: the last of the slices has
\* been reached, and the one after it has not.
LEMMA CutReached ==
    ASSUME Weighed, Total > 0, NEW d, NEW q, Drawn(d, q),
           NEW k \in 0 .. J, NEW m \in 0 .. J, Cut(q, k, m)
    PROVE  /\ k = 0 => m = 0
           /\ k > 0 /\ m > 0 => (d[m] + (m - 1) * Grid) * Total <= Upto(k) * J * Grid
           /\ k > 0 /\ m < J => (d[m + 1] + m * Grid) * Total > Upto(k) * J * Grid
<1>1. J \in Nat \ {0}
  BY ResamplingAssumption
<1>2. k = 0 => m = 0
  <2>1. q[1] \in 1 .. J /\ 1 \in 1 .. J
    BY <1>1 DEF Drawn
  <2>2. k = 0 => ~(q[1] <= k)
    BY <1>1, <2>1
  <2>3. ~(q[1] <= k) => ~(1 <= m)
    BY <2>1 DEF Cut
  <2>. QED BY <1>1, <2>2, <2>3
<1>3. ASSUME k > 0, NEW n \in 1 .. J
      PROVE n <= m <=> ~Exceeds(d[n], n - 1, Upto(k))
  <2>1. k \in 1 .. J /\ n - 1 \in 0 .. J - 1
    BY <1>1, <1>3
  <2>a. d[n] \in 0 .. Grid - 1
    BY DEF Drawn
  <2>2. q[n] = Search(d[n], n - 1) /\ (q[n] <= k <=> n <= m)
    BY DEF Drawn, Cut
  <2>. QED BY <2>1, <2>a, <2>2, SearchUpto
<1>4. ASSUME k > 0, m > 0
      PROVE (d[m] + (m - 1) * Grid) * Total <= Upto(k) * J * Grid
  <2>1. m \in 1 .. J /\ m <= m
    BY <1>1, <1>4
  <2>2. ~Exceeds(d[m], m - 1, Upto(k))
    BY <1>3, <1>4, <2>1
  <2>3. (d[m] + (m - 1) * Grid) * Total \in Int /\ Upto(k) * J * Grid \in Int
    <3>1. Grid \in Int /\ Total \in Int /\ Upto(k) \in Int
      BY TotalType, UptoSteps
    <3>2. d[m] \in 0 .. Grid - 1
      BY <2>1 DEF Drawn
    <3>3. d[m] \in Int /\ m \in Int
      BY <3>1, <3>2
    <3>. QED BY <1>1, <3>1, <3>3
  <2>4. \A x, y \in Int : ~(x > y) => x <= y
    OBVIOUS
  <2>. QED BY <2>2, <2>3, <2>4 DEF Exceeds
<1>5. ASSUME k > 0, m < J
      PROVE (d[m + 1] + m * Grid) * Total > Upto(k) * J * Grid
  <2>1. m + 1 \in 1 .. J /\ ~(m + 1 <= m) /\ m + 1 - 1 = m
    BY <1>1, <1>5
  <2>2. Exceeds(d[m + 1], m, Upto(k))
    BY <1>3, <1>5, <2>1
  <2>. QED BY <2>2 DEF Exceeds
<1>. QED BY <1>2, <1>4, <1>5

\* Every draw on its own: the first m slices are what the first k particles weigh, give
\* or take a slice.
LEMMA CutOfDraws ==
    ASSUME Weighed, Total > 0, NEW d, NEW q, Drawn(d, q),
           NEW k \in 0 .. J, NEW m \in 0 .. J, Cut(q, k, m)
    PROVE  m * Total <= Upto(k) * J + Total /\ Upto(k) * J <= m * Total + Total
<1>a. /\ J \in Nat \ {0} /\ Total \in Nat \ {0} /\ Grid \in Nat \ {0} /\ m \in Nat
      /\ Upto(k) \in Nat /\ Upto(k) <= Total
  BY ResamplingAssumption, TotalType, UptoSteps
<1>b. d \in [1 .. J -> 0 .. Grid - 1]
  BY DEF Drawn
<1>1. /\ J \in Nat \ {0} /\ Total \in Nat \ {0} /\ Grid \in Nat \ {0} /\ m \in Nat
      /\ Upto(k) \in Nat /\ Upto(k) <= Total /\ d \in [1 .. J -> 0 .. Grid - 1]
  BY <1>a, <1>b
<1> DEFINE U == Upto(k)
           T == Total
           G == Grid
<1>2. U * J \in Nat /\ m * T \in Nat /\ (m * T) + T = (m + 1) * T
  BY <1>1
<1>3. CASE k = 0
  BY <1>1, <1>3, CutReached, UptoSteps
<1>4. CASE k > 0
  <2>1. m * T <= U * J + T
    <3>1. CASE m = 0
      BY <1>1, <1>2, <3>1
    <3>2. CASE m > 0
      <4>1. (d[m] + (m - 1) * G) * T <= U * J * G
        BY <1>4, <3>2, CutReached
      <4>2. d[m] \in Nat /\ m - 1 \in Nat /\ (m - 1) * G \in Nat
        BY <1>1, <3>2
      <4>3. ((m - 1) * G) * T <= (d[m] + (m - 1) * G) * T
        BY <1>1, <4>2, Products
      <4>4. ((m - 1) * G) * T = ((m - 1) * T) * G /\ U * J * G = (U * J) * G
        BY <1>1, <4>2
      <4>5. /\ ((m - 1) * G) * T \in Int /\ (d[m] + (m - 1) * G) * T \in Int
            /\ U * J * G \in Int /\ (m - 1) * T \in Nat
        BY <1>1, <4>2
      <4>6. \A x, y, z \in Int : x <= y /\ y <= z => x <= z
        OBVIOUS
      <4>7. ((m - 1) * T) * G <= (U * J) * G
        BY <4>1, <4>3, <4>4, <4>5, <4>6
      <4>8. (m - 1) * T <= U * J
        BY <1>1, <1>2, <4>5, <4>7, Cancels
      <4>9. (m - 1) * T = m * T - T
        BY <1>1
      <4>. QED BY <1>1, <1>2, <4>8, <4>9
    <3>. QED BY <1>1, <3>1, <3>2
  <2>2. U * J <= m * T + T
    <3>1. CASE m = J
      <4>1. U * J <= T * J /\ T * J = J * T /\ T * J \in Nat
        BY <1>1, Products
      <4>. QED BY <1>1, <1>2, <3>1, <4>1
    <3>2. CASE m < J
      <4>1. (d[m + 1] + m * G) * T > U * J * G
        BY <1>4, <3>2, CutReached
      <4>2. m + 1 \in 1 .. J
        BY <1>1, <3>2
      <4>3. d[m + 1] \in 0 .. G - 1 /\ m * G \in Nat
        BY <1>1, <4>2
      <4>4. d[m + 1] + m * G <= (m + 1) * G /\ (m + 1) * G \in Nat
        BY <1>1, <4>3
      <4>5. (d[m + 1] + m * G) * T <= ((m + 1) * G) * T
        BY <1>1, <4>3, <4>4, Products
      <4>6. ((m + 1) * G) * T = ((m + 1) * T) * G /\ U * J * G = (U * J) * G
        BY <1>1
      <4>7. /\ ((m + 1) * G) * T \in Int /\ (d[m + 1] + m * G) * T \in Int
            /\ U * J * G \in Int /\ (m + 1) * T \in Nat
        BY <1>1, <4>3
      <4>8. \A x, y, z \in Int : y > z /\ y <= x => z < x
        OBVIOUS
      <4>9. (U * J) * G < ((m + 1) * T) * G
        BY <4>1, <4>5, <4>6, <4>7, <4>8
      <4>10. U * J < (m + 1) * T
        BY <1>1, <1>2, <4>7, <4>9, Cancels
      <4>. QED BY <1>1, <1>2, <4>10
    <3>. QED BY <1>1, <3>1, <3>2
  <2>. QED BY <2>1, <2>2
<1>. QED BY <1>1, <1>3, <1>4

\* A common draw: the distance is the same for every particle, so it does not add up.
LEMMA CutOfDraw ==
    ASSUME Weighed, Total > 0, NEW s \in 0 .. Grid - 1, NEW d, NEW q, Drawn(d, q),
           d = [n \in 1 .. J |-> s],
           NEW k \in 0 .. J, NEW m \in 0 .. J, Cut(q, k, m)
    PROVE  /\ (m * Total) * Grid + s * Total <= (Upto(k) * J) * Grid + Total * Grid
           /\ (Upto(k) * J) * Grid <= (m * Total) * Grid + s * Total
<1>1. /\ J \in Nat \ {0} /\ Total \in Nat \ {0} /\ Grid \in Nat \ {0} /\ m \in Nat /\ s \in Nat
      /\ Upto(k) \in Nat /\ Upto(k) <= Total
  BY ResamplingAssumption, TotalType, UptoSteps DEF Drawn
<1> DEFINE U == Upto(k)
           T == Total
           G == Grid
           X == (m * T) * G
           V == (U * J) * G
<1>2. X \in Nat /\ V \in Nat /\ s * T \in Nat /\ T * G \in Nat /\ s * T <= T * G
  <2>1. m * T \in Nat /\ U * J \in Nat
    BY <1>1
  <2>2. s * T <= G * T /\ G * T = T * G
    BY <1>1, Products
  <2>. QED BY <1>1, <2>1, <2>2
<1>3. CASE k = 0
  <2>1. m = 0 /\ U = 0
    BY <1>3, CutReached, UptoSteps
  <2>2. X = 0 /\ V = 0
    BY <1>1, <2>1
  <2>. HIDE DEF X, V
  <2>3. X + s * T <= V + T * G /\ V <= X + s * T
    BY <1>2, <2>2
  <2>. QED BY <2>3 DEF X, V
<1>4. CASE k > 0
  <2>1. X + s * T <= V + T * G
    <3>1. CASE m = 0
      <4>1. X = 0
        BY <1>1, <3>1
      <4>. HIDE DEF X, V
      <4>. QED BY <1>2, <4>1
    <3>2. CASE m > 0
      <4>1. (s + (m - 1) * G) * T <= U * J * G
        <5>1. m \in 1 .. J
          BY <1>1, <3>2
        <5>2. d[m] = s
          BY <5>1
        <5>. QED BY <1>4, <3>2, <5>2, CutReached
      <4>2. (s + (m - 1) * G) * T = s * T + X - T * G
        BY <1>1
      <4>3. U * J * G = V
        BY <1>1
      <4>. HIDE DEF X, V
      <4>. QED BY <1>2, <4>1, <4>2, <4>3
    <3>. QED BY <1>1, <3>1, <3>2
  <2>2. V <= X + s * T
    <3>1. CASE m = J
      <4>1. U * J <= T * J /\ T * J = m * T /\ U * J \in Nat /\ T * J \in Nat
        BY <1>1, <3>1, Products
      <4>2. V <= X
        BY <1>1, <4>1, Products
      <4>. HIDE DEF X, V
      <4>. QED BY <1>2, <4>2
    <3>2. CASE m < J
      <4>1. (s + m * G) * T > U * J * G
        <5>1. m + 1 \in 1 .. J
          BY <1>1, <3>2
        <5>2. d[m + 1] = s
          BY <5>1
        <5>. QED BY <1>4, <3>2, <5>2, CutReached
      <4>2. (s + m * G) * T = s * T + X
        BY <1>1
      <4>3. U * J * G = V
        BY <1>1
      <4>. HIDE DEF X, V
      <4>. QED BY <1>2, <4>1, <4>2, <4>3
    <3>. QED BY <1>1, <3>1, <3>2
  <2>. QED BY <2>1, <2>2
<1>. QED BY <1>1, <1>3, <1>4


\* The shares of a selection, of every draw on its own and of a common draw.
LEMMA SharesOfDraws ==
    ASSUME Weighed, Total > 0, NEW d, NEW q, Drawn(d, q), NEW k \in 1 .. J
    PROVE  LET copies == Cardinality({n \in 1 .. J : q[n] = k})
           IN  /\ copies \in Nat
               /\ copies * Total <= J * weights[k] + 2 * Total
               /\ copies * Total >= J * weights[k] - 2 * Total
<1>1. /\ J \in Nat \ {0} /\ Total \in Nat \ {0} /\ k - 1 \in 0 .. J /\ k \in 0 .. J
      /\ weights[k] \in Nat /\ Upto(k - 1) \in Nat /\ Upto(k) = Upto(k - 1) + weights[k]
  BY ResamplingAssumption, TotalType, UptoSteps DEF Weighed
<1>2. PICK a \in 0 .. J : Cut(q, k - 1, a)
  BY <1>1, CutExists
<1>3. PICK b \in 0 .. J : Cut(q, k, b)
  BY <1>1, CutExists
<1> DEFINE copies == Cardinality({n \in 1 .. J : q[n] = k})
           A == a * Total
           B == b * Total
           V == Upto(k - 1) * J
           W == J * weights[k]
<1>4. copies = b - a /\ copies \in Nat
  <2>1. q \in [1 .. J -> 1 .. J]
    BY DEF Drawn
  <2>2. a <= b /\ copies = b - a
    BY <1>2, <1>3, <2>1, CopiesBetweenCuts
  <2>. QED BY <1>1, <2>2
<1>5. B <= Upto(k) * J + Total /\ Upto(k) * J <= B + Total
  BY <1>1, <1>3, CutOfDraws
<1>6. A <= V + Total /\ V <= A + Total
  BY <1>1, <1>2, CutOfDraws
<1>7. Upto(k) * J = V + W /\ A \in Nat /\ B \in Nat /\ V \in Nat /\ W \in Nat
  BY <1>1
<1>8. copies * Total = B - A
  BY <1>1, <1>4
<1>. HIDE DEF A, B, V, W
<1>9. B - A <= W + 2 * Total /\ B - A >= W - 2 * Total
  BY <1>1, <1>5, <1>6, <1>7
<1>. QED BY <1>4, <1>8, <1>9 DEF W

LEMMA SharesOfDraw ==
    ASSUME Weighed, Total > 0, NEW s \in 0 .. Grid - 1, NEW d, NEW q, Drawn(d, q),
           d = [n \in 1 .. J |-> s], NEW k \in 1 .. J
    PROVE  LET copies == Cardinality({n \in 1 .. J : q[n] = k})
           IN  /\ copies * Total <= J * weights[k] + 1 * Total
               /\ copies * Total >= J * weights[k] - 1 * Total
<1>1. /\ J \in Nat \ {0} /\ Total \in Nat \ {0} /\ k - 1 \in 0 .. J /\ k \in 0 .. J
      /\ weights[k] \in Nat /\ Upto(k - 1) \in Nat /\ Upto(k) = Upto(k - 1) + weights[k]
      /\ Grid \in Nat \ {0} /\ s \in Nat
  BY ResamplingAssumption, TotalType, UptoSteps DEF Weighed
<1>2. PICK a \in 0 .. J : Cut(q, k - 1, a)
  BY <1>1, CutExists
<1>3. PICK b \in 0 .. J : Cut(q, k, b)
  BY <1>1, CutExists
<1> DEFINE copies == Cardinality({n \in 1 .. J : q[n] = k})
           A == (a * Total) * Grid
           B == (b * Total) * Grid
           V == (Upto(k - 1) * J) * Grid
           W == (J * weights[k]) * Grid
           S == s * Total
           T == Total * Grid
<1>4. copies = b - a /\ copies \in Nat
  <2>1. q \in [1 .. J -> 1 .. J]
    BY DEF Drawn
  <2>2. a <= b /\ copies = b - a
    BY <1>2, <1>3, <2>1, CopiesBetweenCuts
  <2>. QED BY <1>1, <2>2
<1>5. B + S <= (Upto(k) * J) * Grid + T /\ (Upto(k) * J) * Grid <= B + S
  BY <1>1, <1>3, CutOfDraw
<1>6. A + S <= V + T /\ V <= A + S
  BY <1>1, <1>2, CutOfDraw
<1>7. (Upto(k) * J) * Grid = V + W
  <2>1. (Upto(k) * J) = Upto(k - 1) * J + J * weights[k]
    BY <1>1
  <2>2. \A x, y \in Nat : (x + y) * Grid = x * Grid + y * Grid
    BY <1>1
  <2>3. Upto(k - 1) * J \in Nat /\ J * weights[k] \in Nat
    BY <1>1
  <2>. QED BY <2>1, <2>2, <2>3
<1>8. A \in Nat /\ B \in Nat /\ V \in Nat /\ W \in Nat /\ S \in Nat /\ T \in Nat
  <2>1. a * Total \in Nat /\ b * Total \in Nat /\ Upto(k - 1) * J \in Nat /\ J * weights[k] \in Nat
    BY <1>1
  <2>. QED BY <1>1, <2>1
<1>9. (copies * Total) * Grid = B - A
  BY <1>1, <1>4
<1>10. /\ B - A <= W + T /\ W <= (B - A) + T
  <2>. HIDE DEF A, B, V, W, S, T
  <2>. QED BY <1>5, <1>6, <1>7, <1>8
<1> DEFINE C == copies * Total
           R == J * weights[k]
<1>11. C \in Nat /\ R \in Nat
  BY <1>1, <1>4
<1>12. W + T = (R + Total) * Grid /\ C * Grid + T = (C + Total) * Grid /\ W = R * Grid
  <2>. HIDE DEF C
  <2>. QED BY <1>1, <1>11
<1>. HIDE DEF A, B, V, S, W, T, C, R
<1>13. C * Grid <= (R + Total) * Grid /\ R * Grid <= (C + Total) * Grid
  BY <1>9, <1>10, <1>12 DEF C
<1>14. C <= R + Total /\ R <= C + Total
  BY <1>1, <1>11, <1>13, Cancels
<1>15. C <= R + 1 * Total /\ C >= R - 1 * Total
  BY <1>1, <1>11, <1>14
<1>. QED BY <1>15 DEF C, R, copies

\* Both functions keep the ensemble representative: the number of copies of a particle is
\* its share of the weights, up to one with a common draw and up to two with a draw for
\* every slice.
THEOREM ResamplingSharesKept == Spec => []SharesKept
<1>1. ASSUME Inv, outcome = "returned", Total > 0, method = "original" PROVE Within(1)
  <2> DEFINE d == [n \in 1 .. J |-> start]
  <2>1. chosen \in Seq(1 .. J) /\ Len(chosen) = J /\ J \in Nat
        /\ \A n \in 1 .. J : chosen[n] = Search(start, n - 1)
    BY <1>1, ResamplingAssumption DEF Inv, TypeOK, SearchedSoFar
  <2>2. chosen \in [1 .. J -> 1 .. J] /\ DOMAIN chosen = 1 .. J
    BY <2>1
  <2>3. Weighed /\ start \in 0 .. Grid - 1
    BY <1>1 DEF Inv, Called
  <2>4. Drawn(d, chosen)
    BY <2>1, <2>2, <2>3 DEF Drawn
  <2>5. ASSUME NEW k \in 1 .. J
        PROVE  /\ Copies(k) * Total <= J * weights[k] + 1 * Total
               /\ Copies(k) * Total >= J * weights[k] - 1 * Total
    <3>. HIDE DEF d
    <3>1. d = [n \in 1 .. J |-> start]
      BY DEF d
    <3>2. Copies(k) = Cardinality({n \in 1 .. J : chosen[n] = k})
      BY <2>2 DEF Copies
    <3>3. /\ Cardinality({n \in 1 .. J : chosen[n] = k}) * Total <= J * weights[k] + 1 * Total
          /\ Cardinality({n \in 1 .. J : chosen[n] = k}) * Total >= J * weights[k] - 1 * Total
      BY <1>1, <2>3, <2>4, <3>1, SharesOfDraw
    <3>. QED BY <3>2, <3>3
  <2>. QED BY <2>5 DEF Within
<1>2. ASSUME Inv, outcome = "returned", Total > 0, method = "universal" PROVE Within(2)
  <2> DEFINE d == [n \in 1 .. J |-> CHOOSE e \in 0 .. Grid - 1 : Search(e, n - 1) = chosen[n]]
  <2>1. chosen \in [1 .. J -> 1 .. J] /\ DOMAIN chosen = 1 .. J /\ Weighed
        /\ \A n \in 1 .. J : \E e \in 0 .. Grid - 1 : Search(e, n - 1) = chosen[n]
    BY <1>2 DEF Inv, UniversalReturns, Outcomes, Found, Called
  <2>2. Drawn(d, chosen)
    BY <2>1 DEF Drawn
  <2>3. ASSUME NEW k \in 1 .. J
        PROVE  /\ Copies(k) * Total <= J * weights[k] + 2 * Total
               /\ Copies(k) * Total >= J * weights[k] - 2 * Total
    <3>. HIDE DEF d
    <3>. QED BY <1>2, <2>1, <2>2, SharesOfDraws DEF Copies
  <2>. QED BY <2>3 DEF Within
<1>3. Inv => SharesKept
  BY <1>1, <1>2 DEF SharesKept
<1>. QED BY <1>3, Invariance, PTL

-----------------------------------------------------------------------------
(***************************************************************************)
(* The selection of the cascade.  A slice may end at a particle if its sum *)
(* reaches the slice and it begins before the slice ends; the grid has a   *)
(* draw for each of these cases.                                           *)
(***************************************************************************)

LEMMA ExceedsWhole ==
    ASSUME Weighed, Total > 0, NEW d \in Nat, NEW k \in Nat, NEW w \in Nat
    PROVE  Exceeds(d, k, w) <=> d + 2 * (k * Total) > 2 * (J * w)
<1>1. J \in Nat \ {0} /\ Total \in Nat \ {0} /\ Grid = 2 * Total
  BY ResamplingAssumption, TotalType DEF Grid
<1> DEFINE x == d + 2 * (k * Total)
           y == 2 * (J * w)
<1>2. x \in Nat /\ y \in Nat
  <2>1. k * Total \in Nat /\ J * w \in Nat
    BY <1>1
  <2>. QED BY <2>1
<1>3. (d + k * Grid) * Total = x * Total /\ w * J * Grid = y * Total
  BY <1>1
<1>4. y * Total < x * Total <=> y < x
  <2>1. x <= y => x * Total <= y * Total
    BY <1>1, <1>2, Products
  <2>2. y * Total < x * Total => y < x
    BY <1>1, <1>2, Products
  <2>3. ~(x <= y) => ~(x * Total <= y * Total)
    <3>1. x * Total <= y * Total => x <= y
      BY <1>1, <1>2, Cancels
    <3>. QED BY <3>1
  <2>4. x * Total \in Nat /\ y * Total \in Nat
    BY <1>1, <1>2
  <2>5. \A a, b \in Nat : a < b <=> ~(b <= a)
    OBVIOUS
  <2>. QED BY <1>2, <2>1, <2>3, <2>4, <2>5
<1>5. x * Total > y * Total <=> x > y
  <2>1. x * Total \in Nat /\ y * Total \in Nat
    BY <1>1, <1>2
  <2>2. \A a, b \in Nat : a > b <=> b < a
    OBVIOUS
  <2>. QED BY <1>2, <1>4, <2>1, <2>2
<1>6. Exceeds(d, k, w) <=> x * Total > y * Total
  BY <1>1, <1>3 DEF Exceeds
<1>. QED BY <1>5, <1>6

\* The n-th particle may be where a draw of the k-th slice, counted from 1, ends.
Admits(k, n) ==
    IF Total = 0 THEN n = 1
    ELSE /\ J * Upto(n) >= (k - 1) * Total
         /\ n > 1 => Upto(n - 1) < Upto(n) /\ J * Upto(n - 1) < k * Total

LEMMA FoundIsAdmitted ==
    ASSUME Weighed, NEW k \in 1 .. J, NEW n \in 1 .. J
    PROVE  n \in Found(k - 1) <=> Admits(k, n)
<1>1. J \in Nat \ {0} /\ Total \in Nat /\ Grid \in Nat \ {0} /\ k - 1 \in 0 .. J - 1
  BY ResamplingAssumption, TotalType
<1>2. \A d \in 0 .. Grid - 1 : n = Search(d, k - 1) <=> Finds(d, k - 1, n)
  BY <1>1, SearchFinds
<1>3. n \in Found(k - 1) <=> \E d \in 0 .. Grid - 1 : Finds(d, k - 1, n)
  BY <1>2 DEF Found
<1>4. CASE Total = 0
  <2>1. \A d, w : ~Exceeds(d, k - 1, w)
    BY <1>4 DEF Exceeds
  <2>2. \A d : Finds(d, k - 1, n) <=> 1 .. n - 1 = {}
    BY <2>1 DEF Finds
  <2>3. 1 .. n - 1 = {} <=> n = 1
    <3>1. n > 1 => 1 \in 1 .. n - 1
      BY <1>1
    <3>2. n = 1 => 1 .. n - 1 = {}
      OBVIOUS
    <3>. QED BY <1>1, <3>1, <3>2
  <2>4. 0 \in 0 .. Grid - 1
    BY <1>1
  <2>. QED BY <1>3, <1>4, <2>2, <2>3, <2>4 DEF Admits
<1>5. CASE Total > 0
  <2> DEFINE T == (k - 1) * Total
             W(m) == J * Upto(m)
  <2>1. T \in Nat /\ k * Total = T + Total /\ Grid = 2 * Total
    BY <1>1, <1>5 DEF Grid
  <2>2. \A m \in 0 .. J : W(m) \in Nat /\ Upto(m) \in Nat
    BY <1>1, UptoSteps
  <2>3. \A d \in 0 .. Grid - 1 : \A m \in 0 .. J : Exceeds(d, k - 1, Upto(m)) <=> d + 2 * T > 2 * W(m)
    <3>1. \A d \in 0 .. Grid - 1 : d \in Nat
      BY <1>1
    <3>. QED BY <1>1, <1>5, <2>2, <3>1, ExceedsWhole
  <2>4. \A m \in 0 .. J : m \in 1 .. n - 1 => m <= n - 1 /\ Upto(m) <= Upto(n - 1)
    BY <1>1, UptoGrows
  <2>5. \A d \in 0 .. Grid - 1 :
            Finds(d, k - 1, n) <=> ~(d + 2 * T > 2 * W(n)) /\ (n > 1 => d + 2 * T > 2 * W(n - 1))
    <3> SUFFICES ASSUME NEW d \in 0 .. Grid - 1
                 PROVE  Finds(d, k - 1, n) <=> ~(d + 2 * T > 2 * W(n)) /\ (n > 1 => d + 2 * T > 2 * W(n - 1))
      OBVIOUS
    <3>1. d \in Nat /\ k - 1 \in Nat /\ n \in 0 .. J /\ n - 1 \in 0 .. J /\ 1 .. n - 1 \subseteq 0 .. J
      BY <1>1
    <3>2. n > 1 => n - 1 \in 1 .. n - 1
      BY <1>1
    <3>3. ASSUME n > 1 /\ Exceeds(d, k - 1, Upto(n - 1)), NEW m \in 1 .. n - 1
          PROVE  Exceeds(d, k - 1, Upto(m))
      BY <2>2, <2>4, <3>1, <3>3, ExceedsLess
    <3>4. ~(n > 1) => 1 .. n - 1 = {}
      BY <1>1
    <3>5. (\A m \in 1 .. n - 1 : Exceeds(d, k - 1, Upto(m))) <=> (n > 1 => Exceeds(d, k - 1, Upto(n - 1)))
      BY <3>2, <3>3, <3>4
    <3>6. /\ Exceeds(d, k - 1, Upto(n)) <=> d + 2 * T > 2 * W(n)
          /\ Exceeds(d, k - 1, Upto(n - 1)) <=> d + 2 * T > 2 * W(n - 1)
      BY <2>3, <3>1
    <3>. QED BY <3>5, <3>6 DEF Finds
  <2>6. n > 1 => (Upto(n - 1) < Upto(n) <=> W(n - 1) + 1 <= W(n))
    <3> SUFFICES ASSUME n > 1 PROVE Upto(n - 1) < Upto(n) <=> W(n - 1) + 1 <= W(n)
      OBVIOUS
    <3>1. n - 1 \in 0 .. J /\ n \in 0 .. J
      BY <1>1
    <3>2. Upto(n - 1) \in Nat /\ Upto(n) \in Nat
      BY <2>2, <3>1
    <3>3. \A x, y \in Nat : J * x < J * y <=> x < y
      <4> TAKE x, y \in Nat
      <4>1. J * x = x * J /\ J * y = y * J /\ x * J \in Nat /\ y * J \in Nat
        BY <1>1
      <4>2. y * J <= x * J <=> y <= x
        BY <1>1, Products, Cancels
      <4>3. \A a, b \in Nat : a < b <=> ~(b <= a)
        OBVIOUS
      <4>. QED BY <4>1, <4>2, <4>3
    <3>4. J * Upto(n - 1) \in Nat /\ J * Upto(n) \in Nat
      BY <2>2, <3>1
    <3>5. \A a, b \in Nat : a < b <=> a + 1 <= b
      OBVIOUS
    <3>. QED BY <3>2, <3>3, <3>4, <3>5
  <2>7. Admits(k, n) <=> /\ W(n) >= T
                         /\ n > 1 => W(n - 1) + 1 <= W(n) /\ W(n - 1) < T + Total
    BY <1>5, <2>1, <2>6 DEF Admits
  <2>8. W(n) \in Nat /\ W(n - 1) \in Nat
    <3>1. n - 1 \in 0 .. J /\ n \in 0 .. J
      BY <1>1
    <3>. QED BY <2>2, <3>1
  <2> DEFINE a == W(n - 1)
             b == W(n)
             Ends(d) == ~(d + 2 * T > 2 * b) /\ (n > 1 => d + 2 * T > 2 * a)
  <2>9. n \in Found(k - 1) <=> \E d \in 0 .. 2 * Total - 1 : Ends(d)
    BY <1>3, <2>1, <2>5
  <2>10. a \in Nat /\ b \in Nat /\ n \in Nat
    BY <1>1, <2>8
  <2>11. Admits(k, n) <=> b >= T /\ (n > 1 => a + 1 <= b /\ a < T + Total)
    BY <2>7
  <2>. HIDE DEF T, a, b
  <2>12. ASSUME NEW d \in 0 .. 2 * Total - 1, Ends(d)
         PROVE  b >= T /\ (n > 1 => a + 1 <= b /\ a < T + Total)
    BY <1>1, <2>1, <2>10, <2>12
  <2>13. ASSUME b >= T /\ (n > 1 => a + 1 <= b /\ a < T + Total)
         PROVE  \E d \in 0 .. 2 * Total - 1 : Ends(d)
    <3>1. CASE n > 1 /\ a >= T
      <4>1. 2 * a - 2 * T + 1 \in 0 .. 2 * Total - 1
        BY <1>1, <2>1, <2>10, <2>13, <3>1
      <4>2. Ends(2 * a - 2 * T + 1)
        BY <1>1, <2>1, <2>10, <2>13, <3>1
      <4>. HIDE DEF Ends
      <4>. QED BY <4>1, <4>2
    <3>2. CASE ~(n > 1 /\ a >= T)
      <4>1. 0 \in 0 .. 2 * Total - 1
        BY <1>1, <1>5
      <4>2. Ends(0)
        BY <1>1, <2>1, <2>10, <2>13, <3>2
      <4>. HIDE DEF Ends
      <4>. QED BY <4>1, <4>2
    <3>. QED BY <3>1, <3>2
  <2>14. (\E d \in 0 .. 2 * Total - 1 : Ends(d)) <=> b >= T /\ (n > 1 => a + 1 <= b /\ a < T + Total)
    <3>. HIDE DEF Ends
    <3>. QED BY <2>12, <2>13
  <2>. QED BY <2>9, <2>11, <2>14
<1>. QED BY <1>1, <1>4, <1>5

\* Two weights: the sums are counted instead of added up.
TwoWeights(p, border, high, low) ==
    /\ Len(p) = J /\ high \in Nat /\ low \in Nat
    /\ weights = [k \in 1 .. J |-> IF p[k] \in border THEN high ELSE low]

OnBorder(p, border, k) == {n \in 1 .. k : p[n] \in border}

LEMMA UptoCounts ==
    ASSUME NEW p, NEW border, NEW high, NEW low, TwoWeights(p, border, high, low), NEW k \in 0 .. J
    PROVE  Upto(k) = low * k + (high - low) * Cardinality(OnBorder(p, border, k))
<1> DEFINE Count(m) == Cardinality(OnBorder(p, border, m))
           S == {m \in 0 .. J : /\ IsFiniteSet(OnBorder(p, border, m))
                                /\ Count(m) \in Nat
                                /\ Upto(m) = low * m + (high - low) * Count(m)}
<1>1. J \in Nat \ {0} /\ high \in Nat /\ low \in Nat
  BY ResamplingAssumption DEF TwoWeights
<1>2. \A m \in 1 .. J : weights[m] = IF p[m] \in border THEN high ELSE low
  BY DEF TwoWeights
<1>3. Weighed
  BY <1>1 DEF TwoWeights, Weighed
<1>4. 0 \in S
  <2>1. OnBorder(p, border, 0) = {}
    BY DEF OnBorder
  <2>2. IsFiniteSet({}) /\ Cardinality({}) = 0
    BY FS_EmptySet
  <2>3. IsFiniteSet(OnBorder(p, border, 0)) /\ Count(0) = 0
    BY <2>1, <2>2
  <2>4. Upto(0) = low * 0 + (high - low) * 0
    BY <1>1, <1>3, UptoSteps
  <2>. QED BY <1>1, <2>3, <2>4
<1>5. ASSUME NEW m \in 0 .. J - 1, m \in S PROVE m + 1 \in S
  <2>1. m + 1 \in 1 .. J /\ m + 1 - 1 = m /\ m + 1 \in 0 .. J /\ m \in Nat
    BY <1>1
  <2>2. Upto(m + 1) = Upto(m) + weights[m + 1]
    BY <1>3, <2>1, UptoSteps
  <2>3. IsFiniteSet(OnBorder(p, border, m)) /\ Count(m) \in Nat
        /\ Upto(m) = low * m + (high - low) * Count(m)
    BY <1>5
  <2>4. m + 1 \notin OnBorder(p, border, m)
    BY <2>1 DEF OnBorder
  <2>5. CASE p[m + 1] \in border
    <3>1. OnBorder(p, border, m + 1) = OnBorder(p, border, m) \cup {m + 1}
      BY <2>1, <2>5 DEF OnBorder
    <3>2. IsFiniteSet(OnBorder(p, border, m + 1)) /\ Count(m + 1) = Count(m) + 1
      BY <2>3, <2>4, <3>1, FS_AddElement
    <3>3. Upto(m + 1) = low * m + (high - low) * Count(m) + high
      BY <1>2, <2>1, <2>2, <2>3, <2>5
    <3>4. \A n \in Nat : low * m + (high - low) * n + high = low * (m + 1) + (high - low) * (n + 1)
      BY <1>1, <2>1
    <3>5. Upto(m + 1) = low * (m + 1) + (high - low) * (Count(m) + 1)
      BY <2>3, <3>3, <3>4
    <3>6. Count(m) + 1 \in Nat
      BY <2>3
    <3>. QED BY <2>1, <3>2, <3>5, <3>6
  <2>6. CASE p[m + 1] \notin border
    <3>1. OnBorder(p, border, m + 1) = OnBorder(p, border, m)
      <4>1. \A n \in 1 .. m + 1 : n = m + 1 \/ n \in 1 .. m
        BY <2>1
      <4>. QED BY <2>1, <2>6, <4>1 DEF OnBorder
    <3>2. IsFiniteSet(OnBorder(p, border, m + 1)) /\ Count(m + 1) = Count(m)
      BY <2>3, <3>1
    <3>3. Upto(m + 1) = low * m + (high - low) * Count(m) + low
      BY <1>2, <2>1, <2>2, <2>3, <2>6
    <3>4. \A n \in Nat : low * m + (high - low) * n + low = low * (m + 1) + (high - low) * n
      BY <1>1, <2>1
    <3>5. Upto(m + 1) = low * (m + 1) + (high - low) * Count(m)
      BY <2>3, <3>3, <3>4
    <3>. QED BY <2>1, <2>3, <3>2, <3>5
  <2>. QED BY <2>5, <2>6
<1>. HIDE DEF S
<1>6. 0 .. J \subseteq S
  BY <1>1, <1>4, <1>5, InductionTo
<1>. QED BY <1>6 DEF S

\* The selection with two weights is the search of the code, for every sequence of
\* particles and every border.
THEOREM SelectionIsSearch ==
    ASSUME NEW p, NEW border, NEW high, NEW low, TwoWeights(p, border, high, low)
    PROVE  Resampled(p, border, high, low) = { [k \in 1 .. J |-> p[q[k]]] : q \in Outcomes }
<1> DEFINE upto(k) == low * k + (high - low) * Cardinality({m \in 1 .. k : p[m] \in border})
           Selects(k, n) ==
               IF upto(J) = 0 THEN n = 1
               ELSE /\ J * upto(n) >= (k - 1) * upto(J)
                    /\ n > 1 => upto(n - 1) < upto(n) /\ J * upto(n - 1) < k * upto(J)
           Picks == { q \in [1 .. J -> 1 .. J] : \A k \in 1 .. J : Selects(k, q[k]) }
<1>1. J \in Nat \ {0} /\ Len(p) = J /\ Weighed
  BY ResamplingAssumption DEF TwoWeights, Weighed
<1>2. \A k \in 0 .. J : upto(k) = Upto(k)
  <2> SUFFICES ASSUME NEW k \in 0 .. J PROVE upto(k) = Upto(k)
    OBVIOUS
  <2>1. Upto(k) = low * k + (high - low) * Cardinality(OnBorder(p, border, k))
    BY UptoCounts
  <2>2. OnBorder(p, border, k) = {m \in 1 .. k : p[m] \in border}
    BY DEF OnBorder
  <2>. QED BY <2>1, <2>2
<1>3. Resampled(p, border, high, low) = { [k \in 1 .. J |-> p[q[k]]] : q \in Picks }
  <2>1. Resampled(p, border, high, low) =
            { [k \in 1 .. Len(p) |-> p[q[k]]] :
              q \in { q \in [1 .. Len(p) -> 1 .. Len(p)] : \A k \in 1 .. Len(p) :
                IF upto(Len(p)) = 0 THEN q[k] = 1
                ELSE /\ Len(p) * upto(q[k]) >= (k - 1) * upto(Len(p))
                     /\ q[k] > 1 => upto(q[k] - 1) < upto(q[k]) /\ Len(p) * upto(q[k] - 1) < k * upto(Len(p)) } }
    BY DEF Resampled
  <2>. QED BY <1>1, <2>1
<1>. HIDE DEF upto
<1>4. ASSUME NEW k \in 1 .. J, NEW n \in 1 .. J PROVE Selects(k, n) <=> n \in Found(k - 1)
  <2>1. n \in 0 .. J /\ n - 1 \in 0 .. J /\ J \in 0 .. J
    BY <1>1
  <2>2. Selects(k, n) <=> Admits(k, n)
    BY <1>2, <2>1 DEF Admits, Total
  <2>. QED BY <1>1, <2>2, FoundIsAdmitted
<1>5. Picks = Outcomes
  BY <1>4 DEF Outcomes
<1>. QED BY <1>3, <1>5

\* Of at most two weights one is the largest, the other the smallest.
LEMMA TwoWeightsAtMost ==
    ASSUME Weighed, Cardinality(ToSet(weights)) <= 2
    PROVE  LET high == CHOOSE w \in ToSet(weights) : \A v \in ToSet(weights) : v <= w
               low  == CHOOSE w \in ToSet(weights) : \A v \in ToSet(weights) : w <= v
           IN  /\ high \in Nat /\ low \in Nat
               /\ \A k \in 1 .. J : weights[k] # high => weights[k] = low
<1> DEFINE W == ToSet(weights)
           high == CHOOSE w \in W : \A v \in W : v <= w
           low  == CHOOSE w \in W : \A v \in W : w <= v
<1>1. J \in Nat \ {0} /\ DOMAIN weights = 1 .. J /\ \A k \in 1 .. J : weights[k] \in Nat
  BY ResamplingAssumption DEF Weighed
<1>2. W = {weights[k] : k \in 1 .. J}
  BY <1>1 DEF ToSet
<1>3. W \in SUBSET Nat /\ weights[1] \in W /\ IsFiniteSet(W)
  <2>1. IsFiniteSet(1 .. J)
    BY <1>1, FS_Interval
  <2>2. weights \in Surjection(1 .. J, W)
    BY <1>2 DEF Weighed, Surjection
  <2>3. IsFiniteSet(W)
    BY <2>1, <2>2, FS_Surjection
  <2>. QED BY <1>1, <1>2, <2>3
<1>4. \A v \in W : v <= Total
  <2> SUFFICES ASSUME NEW k \in 1 .. J PROVE weights[k] <= Total
    BY <1>2
  <2>1. k - 1 \in 0 .. J /\ k \in 0 .. J
    BY <1>1
  <2>2. Upto(k) = Upto(k - 1) + weights[k] /\ Upto(k) <= Total /\ Upto(k - 1) \in Nat /\ Upto(k) \in Nat
    BY <2>1, UptoSteps, TotalType
  <2>. QED BY <1>1, <2>2, TotalType
<1>. HIDE DEF W
<1>5. low \in W /\ \A v \in W : low <= v
  <2>1. \E w \in W : \A v \in W : w <= v
    BY <1>3, LeastNumber
  <2>. QED BY <2>1
<1>6. high \in W /\ \A v \in W : v <= high
  <2> DEFINE Bounds == {b \in Nat : \A v \in W : v <= b}
  <2>1. Bounds \in SUBSET Nat /\ Total \in Bounds
    BY <1>4, TotalType
  <2>2. PICK b \in Bounds : \A x \in Bounds : b <= x
    <3>. HIDE DEF Bounds
    <3>. QED BY <2>1, LeastNumber
  <2>3. b \in W
    <3> SUFFICES ASSUME b \notin W PROVE FALSE
      OBVIOUS
    <3>1. \A v \in W : v \in Nat /\ v <= b /\ v # b
      BY <1>3
    <3>2. \A v \in W : v <= b - 1
      BY <3>1
    <3>3. weights[1] \in Nat /\ weights[1] <= b - 1
      BY <1>1, <1>3, <3>2
    <3>4. b - 1 \in Bounds
      BY <3>2, <3>3
    <3>. QED BY <2>2, <3>4
  <2>4. \E w \in W : \A v \in W : v <= w
    BY <2>3
  <2>. QED BY <2>4
<1>. HIDE DEF low, high
<1>7. ASSUME NEW k \in 1 .. J, weights[k] # high, weights[k] # low PROVE FALSE
  <2>1. weights[k] \in W
    BY <1>2
  <2>2. low # high
    <3>1. weights[k] <= high /\ low <= weights[k] /\ high \in Nat /\ low \in Nat /\ weights[k] \in Nat
      BY <1>3, <1>5, <1>6, <2>1
    <3>. QED BY <1>7, <3>1
  <2> DEFINE Two == {low, high}
             Three == Two \cup {weights[k]}
  <2>3. IsFiniteSet(Two) /\ Cardinality(Two) = 2
    <3>1. IsFiniteSet({low}) /\ Cardinality({low}) = 1
      BY FS_Singleton
    <3>2. Two = {low} \cup {high} /\ high \notin {low}
      BY <2>2
    <3>. QED BY <3>1, <3>2, FS_AddElement
  <2>4. weights[k] \notin Two
    BY <1>7
  <2>5. IsFiniteSet(Three) /\ Cardinality(Three) = 3
    <3>. HIDE DEF Two
    <3>. QED BY <2>3, <2>4, FS_AddElement
  <2>6. Three \subseteq W
    BY <1>5, <1>6, <2>1
  <2>. HIDE DEF Three
  <2>7. Cardinality(Three) <= Cardinality(W) /\ Cardinality(W) \in Nat
    BY <1>3, <2>6, FS_Subset, FS_CardinalityType
  <2>8. Cardinality(W) <= 2
    BY DEF W
  <2>. QED BY <2>5, <2>7, <2>8
<1>8. high \in Nat /\ low \in Nat /\ \A k \in 1 .. J : weights[k] # high => weights[k] = low
  BY <1>3, <1>5, <1>6, <1>7
<1>. QED BY <1>8 DEF high, low, W

\* The instance a run compares: particles known by their index, at most two weights.
THEOREM ResamplingSelectionExact == Spec => []SelectionExact
<1>1. ASSUME Inv, Cardinality(ToSet(weights)) <= 2
      PROVE  LET high == CHOOSE w \in ToSet(weights) : \A v \in ToSet(weights) : v <= w
                 low  == CHOOSE w \in ToSet(weights) : \A v \in ToSet(weights) : w <= v
                 border == {k \in 1 .. J : weights[k] = high}
             IN  Resampled([k \in 1 .. J |-> k], border, high, low) = Outcomes
  <2> DEFINE high == CHOOSE w \in ToSet(weights) : \A v \in ToSet(weights) : v <= w
             low  == CHOOSE w \in ToSet(weights) : \A v \in ToSet(weights) : w <= v
             border == {k \in 1 .. J : weights[k] = high}
             p == [k \in 1 .. J |-> k]
  <2>1. Weighed /\ J \in Nat \ {0}
    BY <1>1, ResamplingAssumption DEF Inv, Called
  <2>2. high \in Nat /\ low \in Nat /\ \A k \in 1 .. J : weights[k] # high => weights[k] = low
    BY <1>1, <2>1, TwoWeightsAtMost
  <2>. HIDE DEF high, low
  <2>3. \A k \in 1 .. J : weights[k] = IF p[k] \in border THEN high ELSE low
    BY <2>2
  <2>4. weights = [k \in 1 .. J |-> weights[k]]
    BY <2>1 DEF Weighed
  <2>5. weights = [k \in 1 .. J |-> IF p[k] \in border THEN high ELSE low]
    BY <2>3, <2>4
  <2>6. p \in Seq(1 .. J) /\ Len(p) = J
    BY <2>1
  <2>7. \A q \in Outcomes : [k \in 1 .. J |-> p[q[k]]] = q
    BY DEF Outcomes
  <2>. HIDE DEF border, p
  <2>8. TwoWeights(p, border, high, low)
    BY <2>2, <2>5, <2>6 DEF TwoWeights
  <2>9. Resampled(p, border, high, low) = { [k \in 1 .. J |-> p[q[k]]] : q \in Outcomes }
    BY <2>8, SelectionIsSearch
  <2>10. Resampled(p, border, high, low) = Outcomes
    BY <2>7, <2>9
  <2>. QED BY <2>10 DEF p, border, high, low
<1>2. Inv => SelectionExact
  BY <1>1 DEF SelectionExact
<1>. QED BY <1>2, Invariance, PTL

-----------------------------------------------------------------------------
(***************************************************************************)
(* The end of the loops, without fairness: the steps that are left.        *)
(***************************************************************************)

Remaining == (J - i) + (J - j) + (IF outcome = "none" THEN 1 ELSE 0)

\* Before the end of the call the guard of some action holds.
NotStuck ==
    \/ outcome # "none"
    \/ method = "original" /\ (j < J \/ j = J)
    \/ method = "universal" /\ Outcomes # {}
    \/ method = "systematic" /\ ~Continues

LEMMA NothingInCommon == BitAnd(J, 0) = 0
<1>1. J \in Nat /\ 2^0 = 1
  BY ResamplingAssumption
<1>2. \A b \in 0 .. 0 : (0 \div 2^b) % 2 = ((J \div 2^b) % 2) * ((0 \div 2^b) % 2)
  <2>1. 0 \div 1 = 0 /\ 0 % 2 = 0 /\ J \div 1 = J /\ J % 2 \in Nat
    BY <1>1
  <2>2. (J % 2) * 0 = 0
    BY <2>1
  <2>. QED BY <1>1, <2>1, <2>2
<1>3. \E n \in 0 .. 0 : \A b \in 0 .. 0 :
          (n \div 2^b) % 2 = ((J \div 2^b) % 2) * ((0 \div 2^b) % 2)
  <2>1. 0 \in 0 .. 0
    OBVIOUS
  <2>. QED BY <1>2, <2>1
<1>4. BitAnd(J, 0) \in 0 .. 0
  BY <1>3 DEF BitAnd
<1>. QED BY <1>4

\* Every step leaves fewer of at most 2 * J, and before the end of the call, with a
\* selection or with an IndexError, there is one to take: no call turns forever.
THEOREM ResamplingEnds ==
    Spec => /\ [](Remaining \in 0 .. 2 * J /\ NotStuck)
            /\ [][Remaining' < Remaining]_vars
<1>1. Inv => Remaining \in 0 .. 2 * J
  <2> SUFFICES ASSUME Inv PROVE Remaining \in 0 .. 2 * J
    OBVIOUS
  <2>1. J \in Nat \ {0} /\ i \in 1 .. J + 1 /\ j \in 0 .. J
    BY ResamplingAssumption DEF Inv, TypeOK
  <2>2. CASE i \in 1 .. J
    BY <2>1, <2>2 DEF Remaining
  <2>3. CASE i = J + 1
    <3>1. outcome = "raised" /\ j = J - 1
      BY <2>1, <2>3 DEF Inv, TypeOK, FallsShortOf
    <3>. QED BY <2>1, <2>3, <3>1 DEF Remaining
  <2>. QED BY <2>1, <2>2, <2>3
<1>2. ASSUME Inv PROVE NotStuck
  <2>1. CASE method = "original"
    BY <1>2, <2>1, ResamplingAssumption DEF NotStuck, Inv, TypeOK
  <2>2. CASE method = "universal"
    <3>1. Weighed /\ J \in Nat \ {0} /\ 0 \in 0 .. Grid - 1
      BY <1>2, TotalType, ResamplingAssumption DEF Inv, Called
    <3>2. \A k \in 1 .. J : Search(0, k - 1) \in 1 .. J /\ Search(0, k - 1) \in Found(k - 1)
      <4> TAKE k \in 1 .. J
      <4>1. k - 1 \in 0 .. J - 1
        BY <3>1
      <4>. QED BY <3>1, <4>1, SearchFinds DEF Found
    <3>3. [k \in 1 .. J |-> Search(0, k - 1)] \in Outcomes
      BY <3>2 DEF Outcomes
    <3>. QED BY <2>2, <3>3 DEF NotStuck
  <2>3. CASE method = "systematic"
    <3>1. i = 1 /\ j = 1
      BY <1>2, <2>3 DEF Inv, SystematicRests
    <3>2. ~Continues
      BY <3>1, NothingInCommon DEF Continues
    <3>. QED BY <2>3, <3>2 DEF NotStuck
  <2>. QED BY <1>2, <2>1, <2>2, <2>3 DEF Inv, Called
<1>3. ASSUME Inv, [Next]_vars PROVE [Remaining' < Remaining]_vars
  <2>1. J \in Nat /\ i \in Int /\ j \in Int
    BY <1>3, ResamplingAssumption DEF Inv, TypeOK
  <2>2. CASE Advance
    BY <2>1, <2>2 DEF Advance, Remaining
  <2>3. CASE Choose
    BY <2>1, <2>3 DEF Choose, Remaining
  <2>4. CASE Universal
    BY <2>1, <2>4 DEF Universal, Remaining
  <2>5. CASE Return \/ ReturnSystematic
    BY <2>1, <2>5 DEF Return, ReturnSystematic, Remaining
  <2>6. CASE RunOff
    <3>1. i \in 1 .. J
      BY <1>3, <2>1, <2>6, ResamplingAssumption DEF RunOff, Inv, TypeOK
    <3>2. i' = J + 1 /\ j' = j /\ outcome = "none" /\ outcome' = "raised"
      BY <2>6 DEF RunOff
    <3>. QED BY <2>1, <3>1, <3>2 DEF Remaining
  <2>7. CASE Miss
    BY <2>1, <2>7 DEF Miss, Remaining
  <2>. QED BY <1>3, <2>2, <2>3, <2>4, <2>5, <2>6, <2>7 DEF Next
<1>. QED BY <1>1, <1>2, <1>3, Invariance, PTL DEF Spec

=============================================================================
