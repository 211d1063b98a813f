------------------------ MODULE ParticleCascadeProofs ------------------------
(***************************************************************************)
(* Proofs about ParticleCascade, for every size of the ensembles, every    *)
(* tempo and meter range, every frame rate, threshold, offset and set of   *)
(* activations, and for calls of any length.                               *)
(***************************************************************************)
EXTENDS ParticleCascade, NumberTheorems, FiniteSetTheorems, SequenceTheorems, TLAPS

\* A function on 1..n is a sequence of length n.
LEMMA FunctionIsSequence ==
    ASSUME NEW n \in Nat, NEW S, NEW f \in [1 .. n -> S]
    PROVE  f \in Seq(S) /\ Len(f) = n
OBVIOUS

\* A motion stays on the state space 0..n-1 and keeps the size of the ensemble:
\* only a last state has no state after it, and those are the ones that wrap.
LEMMA MotionsStay ==
    ASSUME NEW n \in Nat, NEW p \in Seq(0 .. n - 1), NEW succ,
           NEW L, succ \in [L -> SUBSET (0 .. n - 1)], n - 1 \in L,
           NEW q \in Motions(p, succ)
    PROVE  q \in Seq(0 .. n - 1) /\ Len(q) = Len(p)
<1> DEFINE W == Wrapping(p, succ)
           A == Advancing(p, succ)
<1>1. PICK m \in [advance : Enumerations(A), wrap : Enumerations(W), drawn : Draws(p, succ)] :
        q = Moved(p, m)
  BY DEF Motions
<1>2. /\ Len(p) \in Nat /\ IsFiniteSet(1 .. Len(p)) /\ Cardinality(1 .. Len(p)) = Len(p)
      /\ W \subseteq 1 .. Len(p) /\ A \subseteq 1 .. Len(p)
  <2>1. Len(p) \in Nat
    OBVIOUS
  <2>2. W \subseteq 1 .. Len(p) /\ A \subseteq 1 .. Len(p)
    BY DEF Wrapping, Advancing
  <2>3. \A l \in Nat : IsFiniteSet(1 .. l) /\ Cardinality(1 .. l) = l
    BY FS_Interval
  <2>. QED BY <2>1, <2>2, <2>3
<1>. HIDE DEF W, A
<1>3. Cardinality(W) \in Nat /\ Cardinality(A) \in Nat
  BY <1>2, FS_Subset, FS_CardinalityType
<1>4. Cardinality(A) + Cardinality(W) = Len(p)
  <2>1. (1 .. Len(p)) \cap W = W
    BY <1>2
  <2>2. Cardinality(A) = Cardinality(1 .. Len(p)) - Cardinality((1 .. Len(p)) \cap W)
    BY <1>2, FS_Difference DEF A, W, Advancing
  <2>3. Cardinality((1 .. Len(p)) \cap W) = Cardinality(W)
    BY <2>1, Zenon
  <2>. QED BY <1>2, <1>3, <2>2, <2>3
<1>5. /\ DOMAIN m.advance = 1 .. Cardinality(A) /\ \A k \in 1 .. Cardinality(A) : m.advance[k] \in A
      /\ DOMAIN m.wrap = 1 .. Cardinality(W) /\ \A k \in 1 .. Cardinality(W) : m.wrap[k] \in W
  BY DEF A, W, Enumerations
<1>6. \A i \in A : p[i] + 1 \in 0 .. n - 1
  <2> SUFFICES ASSUME NEW i \in A PROVE p[i] + 1 \in 0 .. n - 1
    OBVIOUS
  <2>1. p[i] \in 0 .. n - 1 /\ p[i] \notin L
    BY DEF A, Advancing, Wrapping
  <2>2. p[i] # n - 1
    BY <2>1
  <2>. QED BY <2>1, <2>2
<1>7. \A i \in W : m.drawn[i] \in 0 .. n - 1
  BY DEF W, Draws, Wrapping
<1> DEFINE front == [k \in 1 .. Cardinality(A) |-> p[m.advance[k]] + 1]
           back  == [k \in 1 .. Cardinality(W) |-> m.drawn[m.wrap[k]]]
<1>8. front \in Seq(0 .. n - 1) /\ Len(front) = Cardinality(A)
  <2>1. \A k \in 1 .. Cardinality(A) : p[m.advance[k]] + 1 \in 0 .. n - 1
    BY <1>5, <1>6
  <2>2. front \in [1 .. Cardinality(A) -> 0 .. n - 1]
    BY <2>1
  <2>. HIDE DEF front
  <2>. QED BY <1>3, <2>2, FunctionIsSequence
<1>9. back \in Seq(0 .. n - 1) /\ Len(back) = Cardinality(W)
  <2>1. \A k \in 1 .. Cardinality(W) : m.drawn[m.wrap[k]] \in 0 .. n - 1
    BY <1>5, <1>7
  <2>2. back \in [1 .. Cardinality(W) -> 0 .. n - 1]
    BY <2>1
  <2>. HIDE DEF back
  <2>. QED BY <1>3, <2>2, FunctionIsSequence
<1>10. q = front \o back
  BY <1>1, <1>5 DEF Moved
<1>. HIDE DEF front, back
<1>. QED BY <1>3, <1>4, <1>8, <1>9, <1>10, ConcatProperties

\* Resampling only chooses among the particles there are, as many as there are.
LEMMA ResampledStay ==
    ASSUME NEW S, NEW p \in Seq(S), NEW border, NEW high, NEW low,
           NEW q \in Resampled(p, border, high, low)
    PROVE  q \in Seq(S) /\ Len(q) = Len(p)
<1>1. PICK pick \in [1 .. Len(p) -> 1 .. Len(p)] : q = [j \in 1 .. Len(p) |-> p[pick[j]]]
  BY DEF Resampled
<1>2. Len(p) \in Nat /\ \A j \in 1 .. Len(p) : p[pick[j]] \in S
  OBVIOUS
<1>. QED BY <1>1, <1>2

\* np.delete of one element that is there.
LEMMA RemoveAtStay ==
    ASSUME NEW S, NEW p \in Seq(S), NEW k \in 1 .. Len(p)
    PROVE  RemoveAt(p, k) \in Seq(S) /\ Len(RemoveAt(p, k)) = Len(p) - 1
<1>1. Len(p) \in Nat
  OBVIOUS
<1> DEFINE front == SubSeq(p, 1, k - 1)
           back  == SubSeq(p, k + 1, Len(p))
<1>2. front \in Seq(S) /\ Len(front) = k - 1
  BY <1>1, SubSeqProperties
<1>3. back \in Seq(S) /\ Len(back) = Len(p) - k
  BY <1>1, SubSeqProperties
<1>4. RemoveAt(p, k) = front \o back
  BY DEF RemoveAt
<1>. HIDE DEF front, back
<1>5. /\ front \o back \in Seq(S)
      /\ Len(front \o back) = Len(front) + Len(back)
  BY <1>2, <1>3, ConcatProperties
<1>. QED BY <1>1, <1>2, <1>3, <1>4, <1>5

-----------------------------------------------------------------------------
(***************************************************************************)
(* State spaces, for any two bounds of the intervals.                      *)
(***************************************************************************)
Space(MinInterval, MaxInterval) == INSTANCE BDObservationModel

\* The closed form of FirstState grows with the interval: every first and last
\* state is a state, and only the last state of all has no state after it.
LEMMA IntervalsInStates ==
    ASSUME NEW lo, NEW hi, Space(lo, hi)!WellFormed, NEW i \in Space(lo, hi)!Intervals
    PROVE  /\ Space(lo, hi)!FirstState(i) \in Space(lo, hi)!States
           /\ Space(lo, hi)!LastState(i) \in Space(lo, hi)!States
<1> DEFINE Sq(k) == k * (k - 1)
<1>1. Sq(lo) <= Sq(i)
  <2>1. i = lo + (i - lo) /\ i - lo \in Nat
    BY DEF Space!WellFormed, Space!Intervals
  <2>2. \A m \in Nat \ {0}, d \in Nat : m * (m - 1) <= (m + d) * (m + d - 1)
    OBVIOUS
  <2>. QED BY <2>1, <2>2 DEF Space!WellFormed
<1>2. Sq(i) <= Sq(hi)
  <2>1. hi = i + (hi - i) /\ hi - i \in Nat /\ i \in Nat \ {0}
    BY DEF Space!WellFormed, Space!Intervals
  <2>2. \A m \in Nat \ {0}, d \in Nat : m * (m - 1) <= (m + d) * (m + d - 1)
    OBVIOUS
  <2>. QED BY <2>1, <2>2
<1>3. Sq(i) \in Int /\ Sq(lo) \in Int /\ Sq(hi) \in Int
  BY DEF Space!WellFormed, Space!Intervals
<1>4. /\ Space(lo, hi)!FirstState(i) \in Int /\ 0 <= Space(lo, hi)!FirstState(i)
      /\ Space(lo, hi)!FirstState(hi) \in Int
      /\ Space(lo, hi)!FirstState(i) <= Space(lo, hi)!FirstState(hi)
  <2>1. \A x, y \in Int : 0 <= x /\ x <= y => /\ x \div 2 \in Int /\ 0 <= x \div 2
                                            /\ y \div 2 \in Int /\ x \div 2 <= y \div 2
    OBVIOUS
  <2>2. /\ 0 <= Sq(i) - Sq(lo)
        /\ Sq(i) - Sq(lo) <= Sq(hi) - Sq(lo)
        /\ Sq(i) - Sq(lo) \in Int /\ Sq(hi) - Sq(lo) \in Int
    BY <1>1, <1>2, <1>3
  <2>. QED BY <2>1, <2>2 DEF Space!FirstState
<1>5. i \in Int /\ 1 <= i /\ i <= hi /\ hi \in Int
  BY DEF Space!WellFormed, Space!Intervals
<1>. HIDE DEF Sq
<1>. QED BY <1>4, <1>5 DEF Space!States, Space!NumStates, Space!LastState

\* With a border as fine as the longest interval, "B" and "N1" are the same model: the
\* first states.
LEMMA FineBorder ==
    ASSUME NEW lo, NEW hi, Space(lo, hi)!WellFormed, NEW lambda \in Nat, lambda >= hi
    PROVE  /\ Space(lo, hi)!Border(lambda) = Space(lo, hi)!FirstStates
           /\ Space(lo, hi)!Beginning(1) = Space(lo, hi)!FirstStates
<1>1. \A i \in Space(lo, hi)!Intervals : i \in Nat \ {0} /\ i <= lambda /\ i <= hi
  BY DEF Space!WellFormed, Space!Intervals
<1>2. \A i \in Space(lo, hi)!Intervals : /\ Space(lo, hi)!FirstState(i) \in Space(lo, hi)!States
                                        /\ Space(lo, hi)!FirstState(i) \in Int
  <2>1. \A i \in Space(lo, hi)!Intervals : Space(lo, hi)!FirstState(i) \in Space(lo, hi)!States
    BY IntervalsInStates
  <2>2. Space(lo, hi)!States \subseteq Int
    BY DEF Space!States
  <2>. QED BY <2>1, <2>2
<1>3. Space(lo, hi)!Border(lambda) \subseteq Space(lo, hi)!FirstStates
  <2> SUFFICES ASSUME NEW s \in Space(lo, hi)!States, NEW i \in Space(lo, hi)!Intervals,
                      Space(lo, hi)!HasInterval(s, i), lambda * (s - Space(lo, hi)!FirstState(i)) < i
               PROVE  s = Space(lo, hi)!FirstState(i)
    BY DEF Space!Border, Space!FirstStates
  <2> DEFINE d == s - Space(lo, hi)!FirstState(i)
  <2>1. d \in Nat
    BY <1>2 DEF Space!States, Space!HasInterval
  <2>2. d # 0 => lambda * d >= lambda
    <3>. HIDE DEF d
    <3>. QED BY <2>1
  <2>. QED BY <1>1, <1>2, <2>1, <2>2 DEF Space!States
<1>4. Space(lo, hi)!FirstStates \subseteq Space(lo, hi)!Border(lambda)
  <2> SUFFICES ASSUME NEW i \in Space(lo, hi)!Intervals PROVE Space(lo, hi)!FirstState(i) \in Space(lo, hi)!Border(lambda)
    BY DEF Space!FirstStates
  <2>1. Space(lo, hi)!FirstState(i) - Space(lo, hi)!FirstState(i) = 0 /\ lambda * 0 < i
    BY <1>1, <1>2
  <2>2. Space(lo, hi)!HasInterval(Space(lo, hi)!FirstState(i), i)
    BY <1>1, <1>2 DEF Space!HasInterval, Space!LastState
  <2>. QED BY <1>2, <2>1, <2>2 DEF Space!Border
<1>5. Space(lo, hi)!Beginning(1) = Space(lo, hi)!FirstStates
  <2>1. \A s \in Space(lo, hi)!States, i \in Space(lo, hi)!Intervals : s - Space(lo, hi)!FirstState(i) \in 0 .. 0 <=> s = Space(lo, hi)!FirstState(i)
    BY <1>2 DEF Space!States
  <2>. QED BY <1>2, <2>1 DEF Space!Beginning, Space!FirstStates
<1>. QED BY <1>3, <1>4, <1>5

\* The spaces of the cascade are two of them.
LEMMA BeatIsSpace ==
    /\ Space(MinTempo, MaxTempo)!WellFormed = Beat!WellFormed
    /\ Space(MinTempo, MaxTempo)!Intervals = Beat!Intervals
    /\ Space(MinTempo, MaxTempo)!States = Beat!States
    /\ \A i : Space(MinTempo, MaxTempo)!FirstState(i) = Beat!FirstState(i) /\ Space(MinTempo, MaxTempo)!LastState(i) = Beat!LastState(i)
    /\ \A s, i : Space(MinTempo, MaxTempo)!HasInterval(s, i) = Beat!HasInterval(s, i)
BY DEF Space!WellFormed, Beat!WellFormed, Space!Intervals, Beat!Intervals, Space!States, Beat!States,
       Space!NumStates, Beat!NumStates, Space!FirstState, Beat!FirstState, Space!LastState, Beat!LastState,
       Space!HasInterval, Beat!HasInterval

LEMMA BarIsSpace ==
    /\ Space(MinMeter, MaxMeter)!WellFormed = Bar!WellFormed
    /\ Space(MinMeter, MaxMeter)!Intervals = Bar!Intervals
    /\ Space(MinMeter, MaxMeter)!States = Bar!States
    /\ \A i : Space(MinMeter, MaxMeter)!FirstState(i) = Bar!FirstState(i) /\ Space(MinMeter, MaxMeter)!LastState(i) = Bar!LastState(i)
    /\ \A s, i : Space(MinMeter, MaxMeter)!HasInterval(s, i) = Bar!HasInterval(s, i)
BY DEF Space!WellFormed, Bar!WellFormed, Space!Intervals, Bar!Intervals, Space!States, Bar!States,
       Space!NumStates, Bar!NumStates, Space!FirstState, Bar!FirstState, Space!LastState, Bar!LastState,
       Space!HasInterval, Bar!HasInterval

\* The two state spaces of the cascade: every interval starts and ends on a state,
\* and the last state of all is the last of the longest interval.
LEMMA BeatSpace ==
    /\ Beat!NumStates \in Nat /\ Beat!States = 0 .. Beat!NumStates - 1
    /\ Beat!NumStates - 1 \in Beat!LastStates
    /\ \A i \in Beat!Intervals : Beat!FirstState(i) \in Beat!States
    /\ Beat!NumStates - 1 \in Beat!States
<1>1. \A i \in Beat!Intervals :
        Beat!FirstState(i) \in Beat!States /\ Beat!LastState(i) \in Beat!States
  <2>1. \A i \in Space(MinTempo, MaxTempo)!Intervals :
            /\ Space(MinTempo, MaxTempo)!FirstState(i) \in Space(MinTempo, MaxTempo)!States
            /\ Space(MinTempo, MaxTempo)!LastState(i) \in Space(MinTempo, MaxTempo)!States
    BY SpacesAssumption, BeatIsSpace, IntervalsInStates
  <2>. QED BY <2>1, BeatIsSpace
<1>2. MaxTempo \in Beat!Intervals
  BY SpacesAssumption DEF Beat!WellFormed, Beat!Intervals
<1>3. Beat!NumStates = Beat!LastState(MaxTempo) + 1
  BY DEF Beat!NumStates
<1>4. Beat!LastState(MaxTempo) \in Beat!States /\ Beat!LastState(MaxTempo) \in Int
  BY <1>1, <1>2 DEF Beat!States
<1>. QED BY <1>1, <1>2, <1>3, <1>4 DEF Beat!States, Beat!LastStates

LEMMA BarSpace ==
    /\ Bar!NumStates \in Nat /\ Bar!States = 0 .. Bar!NumStates - 1
    /\ Bar!NumStates - 1 \in Bar!LastStates
    /\ \A i \in Bar!Intervals : Bar!FirstState(i) \in Bar!States
    /\ Bar!NumStates - 1 \in Bar!States
<1>1. \A i \in Bar!Intervals :
        Bar!FirstState(i) \in Bar!States /\ Bar!LastState(i) \in Bar!States
  <2>1. \A i \in Space(MinMeter, MaxMeter)!Intervals :
            /\ Space(MinMeter, MaxMeter)!FirstState(i) \in Space(MinMeter, MaxMeter)!States
            /\ Space(MinMeter, MaxMeter)!LastState(i) \in Space(MinMeter, MaxMeter)!States
    BY SpacesAssumption, BarIsSpace, IntervalsInStates
  <2>. QED BY <2>1, BarIsSpace
<1>2. MaxMeter \in Bar!Intervals
  BY SpacesAssumption DEF Bar!WellFormed, Bar!Intervals
<1>3. Bar!NumStates = Bar!LastState(MaxMeter) + 1
  BY DEF Bar!NumStates
<1>4. Bar!LastState(MaxMeter) \in Bar!States /\ Bar!LastState(MaxMeter) \in Int
  BY <1>1, <1>2 DEF Bar!States
<1>. QED BY <1>1, <1>2, <1>3, <1>4 DEF Bar!States, Bar!LastStates

\* The default models "B56" (lines 115 and 116) are finer than every interval of the
\* default spaces, at most 55 frames and at most 4 beats: then the first state of a
\* beat or a bar alone observes it, and the weights of both filters are high there only.
THEOREM DefaultModels ==
    /\ ObservationB.model = "B" /\ ObservationB.lambda >= MaxTempo => BeatStates = Beat!FirstStates
    /\ ObservationD.model = "B" /\ ObservationD.lambda >= MaxMeter => DownStates = Bar!FirstStates
<1>1. ASSUME ObservationB.model = "B", ObservationB.lambda >= MaxTempo
      PROVE  BeatStates = Beat!FirstStates
  <2>1. ObservationB.lambda \in Nat
    BY SizesAssumption DEF Beat!Constructible
  <2>2. Space(MinTempo, MaxTempo)!Border(ObservationB.lambda) = Space(MinTempo, MaxTempo)!FirstStates
    BY <1>1, <2>1, SpacesAssumption, BeatIsSpace, FineBorder
  <2>3. /\ Space(MinTempo, MaxTempo)!Border(ObservationB.lambda) = Beat!Border(ObservationB.lambda)
        /\ Space(MinTempo, MaxTempo)!FirstStates = Beat!FirstStates
    BY BeatIsSpace DEF Space!Border, Beat!Border, Space!FirstStates, Beat!FirstStates
  <2>. QED BY <1>1, <2>2, <2>3 DEF BeatStates, Beat!Pointed
<1>2. ASSUME ObservationD.model = "B", ObservationD.lambda >= MaxMeter
      PROVE  DownStates = Bar!FirstStates
  <2>1. ObservationD.lambda \in Nat
    BY SizesAssumption DEF Bar!Constructible
  <2>2. Space(MinMeter, MaxMeter)!Border(ObservationD.lambda) = Space(MinMeter, MaxMeter)!FirstStates
    BY <1>2, <2>1, SpacesAssumption, BarIsSpace, FineBorder
  <2>3. /\ Space(MinMeter, MaxMeter)!Border(ObservationD.lambda) = Bar!Border(ObservationD.lambda)
        /\ Space(MinMeter, MaxMeter)!FirstStates = Bar!FirstStates
    BY BarIsSpace DEF Space!Border, Bar!Border, Space!FirstStates, Bar!FirstStates
  <2>. QED BY <1>2, <2>2, <2>3 DEF DownStates, Bar!Pointed
<1>. QED BY <1>1, <1>2

-----------------------------------------------------------------------------
\* What np.arange picks out of the first states are first states.
LEMMA InjectedStay ==
    ASSUME NEW offset \in 0 .. 3
    PROVE  Injected(offset) \in Seq(Beat!States) /\ Injected(offset) \in Seq(Beat!FirstStates)
<1> DEFINE tempi == MaxTempo - MinTempo + 1
           size  == IF offset < tempi THEN (tempi - offset + 5) \div 6 ELSE 0
<1>1. MinTempo \in Nat /\ MaxTempo \in Nat /\ MinTempo < MaxTempo /\ tempi \in Nat
  BY SpacesAssumption DEF Beat!WellFormed
<1>2. size \in Nat /\ \A k \in 1 .. size : offset + 6 * (k - 1) < tempi
  <2>1. CASE offset < tempi
    <3>. DEFINE x == tempi - offset + 5
    <3>1. x \in Nat /\ size = x \div 6
      BY <1>1, <2>1
    <3>. HIDE DEF x, size
    <3>2. size \in Nat /\ 6 * size <= x
      BY <3>1
    <3>3. \A k \in 1 .. size : 6 * (k - 1) <= x - 6
      BY <3>1, <3>2
    <3>. QED BY <1>1, <3>2, <3>3 DEF x
  <2>2. CASE ~ (offset < tempi)
    BY <2>2
  <2>. QED BY <2>1, <2>2
<1>3. Injected(offset) = [k \in 1 .. size |-> Beat!FirstState(MinTempo + offset + 6 * (k - 1))]
  BY DEF Injected
<1>. HIDE DEF size
<1>4. \A k \in 1 .. size : /\ Beat!FirstState(MinTempo + offset + 6 * (k - 1)) \in Beat!States
                           /\ Beat!FirstState(MinTempo + offset + 6 * (k - 1)) \in Beat!FirstStates
  <2> SUFFICES ASSUME NEW k \in 1 .. size
               PROVE  MinTempo + offset + 6 * (k - 1) \in Beat!Intervals
    BY BeatSpace DEF Beat!FirstStates
  <2>. QED BY <1>1, <1>2 DEF Beat!Intervals
<1>5. /\ Injected(offset) \in [1 .. size -> Beat!States]
      /\ Injected(offset) \in [1 .. size -> Beat!FirstStates]
  BY <1>3, <1>4
<1>. QED BY <1>2, <1>5, FunctionIsSequence

\* first_states of the bar space: one per meter, at least two.
LEMMA FirstStatesInOrderStay ==
    /\ Bar!FirstStatesInOrder \in Seq(Bar!States)
    /\ Len(Bar!FirstStatesInOrder) = MaxMeter - MinMeter + 1
<1>1. MinMeter \in Nat /\ MaxMeter \in Nat /\ MinMeter < MaxMeter
  BY SpacesAssumption DEF Bar!WellFormed
<1>2. \A k \in 1 .. MaxMeter - MinMeter + 1 : MinMeter + k - 1 \in Bar!Intervals
  BY <1>1 DEF Bar!Intervals
<1>3. Bar!FirstStatesInOrder \in [1 .. MaxMeter - MinMeter + 1 -> Bar!States]
  BY <1>2, BarSpace DEF Bar!FirstStatesInOrder
<1>. QED BY <1>1, <1>3, FunctionIsSequence

LEMMA Successors ==
    /\ BeatSuccessors \in [Beat!LastStates -> SUBSET Beat!States]
    /\ DownSuccessors \in [Bar!LastStates -> SUBSET Bar!States]
BY BeatSpace, BarSpace DEF BeatSuccessors, DownSuccessors, Bar!FirstStates

\* One frame of the beat filter leaves an ensemble of beat states, also when the
\* resampling raises, and leaves no more frames than there were before it.
LEMMA BeatTurnStays ==
    ASSUME TypeOK, todo > 0, NEW a, BeatTurn(a)
    PROVE  /\ particles' \in Seq(Beat!States) /\ particles' # << >>
           /\ todo' \in 0 .. rows
<1>1. PICK moved \in Motions(particles, BeatSuccessors) : \E injected \in Injections(Gated(a)) :
        \/ particles' = moved
        \/ particles' \in Resampled(moved \o injected, BeatStates, Gated(a), 3)
        \/ particles' = moved \o injected
  BY DEF BeatTurn, BeatCorrected
<1>2. PICK injected \in Injections(Gated(a)) :
        \/ particles' = moved
        \/ particles' \in Resampled(moved \o injected, BeatStates, Gated(a), 3)
        \/ particles' = moved \o injected
  BY <1>1
<1>3. moved \in Seq(Beat!States) /\ Len(moved) = Len(particles)
  BY MotionsStay, BeatSpace, Successors DEF TypeOK
<1>4. Len(particles) \in Nat /\ Len(particles) > 0
  BY DEF TypeOK
<1>5. injected \in Seq(Beat!States) /\ Len(injected) \in Nat
  <2>1. injected = << >> \/ \E offset \in 0 .. 3 : injected = Injected(offset)
    BY DEF Injections
  <2>2. << >> \in Seq(Beat!States)
    OBVIOUS
  <2>3. injected \in Seq(Beat!States)
    BY <2>1, <2>2, InjectedStay
  <2>. QED BY <2>3
<1> DEFINE ensemble == moved \o injected
<1>6. ensemble \in Seq(Beat!States) /\ Len(ensemble) = Len(moved) + Len(injected)
  BY <1>3, <1>5, ConcatProperties
<1>7. \/ particles' = moved \/ particles' = ensemble
      \/ particles' \in Resampled(ensemble, BeatStates, Gated(a), 3)
  BY <1>2
<1>. HIDE DEF ensemble
<1>8. particles' \in Seq(Beat!States) /\ Len(particles') > 0
  <2>1. CASE particles' = moved
    BY <1>3, <1>4, <2>1
  <2>2. CASE particles' = ensemble
    BY <1>3, <1>4, <1>5, <1>6, <2>2
  <2>3. CASE particles' \in Resampled(ensemble, BeatStates, Gated(a), 3)
    <3>1. particles' \in Seq(Beat!States) /\ Len(particles') = Len(ensemble)
      BY <1>6, <2>3, ResampledStay
    <3>. QED BY <1>3, <1>4, <1>5, <1>6, <3>1
  <2>. QED BY <1>7, <2>1, <2>2, <2>3
<1>9. todo' \in 0 .. rows
  <2>1. todo' = 0 \/ todo' = todo - 1
    BY DEF BeatTurn
  <2>. QED BY <2>1 DEF TypeOK
<1>. QED BY <1>8, <1>9

\* ... and also when the motion raises, which leaves the ensemble as it is.
LEMMA BeatFilterStays ==
    ASSUME TypeOK, todo > 0, NEW a, BeatFilter(a)
    PROVE  /\ particles' \in Seq(Beat!States) /\ particles' # << >>
           /\ todo' \in 0 .. rows
<1>1. CASE BeatTurn(a)
  BY <1>1, BeatTurnStays
<1>2. CASE todo' = 0 /\ particles' = particles
  BY <1>2 DEF TypeOK
<1>. QED BY <1>1, <1>2 DEF BeatFilter

\* What motion and injection make of the downbeat ensemble.
LEMMA DownMovedStays ==
    ASSUME TypeOK, NEW a, NEW ensemble \in DownMoved(a)
    PROVE  /\ ensemble \in Seq(Bar!States)
           /\ Len(ensemble) >= Len(down_particles)
           /\ a.down > 70 => Len(ensemble) >= Len(down_particles) + 1
<1>1. PICK moved \in Motions(down_particles, DownSuccessors) :
        ensemble = IF a.down > 70 THEN moved \o Bar!FirstStatesInOrder ELSE moved
  BY DEF DownMoved
<1>2. moved \in Seq(Bar!States) /\ Len(moved) = Len(down_particles) /\ Len(moved) \in Nat
  BY MotionsStay, BarSpace, Successors DEF TypeOK
<1> DEFINE extra == Bar!FirstStatesInOrder
<1>3. extra \in Seq(Bar!States) /\ Len(extra) = MaxMeter - MinMeter + 1
  BY FirstStatesInOrderStay
<1>4. Len(extra) \in Nat /\ Len(extra) > 1
  BY <1>3, SpacesAssumption DEF Bar!WellFormed
<1>. HIDE DEF extra
<1>5. moved \o extra \in Seq(Bar!States) /\ Len(moved \o extra) = Len(moved) + Len(extra)
  BY <1>2, <1>3, ConcatProperties
<1>6. ensemble = IF a.down > 70 THEN moved \o extra ELSE moved
  BY <1>1 DEF extra
<1>. QED BY <1>2, <1>4, <1>5, <1>6

\* One step of the downbeat filter leaves an ensemble of bar states that is not
\* below its nominal size: what is deleted has been injected before.
LEMMA DownFilterStays ==
    ASSUME TypeOK, EnoughToDelete, NEW a, DownFilter(a) \/ DownBreaks(a)
    PROVE  /\ down_particles' \in Seq(Bar!States)
           /\ Len(down_particles') >= DownParticleSize
<1>1. /\ Len(down_particles) \in Nat /\ DownParticleSize \in Nat
      /\ Len(down_particles) >= DownParticleSize
  BY SizesAssumption DEF TypeOK, EnoughToDelete
<1>2. CASE DownBreaks(a)
  <2>1. PICK ensemble \in DownMoved(a) : down_particles' = ensemble
    BY <1>2 DEF DownBreaks
  <2>2. Len(ensemble) \in Nat /\ ensemble \in Seq(Bar!States) /\ Len(ensemble) >= Len(down_particles)
    BY DownMovedStays
  <2>. QED BY <1>1, <2>1, <2>2
<1>3. CASE DownFilter(a)
  <2>1. PICK ensemble \in DownMoved(a) :
          \E chosen \in Resampled(ensemble, DownStates, a.down, a.beat) :
             down_particles' \in IF a.down > 70 THEN Deletions(chosen) ELSE {chosen}
    BY <1>3 DEF DownFilter, DownCorrected, Deletes
  <2>2. PICK chosen \in Resampled(ensemble, DownStates, a.down, a.beat) :
          down_particles' \in IF a.down > 70 THEN Deletions(chosen) ELSE {chosen}
    BY <2>1
  <2>3. /\ ensemble \in Seq(Bar!States)
        /\ Len(ensemble) >= Len(down_particles)
        /\ a.down > 70 => Len(ensemble) >= Len(down_particles) + 1
    BY DownMovedStays
  <2>4. chosen \in Seq(Bar!States) /\ Len(chosen) = Len(ensemble) /\ Len(chosen) \in Nat
    BY <2>3, ResampledStay
  <2>5. CASE a.down > 70
    <3>1. PICK k \in 1 .. DownParticleSize : down_particles' = RemoveAt(chosen, k)
      BY <2>2, <2>5 DEF Deletions
    <3>2. k \in 1 .. Len(chosen)
      BY <1>1, <2>3, <2>4
    <3>3. down_particles' \in Seq(Bar!States) /\ Len(down_particles') = Len(chosen) - 1
      BY <3>1, <3>2, <2>4, RemoveAtStay
    <3>. QED BY <1>1, <2>3, <2>4, <2>5, <3>3
  <2>6. CASE ~ (a.down > 70)
    BY <1>1, <2>2, <2>3, <2>4, <2>6
  <2>. QED BY <2>5, <2>6
<1>. QED BY <1>2, <1>3

-----------------------------------------------------------------------------
\* The constructor: sorted draws from the states, an empty path.
LEMMA InitSafe == Init => Safety
<1> SUFFICES ASSUME Init PROVE Safety
  OBVIOUS
<1>1. /\ particles \in Seq(Beat!States) /\ Len(particles) = ParticleSize /\ ParticleSize > 0
  <2>1. particles \in [1 .. ParticleSize -> Beat!States]
    BY BeatSpace DEF Init
  <2>. QED BY <2>1, FunctionIsSequence, SizesAssumption
<1>2. /\ down_particles \in Seq(Bar!States) /\ Len(down_particles) = DownParticleSize
      /\ DownParticleSize \in Nat /\ DownParticleSize > 0
  <2>1. down_particles \in [1 .. DownParticleSize -> Bar!States]
    BY BarSpace DEF Init
  <2>. QED BY <2>1, FunctionIsSequence, SizesAssumption
<1>3. /\ path = << <<0, 0>> >> /\ counter = -1 /\ todo = 0 /\ rows = 0 /\ delivered = 0
  BY DEF Init
<1>4. TypeOK
  BY <1>1, <1>2, <1>3 DEF TypeOK
<1>5. EnoughToDelete
  BY <1>2 DEF EnoughToDelete
<1>6. path[1] = <<0, 0>> /\ BeatsApart
  BY <1>3 DEF BeatsApart
<1>. QED BY <1>4, <1>5, <1>6 DEF Safety

\* What a frame with the gate open does to the path: nothing, or it appends a row
\* for the current frame, a gap away from the last one, and no second downbeat.
LEMMA BeatFramePath ==
    ASSUME TypeOK, NEW a, BeatFrame(a)
    PROVE  \/ path' = path
           \/ \E label \in {1, 2} :
                 /\ path' = Append(path, <<Now, label>>)
                 /\ 5 * (Now - LastBeat) >= 2 * MinTempo
                 /\ label = 1 => LastLabel # 1
<1>1. path' # path => 5 * (Now - LastBeat) >= 2 * MinTempo
  <2>1. PICK i \in Beat!Intervals : 5 * (Now - LastBeat) >= 2 * i
    BY DEF BeatFrame, MayOpen
  <2>2. i \in Int /\ MinTempo \in Int /\ i >= MinTempo
    BY SpacesAssumption DEF Beat!Intervals, Beat!WellFormed
  <2>3. Now \in Int /\ LastBeat \in Int
    BY SizesAssumption DEF TypeOK, Now, Clock, LastBeat, BeatFrame, NextFrame
  <2>. QED BY <2>1, <2>2, <2>3
<1>2. CASE IsDownbeat(a) /\ path' = Append(path, <<Now, 1>>)
  BY <1>1, <1>2 DEF IsDownbeat, TypeOK
<1>3. CASE path' = Append(path, <<Now, 2>>)
  BY <1>1, <1>3 DEF TypeOK
<1>. QED BY <1>2, <1>3 DEF BeatFrame, Label

\* Appending such a row keeps the rows apart.
LEMMA PathStaysSafe ==
    ASSUME Safety, NEW t \in Int, NEW label \in {1, 2},
           path' = Append(path, <<t, label>>),
           5 * (t - LastBeat) >= 2 * MinTempo
    PROVE  /\ path' \in Seq(Int \X {0, 1, 2}) /\ path' # << >>
           /\ path'[1] = <<0, 0>>
           /\ BeatsApart'
<1>1. path \in Seq(Int \X {0, 1, 2}) /\ Len(path) \in Nat /\ Len(path) > 0
  BY DEF Safety, TypeOK
<1>2. /\ path' \in Seq(Int \X {0, 1, 2}) /\ Len(path') = Len(path) + 1
      /\ \A k \in 1 .. Len(path) : path'[k] = path[k]
      /\ path'[Len(path) + 1] = <<t, label>>
  BY <1>1, AppendProperties
<1>3. BeatsApart'
  <2> SUFFICES ASSUME NEW k \in 2 .. Len(path')
               PROVE  5 * (path'[k][1] - path'[k - 1][1]) >= 2 * MinTempo
    BY DEF BeatsApart
  <2>1. CASE k = Len(path) + 1
    <3>1. path'[k] = <<t, label>> /\ path'[k - 1] = path[Len(path)]
      BY <1>1, <1>2, <2>1
    <3>. QED BY <3>1 DEF LastBeat
  <2>2. CASE k # Len(path) + 1
    <3>1. k \in 2 .. Len(path) /\ path'[k] = path[k] /\ path'[k - 1] = path[k - 1]
      BY <1>1, <1>2, <2>2
    <3>. QED BY <3>1 DEF Safety, BeatsApart
  <2>. QED BY <2>1, <2>2
<1>. QED BY <1>1, <1>2, <1>3 DEF Safety

\* Every step of the cascade preserves Safety.
LEMMA NextSafe == Safety /\ [Next]_vars => Safety'
<1> SUFFICES ASSUME Safety, [Next]_vars PROVE Safety'
  OBVIOUS
<1>1. ASSUME NEW n \in CallSizes, Call(n) PROVE Safety'
  <2>1. rows' \in Nat /\ todo' \in 0 .. rows' /\ delivered' \in Nat
    BY <1>1, SizesAssumption, InputsAssumption DEF Call, Safety, TypeOK
  <2>2. /\ counter' = counter /\ particles' = particles
        /\ down_particles' = down_particles /\ path' = path
    BY <1>1 DEF Call
  <2>. QED BY <2>1, <2>2 DEF Safety, TypeOK, EnoughToDelete, BeatsApart
<1>2. ASSUME NextFrame
      PROVE  /\ counter' \in Nat \cup {-1} /\ rows' \in Nat /\ delivered' \in Nat
             /\ todo > 0 /\ rows' = rows
  BY <1>2 DEF NextFrame, Safety, TypeOK
<1>3. ASSUME NEW a \in Activations, BeatFrame(a) PROVE Safety'
  <2>1. particles' \in Seq(Beat!States) /\ particles' # << >> /\ todo' \in 0 .. rows'
    <3>1. CASE BeatFilter(a)
      BY <1>2, <1>3, <3>1, BeatFilterStays DEF BeatFrame, Safety
    <3>2. CASE todo' = 0 /\ particles' = particles
      BY <1>2, <1>3, <3>2 DEF BeatFrame, Safety, TypeOK
    <3>. QED BY <1>3, <3>1, <3>2 DEF BeatFrame
  <2>2. /\ down_particles' \in Seq(Bar!States) /\ EnoughToDelete' /\ down_particles' # << >>
    <3>1. DownFilter(a) \/ DownBreaks(a)
      BY <1>3 DEF BeatFrame
    <3>2. /\ down_particles' \in Seq(Bar!States)
          /\ Len(down_particles') >= DownParticleSize
      BY <3>1, DownFilterStays DEF Safety
    <3>. QED BY <3>2, SizesAssumption DEF EnoughToDelete
  <2>3. /\ path' \in Seq(Int \X {0, 1, 2}) /\ path' # << >> /\ path'[1] = <<0, 0>>
        /\ BeatsApart'
    <3>1. CASE path' = path
      BY <3>1 DEF Safety, TypeOK, BeatsApart
    <3>2. CASE path' # path
      <4>1. PICK label \in {1, 2} : /\ path' = Append(path, <<Now, label>>)
                                    /\ 5 * (Now - LastBeat) >= 2 * MinTempo
                                    /\ label = 1 => LastLabel # 1
        BY <1>3, <3>2, BeatFramePath DEF Safety
      <4>2. Now \in Int
        BY <1>2, <1>3, SizesAssumption DEF Now, Clock, BeatFrame
      <4>. QED BY <4>1, <4>2, PathStaysSafe
    <3>. QED BY <3>1, <3>2
  <2>. QED BY <1>2, <1>3, <2>1, <2>2, <2>3 DEF BeatFrame, Safety, TypeOK
<1>4. ASSUME NEW a \in Activations, PlainFrame(a) PROVE Safety'
  <2>1. particles' \in Seq(Beat!States) /\ particles' # << >> /\ todo' \in 0 .. rows'
    BY <1>2, <1>4, BeatFilterStays DEF PlainFrame, Safety
  <2>2. down_particles' = down_particles /\ path' = path
    BY <1>4 DEF PlainFrame
  <2>. QED BY <1>2, <1>4, <2>1, <2>2
           DEF PlainFrame, Safety, TypeOK, EnoughToDelete, BeatsApart
<1>5. CASE UNCHANGED vars
  BY <1>5 DEF vars, Safety, TypeOK, EnoughToDelete, BeatsApart
<1>. QED BY <1>1, <1>3, <1>4, <1>5 DEF Next

-----------------------------------------------------------------------------
\* Safety is an invariant of the cascade.
THEOREM CascadeSafe == Spec => []Safety
BY InitSafe, NextSafe, PTL DEF Spec

\* Particles stay on their state spaces and the path is well formed.
THEOREM CascadeTypeOK == Spec => []TypeOK
<1>1. Safety => TypeOK
  BY DEF Safety
<1>. QED BY <1>1, CascadeSafe, PTL

\* Reported beats keep the distance of two fifths of the fastest beat.
THEOREM CascadeBeatsApart == Spec => []BeatsApart
<1>1. Safety => BeatsApart
  BY DEF Safety
<1>. QED BY <1>1, CascadeSafe, PTL

\* np.delete never meets an ensemble that is too small.
THEOREM CascadeEnoughToDelete == Spec => []EnoughToDelete
<1>1. Safety => EnoughToDelete
  BY DEF Safety
<1>. QED BY <1>1, CascadeSafe, PTL

-----------------------------------------------------------------------------
\* A motion along succ starts intervals only where others end.
LEMMA MotionsMoveWithin ==
    ASSUME NEW S, NEW p \in Seq(S), NEW L, NEW F, NEW succ \in [L -> SUBSET F],
           NEW q \in Motions(p, succ), S \subseteq Int
    PROVE  MovesWithin(p, q, F, L)
<1> DEFINE W == Wrapping(p, succ)
           A == Advancing(p, succ)
<1>1. PICK m \in [advance : Enumerations(A), wrap : Enumerations(W), drawn : Draws(p, succ)] :
        q = Moved(p, m)
  BY DEF Motions
<1>2. \A i \in A : i \in DOMAIN p /\ p[i] \notin L /\ p[i] \in Int
  <2> SUFFICES ASSUME NEW i \in A PROVE i \in DOMAIN p /\ p[i] \notin L /\ p[i] \in Int
    OBVIOUS
  <2>1. i \in 1 .. Len(p) /\ p[i] \notin L
    BY DEF A, Advancing, Wrapping
  <2>2. i \in DOMAIN p /\ p[i] \in S
    BY <2>1
  <2>. QED BY <2>1, <2>2
<1>3. \A i \in W : m.drawn[i] \in F
  BY DEF W, Draws, Wrapping
<1>4. IsFiniteSet(1 .. Len(p)) /\ W \subseteq 1 .. Len(p) /\ A \subseteq 1 .. Len(p)
  <2>1. Len(p) \in Nat /\ \A l \in Nat : IsFiniteSet(1 .. l)
    BY FS_Interval
  <2>. QED BY <2>1 DEF W, A, Wrapping, Advancing
<1>. HIDE DEF W, A
<1>5. Cardinality(W) \in Nat /\ Cardinality(A) \in Nat
  BY <1>4, FS_Subset, FS_CardinalityType
<1>6. /\ DOMAIN m.advance = 1 .. Cardinality(A) /\ \A k \in 1 .. Cardinality(A) : m.advance[k] \in A
      /\ DOMAIN m.wrap = 1 .. Cardinality(W) /\ \A k \in 1 .. Cardinality(W) : m.wrap[k] \in W
  BY DEF Enumerations
<1> DEFINE front == [k \in 1 .. Cardinality(A) |-> p[m.advance[k]] + 1]
           back  == [k \in 1 .. Cardinality(W) |-> m.drawn[m.wrap[k]]]
<1>7. q = front \o back
  BY <1>1, <1>6 DEF Moved
<1>8. /\ front \in Seq(Int) /\ Len(front) = Cardinality(A)
      /\ \A k \in 1 .. Cardinality(A) : front[k] = p[m.advance[k]] + 1
  <2>1. front \in [1 .. Cardinality(A) -> Int]
    BY <1>2, <1>6
  <2>2. \A k \in 1 .. Cardinality(A) : front[k] = p[m.advance[k]] + 1
    OBVIOUS
  <2>. HIDE DEF front
  <2>. QED BY <1>5, <2>1, <2>2, FunctionIsSequence
<1>9. /\ back \in Seq(F) /\ Len(back) = Cardinality(W)
  <2>1. back \in [1 .. Cardinality(W) -> F]
    BY <1>3, <1>6
  <2>. HIDE DEF back
  <2>. QED BY <1>5, <2>1, FunctionIsSequence
<1>. HIDE DEF front, back
<1>10. ASSUME NEW i \in DOMAIN q
       PROVE  q[i] \in F \/ (q[i] - 1 \in ToSet(p) /\ q[i] - 1 \notin L)
  <2>1. CASE i \in 1 .. Cardinality(A)
    <3>1. q[i] = front[i]
      BY <1>5, <1>7, <1>8, <1>9, <2>1
    <3>2. m.advance[i] \in A /\ q[i] = p[m.advance[i]] + 1
      BY <1>6, <1>8, <2>1, <3>1
    <3>3. m.advance[i] \in DOMAIN p /\ q[i] - 1 = p[m.advance[i]] /\ q[i] - 1 \notin L
      BY <1>2, <3>2
    <3>. QED BY <3>3 DEF ToSet
  <2>2. CASE i \notin 1 .. Cardinality(A)
    <3>1. i - Cardinality(A) \in 1 .. Len(back) /\ q[i] = back[i - Cardinality(A)]
      BY <1>5, <1>7, <1>8, <1>9, <2>2
    <3>. QED BY <1>9, <3>1
  <2>. QED BY <2>1, <2>2
<1>. QED BY <1>10 DEF MovesWithin, ToSet

\* Injected starts do not matter, and neither does a choice among the particles.
LEMMA WithinGrows ==
    ASSUME NEW S, NEW old, NEW starts, NEW ends, NEW p \in Seq(S), NEW x \in Seq(starts),
           MovesWithin(old, p, starts, ends)
    PROVE  MovesWithin(old, p \o x, starts, ends)
<1>1. \A i \in DOMAIN (p \o x) : (p \o x)[i] \in ToSet(p) \cup starts
  <2> SUFFICES ASSUME NEW i \in DOMAIN (p \o x) PROVE (p \o x)[i] \in ToSet(p) \cup starts
    OBVIOUS
  <2>1. CASE i \in 1 .. Len(p)
    BY <2>1 DEF ToSet
  <2>2. CASE i \notin 1 .. Len(p)
    <3>1. i - Len(p) \in 1 .. Len(x) /\ (p \o x)[i] = x[i - Len(p)]
      BY <2>2
    <3>. QED BY <3>1
  <2>. QED BY <2>1, <2>2
<1>. QED BY <1>1 DEF MovesWithin, ToSet

LEMMA WithinShrinks ==
    ASSUME NEW S, NEW old, NEW starts, NEW ends, NEW p \in Seq(S), MovesWithin(old, p, starts, ends),
           NEW border, NEW high, NEW low, NEW q \in Resampled(p, border, high, low)
    PROVE  /\ MovesWithin(old, q, starts, ends)
           /\ \A k \in 1 .. Len(q) : MovesWithin(old, RemoveAt(q, k), starts, ends)
<1>1. PICK pick \in [1 .. Len(p) -> 1 .. Len(p)] : q = [j \in 1 .. Len(p) |-> p[pick[j]]]
  BY DEF Resampled
<1>2. \A j \in DOMAIN q : q[j] \in ToSet(p)
  BY <1>1 DEF ToSet
<1>3. q \in Seq(S)
  BY ResampledStay
<1>4. ASSUME NEW k \in 1 .. Len(q), NEW i \in DOMAIN RemoveAt(q, k)
      PROVE  RemoveAt(q, k)[i] \in ToSet(p)
  <2> DEFINE front == SubSeq(q, 1, k - 1)
             back  == SubSeq(q, k + 1, Len(q))
  <2>1. /\ front \in Seq(S) /\ Len(front) = k - 1
        /\ \A j \in 1 .. k - 1 : front[j] = q[j]
    BY <1>3, SubSeqProperties
  <2>2. /\ back \in Seq(S) /\ Len(back) = Len(q) - k
        /\ \A j \in 1 .. Len(q) - k : back[j] = q[k + j]
    BY <1>3, SubSeqProperties
  <2>3. RemoveAt(q, k) = front \o back
    BY DEF RemoveAt
  <2>. HIDE DEF front, back
  <2>4. CASE i \in 1 .. k - 1
    <3>1. RemoveAt(q, k)[i] = q[i] /\ i \in DOMAIN q
      BY <1>3, <2>1, <2>2, <2>3, <2>4
    <3>. QED BY <1>2, <3>1
  <2>5. CASE i \notin 1 .. k - 1
    <3>1. i - (k - 1) \in 1 .. Len(q) - k /\ RemoveAt(q, k)[i] = back[i - (k - 1)]
      BY <1>3, <2>1, <2>2, <2>3, <2>5
    <3>2. RemoveAt(q, k)[i] = q[k + (i - (k - 1))] /\ k + (i - (k - 1)) \in DOMAIN q
      BY <1>3, <2>2, <3>1
    <3>. QED BY <1>2, <3>2
  <2>. QED BY <2>4, <2>5
<1>. QED BY <1>2, <1>4 DEF MovesWithin, ToSet

\* The two ensembles, frame by frame.
LEMMA BeatTurnMoves ==
    ASSUME TypeOK, NEW a, BeatTurn(a)
    PROVE  MovesWithin(particles, particles', Beat!FirstStates, Beat!LastStates)
<1>1. PICK moved \in Motions(particles, BeatSuccessors) : \E injected \in Injections(Gated(a)) :
        \/ particles' = moved
        \/ particles' \in Resampled(moved \o injected, BeatStates, Gated(a), 3)
        \/ particles' = moved \o injected
  BY DEF BeatTurn, BeatCorrected
<1>2. PICK injected \in Injections(Gated(a)) :
        \/ particles' = moved
        \/ particles' \in Resampled(moved \o injected, BeatStates, Gated(a), 3)
        \/ particles' = moved \o injected
  BY <1>1
<1>3. moved \in Seq(Beat!States) /\ Beat!States \subseteq Int
  <2>1. moved \in Seq(Beat!States)
    BY MotionsStay, BeatSpace, Successors DEF TypeOK
  <2>. QED BY <2>1, BeatSpace
<1>4. MovesWithin(particles, moved, Beat!FirstStates, Beat!LastStates)
  <2>1. BeatSuccessors \in [Beat!LastStates -> SUBSET Beat!FirstStates]
    BY DEF BeatSuccessors, Beat!FirstStates
  <2>. QED BY <1>3, <2>1, MotionsMoveWithin DEF TypeOK
<1>5. injected \in Seq(Beat!States) /\ injected \in Seq(Beat!FirstStates)
  <2>1. injected = << >> \/ \E offset \in 0 .. 3 : injected = Injected(offset)
    BY DEF Injections
  <2>2. << >> \in Seq(Beat!States) /\ << >> \in Seq(Beat!FirstStates)
    OBVIOUS
  <2>. QED BY <2>1, <2>2, InjectedStay
<1> DEFINE ensemble == moved \o injected
<1>6. ensemble \in Seq(Beat!States)
  BY <1>3, <1>5, ConcatProperties
<1>7. MovesWithin(particles, ensemble, Beat!FirstStates, Beat!LastStates)
  BY <1>3, <1>4, <1>5, WithinGrows
<1>8. \/ particles' = moved \/ particles' = ensemble
      \/ particles' \in Resampled(ensemble, BeatStates, Gated(a), 3)
  BY <1>2
<1>. HIDE DEF ensemble
<1>9. CASE particles' \in Resampled(ensemble, BeatStates, Gated(a), 3)
  BY <1>6, <1>7, <1>9, WithinShrinks
<1>. QED BY <1>4, <1>7, <1>8, <1>9

LEMMA DownFilterMoves ==
    ASSUME TypeOK, EnoughToDelete, NEW a, DownFilter(a) \/ DownBreaks(a)
    PROVE  MovesWithin(down_particles, down_particles', Bar!FirstStates, Bar!LastStates)
<1>1. ASSUME NEW ensemble \in DownMoved(a)
      PROVE  MovesWithin(down_particles, ensemble, Bar!FirstStates, Bar!LastStates)
  <2>1. PICK moved \in Motions(down_particles, DownSuccessors) :
          ensemble = IF a.down > 70 THEN moved \o Bar!FirstStatesInOrder ELSE moved
    BY DEF DownMoved
  <2>2. moved \in Seq(Bar!States) /\ Bar!States \subseteq Int
    BY MotionsStay, BarSpace, Successors DEF TypeOK
  <2>3. MovesWithin(down_particles, moved, Bar!FirstStates, Bar!LastStates)
    <3>1. DownSuccessors \in [Bar!LastStates -> SUBSET Bar!FirstStates]
      BY DEF DownSuccessors
    <3>. QED BY <2>2, <3>1, MotionsMoveWithin DEF TypeOK
  <2>4. Bar!FirstStatesInOrder \in Seq(Bar!FirstStates)
    <3>1. MinMeter \in Nat /\ MaxMeter \in Nat /\ MinMeter < MaxMeter
      BY SpacesAssumption DEF Bar!WellFormed
    <3>2. \A k \in 1 .. MaxMeter - MinMeter + 1 : MinMeter + k - 1 \in Bar!Intervals
      BY <3>1 DEF Bar!Intervals
    <3>3. Bar!FirstStatesInOrder \in [1 .. MaxMeter - MinMeter + 1 -> Bar!FirstStates]
      BY <3>2 DEF Bar!FirstStatesInOrder, Bar!FirstStates
    <3>. QED BY <3>1, <3>3, FunctionIsSequence
  <2>5. MovesWithin(down_particles, moved \o Bar!FirstStatesInOrder, Bar!FirstStates, Bar!LastStates)
    BY <2>2, <2>3, <2>4, WithinGrows
  <2>. QED BY <2>1, <2>3, <2>5
<1>2. CASE DownBreaks(a)
  BY <1>1, <1>2 DEF DownBreaks
<1>3. CASE DownFilter(a)
  <2>1. PICK ensemble \in DownMoved(a) :
          \E chosen \in Resampled(ensemble, DownStates, a.down, a.beat) :
             down_particles' \in IF a.down > 70 THEN Deletions(chosen) ELSE {chosen}
    BY <1>3 DEF DownFilter, DownCorrected, Deletes
  <2>2. PICK chosen \in Resampled(ensemble, DownStates, a.down, a.beat) :
          down_particles' \in IF a.down > 70 THEN Deletions(chosen) ELSE {chosen}
    BY <2>1
  <2>3. /\ ensemble \in Seq(Bar!States)
        /\ Len(ensemble) >= Len(down_particles)
    BY DownMovedStays
  <2>4. /\ MovesWithin(down_particles, chosen, Bar!FirstStates, Bar!LastStates)
        /\ \A k \in 1 .. Len(chosen) :
              MovesWithin(down_particles, RemoveAt(chosen, k), Bar!FirstStates, Bar!LastStates)
    BY <1>1, <2>3, WithinShrinks
  <2>5. CASE a.down > 70
    <3>1. PICK k \in 1 .. DownParticleSize : down_particles' = RemoveAt(chosen, k)
      BY <2>2, <2>5 DEF Deletions
    <3>2. Len(chosen) = Len(ensemble) /\ Len(chosen) \in Nat /\ Len(down_particles) \in Nat
      BY <2>3, ResampledStay DEF TypeOK
    <3>3. k \in 1 .. Len(chosen)
      BY <2>3, <3>2, SizesAssumption DEF EnoughToDelete
    <3>. QED BY <2>4, <3>1, <3>3
  <2>6. CASE ~ (a.down > 70)
    BY <2>2, <2>4, <2>6
  <2>. QED BY <2>5, <2>6
<1>. QED BY <1>2, <1>3

\* Tempo changes where a beat ends and meter where a bar ends, and nowhere else.
THEOREM CascadeIntervalsKept == Spec => IntervalsKept
<1> DEFINE Kept == todo' < todo =>
              /\ \/ MovesWithin(particles, particles', Beat!FirstStates, Beat!LastStates)
                 \/ todo' = 0 /\ particles' = particles
              /\ \/ MovesWithin(down_particles, down_particles', Bar!FirstStates, Bar!LastStates)
                 \/ down_particles' = down_particles
<1>1. Safety /\ [Next]_vars => [Kept]_vars
  <2> SUFFICES ASSUME Safety, Next PROVE Kept
    OBVIOUS
  <2>1. ASSUME NEW n \in CallSizes, Call(n) PROVE Kept
    <3>1. todo = 0 /\ todo' \in Nat
      BY <2>1, SizesAssumption, InputsAssumption DEF Call
    <3>. QED BY <3>1
  <2>2. ASSUME NEW a \in Activations, BeatFrame(a) PROVE Kept
    <3>1. MovesWithin(down_particles, down_particles', Bar!FirstStates, Bar!LastStates)
      BY <2>2, DownFilterMoves DEF BeatFrame, Safety
    <3>2. CASE BeatTurn(a)
      BY <3>1, <3>2, BeatTurnMoves DEF Safety
    <3>3. CASE todo' = 0 /\ particles' = particles
      BY <3>1, <3>3
    <3>. QED BY <2>2, <3>2, <3>3 DEF BeatFrame, BeatFilter
  <2>3. ASSUME NEW a \in Activations, PlainFrame(a) PROVE Kept
    <3>1. down_particles' = down_particles
      BY <2>3 DEF PlainFrame
    <3>2. CASE BeatTurn(a)
      BY <3>1, <3>2, BeatTurnMoves DEF Safety
    <3>3. CASE todo' = 0 /\ particles' = particles
      BY <3>1, <3>3
    <3>. QED BY <2>3, <3>2, <3>3 DEF PlainFrame, BeatFilter
  <2>. QED BY <2>1, <2>2, <2>3 DEF Next
<1>. QED BY <1>1, CascadeSafe, PTL DEF Spec, IntervalsKept

-----------------------------------------------------------------------------
\* The rows after the dummy one, before and after a row is appended.
LEMMA TailOfPath ==
    ASSUME NEW S, NEW p \in Seq(S), p # << >>, NEW x \in S
    PROVE  /\ Tail(Append(p, x)) = Append(Tail(p), x)
           /\ Tail(p) = << >> => Len(p) = 1
           /\ Tail(p) # << >> => Tail(p)[Len(Tail(p))] = p[Len(p)]
<1>1. Len(p) \in Nat /\ Len(p) > 0
  OBVIOUS
<1>2. /\ Tail(p) \in Seq(S) /\ Len(Tail(p)) = Len(p) - 1
      /\ \A k \in 1 .. Len(p) - 1 : Tail(p)[k] = p[k + 1]
  BY <1>1
<1> DEFINE q == Append(p, x)
<1>3. /\ q \in Seq(S) /\ Len(q) = Len(p) + 1 /\ q[Len(p) + 1] = x
      /\ \A k \in 1 .. Len(p) : q[k] = p[k]
  BY <1>1, AppendProperties
<1>. HIDE DEF q
<1>4. /\ Tail(q) \in Seq(S) /\ Len(Tail(q)) = Len(p)
      /\ \A k \in 1 .. Len(p) : Tail(q)[k] = q[k + 1]
  BY <1>1, <1>3
<1> DEFINE r == Append(Tail(p), x)
<1>5. /\ r \in Seq(S) /\ Len(r) = Len(p) /\ r[Len(p)] = x
      /\ \A k \in 1 .. Len(p) - 1 : r[k] = Tail(p)[k]
  BY <1>1, <1>2, AppendProperties
<1>. HIDE DEF r
<1>6. \A k \in 1 .. Len(p) : Tail(q)[k] = r[k]
  <2> SUFFICES ASSUME NEW k \in 1 .. Len(p) PROVE Tail(q)[k] = r[k]
    OBVIOUS
  <2>1. CASE k = Len(p)
    BY <1>1, <1>3, <1>4, <1>5, <2>1
  <2>2. CASE k # Len(p)
    <3>1. k \in 1 .. Len(p) - 1 /\ k + 1 \in 1 .. Len(p) /\ k + 1 \in Nat
      BY <1>1, <2>2
    <3>. QED BY <1>2, <1>3, <1>4, <1>5, <3>1
  <2>. QED BY <2>1, <2>2
<1>7. Tail(q) = r
  BY <1>4, <1>5, <1>6, SeqEqual
<1>8. Tail(p) = << >> => Len(p) = 1
  BY <1>1, <1>2
<1>9. Tail(p) # << >> => Tail(p)[Len(Tail(p))] = p[Len(p)]
  BY <1>1, <1>2
<1>. QED BY <1>7, <1>8, <1>9 DEF q, r

LEMMA NextKeepsPromise == Safety /\ [Next]_vars => [Promise!Next]_(Promise!vars)
<1> SUFFICES ASSUME Safety, [Next]_vars PROVE [Promise!Next]_(Promise!vars)
  OBVIOUS
<1>1. ASSUME path' = path, counter' = counter PROVE [Promise!Next]_(Promise!vars)
  BY <1>1 DEF Promise!vars, Clock, Reported
<1>2. ASSUME path' = path, NextFrame PROVE [Promise!Next]_(Promise!vars)
  <2>1. counter \in Int /\ OffsetFrames \in Int /\ counter' = counter + 1
    BY <1>2, SizesAssumption DEF NextFrame, Safety, TypeOK
  <2>2. Clock' = Clock + 1 /\ Reported' = Reported
    BY <1>2, <2>1 DEF Clock, Reported
  <2>3. Promise!Quiet
    BY <2>2 DEF Promise!Quiet
  <2>. QED BY <2>3 DEF Promise!Next
<1>3. ASSUME NEW a \in Activations, BeatFrame(a), path' # path
      PROVE  [Promise!Next]_(Promise!vars)
  <2>1. PICK label \in {1, 2} : /\ path' = Append(path, <<Now, label>>)
                                /\ 5 * (Now - LastBeat) >= 2 * MinTempo
                                /\ label = 1 => LastLabel # 1
    BY <1>3, BeatFramePath DEF Safety
  <2>2. Clock' = Clock + 1 /\ Now \in Int /\ Now = Clock'
    BY <1>3, SizesAssumption DEF BeatFrame, NextFrame, Safety, TypeOK, Now, Clock
  <2>3. path \in Seq(Int \X {0, 1, 2}) /\ path # << >> /\ path[1] = <<0, 0>>
    BY DEF Safety, TypeOK
  <2>4. <<Now, label>> \in Int \X {0, 1, 2}
    BY <2>2
  <2>5. Reported' = Append(Reported, <<Clock', label>>)
    BY <2>1, <2>2, <2>3, <2>4, TailOfPath DEF Reported
  <2>6. Promise!Previous = path[Len(path)]
    <3>1. CASE Reported = << >>
      <4>1. Len(path) = 1
        BY <2>3, <2>4, <3>1, TailOfPath DEF Reported
      <4>. QED BY <2>3, <3>1, <4>1 DEF Promise!Previous
    <3>2. CASE Reported # << >>
      <4>1. Reported[Len(Reported)] = path[Len(path)]
        BY <2>3, <2>4, <3>2, TailOfPath DEF Reported
      <4>. QED BY <3>2, <4>1 DEF Promise!Previous
    <3>. QED BY <3>1, <3>2
  <2>7. Promise!Report(label)
    <3>1. Promise!Previous[1] = LastBeat /\ Promise!Previous[2] = LastLabel
      BY <2>6 DEF LastBeat, LastLabel
    <3>2. 5 * (Clock' - Promise!Previous[1]) >= 2 * MinTempo
      BY <2>1, <2>2, <3>1
    <3>. QED BY <2>1, <2>2, <2>5, <3>1, <3>2 DEF Promise!Report
  <2>. QED BY <2>7 DEF Promise!Next
<1>4. ASSUME NEW n \in CallSizes, Call(n) PROVE path' = path /\ counter' = counter
  BY <1>4 DEF Call
<1>5. CASE \E n \in CallSizes : Call(n)
  BY <1>1, <1>4, <1>5
<1>6. CASE \E a \in Activations : BeatFrame(a)
  BY <1>2, <1>3, <1>6 DEF BeatFrame
<1>7. CASE \E a \in Activations : PlainFrame(a)
  BY <1>2, <1>7 DEF PlainFrame
<1>8. CASE UNCHANGED vars
  BY <1>1, <1>8 DEF vars
<1>. QED BY <1>5, <1>6, <1>7, <1>8 DEF Next

\* The cascade implements the abstract beat sequence.
THEOREM CascadeKeepsPromise == Spec => ImplementsPromise
<1>1. Init => Promise!Init
  <2> SUFFICES ASSUME Init PROVE Promise!Init
    OBVIOUS
  <2>1. Reported = << >> /\ Clock = OffsetFrames - 1
    BY SizesAssumption DEF Init, Reported, Clock
  <2>. QED BY <2>1 DEF Promise!Init
<1>. QED BY <1>1, NextKeepsPromise, CascadeSafe, PTL DEF Spec, ImplementsPromise, Promise!Spec

-----------------------------------------------------------------------------
(***************************************************************************)
(* What the resampling of a frame chooses exists.                          *)
(***************************************************************************)

\* Part of the particles.
LEMMA SomeOf ==
    ASSUME NEW n \in Nat, NEW T, T \subseteq 1 .. n
    PROVE  IsFiniteSet(T) /\ Cardinality(T) \in 0 .. n
<1>1. IsFiniteSet(1 .. n) /\ Cardinality(1 .. n) = n
  BY FS_Interval
<1>2. IsFiniteSet(T) /\ Cardinality(T) <= Cardinality(1 .. n)
  BY <1>1, FS_Subset
<1>. QED BY <1>1, <1>2, FS_CardinalityType

\* A selection is always possible: for every slice there is a first particle at which the
\* weights exceed its beginning, or all are the first one.
LEMMA ResampledExists ==
    ASSUME NEW S, NEW p \in Seq(S), p # << >>, NEW border, NEW high \in Nat, NEW low \in Nat
    PROVE  Resampled(p, border, high, low) # {}
<1> DEFINE n == Len(p)
           B(k) == {i \in 1 .. k : p[i] \in border}
           upto(k) == low * k + (high - low) * Cardinality(B(k))
           Selects(j, k) ==
               IF upto(n) = 0 THEN k = 1
               ELSE /\ n * upto(k) >= (j - 1) * upto(n)
                    /\ k > 1 => upto(k - 1) < upto(k) /\ n * upto(k - 1) < j * upto(n)
<1>1. n \in Nat \ {0}
  OBVIOUS
<1>2. \A k \in 0 .. n : upto(k) \in Nat
  <2> TAKE k \in 0 .. n
  <2>1. B(k) \subseteq 1 .. k /\ k \in Nat
    BY <1>1
  <2>2. Cardinality(B(k)) \in 0 .. k
    <3>. HIDE DEF B
    <3>. QED BY <2>1, SomeOf
  <2>3. \A c \in 0 .. k : low * k + (high - low) * c \in Nat
    <3> TAKE c \in 0 .. k
    <3>1. low * k + (high - low) * c = low * (k - c) + high * c
      BY <2>1
    <3>2. k - c \in Nat /\ c \in Nat
      BY <2>1
    <3>3. low * (k - c) \in Nat /\ high * c \in Nat
      BY <3>2
    <3>. QED BY <3>1, <3>3
  <2>. QED BY <2>2, <2>3
<1>. HIDE DEF upto
<1>3. ASSUME NEW j \in 1 .. n PROVE \E k \in 1 .. n : Selects(j, k)
  <2>1. CASE upto(n) = 0
    <3>1. 1 \in 1 .. n /\ Selects(j, 1)
      BY <1>1, <2>1
    <3>. QED BY <3>1
  <2>2. CASE upto(n) # 0
    <3> DEFINE u == upto(n)
               From == (j - 1) * u
               K == {k \in 1 .. n : n * upto(k) > From}
    <3>1. u \in Nat \ {0} /\ n \in 0 .. n /\ j - 1 \in Nat /\ From \in Nat /\ j * u = From + u
      BY <1>1, <1>2, <2>2
    <3>2. n \in K
      <4>1. j * u <= n * u
        BY <1>1, <3>1, Products
      <4>2. n * u \in Nat
        BY <1>1, <3>1
      <4>3. n * u > From
        <5>. HIDE DEF From, u
        <5>. QED BY <3>1, <4>1, <4>2
      <4>. QED BY <1>1, <4>3
    <3>3. PICK k \in K : \A l \in K : k <= l
      <4>1. K \in SUBSET Nat
        BY <1>1
      <4>. HIDE DEF K
      <4>. QED BY <3>2, <4>1, LeastNumber
    <3>4. k \in 1 .. n /\ n * upto(k) > From
      OBVIOUS
    <3>5. ASSUME k > 1 PROVE upto(k - 1) < upto(k) /\ n * upto(k - 1) < j * u
      <4>1. k - 1 \in 1 .. n /\ ~(k <= k - 1) /\ k - 1 \in 0 .. n /\ k \in 0 .. n
        BY <1>1, <3>4, <3>5
      <4>2. k - 1 \notin K
        BY <3>3, <4>1
      <4>3. ~(n * upto(k - 1) > From)
        BY <4>1, <4>2
      <4>4. upto(k - 1) \in Nat /\ upto(k) \in Nat
        BY <1>2, <4>1
      <4>5. /\ n * upto(k - 1) \in Nat /\ n * upto(k) \in Nat
            /\ n * upto(k - 1) = upto(k - 1) * n /\ n * upto(k) = upto(k) * n
        BY <1>1, <4>4
      <4>. HIDE DEF From, K, u
      <4>6. upto(k - 1) * n < upto(k) * n
        BY <3>1, <3>4, <4>3, <4>5
      <4>7. upto(k - 1) < upto(k)
        BY <1>1, <4>4, <4>6, Products
      <4>8. n * upto(k - 1) < j * u
        BY <3>1, <4>3, <4>5
      <4>. QED BY <4>7, <4>8
    <3>6. n * upto(k) >= From
      <4>1. n * upto(k) \in Nat
        BY <1>1, <1>2, <3>4
      <4>. HIDE DEF From, K
      <4>. QED BY <3>1, <3>4, <4>1
    <3>7. Selects(j, k)
      BY <2>2, <3>5, <3>6
    <3>. QED BY <3>4, <3>7
  <2>. QED BY <2>1, <2>2
<1>. HIDE DEF Selects
<1> DEFINE q == [j \in 1 .. n |-> CHOOSE k \in 1 .. n : Selects(j, k)]
<1>4. q \in [1 .. n -> 1 .. n] /\ \A j \in 1 .. n : Selects(j, q[j])
  BY <1>3
<1>. HIDE DEF q
<1>5. [j \in 1 .. n |-> p[q[j]]] \in Resampled(p, border, high, low)
  BY <1>4 DEF Resampled, Selects, upto
<1>. QED BY <1>5

\* The weights of a frame are natural numbers.
LEMMA GatedInRange ==
    ASSUME NEW a \in Activations
    PROVE  Gated(a) \in Nat /\ a.down \in Nat /\ a.beat \in Nat
<1>1. a.beat \in 0 .. 100 /\ a.down \in 0 .. 100
  BY InputsAssumption
<1>. QED BY <1>1 DEF Gated

\* Both resamplings have an outcome: whatever motion and injection leave.
Resamples ==
    \A a \in Activations :
        /\ \A ensemble \in DownMoved(a) : DownCorrected(ensemble, a) # {}
        /\ \A moved \in Motions(particles, BeatSuccessors), injected \in Injections(Gated(a)) :
              BeatCorrected(moved \o injected, Gated(a)) # {}

\* Where the cascade is safe, they do.
LEMMA SafetyResamples ==
    ASSUME Safety
    PROVE  Resamples
<1>1. /\ particles \in Seq(Beat!States) /\ particles # << >>
      /\ down_particles \in Seq(Bar!States) /\ down_particles # << >>
  BY DEF Safety, TypeOK
<1>2. ASSUME NEW a \in Activations
      PROVE  \A ensemble \in DownMoved(a) : DownCorrected(ensemble, a) # {}
  <2>1. ASSUME NEW ensemble \in DownMoved(a) PROVE DownCorrected(ensemble, a) # {}
    <3>1. ensemble \in Seq(Bar!States) /\ Len(ensemble) >= Len(down_particles)
      BY DownMovedStays DEF Safety
    <3>2. Len(down_particles) \in Nat \ {0}
      BY <1>1
    <3>3. ensemble # << >>
      BY <3>1, <3>2
    <3>. QED BY <3>1, <3>3, GatedInRange, ResampledExists DEF DownCorrected
  <2>. QED BY <2>1
<1>3. ASSUME NEW a \in Activations,
             NEW moved \in Motions(particles, BeatSuccessors), NEW injected \in Injections(Gated(a))
      PROVE  BeatCorrected(moved \o injected, Gated(a)) # {}
  <2>1. moved \in Seq(Beat!States) /\ Len(moved) = Len(particles) /\ Len(particles) \in Nat \ {0}
    BY <1>1, MotionsStay, BeatSpace, Successors
  <2>2. injected \in Seq(Beat!States)
    <3>1. CASE injected = << >>
      BY <3>1
    <3>2. CASE \E offset \in 0 .. 3 : injected = Injected(offset)
      BY <3>2, InjectedStay
    <3>. QED BY <3>1, <3>2 DEF Injections
  <2>3. moved \o injected \in Seq(Beat!States) /\ Len(moved \o injected) = Len(moved) + Len(injected)
    BY <2>1, <2>2, ConcatProperties
  <2>4. Len(injected) \in Nat
    BY <2>2
  <2>5. moved \o injected # << >>
    <3>1. Len(moved \o injected) # 0
      BY <2>1, <2>3, <2>4
    <3>. QED BY <3>1
  <2>. QED BY <2>3, <2>5, GatedInRange, ResampledExists DEF BeatCorrected
<1>. QED BY <1>2, <1>3 DEF Resamples

\* For every activation, weights of zero included, and every size of the ensembles,
\* universal_resample can return something on lines 277 and 311: the model never stops
\* where the code goes on.
THEOREM CascadeResamples == Spec => []Resamples
BY CascadeSafe, SafetyResamples, PTL

=============================================================================
