------------------------- MODULE FeatureModuleProofs -------------------------
(***************************************************************************)
(* Proofs about FeatureModule, for every hop length and every length of    *)
(* audio.                                                                  *)
(***************************************************************************)
EXTENDS FeatureModule, TLAPS

\* Division by a positive number: the quotient is where it belongs ...
LEMMA Quotient ==
    ASSUME NEW n \in Nat, NEW h \in Nat \ {0}
    PROVE  /\ n \div h \in Nat
           /\ (n \div h) * h <= n
           /\ n < (n \div h) * h + h
<1>1. n = h * (n \div h) + (n % h) /\ n % h \in 0 .. h - 1
  BY Z3
<1>. QED BY <1>1

\* ... and nothing else is there.
LEMMA QuotientUnique ==
    ASSUME NEW q \in Nat, NEW p \in Nat, NEW h \in Nat \ {0}, NEW n \in Nat,
           p * h <= n, n < p * h + h, q * h <= n, n < q * h + h
    PROVE  q = p
<1>1. \A a, b \in Nat : a < b => a * h + h <= b * h
  <2> SUFFICES ASSUME NEW a \in Nat, NEW b \in Nat, a < b PROVE a * h + h <= b * h
    OBVIOUS
  <2>1. b = a + 1 + (b - a - 1) /\ b - a - 1 \in Nat
    OBVIOUS
  <2>2. \A d \in Nat : (a + 1 + d) * h = a * h + h + d * h /\ d * h >= 0
    OBVIOUS
  <2>. QED BY <2>1, <2>2
<1>. QED BY <1>1

\* A length is in the range of a number of frames exactly when it has that many.
LEMMA RangeOfFrames ==
    ASSUME hop_length \in Nat \ {0},
           NEW length \in Nat \ {0}, NEW num_frames \in Nat \ {0}
    PROVE  length \in SampleRange(num_frames) <=> ExpectedFrames(length) = num_frames
<1> DEFINE q == length \div hop_length
           p == num_frames - 1
<1>1. q \in Nat /\ q * hop_length <= length /\ length < q * hop_length + hop_length
  BY Quotient
<1>2. p \in Nat /\ num_frames * hop_length = p * hop_length + hop_length
      /\ p * hop_length \in Nat
  OBVIOUS
<1>3. length \in SampleRange(num_frames)
        <=> p * hop_length <= length /\ length < p * hop_length + hop_length
  <2>1. \A x \in Nat : x = num_frames * hop_length =>
          SampleRange(num_frames)
            = (IF x - 1 - hop_length + 1 > 1 THEN x - 1 - hop_length + 1 ELSE 1) .. (x - 1)
    BY DEF SampleRange
  <2>2. PICK y \in Nat : y = p * hop_length
    BY <1>2
  <2>3. SampleRange(num_frames)
          = (IF y > 1 THEN y ELSE 1) .. (y + hop_length - 1)
    BY <1>2, <2>1, <2>2
  <2>. QED BY <2>2, <2>3
<1>4. ExpectedFrames(length) = num_frames <=> q = p
  BY <1>1 DEF ExpectedFrames
<1>. HIDE DEF q, p
<1>5. q = p => p * hop_length <= length /\ length < p * hop_length + hop_length
  BY <1>1
<1>6. p * hop_length <= length /\ length < p * hop_length + hop_length => q = p
  BY <1>1, <1>2, QuotientUnique
<1>. QED BY <1>3, <1>4, <1>5, <1>6

LEMMA TypesKept == Spec => []TypeOK
<1>1. Init => TypeOK
  BY DEF Init, TypeOK
<1>2. TypeOK /\ [Next]_vars => TypeOK'
  BY DEF TypeOK, Next, Ask, vars
<1>. QED BY <1>1, <1>2, PTL DEF Spec

\* get_sample_range is the inverse of get_expected_frames.
THEOREM FeatureRangeInvertsFrames == Spec => []RangeInvertsFrames
<1>1. TypeOK => RangeInvertsFrames
  <2> SUFFICES ASSUME TypeOK, NEW num_frames \in 1 .. audio + 1
               PROVE  audio \in SampleRange(num_frames) <=> ExpectedFrames(audio) = num_frames
    BY DEF RangeInvertsFrames
  <2>1. hop_length \in Nat \ {0} /\ audio \in Nat \ {0} /\ num_frames \in Nat \ {0}
    BY HopAssumption DEF TypeOK
  <2>. QED BY <2>1, RangeOfFrames
<1>. QED BY <1>1, TypesKept, PTL

=============================================================================
