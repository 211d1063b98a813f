---------------------------- MODULE FeatureModule ----------------------------
(***************************************************************************)
(* The frame arithmetic of FeatureModule (common.py), which the feature    *)
(* extractor LOG_SPECT (log_spect.py) inherits: how many frames a piece of *)
(* audio has, and which lengths have a given number of frames.  Lengths    *)
(* are in samples.                                                         *)
(*                                                                         *)
(* A module is made once, with a hop, and then asked about one piece of    *)
(* audio after the other.  What it expects is not what LOG_SPECT cuts; the *)
(* README says how they differ.                                            *)
(***************************************************************************)
EXTENDS Integers

CONSTANTS HopLengths,  \* hop lengths a module is made with
          MaxAudio     \* bound: the length of a piece of audio

ASSUME HopAssumption == HopLengths \subseteq Nat \ {0} /\ MaxAudio \in Nat

VARIABLES hop_length,
          audio   \* the length of the piece asked about

vars == <<hop_length, audio>>

\* get_expected_frames: the number of hops plus one.
ExpectedFrames(length) == 1 + length \div hop_length

\* Fault: the lower boundary a sample too low.
SampleRangeWide(num_frames) ==
    LET max_samples == num_frames * hop_length - 1
        min_samples == IF max_samples - hop_length > 1 THEN max_samples - hop_length ELSE 1
    IN  min_samples .. max_samples

\* get_sample_range: the lengths between two boundaries.
SampleRange(num_frames) ==
    LET max_samples == num_frames * hop_length - 1
        min_samples == IF max_samples - hop_length + 1 > 1 THEN max_samples - hop_length + 1 ELSE 1
    IN  min_samples .. max_samples

Init == hop_length \in HopLengths /\ audio \in 1 .. MaxAudio

Ask(length) == audio' = length /\ UNCHANGED hop_length

Next == \E length \in 1 .. MaxAudio : Ask(length)

Spec == Init /\ [][Next]_vars

-----------------------------------------------------------------------------
\* Types; a module keeps its hop.
TypeOK == hop_length \in HopLengths /\ audio \in 1 .. MaxAudio

\* The two queries are inverse to each other: a piece of audio has num_frames frames
\* exactly when its length is in the range given for num_frames (lines 56, 79, 80).
\* In particular the ranges meet without a gap or an overlap.
RangeInvertsFrames ==
    \A num_frames \in 1 .. audio + 1 :
        audio \in SampleRange(num_frames) <=> ExpectedFrames(audio) = num_frames

=============================================================================
