--------------------------- MODULE BeatNetPipeline ---------------------------
(***************************************************************************)
(* The C++ class BeatNet (BeatNet.cpp) from a block of samples to the      *)
(* input of the network: Resampler (resampler.cpp), framed signal          *)
(* processor, spectral difference (logspecutils.cpp).                      *)
(*                                                                         *)
(* The framed signal processor is the sliding window it implements.  A     *)
(* sample is known by the call it was heard in and the call whose audio it *)
(* is (0: zero); a frame, and all that is computed from it, by the number  *)
(* of samples heard up to its end.                                         *)
(***************************************************************************)
EXTENDS Integers, Sequences

CONSTANTS SR_BEATNET, FRAME_LENGTH, HOP_SIZE,
          SampleRates, BlockSizes,  \* what a host may set up
          MaxRatio,                 \* libsamplerate's limit for a ratio and its inverse
          MaxCalls                  \* bound: calls of process()

ASSUME PipelineAssumption ==
    /\ {SR_BEATNET, FRAME_LENGTH, HOP_SIZE, MaxRatio} \subseteq Nat \ {0}
    /\ SampleRates \subseteq Nat \ {0} /\ BlockSizes \subseteq Nat /\ MaxCalls \in Nat

VARIABLES
    bufferSize,          \* of BeatNet, 0 until the first setup(); its SR is only passed on
    rate, buffer_size,   \* of Resampler: the input rate of its ratio
    output_frame_count,
    output_buffer,       \* the call whose audio is at each place
    heard,               \* what the ring buffer was given
    prev_log_fb,         \* the frame the next difference is taken to, 0 if empty
    output,              \* the frame of the last inference and the one before in diff
    calls                \* history: what each call of process() was asked and answered

resampler == <<rate, buffer_size, output_frame_count>>
vars == <<bufferSize, resampler, output_buffer, heard, prev_log_fb, output, calls>>

Window == INSTANCE SlidingWindow WITH Sample <- [of: Nat, in: Nat], FrameSize <- FRAME_LENGTH,
                                      answer <- << >>

\* Fault: the half is not added.
Truncated(size, sample_rate) == (size * SR_BEATNET) \div sample_rate

\* static_cast<long>(buffer_size * ratio + 0.5)
Rounded(size, sample_rate) == (2 * size * SR_BEATNET + sample_rate) \div (2 * sample_rate)

\* std::vector::resize(count, 0.0f)
Resized(buffer, count) == [k \in 1 .. count |-> IF k <= Len(buffer) THEN buffer[k] ELSE 0]

\* What src_callback_read writes: all that is asked for or one less, as the count was
\* rounded up or down, and nothing with a ratio it does not support.
Supported(sample_rate) ==
    SR_BEATNET <= MaxRatio * sample_rate /\ sample_rate <= MaxRatio * SR_BEATNET
FramesWritten ==
    IF Supported(rate) THEN {output_frame_count, output_frame_count - 1} \cap Nat ELSE {0}

Init ==
    /\ bufferSize = 0
    /\ rate = 0 /\ buffer_size = 0 /\ output_frame_count = 0
    /\ output_buffer = << >> /\ heard = << >> /\ prev_log_fb = 0
    /\ output = [frame |-> 0, diff |-> 0]
    /\ calls = << >>

\* Fault: the number of samples to ask for stays that of the first setup.
ResamplerSetupKeepsCount(input_sr, block) ==
    IF block > 0
    THEN /\ rate' = input_sr /\ buffer_size' = block
         /\ output_frame_count' = IF rate = 0 THEN Rounded(block, input_sr) ELSE output_frame_count
         /\ output_buffer' = Resized(output_buffer, Rounded(block, input_sr))
    ELSE UNCHANGED <<resampler, output_buffer>>

\* Resampler::setup: an empty block is ignored.
ResamplerSetup(input_sr, block) ==
    IF block > 0
    THEN /\ rate' = input_sr /\ buffer_size' = block
         /\ output_frame_count' = Rounded(block, input_sr)
         /\ output_buffer' = Resized(output_buffer, output_frame_count')
    ELSE UNCHANGED <<resampler, output_buffer>>

\* BeatNet::setup
Setup(sampleRate, samplesPerBlock) ==
    /\ bufferSize' = samplesPerBlock
    /\ ResamplerSetup(sampleRate, samplesPerBlock)
    /\ UNCHANGED <<heard, prev_log_fb, output, calls>>

Call == Len(calls) + 1

\* Fault: the read position of the callback is not set back, so there is nothing to
\* read from the second call on.
OverwrittenOnce(written) ==
    [k \in DOMAIN output_buffer |-> IF k <= written /\ Call = 1 THEN Call ELSE output_buffer[k]]

\* Resampler::resample: the output buffer, of which the library has overwritten the
\* first written samples; silence for an empty block.
Overwritten(written) ==
    [k \in DOMAIN output_buffer |-> IF k <= written THEN Call ELSE output_buffer[k]]
Resample(written) ==
    IF bufferSize > 0 THEN Overwritten(written) ELSE Resized(<< >>, output_frame_count)

\* What the ring buffer is given.
Hear(resampled) ==
    heard' = heard \o [k \in DOMAIN resampled |-> [of |-> resampled[k], in |-> Call]]

\* Fault: a frame needs one sample more.
EnoughLate == Len(heard) > FRAME_LENGTH

\* total_samples_written >= frame_size
Enough == Len(heard) >= FRAME_LENGTH

\* Fault: the first frame is kept, as it is when previous is empty.
SpectralDiffToFirst(log_fb) == prev_log_fb' = IF prev_log_fb = 0 THEN log_fb ELSE prev_log_fb

\* spectral_diff leaves the frame behind, whether there was one before or not.
SpectralDiff(log_fb) == prev_log_fb' = log_fb

\* The rest of preprocess, and inference.
Predict ==
    /\ output' = [frame |-> Len(heard'), diff |-> prev_log_fb]
    /\ SpectralDiff(Len(heard'))

\* BeatNet::process on a block of the size that was set up.
Process ==
    /\ rate > 0
    /\ Len(calls) < MaxCalls
    /\ \E written \in FramesWritten :
        /\ Hear(Resample(written))
        /\ output_buffer' = IF bufferSize > 0 THEN Overwritten(written) ELSE output_buffer
    /\ calls' = Append(calls, [rate |-> rate, size |-> bufferSize, valid |-> Enough'])
    /\ IF Enough' THEN Predict ELSE UNCHANGED <<output, prev_log_fb>>
    /\ UNCHANGED <<bufferSize, resampler>>

Next ==
    \/ \E sampleRate \in SampleRates, samplesPerBlock \in BlockSizes : Setup(sampleRate, samplesPerBlock)
    \/ Process

Spec == Init /\ [][Next]_vars

-----------------------------------------------------------------------------
\* Types; the buffer handed to the library is as long as what is asked for.
TypeOK ==
    /\ bufferSize \in BlockSizes \cup {0}
    /\ rate \in SampleRates \cup {0} /\ buffer_size \in BlockSizes \cup {0}
    /\ output_frame_count = IF rate = 0 THEN 0 ELSE Rounded(buffer_size, rate)
    /\ output_buffer \in Seq(0 .. Len(calls)) /\ Len(output_buffer) = output_frame_count
    /\ heard \in Seq([of: 0 .. Len(calls), in: 1 .. Len(calls)])
    /\ prev_log_fb \in 0 .. Len(heard)
    /\ output \in [frame: 0 .. Len(heard), diff: 0 .. Len(heard)]
    /\ calls \in Seq([rate: SampleRates, size: BlockSizes \cup {0}, valid: BOOLEAN])

\* A frame is made of the audio that was passed: although the number of samples written
\* is ignored (resampler.cpp line 108) and the buffer lives on through every setup, only
\* the last sample of a block can be one left over from an earlier call.
FramesAreFresh ==
    Enough =>
        LET frame == Window!Latest(FRAME_LENGTH)
        IN  \A k \in 1 .. FRAME_LENGTH - 1 :
                LET call == calls[frame[k].in]
                IN  /\ frame[k].in = frame[k + 1].in
                    /\ call.size > 0 /\ Supported(call.rate)
                    => frame[k].of = frame[k].in

\* The difference is to the frame of the inference before, none is skipped or taken
\* twice, over any number of setups and of blocks too early for a frame (BeatNet.cpp
\* line 150, logspecutils.cpp lines 18 and 29).
DiffToFrameBefore == [][output' # output => output'.diff = output.frame]_output

\* "invalid for the first ~FRAME_LENGTH/resampled.size()-1 frames" (BeatNet.cpp line
\* 143): with one size of block, exactly that many rounded up; and a frame in every
\* call from then on, whatever is set up in between.
WarmUp ==
    \A n \in DOMAIN calls :
        LET Size(m) == Rounded(calls[m].size, calls[m].rate)
        IN  /\ n > 1 /\ calls[n - 1].valid => calls[n].valid
            /\ (\A m \in 1 .. n : calls[m].size > 0 /\ Size(m) = Size(1)) =>
                   (calls[n].valid <=> n * Size(1) >= FRAME_LENGTH)

\* As long as nothing but one setup was made, in the last call at least.
OneSetup == \A n \in DOMAIN calls : calls[n] = [calls[1] EXCEPT !.valid = calls[n].valid]

\* The size of a block is rounded for every block and the number written ignored
\* (resampler.cpp lines 71 and 108), so what is heard drifts from the rate of the network,
\* but by no more than half a sample a call.
DriftBounded ==
    calls # << >> /\ OneSetup /\ calls[1].size > 0 =>
        LET passed == Len(calls) * (calls[1].size * SR_BEATNET)
            got == Len(heard) * calls[1].rate
        IN  /\ 2 * (got - passed) <= Len(calls) * calls[1].rate
            /\ 2 * (passed - got) <= Len(calls) * calls[1].rate

=============================================================================
