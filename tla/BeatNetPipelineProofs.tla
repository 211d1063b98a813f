------------------------ MODULE BeatNetPipelineProofs ------------------------
(***************************************************************************)
(* Proofs about BeatNetPipeline, for every rate, size of block, frame      *)
(* length and sequence of setups and calls.                                *)
(***************************************************************************)
EXTENDS BeatNetPipeline, TLAPS

-----------------------------------------------------------------------------
(***************************************************************************)
(* Types.                                                                  *)
(***************************************************************************)

\* A whole number divided by a positive one.
LEMMA QuotientNat ==
    ASSUME NEW n \in Nat, NEW d \in Nat \ {0}
    PROVE  n \div d \in Nat
  BY Z3

\* The number of samples asked for is a whole number.
LEMMA RoundedNat ==
    ASSUME NEW size \in Nat, NEW sample_rate \in Nat \ {0}
    PROVE  Rounded(size, sample_rate) \in Nat
<1>1. 2 * size * SR_BEATNET + sample_rate \in Nat
  <2>1. \A x, y \in Nat : x * y \in Nat
    OBVIOUS
  <2>2. SR_BEATNET \in Nat /\ 2 * size \in Nat /\ sample_rate \in Nat
    BY PipelineAssumption
  <2>. QED BY <2>1, <2>2
<1>2. 2 * sample_rate \in Nat \ {0}
  OBVIOUS
<1>. QED BY <1>1, <1>2, QuotientNat DEF Rounded

\* A resized vector has the size that was asked for.
LEMMA ResizedType ==
    ASSUME NEW S, 0 \in S, NEW buffer \in Seq(S), NEW count \in Nat
    PROVE  Resized(buffer, count) \in Seq(S) /\ Len(Resized(buffer, count)) = count
<1>1. \A k \in 1 .. count : (IF k <= Len(buffer) THEN buffer[k] ELSE 0) \in S
  OBVIOUS
<1>. QED BY <1>1 DEF Resized

\* Nothing has happened yet.
LEMMA TypeInit == Init => TypeOK
  BY PipelineAssumption DEF Init, TypeOK

\* A setup resizes the buffer to what will be asked for.
LEMMA TypeSetup ==
    ASSUME TypeOK, NEW sampleRate \in SampleRates, NEW samplesPerBlock \in BlockSizes,
           Setup(sampleRate, samplesPerBlock)
    PROVE  TypeOK'
<1>1. CASE samplesPerBlock > 0
  <2>1. sampleRate \in Nat \ {0} /\ samplesPerBlock \in Nat
    BY PipelineAssumption
  <2>2. output_frame_count' = Rounded(samplesPerBlock, sampleRate) /\ output_frame_count' \in Nat
    BY <1>1, <2>1, RoundedNat DEF Setup, ResamplerSetup
  <2>3. /\ output_buffer' \in Seq(0 .. Len(calls))
        /\ Len(output_buffer') = output_frame_count'
    <3>1. output_buffer' = Resized(output_buffer, output_frame_count')
      BY <1>1 DEF Setup, ResamplerSetup
    <3>2. 0 \in 0 .. Len(calls) /\ output_buffer \in Seq(0 .. Len(calls))
      BY DEF TypeOK
    <3>. QED BY <3>1, <3>2, <2>2, ResizedType
  <2>. QED BY <1>1, <2>1, <2>2, <2>3 DEF Setup, ResamplerSetup, TypeOK
<1>2. CASE ~(samplesPerBlock > 0)
  BY <1>2, PipelineAssumption DEF Setup, ResamplerSetup, TypeOK, resampler
<1>. QED BY <1>1, <1>2

\* What a call hands to the ring buffer is as long as what is asked for, and of this
\* call or an earlier one; so is what it leaves in the output buffer.
LEMMA ResampleType ==
    ASSUME TypeOK, NEW written \in Int
    PROVE  /\ Overwritten(written) \in Seq(0 .. Call)
           /\ Len(Overwritten(written)) = output_frame_count
           /\ Resample(written) \in Seq(0 .. Call)
           /\ Len(Resample(written)) = output_frame_count
           /\ output_buffer \in Seq(0 .. Call)
<1>1. Call \in Nat /\ Call = Len(calls) + 1 /\ 0 \in 0 .. Call
  BY DEF Call, TypeOK
<1>2. output_buffer \in Seq(0 .. Call) /\ Len(output_buffer) = output_frame_count
      /\ output_frame_count \in Nat
  BY <1>1 DEF TypeOK
<1>3. Overwritten(written) \in Seq(0 .. Call) /\ Len(Overwritten(written)) = output_frame_count
  BY <1>1, <1>2 DEF Overwritten
<1>4. Resized(<< >>, output_frame_count) \in Seq(0 .. Call)
      /\ Len(Resized(<< >>, output_frame_count)) = output_frame_count
  BY <1>1, <1>2, ResizedType
<1>. QED BY <1>2, <1>3, <1>4 DEF Resample

\* The samples of a call, stamped.
Stamped(resampled) == [k \in DOMAIN resampled |-> [of |-> resampled[k], in |-> Call]]

LEMMA StampedType ==
    ASSUME TypeOK, NEW resampled \in Seq(0 .. Call)
    PROVE  /\ Stamped(resampled) \in Seq([of: 0 .. Call, in: 1 .. Call])
           /\ Len(Stamped(resampled)) = Len(resampled)
<1>1. Call \in 1 .. Call
  BY DEF Call, TypeOK
<1>. DEFINE S == 0 .. Call
<1>2. Len(resampled) \in Nat /\ DOMAIN resampled = 1 .. Len(resampled)
      /\ \A k \in 1 .. Len(resampled) : resampled[k] \in S
  <2>. HIDE DEF S
  <2>1. resampled \in Seq(S)
    BY DEF S
  <2>. QED BY <2>1
<1>. QED BY <1>1, <1>2 DEF Stamped

\* What was heard before is heard no later.
LEMMA HeardStays ==
    ASSUME TypeOK
    PROVE  heard \in Seq([of: 0 .. Call, in: 1 .. Call])
<1>. DEFINE Old == [of: 0 .. Len(calls), in: 1 .. Len(calls)]
            New == [of: 0 .. Call, in: 1 .. Call]
<1>1. Len(calls) \in Nat /\ Call = Len(calls) + 1 /\ heard \in Seq(Old)
  BY DEF Call, TypeOK
<1>2. Old \subseteq New
  BY <1>1
<1>. HIDE DEF Old, New
<1>3. heard \in Seq(New)
  BY <1>1, <1>2
<1>. QED BY <1>3 DEF New

\* What a call of process() does to the data, by the number of samples written.
LEMMA ProcessSteps ==
    ASSUME TypeOK, Process
    PROVE  \E written \in FramesWritten :
             /\ written \in Nat
             /\ heard' = heard \o Stamped(Resample(written))
             /\ output_buffer' \in {output_buffer, Overwritten(written)}
             /\ Stamped(Resample(written)) \in Seq([of: 0 .. Call, in: 1 .. Call])
             /\ Len(Stamped(Resample(written))) = output_frame_count
<1>1. PICK written \in FramesWritten :
        /\ Hear(Resample(written))
        /\ output_buffer' = IF bufferSize > 0 THEN Overwritten(written) ELSE output_buffer
  BY DEF Process
<1>2. written \in Nat
  BY DEF FramesWritten
<1>3. Resample(written) \in Seq(0 .. Call) /\ Len(Resample(written)) = output_frame_count
  BY <1>2, ResampleType
<1>4. Stamped(Resample(written)) \in Seq([of: 0 .. Call, in: 1 .. Call])
      /\ Len(Stamped(Resample(written))) = output_frame_count
  BY <1>3, StampedType
<1>5. heard' = heard \o Stamped(Resample(written))
  BY <1>1 DEF Hear, Stamped
<1>. QED BY <1>1, <1>2, <1>4, <1>5

\* A call adds to the history what it was asked and heard.
LEMMA TypeProcess ==
    ASSUME TypeOK, Process
    PROVE  TypeOK'
<1>1. PICK written \in FramesWritten :
        /\ written \in Nat
        /\ heard' = heard \o Stamped(Resample(written))
        /\ output_buffer' \in {output_buffer, Overwritten(written)}
        /\ Stamped(Resample(written)) \in Seq([of: 0 .. Call, in: 1 .. Call])
  BY ProcessSteps
<1>2. Call \in Nat /\ Call = Len(calls) + 1
  BY DEF Call, TypeOK
<1>3. /\ calls' \in Seq([rate: SampleRates, size: BlockSizes \cup {0}, valid: BOOLEAN])
      /\ Len(calls') = Call
  <2>1. rate \in SampleRates /\ bufferSize \in BlockSizes \cup {0}
    BY DEF Process, TypeOK
  <2>2. Enough' \in BOOLEAN
    BY DEF Enough
  <2>3. calls' = Append(calls, [rate |-> rate, size |-> bufferSize, valid |-> Enough'])
    BY DEF Process
  <2>. HIDE DEF Enough
  <2>4. [rate |-> rate, size |-> bufferSize, valid |-> Enough']
          \in [rate: SampleRates, size: BlockSizes \cup {0}, valid: BOOLEAN]
    BY <2>1, <2>2
  <2>. QED BY <1>2, <2>3, <2>4 DEF TypeOK
<1>4. output_buffer' \in Seq(0 .. Call) /\ Len(output_buffer') = output_frame_count
  <2>1. CASE output_buffer' = output_buffer
    BY <2>1, ResampleType, <1>1 DEF TypeOK
  <2>2. CASE output_buffer' = Overwritten(written)
    BY <2>2, ResampleType, <1>1
  <2>. QED BY <1>1, <2>1, <2>2
<1>5. /\ heard' \in Seq([of: 0 .. Call, in: 1 .. Call])
      /\ Len(heard') \in Nat /\ Len(heard) \in Nat /\ Len(heard) <= Len(heard')
  BY <1>1, HeardStays
<1>6. /\ prev_log_fb' \in 0 .. Len(heard')
      /\ output' \in [frame: 0 .. Len(heard'), diff: 0 .. Len(heard')]
  <2>1. /\ prev_log_fb \in 0 .. Len(heard) /\ output \in [frame: 0 .. Len(heard), diff: 0 .. Len(heard)]
    BY DEF TypeOK
  <2>2. \/ prev_log_fb' = Len(heard') /\ output' = [frame |-> Len(heard'), diff |-> prev_log_fb]
        \/ prev_log_fb' = prev_log_fb /\ output' = output
    BY DEF Process, Predict, SpectralDiff
  <2>. QED BY <1>5, <2>1, <2>2
<1>7. /\ bufferSize' = bufferSize /\ rate' = rate /\ buffer_size' = buffer_size
      /\ output_frame_count' = output_frame_count
  BY DEF Process, resampler
<1>. QED BY <1>3, <1>4, <1>5, <1>6, <1>7 DEF TypeOK

\* Types are kept, and the buffer is always as long as what the library is asked for.
THEOREM PipelineTypeOK == Spec => []TypeOK
<1>1. TypeOK /\ [Next]_vars => TypeOK'
  <2> SUFFICES ASSUME TypeOK, [Next]_vars PROVE TypeOK'
    OBVIOUS
  <2>1. CASE UNCHANGED vars
    BY <2>1 DEF TypeOK, vars, resampler
  <2>. QED BY <2>1, TypeSetup, TypeProcess DEF Next
<1>. QED BY <1>1, TypeInit, PTL DEF Spec

-----------------------------------------------------------------------------
(***************************************************************************)
(* Frames.                                                                 *)
(***************************************************************************)

\* FramesAreFresh for all that was ever heard, not only for the last frame: that is
\* what survives a call, which moves the frame.
HeardFresh(k) ==
    LET call == calls[heard[k].in]
    IN  /\ heard[k].in = heard[k + 1].in
        /\ call.size > 0 /\ Supported(call.rate)
        => heard[k].of = heard[k].in

AllHeardFresh == \A k \in 1 .. Len(heard) - 1 : HeardFresh(k)

\* Elements of sequences and of their concatenation.
LEMMA Elements ==
    ASSUME NEW S, NEW s \in Seq(S)
    PROVE  Len(s) \in Nat /\ \A k \in 1 .. Len(s) : s[k] \in S
  OBVIOUS

LEMMA Concatenated ==
    ASSUME NEW S, NEW s \in Seq(S), NEW t \in Seq(S)
    PROVE  /\ Len(s \o t) = Len(s) + Len(t)
           /\ \A k \in 1 .. Len(s) : (s \o t)[k] = s[k]
           /\ \A j \in 1 .. Len(t) : (s \o t)[Len(s) + j] = t[j]
  OBVIOUS

\* The sample before the last of a block has been overwritten, and all before it.
LEMMA BlockFresh ==
    ASSUME TypeOK, NEW written \in FramesWritten, written \in Nat,
           bufferSize > 0, Supported(rate),
           NEW j \in 1 .. output_frame_count - 1
    PROVE  Stamped(Resample(written))[j] = [of |-> Call, in |-> Call]
<1>1. output_frame_count \in Nat /\ Len(output_buffer) = output_frame_count
      /\ DOMAIN output_buffer = 1 .. output_frame_count
  BY DEF TypeOK
<1>2. written >= output_frame_count - 1
  BY <1>1 DEF FramesWritten
<1>3. Resample(written) = Overwritten(written) /\ DOMAIN Overwritten(written) = 1 .. output_frame_count
  BY <1>1 DEF Resample, Overwritten
<1>4. Overwritten(written)[j] = Call
  BY <1>1, <1>2 DEF Overwritten
<1>. QED BY <1>1, <1>3, <1>4 DEF Stamped

LEMMA FreshProcess ==
    ASSUME TypeOK, AllHeardFresh, Process
    PROVE  AllHeardFresh'
<1>1. PICK written \in FramesWritten :
        /\ written \in Nat
        /\ heard' = heard \o Stamped(Resample(written))
        /\ Stamped(Resample(written)) \in Seq([of: 0 .. Call, in: 1 .. Call])
        /\ Len(Stamped(Resample(written))) = output_frame_count
  BY ProcessSteps
<1> DEFINE block == Stamped(Resample(written))
           entry == [rate |-> rate, size |-> bufferSize, valid |-> Enough']
<1>2. /\ Len(calls) \in Nat /\ Call = Len(calls) + 1 /\ Len(heard) \in Nat
      /\ output_frame_count = Len(block) /\ Len(block) \in Nat
      /\ Len(heard') = Len(heard) + Len(block)
  <2>1. Len(calls) \in Nat /\ Call = Len(calls) + 1
    BY DEF TypeOK, Call
  <2>2. Len(heard) \in Nat /\ Len(block) \in Nat
    BY <1>1, HeardStays, Elements
  <2>3. Len(heard') = Len(heard) + Len(block)
    BY <1>1, HeardStays, Concatenated
  <2>. QED BY <1>1, <2>1, <2>2, <2>3
<1>3. \A k \in 1 .. Len(heard) : heard'[k] = heard[k] /\ heard[k].in \in 1 .. Len(calls)
  <2>1. \A k \in 1 .. Len(heard) : heard[k] \in [of: 0 .. Len(calls), in: 1 .. Len(calls)]
    <3>1. heard \in Seq([of: 0 .. Len(calls), in: 1 .. Len(calls)])
      BY DEF TypeOK
    <3>. QED BY <3>1, Elements
  <2>2. \A k \in 1 .. Len(heard) : heard'[k] = heard[k]
    BY <1>1, HeardStays, Concatenated
  <2>. QED BY <2>1, <2>2
<1>4. \A j \in 1 .. Len(block) : heard'[Len(heard) + j] = block[j] /\ block[j].in = Call
  <2>1. \A j \in 1 .. Len(block) : heard'[Len(heard) + j] = block[j]
    BY <1>1, HeardStays, Concatenated
  <2>2. \A j \in 1 .. Len(block) : block[j].in = Call
    BY <1>1, <1>2 DEF Stamped
  <2>. QED BY <2>1, <2>2
<1>5. calls' = Append(calls, entry)
  BY DEF Process
<1>6. /\ \A c \in 1 .. Len(calls) : calls'[c] = calls[c]
      /\ calls'[Call].size = bufferSize /\ calls'[Call].rate = rate
  <2>. HIDE DEF entry
  <2>1. /\ \A c \in 1 .. Len(calls) : calls'[c] = calls[c]
        /\ calls'[Call] = entry
    BY <1>2, <1>5 DEF TypeOK
  <2>. QED BY <2>1 DEF entry
<1>. HIDE DEF block, entry
<1>7. SUFFICES ASSUME NEW k \in 1 .. Len(heard') - 1,
                      heard'[k].in = heard'[k + 1].in,
                      calls'[heard'[k].in].size > 0, Supported(calls'[heard'[k].in].rate)
               PROVE  heard'[k].of = heard'[k].in
  BY DEF AllHeardFresh, HeardFresh
<1>8. CASE k < Len(heard)
  <2>1. heard'[k] = heard[k] /\ heard'[k + 1] = heard[k + 1] /\ heard[k].in \in 1 .. Len(calls)
    BY <1>2, <1>3, <1>8
  <2>2. HeardFresh(k) /\ calls'[heard[k].in] = calls[heard[k].in]
    BY <1>2, <1>6, <1>8, <2>1 DEF AllHeardFresh
  <2>. QED BY <1>7, <2>1, <2>2 DEF HeardFresh
<1>9. CASE k = Len(heard)
  BY <1>2, <1>3, <1>4, <1>7, <1>9
<1>10. CASE k > Len(heard)
  <2> DEFINE j == k - Len(heard)
  <2>1. j \in 1 .. Len(block) - 1 /\ j \in 1 .. Len(block) /\ k = Len(heard) + j
    BY <1>2, <1>10
  <2>. HIDE DEF j
  <2>2. heard'[k] = block[j] /\ block[j].in = Call
    BY <1>2, <1>4, <2>1
  <2>3. bufferSize > 0 /\ Supported(rate)
    BY <1>6, <1>7, <2>2
  <2>4. block[j] = [of |-> Call, in |-> Call]
    <3>1. j \in 1 .. output_frame_count - 1
      BY <1>2, <2>1
    <3>. QED BY <1>1, <2>3, <3>1, BlockFresh DEF block
  <2>. QED BY <2>2, <2>4
<1>. QED BY <1>2, <1>8, <1>9, <1>10

\* The frame is part of what was heard.
LEMMA HeardToFrame ==
    ASSUME TypeOK, AllHeardFresh
    PROVE  FramesAreFresh
<1> SUFFICES ASSUME Len(heard) >= FRAME_LENGTH, NEW k \in 1 .. FRAME_LENGTH - 1
             PROVE  LET frame == Window!Latest(FRAME_LENGTH)
                        call == calls[frame[k].in]
                    IN  /\ frame[k].in = frame[k + 1].in
                        /\ call.size > 0 /\ Supported(call.rate)
                        => frame[k].of = frame[k].in
  BY DEF FramesAreFresh, Enough
<1> DEFINE n == Len(heard) - FRAME_LENGTH + k
<1>1. Len(heard) \in Nat /\ FRAME_LENGTH \in Nat /\ n \in 1 .. Len(heard) - 1
      /\ n + 1 = Len(heard) - FRAME_LENGTH + (k + 1)
  <2>1. Len(heard) \in Nat
    BY HeardStays, Elements
  <2>. QED BY <2>1, PipelineAssumption
<1>2. /\ Window!Latest(FRAME_LENGTH)[k] = heard[n]
      /\ Window!Latest(FRAME_LENGTH)[k + 1] = heard[n + 1]
  BY <1>1 DEF Window!Latest
<1>3. HeardFresh(n)
  BY <1>1 DEF AllHeardFresh
<1>. QED BY <1>2, <1>3 DEF HeardFresh

\* Whatever was set up and however often, in a frame only the last sample of a block can
\* be left over from an earlier call (as long as the library supports the ratio).
THEOREM PipelineFramesAreFresh == Spec => []FramesAreFresh
<1>1. Init => AllHeardFresh
  BY DEF Init, AllHeardFresh
<1>2. TypeOK /\ AllHeardFresh /\ [Next]_vars => AllHeardFresh'
  <2> SUFFICES ASSUME TypeOK, AllHeardFresh, [Next]_vars PROVE AllHeardFresh'
    OBVIOUS
  <2>1. CASE UNCHANGED <<heard, calls>>
    BY <2>1 DEF AllHeardFresh, HeardFresh
  <2>2. CASE Process
    BY <2>2, FreshProcess
  <2>. QED BY <2>1, <2>2 DEF Next, Setup, vars
<1>3. TypeOK /\ AllHeardFresh => FramesAreFresh
  BY HeardToFrame
<1>. QED BY <1>1, <1>2, <1>3, PipelineTypeOK, PTL DEF Spec

\* The difference is always taken to the frame of the inference before.
THEOREM PipelineDiffToFrameBefore == Spec => DiffToFrameBefore
<1> DEFINE Same == prev_log_fb = output.frame
           Diff == output' # output => output'.diff = output.frame
<1>1. Init => Same
  BY DEF Init
<1>2. Same /\ [Next]_vars => Same' /\ [Diff]_output
  <2> SUFFICES ASSUME Same, [Next]_vars PROVE Same' /\ [Diff]_output
    OBVIOUS
  <2>1. CASE Process
    <3>1. CASE UNCHANGED <<output, prev_log_fb>>
      BY <3>1
    <3>2. CASE Predict
      BY <3>2 DEF Predict, SpectralDiff
    <3>. QED BY <2>1, <3>1, <3>2 DEF Process
  <2>2. CASE UNCHANGED <<output, prev_log_fb>>
    BY <2>2
  <2>. QED BY <2>1, <2>2 DEF Next, Setup, vars
<1>. HIDE DEF Same
<1>3. Spec => [][Diff]_output
  BY <1>1, <1>2, PTL DEF Spec
<1>. QED BY <1>3 DEF DiffToFrameBefore

-----------------------------------------------------------------------------
(***************************************************************************)
(* How much is heard.                                                      *)
(***************************************************************************)

\* The number of samples the m-th call made of its block.
SizeOf(m) == Rounded(calls[m].size, calls[m].rate)

OneSize(n) == \A m \in 1 .. n : calls[m].size > 0 /\ SizeOf(m) = SizeOf(1)

\* What the resampler was set up for is what process() passes to it, or nothing.
SetUpAlike == bufferSize > 0 => buffer_size = bufferSize

\* As many samples were heard as the calls so far made, if all made the same.
Counted ==
    /\ calls = << >> => Len(heard) = 0
    /\ calls # << >> /\ OneSize(Len(calls)) => Len(heard) = Len(calls) * SizeOf(1)

\* There was a frame in the last call exactly if there is enough for one now.
LastValid == calls # << >> => (calls[Len(calls)].valid <=> Len(heard) >= FRAME_LENGTH)

\* What a call of process() adds to what is counted.
LEMMA ProcessCounts ==
    ASSUME TypeOK, SetUpAlike, Process
    PROVE  /\ Len(calls) \in Nat /\ Len(heard) \in Nat /\ output_frame_count \in Nat
           /\ Len(calls') = Len(calls) + 1
           /\ Len(heard') = Len(heard) + output_frame_count
           /\ \A c \in 1 .. Len(calls) : calls'[c] = calls[c]
           /\ calls'[Len(calls')].size = bufferSize
           /\ calls'[Len(calls')].rate = rate
           /\ calls'[Len(calls')].valid <=> Len(heard') >= FRAME_LENGTH
           /\ bufferSize > 0 => Rounded(bufferSize, rate) = output_frame_count
<1>1. PICK written \in FramesWritten :
        /\ heard' = heard \o Stamped(Resample(written))
        /\ Stamped(Resample(written)) \in Seq([of: 0 .. Call, in: 1 .. Call])
        /\ Len(Stamped(Resample(written))) = output_frame_count
  BY ProcessSteps
<1>2. /\ Len(heard) \in Nat /\ output_frame_count \in Nat
      /\ Len(heard') = Len(heard) + output_frame_count
  BY <1>1, HeardStays, Elements, Concatenated
<1> DEFINE entry == [rate |-> rate, size |-> bufferSize, valid |-> Enough']
<1>3. calls' = Append(calls, entry)
  BY DEF Process
<1>4. entry.size = bufferSize /\ entry.rate = rate /\ entry.valid = (Len(heard') >= FRAME_LENGTH)
  BY Zenon DEF Enough
<1>. HIDE DEF entry
<1>5. /\ Len(calls) \in Nat /\ Len(calls') = Len(calls) + 1
      /\ \A c \in 1 .. Len(calls) : calls'[c] = calls[c]
      /\ calls'[Len(calls) + 1] = entry
  BY <1>3 DEF TypeOK
<1>6. bufferSize > 0 => Rounded(bufferSize, rate) = output_frame_count
  <2>1. rate > 0 /\ output_frame_count = IF rate = 0 THEN 0 ELSE Rounded(buffer_size, rate)
    BY DEF Process, TypeOK
  <2>. QED BY <2>1 DEF SetUpAlike
<1>7. calls'[Len(calls')] = entry
  BY <1>5
<1>8. calls'[Len(calls')].valid <=> Len(heard') >= FRAME_LENGTH
  BY <1>4, <1>7, Zenon
<1>9. calls'[Len(calls')].size = bufferSize /\ calls'[Len(calls')].rate = rate
  BY <1>4, <1>7
<1>. QED BY <1>2, <1>5, <1>6, <1>8, <1>9

\* The next multiple.
LEMMA OneMore ==
    ASSUME NEW n \in Nat, NEW c \in Nat
    PROVE  n * c + c = (n + 1) * c
  BY Z3

LEMMA CountedProcess ==
    ASSUME TypeOK, SetUpAlike, Counted, Process
    PROVE  Counted'
<1>0. PICK n \in Nat : n = Len(calls)
  BY ProcessCounts
<1>1. /\ Len(heard) \in Nat /\ output_frame_count \in Nat
      /\ Len(calls') = n + 1 /\ calls' # << >>
      /\ Len(heard') = Len(heard) + output_frame_count
      /\ \A c \in 1 .. n : calls'[c] = calls[c]
      /\ calls'[n + 1].size = bufferSize /\ calls'[n + 1].rate = rate
      /\ bufferSize > 0 => Rounded(bufferSize, rate) = output_frame_count
  BY <1>0, ProcessCounts
<1>2. n = 0 <=> calls = << >>
  BY <1>0 DEF TypeOK
<1>3. SUFFICES ASSUME OneSize(n + 1)' PROVE Len(heard') = (n + 1) * SizeOf(1)'
  BY <1>1 DEF Counted
<1>4. SizeOf(n + 1)' = output_frame_count /\ SizeOf(n + 1)' = SizeOf(1)'
  <2>1. n + 1 \in 1 .. n + 1
    BY <1>1
  <2>2. calls'[n + 1].size > 0 /\ SizeOf(n + 1)' = SizeOf(1)'
    BY <1>3, <2>1 DEF OneSize
  <2>. QED BY <1>1, <2>2 DEF SizeOf
<1>5. CASE n = 0
  BY <1>1, <1>2, <1>4, <1>5 DEF Counted
<1>6. CASE n > 0
  <2>1. \A m \in 1 .. n : SizeOf(m)' = SizeOf(m) /\ calls'[m].size = calls[m].size
    BY <1>1 DEF SizeOf
  <2>2. 1 \in 1 .. n /\ \A m \in 1 .. n : m \in 1 .. n + 1
    BY <1>1, <1>6
  <2>3. OneSize(n)
    BY <1>3, <2>1, <2>2 DEF OneSize
  <2>4. Len(heard) = n * SizeOf(1) /\ SizeOf(1) = output_frame_count
    BY <1>0, <1>2, <1>4, <1>6, <2>1, <2>2, <2>3 DEF Counted
  <2>. QED BY <1>1, <1>4, <2>4, OneMore
<1>. QED BY <1>1, <1>5, <1>6

Amounts == SetUpAlike /\ Counted /\ LastValid

\* Setups count nothing, and calls count what they make.
LEMMA AmountsKept == Spec => []Amounts
<1>1. Init => Amounts
  BY DEF Init, Amounts, SetUpAlike, Counted, LastValid
<1>2. TypeOK /\ Amounts /\ [Next]_vars => Amounts'
  <2> SUFFICES ASSUME TypeOK, Amounts, [Next]_vars PROVE Amounts'
    OBVIOUS
  <2>1. CASE Process
    <3>1. Counted'
      BY <2>1, CountedProcess DEF Amounts
    <3>2. LastValid'
      <4>1. calls'[Len(calls')].valid <=> Len(heard') >= FRAME_LENGTH
        BY <2>1, ProcessCounts DEF Amounts
      <4>. QED BY <4>1, Zenon DEF LastValid
    <3>3. SetUpAlike'
      BY <2>1 DEF Process, resampler, SetUpAlike, Amounts
    <3>. QED BY <3>1, <3>2, <3>3 DEF Amounts
  <2>2. CASE UNCHANGED <<heard, calls>> /\ SetUpAlike'
    <3>1. Counted' /\ LastValid'
      BY <2>2, Zenon DEF Amounts, Counted, LastValid, OneSize, SizeOf
    <3>. QED BY <2>2, <3>1 DEF Amounts
  <2>3. ASSUME NEW sampleRate \in SampleRates, NEW samplesPerBlock \in BlockSizes,
               Setup(sampleRate, samplesPerBlock)
        PROVE  UNCHANGED <<heard, calls>> /\ SetUpAlike'
    BY <2>3 DEF Setup, ResamplerSetup, SetUpAlike
  <2>4. ASSUME UNCHANGED vars PROVE UNCHANGED <<heard, calls>> /\ SetUpAlike'
    BY <2>4 DEF vars, resampler, SetUpAlike, Amounts
  <2>. QED BY <2>1, <2>2, <2>3, <2>4 DEF Next
<1>. QED BY <1>1, <1>2, PipelineTypeOK, PTL DEF Spec

\* WarmUp of one call.
WarmAt(n) ==
    /\ n > 1 /\ calls[n - 1].valid => calls[n].valid
    /\ OneSize(n) => (calls[n].valid <=> n * SizeOf(1) >= FRAME_LENGTH)

\* The new call has a frame if the one before had, and by the count of what was heard.
LEMMA WarmProcess ==
    ASSUME TypeOK, Amounts, Amounts', Process,
           \A n \in 1 .. Len(calls) : WarmAt(n)
    PROVE  \A n \in 1 .. Len(calls') : WarmAt(n)'
<1>0. PICK last \in Nat : last = Len(calls)
  BY ProcessCounts DEF Amounts
<1>1. /\ Len(heard) \in Nat /\ output_frame_count \in Nat
      /\ Len(calls') = last + 1 /\ Len(heard') = Len(heard) + output_frame_count
      /\ \A c \in 1 .. last : calls'[c] = calls[c]
  BY <1>0, ProcessCounts DEF Amounts
<1>2. calls'[last + 1].valid <=> Len(heard') >= FRAME_LENGTH
  BY <1>1, ProcessCounts DEF Amounts
<1>3. ASSUME NEW n \in 1 .. last PROVE WarmAt(n)'
  <2>1. WarmAt(n)
    BY <1>0, <1>3
  <2>2. \A m \in 1 .. n : m \in 1 .. last
    OBVIOUS
  <2>3. calls'[n] = calls[n] /\ SizeOf(1)' = SizeOf(1) /\ (OneSize(n)' <=> OneSize(n))
        /\ (n > 1 => calls'[n - 1] = calls[n - 1])
    BY <1>1, <2>2 DEF SizeOf, OneSize
  <2>. QED BY <2>1, <2>3, Zenon DEF WarmAt
<1>4. WarmAt(last + 1)'
  <2>1. ASSUME last + 1 > 1, calls'[last].valid PROVE calls'[last + 1].valid
    <3>1. calls'[last] = calls[last] /\ calls # << >>
      BY <1>0, <1>1, <2>1
    <3>2. calls[last].valid
      BY <2>1, <3>1
    <3>3. Len(heard) >= FRAME_LENGTH
      BY <1>0, <3>1, <3>2, Zenon DEF Amounts, LastValid
    <3>4. Len(heard') >= FRAME_LENGTH
      BY <1>1, <3>3, PipelineAssumption
    <3>. QED BY <1>2, <3>4
  <2>2. ASSUME OneSize(last + 1)'
        PROVE  calls'[last + 1].valid <=> (last + 1) * SizeOf(1)' >= FRAME_LENGTH
    <3>1. calls' # << >>
      BY <1>1
    <3>2. Len(heard') = (last + 1) * SizeOf(1)'
      BY <1>1, <2>2, <3>1, Zenon DEF Amounts, Counted, OneSize
    <3>. QED BY <1>2, <3>2
  <2>3. (last + 1) - 1 = last
    OBVIOUS
  <2>. QED BY <2>1, <2>2, <2>3, Zenon DEF WarmAt
<1>. QED
  <2>1. \A n \in 1 .. last + 1 : n \in 1 .. last \/ n = last + 1
    OBVIOUS
  <2>. QED BY <1>1, <1>3, <1>4, <2>1, Zenon

\* With one size of block the first frame comes in the call that completes it, and from
\* then on there is one in every call, whatever is set up in between.
THEOREM PipelineWarmUp == Spec => []WarmUp
<1> DEFINE AllWarm == \A n \in 1 .. Len(calls) : WarmAt(n)
<1>1. Init => AllWarm
  BY DEF Init
<1>2. TypeOK /\ Amounts /\ Amounts' /\ AllWarm /\ [Next]_vars => AllWarm'
  <2> SUFFICES ASSUME TypeOK, Amounts, Amounts', AllWarm, [Next]_vars PROVE AllWarm'
    OBVIOUS
  <2>1. CASE Process
    BY <2>1, WarmProcess
  <2>2. CASE UNCHANGED calls
    BY <2>2, Zenon DEF WarmAt, OneSize, SizeOf
  <2>. QED BY <2>1, <2>2 DEF Next, Setup, vars
<1>3. TypeOK /\ AllWarm => WarmUp
  <2> SUFFICES ASSUME TypeOK, AllWarm PROVE WarmUp
    OBVIOUS
  <2>1. DOMAIN calls = 1 .. Len(calls)
    BY DEF TypeOK
  <2>. QED BY <2>1, Zenon DEF WarmUp, WarmAt, OneSize, SizeOf
<1>. HIDE DEF AllWarm
<1>. QED BY <1>1, <1>2, <1>3, PipelineTypeOK, AmountsKept, PTL DEF Spec

\* Rounding to the nearest is off by no more than half.
LEMMA RoundedNear ==
    ASSUME NEW size \in Nat, NEW sample_rate \in Nat \ {0}
    PROVE  /\ 2 * (Rounded(size, sample_rate) * sample_rate - size * SR_BEATNET) <= sample_rate
           /\ 2 * (size * SR_BEATNET - Rounded(size, sample_rate) * sample_rate) <= sample_rate
<1> DEFINE a == size * SR_BEATNET
           q == Rounded(size, sample_rate)
<1>1. a \in Nat /\ q \in Nat
  <2>1. \A x, y \in Nat : x * y \in Nat
    OBVIOUS
  <2>. QED BY <2>1, PipelineAssumption, RoundedNat
<1>2. q = (2 * a + sample_rate) \div (2 * sample_rate)
  <2>1. \A x, y \in Nat : 2 * x * y = 2 * (x * y)
    BY Z3
  <2>2. 2 * size * SR_BEATNET = 2 * a
    BY <2>1, PipelineAssumption
  <2>. QED BY <2>2 DEF Rounded
<1>. HIDE DEF a, q
<1>3. \A x \in Nat, d \in Nat \ {0} : (x \div d) * d <= x /\ x < (x \div d) * d + d
  BY Z3
<1>4. 2 * a + sample_rate \in Nat /\ 2 * sample_rate \in Nat \ {0}
  BY <1>1
<1>5. q * (2 * sample_rate) <= 2 * a + sample_rate
      /\ 2 * a + sample_rate < q * (2 * sample_rate) + 2 * sample_rate
  BY <1>2, <1>3, <1>4
<1>6. q * (2 * sample_rate) = 2 * (q * sample_rate) /\ q * sample_rate \in Nat
  BY <1>1, Z3
<1>7. 2 * (q * sample_rate - a) <= sample_rate /\ 2 * (a - q * sample_rate) <= sample_rate
  BY <1>1, <1>5, <1>6
<1>. QED BY <1>7 DEF a, q

\* An error of half a sample a call adds up to no more than half a sample a call.
LEMMA ErrorsAdd ==
    ASSUME NEW n \in Nat, NEW q \in Nat, NEW r \in Nat, NEW a \in Nat,
           2 * (q * r - a) <= r, 2 * (a - q * r) <= r
    PROVE  2 * ((n * q) * r - n * a) <= n * r /\ 2 * (n * a - (n * q) * r) <= n * r
<1>1. \A x, y \in Int : x <= y => n * x <= n * y
  BY Z3
<1>2. q * r \in Nat /\ 2 * (q * r - a) \in Int /\ 2 * (a - q * r) \in Int
  BY Z3
<1>3. n * (2 * (q * r - a)) <= n * r /\ n * (2 * (a - q * r)) <= n * r
  BY <1>1, <1>2
<1>4. /\ n * (2 * (q * r - a)) = 2 * ((n * q) * r - n * a)
      /\ n * (2 * (a - q * r)) = 2 * (n * a - (n * q) * r)
  BY Z3
<1>. QED BY <1>3, <1>4

\* What a call can be asked.
LEMMA AskedType ==
    ASSUME NEW size \in BlockSizes \cup {0}, NEW sample_rate \in SampleRates
    PROVE  size \in Nat /\ sample_rate \in Nat \ {0}
  BY PipelineAssumption

\* With one setup, what is heard drifts from the rate of the network by no more than
\* half a sample a call.
THEOREM PipelineDriftBounded == Spec => []DriftBounded
<1>1. TypeOK /\ Amounts => DriftBounded
  <2> SUFFICES ASSUME TypeOK, Amounts, calls # << >>, OneSetup, calls[1].size > 0
               PROVE  /\ 2 * (Len(heard) * calls[1].rate - Len(calls) * (calls[1].size * SR_BEATNET))
                           <= Len(calls) * calls[1].rate
                      /\ 2 * (Len(calls) * (calls[1].size * SR_BEATNET) - Len(heard) * calls[1].rate)
                           <= Len(calls) * calls[1].rate
    BY DEF DriftBounded
  <2>0. calls # << >>
    OBVIOUS
  <2>1. /\ Len(calls) \in Nat /\ DOMAIN calls = 1 .. Len(calls) /\ 1 \in 1 .. Len(calls)
        /\ calls[1] \in [rate: SampleRates, size: BlockSizes \cup {0}, valid: BOOLEAN]
    <3> DEFINE C == [rate: SampleRates, size: BlockSizes \cup {0}, valid: BOOLEAN]
    <3>1. calls \in Seq(C)
      BY DEF TypeOK
    <3>. HIDE DEF C
    <3>2. Len(calls) \in Nat /\ DOMAIN calls = 1 .. Len(calls) /\ 1 \in 1 .. Len(calls)
      BY <2>0, <3>1
    <3>. QED BY <3>1, <3>2, Elements DEF C
  <2>2. calls[1].size \in Nat /\ calls[1].rate \in Nat \ {0}
    <3>1. calls[1].size \in BlockSizes \cup {0} /\ calls[1].rate \in SampleRates
      BY <2>1, Zenon
    <3>. QED BY <3>1, AskedType, Zenon
  <2>3. OneSize(Len(calls))
    <3>1. \A m \in 1 .. Len(calls) : calls[m].size = calls[1].size /\ calls[m].rate = calls[1].rate
      <4> SUFFICES ASSUME NEW m \in 1 .. Len(calls)
                   PROVE  calls[m].size = calls[1].size /\ calls[m].rate = calls[1].rate
        OBVIOUS
      <4>1. calls[m] = [calls[1] EXCEPT !.valid = calls[m].valid]
        BY <2>1 DEF OneSetup
      <4>. QED BY <2>1, <4>1
    <3>. QED BY <3>1 DEF OneSize, SizeOf
  <2>4. Len(heard) = Len(calls) * SizeOf(1)
    BY <2>3 DEF Amounts, Counted
  <2>5. SizeOf(1) \in Nat
    BY <2>2, RoundedNat DEF SizeOf
  <2>6. calls[1].size * SR_BEATNET \in Nat
    <3>1. \A x, y \in Nat : x * y \in Nat
      OBVIOUS
    <3>. QED BY <2>2, <3>1, PipelineAssumption
  <2>7. /\ 2 * (SizeOf(1) * calls[1].rate - calls[1].size * SR_BEATNET) <= calls[1].rate
        /\ 2 * (calls[1].size * SR_BEATNET - SizeOf(1) * calls[1].rate) <= calls[1].rate
    BY <2>2, RoundedNear DEF SizeOf
  <2>. QED BY <2>1, <2>2, <2>4, <2>5, <2>6, <2>7, ErrorsAdd
<1>. QED BY <1>1, PipelineTypeOK, AmountsKept, PTL

=============================================================================
