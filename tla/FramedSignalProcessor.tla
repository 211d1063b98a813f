------------------------ MODULE FramedSignalProcessor ------------------------
(***************************************************************************)
(* FramedSignalProcessor (frameprocessor.cpp): blocks of samples of any    *)
(* size go into a ring buffer a tenth longer than a frame; every block is  *)
(* answered with a frame of the latest samples, once there are enough.     *)
(*                                                                         *)
(* process() is one loop over the block and one over the frame: a turn of  *)
(* the first is a step, the second is a step of its own.                   *)
(***************************************************************************)
EXTENDS Integers, Sequences

CONSTANTS Sample,      \* the values of a sample
          Silence,     \* 0.0f
          FrameSize,   \* frame_size
          Blocks,      \* the blocks a caller may pass
          MaxSamples   \* bound: samples heard between two resets

ASSUME SamplesAssumption ==
    /\ Silence \in Sample
    /\ FrameSize \in Nat \ {0}
    /\ Blocks \subseteq Seq(Sample)
    /\ MaxSamples \in Nat

VARIABLES ring_buffer,            \* on the positions 0 .. RingSize - 1
          write_pos,
          total_samples_written,
          input,                  \* what is left of the block being processed
          busy,                   \* whether process() is running
          frame_out,              \* the last answer: a frame, << >> for false
          heard                   \* history: the samples since the last reset

vars == <<ring_buffer, write_pos, total_samples_written, input, busy, frame_out, heard>>

\* ring_size(frame_size*1.1)
RingSize == (FrameSize * 11) \div 10
Positions == 0 .. RingSize - 1

Cleared == [p \in Positions |-> Silence]

Init ==
    /\ ring_buffer = Cleared
    /\ write_pos = 0 /\ total_samples_written = 0
    /\ input = << >> /\ busy = FALSE /\ frame_out = << >> /\ heard = << >>

Process(block) ==
    /\ ~busy
    /\ Len(heard) + Len(block) <= MaxSamples
    /\ busy' = TRUE
    /\ input' = block
    /\ UNCHANGED <<ring_buffer, write_pos, total_samples_written, frame_out, heard>>

\* Fault: the write position does not wrap.
WriteOn ==
    /\ busy /\ input # << >>
    /\ ring_buffer' = [ring_buffer EXCEPT ![write_pos] = Head(input)]
    /\ write_pos' = write_pos + 1
    /\ total_samples_written' = total_samples_written + 1
    /\ heard' = Append(heard, Head(input))
    /\ input' = Tail(input)
    /\ UNCHANGED <<busy, frame_out>>

Write ==
    /\ busy /\ input # << >>
    /\ ring_buffer' = [ring_buffer EXCEPT ![write_pos] = Head(input)]
    /\ write_pos' = (write_pos + 1) % RingSize
    /\ total_samples_written' = total_samples_written + 1
    /\ heard' = Append(heard, Head(input))
    /\ input' = Tail(input)
    /\ UNCHANGED <<busy, frame_out>>

\* Fault: the newest sample is taken to stand at the write position.
IndexLate(i) == (write_pos + RingSize - FrameSize + i + 1) % RingSize

\* The i-th element of a frame, counted from 0.
Index(i) == (write_pos + RingSize - FrameSize + i) % RingSize

Frame == [i \in 1 .. FrameSize |-> ring_buffer[Index(i - 1)]]

Return ==
    /\ busy /\ input = << >>
    /\ busy' = FALSE
    /\ frame_out' = IF total_samples_written >= FrameSize THEN Frame ELSE << >>
    /\ UNCHANGED <<ring_buffer, write_pos, total_samples_written, input, heard>>

\* Fault: the count of samples survives a reset.
ResetKeepsCount ==
    /\ ~busy
    /\ ring_buffer' = Cleared
    /\ write_pos' = 0
    /\ heard' = << >>
    /\ UNCHANGED <<total_samples_written, input, busy, frame_out>>

Reset ==
    /\ ~busy
    /\ ring_buffer' = Cleared
    /\ write_pos' = 0
    /\ total_samples_written' = 0
    /\ heard' = << >>
    /\ UNCHANGED <<input, busy, frame_out>>

Next == (\E block \in Blocks : Process(block)) \/ Write \/ Return \/ Reset

Spec == Init /\ [][Next]_vars

-----------------------------------------------------------------------------
(***************************************************************************)
(* Properties.                                                             *)
(***************************************************************************)

\* Types; every position that is written or read is inside the ring.
TypeOK ==
    /\ ring_buffer \in [Positions -> Sample]
    /\ write_pos \in Positions
    /\ total_samples_written \in Nat
    /\ input \in Seq(Sample) /\ heard \in Seq(Sample)
    /\ busy \in BOOLEAN
    /\ frame_out = << >> \/ frame_out \in [1 .. FrameSize -> Sample]

\* The position d samples behind the write position.
Behind(d) == IF write_pos >= d THEN write_pos - d ELSE write_pos - d + RingSize

\* The ring holds the tail of what was heard: the sample heard d samples ago (1 is
\* the latest) is still at d positions behind, for as many as the ring is long.
RingHoldsTail ==
    /\ total_samples_written = Len(heard)
    /\ \A d \in 1 .. RingSize : d <= Len(heard) => ring_buffer[Behind(d)] = heard[Len(heard) + 1 - d]

\* The ring buffer implements the sliding window: whatever the sizes of the blocks
\* and wherever the write position stands, an answer is the latest FrameSize
\* samples, oldest first, or false exactly while there are fewer.
Window == INSTANCE SlidingWindow WITH answer <- frame_out

ImplementsWindow == Window!Spec

=============================================================================
