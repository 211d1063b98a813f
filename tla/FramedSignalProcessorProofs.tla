--------------------- MODULE FramedSignalProcessorProofs ---------------------
(***************************************************************************)
(* Proofs about FramedSignalProcessor, for every frame size, every set of  *)
(* samples and blocks of any size, longer than the ring included.          *)
(***************************************************************************)
EXTENDS FramedSignalProcessor, SequenceTheorems, TLAPS

Inv == TypeOK /\ RingHoldsTail

\* A frame fits into the ring.
LEMMA RingLongEnough == RingSize \in Nat /\ FrameSize \in Nat /\ 0 < FrameSize /\ FrameSize <= RingSize
BY SamplesAssumption DEF RingSize

\* One reduction modulo the ring size is at most one subtraction.
LEMMA Wrap ==
    ASSUME NEW x \in Int, 0 <= x, x < 2 * RingSize
    PROVE  x % RingSize = IF x < RingSize THEN x ELSE x - RingSize
<1>1. RingSize \in Nat /\ RingSize > 0
  BY RingLongEnough
<1>. HIDE DEF RingSize
<1>2. CASE x < RingSize
  BY <1>1, <1>2
<1>3. CASE ~ (x < RingSize)
  <2>1. \A y \in 0 .. RingSize - 1 : (y + RingSize) % RingSize = y
    BY <1>1
  <2>2. x - RingSize \in 0 .. RingSize - 1 /\ (x - RingSize) + RingSize = x
    BY <1>1, <1>3
  <2>. QED BY <1>1, <1>3, <2>1, <2>2
<1>. QED BY <1>2, <1>3

LEMMA InitInv == Init => Inv
<1> SUFFICES ASSUME Init PROVE Inv
  OBVIOUS
<1>1. TypeOK
  <2>1. ring_buffer \in [Positions -> Sample]
    BY SamplesAssumption DEF Init, Cleared
  <2>2. write_pos \in Positions /\ total_samples_written \in Nat
    BY RingLongEnough DEF Init, Positions
  <2>3. << >> \in Seq(Sample)
    OBVIOUS
  <2>. QED BY <2>1, <2>2, <2>3 DEF Init, TypeOK
<1>2. RingHoldsTail
  BY RingLongEnough DEF Init, RingHoldsTail
<1>. QED BY <1>1, <1>2 DEF Inv

\* Writing moves every sample one position further behind; the one that is
\* overwritten was a whole ring behind.
LEMMA WriteInv == Inv /\ Write => Inv'
<1> SUFFICES ASSUME Inv, Write PROVE Inv'
  OBVIOUS
<1> DEFINE s == Head(input)
           n == Len(heard)
<1>1. /\ RingSize \in Nat /\ RingSize > 0 /\ write_pos \in 0 .. RingSize - 1
      /\ input \in Seq(Sample) /\ input # << >>
      /\ heard \in Seq(Sample) /\ n \in Nat /\ total_samples_written = n
      /\ ring_buffer \in [Positions -> Sample]
  BY RingLongEnough DEF Inv, TypeOK, RingHoldsTail, Write, Positions
<1>2. s \in Sample /\ Tail(input) \in Seq(Sample)
  BY <1>1
<1>3. write_pos' = IF write_pos + 1 < RingSize THEN write_pos + 1 ELSE 0
  <2>1. (write_pos + 1) % RingSize
          = IF write_pos + 1 < RingSize THEN write_pos + 1 ELSE write_pos + 1 - RingSize
    BY <1>1, Wrap
  <2>. QED BY <1>1, <2>1 DEF Write
<1>4. ring_buffer' = [ring_buffer EXCEPT ![write_pos] = s]
  BY DEF Write
<1>5. /\ heard' \in Seq(Sample) /\ Len(heard') = n + 1 /\ heard'[n + 1] = s
      /\ \A k \in 1 .. n : heard'[k] = heard[k]
  BY <1>1, <1>2, AppendProperties DEF Write
<1>. HIDE DEF s, n
<1>6. TypeOK'
  BY <1>1, <1>2, <1>3, <1>4, <1>5 DEF Write, Inv, TypeOK, Positions
<1>7. total_samples_written' = Len(heard')
  BY <1>1, <1>5 DEF Write
<1>8. ASSUME NEW d \in 1 .. RingSize, d <= Len(heard')
      PROVE  ring_buffer'[Behind(d)'] = heard'[Len(heard') + 1 - d]
  <2>1. CASE d = 1
    <3>1. Behind(d)' = write_pos
      BY <1>1, <1>3, <2>1 DEF Behind
    <3>2. ring_buffer'[write_pos] = s
      BY <1>1, <1>4 DEF Positions
    <3>. QED BY <1>1, <1>5, <2>1, <3>1, <3>2
  <2>2. CASE d # 1
    <3>1. Behind(d)' = Behind(d - 1) /\ Behind(d - 1) # write_pos
          /\ Behind(d - 1) \in 0 .. RingSize - 1
      BY <1>1, <1>3, <2>2 DEF Behind
    <3>2. ring_buffer'[Behind(d - 1)] = ring_buffer[Behind(d - 1)]
      BY <1>1, <1>4, <3>1 DEF Positions
    <3>3. d - 1 \in 1 .. RingSize /\ d - 1 <= n
      BY <1>1, <1>5, <1>8, <2>2
    <3>4. ring_buffer[Behind(d - 1)] = heard[n + 1 - (d - 1)]
      BY <3>3 DEF Inv, RingHoldsTail, n
    <3>5. n + 1 - (d - 1) = Len(heard') + 1 - d /\ n + 1 - (d - 1) \in 1 .. n
      BY <1>1, <1>5, <3>3
    <3>. QED BY <1>5, <3>1, <3>2, <3>4, <3>5
  <2>. QED BY <2>1, <2>2
<1>. QED BY <1>6, <1>7, <1>8 DEF Inv, RingHoldsTail

\* A frame is read off the ring from its oldest sample to its latest.
LEMMA FrameIsLatest ==
    ASSUME Inv, total_samples_written >= FrameSize
    PROVE  Frame = Window!Latest(FrameSize) /\ Frame \in [1 .. FrameSize -> Sample]
<1>1. /\ RingSize \in Nat /\ FrameSize \in Nat /\ 0 < FrameSize /\ FrameSize <= RingSize
      /\ write_pos \in 0 .. RingSize - 1
      /\ heard \in Seq(Sample) /\ Len(heard) \in Nat /\ FrameSize <= Len(heard)
  BY RingLongEnough DEF Inv, TypeOK, RingHoldsTail, Positions
<1>2. ASSUME NEW i \in 1 .. FrameSize
      PROVE  /\ ring_buffer[Index(i - 1)] = heard[Len(heard) - FrameSize + i]
             /\ heard[Len(heard) - FrameSize + i] \in Sample
  <2> DEFINE d == FrameSize + 1 - i
             x == write_pos + RingSize - FrameSize + (i - 1)
  <2>1. d \in 1 .. RingSize /\ d <= Len(heard)
    BY <1>1
  <2>2. x \in Int /\ 0 <= x /\ x < 2 * RingSize /\ x = write_pos - d + RingSize
    BY <1>1
  <2>3. Index(i - 1) = x % RingSize
    BY DEF Index
  <2>. HIDE DEF x, d
  <2>4. Index(i - 1) = Behind(d)
    <3>1. Index(i - 1) = IF x < RingSize THEN x ELSE x - RingSize
      BY <2>2, <2>3, Wrap
    <3>. QED BY <1>1, <2>1, <2>2, <3>1 DEF Behind
  <2>5. ring_buffer[Behind(d)] = heard[Len(heard) + 1 - d]
    BY <2>1 DEF Inv, RingHoldsTail
  <2>6. Len(heard) + 1 - d = Len(heard) - FrameSize + i
    BY <1>1 DEF d
  <2>7. Len(heard) - FrameSize + i \in 1 .. Len(heard)
    BY <1>1
  <2>. QED BY <1>1, <2>4, <2>5, <2>6, <2>7
<1>. QED BY <1>2 DEF Frame, Window!Latest

\* Every step of the processor preserves the invariant.
LEMMA NextInv == Inv /\ [Next]_vars => Inv'
<1> SUFFICES ASSUME Inv, [Next]_vars PROVE Inv'
  OBVIOUS
<1>1. ASSUME NEW block \in Blocks, Process(block) PROVE Inv'
  <2>1. block \in Seq(Sample)
    BY SamplesAssumption
  <2>. QED BY <1>1, <2>1 DEF Process, Inv, TypeOK, RingHoldsTail, Behind
<1>2. CASE Write
  BY <1>2, WriteInv
<1>3. CASE Return
  <2>1. frame_out' = << >> \/ frame_out' \in [1 .. FrameSize -> Sample]
    BY <1>3, FrameIsLatest DEF Return
  <2>. QED BY <1>3, <2>1 DEF Return, Inv, TypeOK, RingHoldsTail, Behind
<1>4. CASE Reset
  <2>1. ring_buffer' \in [Positions -> Sample]
    BY <1>4, SamplesAssumption DEF Reset, Cleared
  <2>2. write_pos' \in Positions /\ total_samples_written' = 0
    BY <1>4, RingLongEnough DEF Reset, Positions
  <2>3. heard' = << >> /\ << >> \in Seq(Sample) /\ Len(<< >>) = 0
    BY <1>4 DEF Reset
  <2>4. TypeOK'
    BY <1>4, <2>1, <2>2, <2>3 DEF Reset, Inv, TypeOK
  <2>5. RingHoldsTail'
    BY <2>2, <2>3 DEF RingHoldsTail
  <2>. QED BY <2>4, <2>5 DEF Inv
<1>5. CASE UNCHANGED vars
  BY <1>5 DEF vars, Inv, TypeOK, RingHoldsTail, Behind
<1>. QED BY <1>1, <1>2, <1>3, <1>4, <1>5 DEF Next

-----------------------------------------------------------------------------
THEOREM FramedInv == Spec => []Inv
BY InitInv, NextInv, PTL DEF Spec

\* Every index the code computes is inside the ring.
THEOREM FramedTypeOK == Spec => []TypeOK
<1>1. Inv => TypeOK
  BY DEF Inv
<1>. QED BY <1>1, FramedInv, PTL

\* The ring always holds the tail of what was heard.
THEOREM FramedRingHoldsTail == Spec => []RingHoldsTail
<1>1. Inv => RingHoldsTail
  BY DEF Inv
<1>. QED BY <1>1, FramedInv, PTL

\* The processor implements the sliding window.
THEOREM FramedImplementsWindow == Spec => ImplementsWindow
<1>1. Init => Window!Init
  BY DEF Init, Window!Init
<1>2. Inv /\ [Next]_vars => [Window!Next]_(Window!vars)
  <2> SUFFICES ASSUME Inv, [Next]_vars PROVE [Window!Next]_(Window!vars)
    OBVIOUS
  <2>1. ASSUME NEW block \in Blocks, Process(block) PROVE UNCHANGED Window!vars
    BY <2>1 DEF Process, Window!vars
  <2>2. CASE Write
    <3>1. Head(input) \in Sample
      BY <2>2 DEF Write, Inv, TypeOK
    <3>. QED BY <2>2, <3>1 DEF Write, Window!Next, Window!Hear
  <2>3. CASE Return
    <3>1. total_samples_written = Len(heard)
      BY DEF Inv, RingHoldsTail
    <3>. QED BY <2>3, <3>1, FrameIsLatest DEF Return, Window!Next, Window!Answer
  <2>4. CASE Reset
    BY <2>4 DEF Reset, Window!Next, Window!Reset
  <2>5. CASE UNCHANGED vars
    BY <2>5 DEF vars, Window!vars
  <2>. QED BY <2>1, <2>2, <2>3, <2>4, <2>5 DEF Next
<1>. QED BY <1>1, <1>2, FramedInv, PTL DEF Spec, ImplementsWindow, Window!Spec

=============================================================================
