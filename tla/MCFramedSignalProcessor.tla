---------------------- MODULE MCFramedSignalProcessor ----------------------
(***************************************************************************)
(* A small instance of FramedSignalProcessor for TLC.  Ten is the least    *)
(* frame size with a ring that is longer than the frame.                   *)
(***************************************************************************)
EXTENDS FramedSignalProcessor, FiniteSets

\* Blocks of up to two samples, and one longer than the ring.
MCBlocks == UNION { [1 .. n -> Sample] : n \in 0 .. 2 }
               \cup { [k \in 1 .. 12 |-> IF k % 3 = 0 THEN Silence ELSE 1] }

=============================================================================
