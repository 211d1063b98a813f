---------------------------- MODULE SlidingWindow ----------------------------
(***************************************************************************)
(* What a framed signal processor promises: it hears samples one after the *)
(* other and, when asked, answers with the last FrameSize of them, or that *)
(* it has not heard enough yet.                                            *)
(***************************************************************************)
EXTENDS Integers, Sequences

CONSTANTS Sample, FrameSize

VARIABLES heard,   \* all samples since the last reset
          answer   \* the last answer: a frame, or << >> for "not yet"

vars == <<heard, answer>>

Latest(n) == [i \in 1 .. n |-> heard[Len(heard) - n + i]]

Init == heard = << >> /\ answer = << >>

Hear(s) == heard' = Append(heard, s) /\ UNCHANGED answer

Answer ==
    /\ answer' = IF Len(heard) >= FrameSize THEN Latest(FrameSize) ELSE << >>
    /\ UNCHANGED heard

Reset == heard' = << >> /\ UNCHANGED answer

Next == (\E s \in Sample : Hear(s)) \/ Answer \/ Reset

Spec == Init /\ [][Next]_vars

=============================================================================
