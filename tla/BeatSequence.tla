---------------------------- MODULE BeatSequence ----------------------------
(***************************************************************************)
(* What the cascade promises a listener, without particles: time moves on  *)
(* frame by frame, and a frame may report one beat, provided the previous  *)
(* one (or, for the first, time zero) is at least two fifths of the        *)
(* shortest beat interval ago.  A beat is a downbeat (1) or not (2), and   *)
(* two downbeats never follow each other directly.                         *)
(***************************************************************************)
EXTENDS Integers, Sequences

CONSTANTS ShortestInterval,  \* frames per beat at the fastest tempo
          FirstFrame         \* the first frame that is listened to

VARIABLES now,      \* the index of the frame listened to last
          beats     \* the beats reported so far, as <<frame, label>>

vars == <<now, beats>>

Previous == IF beats = << >> THEN <<0, 0>> ELSE beats[Len(beats)]

Init == now = FirstFrame - 1 /\ beats = << >>

Quiet == now' = now + 1 /\ UNCHANGED beats

Report(label) ==
    /\ now' = now + 1
    /\ 5 * (now' - Previous[1]) >= 2 * ShortestInterval
    /\ label = 1 => Previous[2] # 1
    /\ beats' = Append(beats, <<now', label>>)

Next == Quiet \/ \E label \in {1, 2} : Report(label)

Spec == Init /\ [][Next]_vars

=============================================================================
