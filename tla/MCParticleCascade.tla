------------------------- MODULE MCParticleCascade -------------------------
(***************************************************************************)
(* A small instance of ParticleCascade for TLC.  The activation pairs are  *)
(* the ones that the thresholds .1, .4 (gate and labels), .7 and .8 tell   *)
(* apart.                                                                  *)
(***************************************************************************)
EXTENDS ParticleCascade

Pair(b, d) == [beat |-> b, down |-> d]

Silence      == Pair(0, 0)    \* the zeros of the warm-up: all weights vanish
Murmur       == Pair(40, 20)  \* exactly at the gate: resampled, not reported
WeakBeat     == Pair(55, 41)  \* over the label threshold in both columns
StrongBeat   == Pair(95, 5)   \* injects beat particles
Downbeat     == Pair(10, 75)  \* injects bar particles
StrongDown   == Pair(5, 90)   \* injects both

AllActivations  == {Silence, Murmur, WeakBeat, StrongBeat, Downbeat, StrongDown}
FewActivations  == {Silence, WeakBeat, StrongDown}

\* Observation models.
B56 == [model |-> "B", lambda |-> 56]
N2  == [model |-> "N", lambda |-> 2]

\* The program stops calling once the bound on frames is reached.
Finished == todo = 0 /\ delivered = MaxFrames /\ UNCHANGED vars

MCSpec == Init /\ [][Next \/ Finished]_vars

=============================================================================
