-------------------------- MODULE BDObservationModel --------------------------
(***************************************************************************)
(* BDObservationModel (particle_filtering_cascade.py): which states of a   *)
(* bar state space count as (down-)beat states.  A model is named by a     *)
(* letter and a number, as in "B56" or "N2".                               *)
(***************************************************************************)
EXTENDS BarStateSpace

\* Model "B": the first 1/lambda of every interval, as its states are at the
\* positions 0, 1/i, .. (i-1)/i.
Border(lambda) ==
    { s \in States : \E i \in Intervals : HasInterval(s, i) /\ lambda * (s - FirstState(i)) < i }

\* Model "N": lambda states from every first state on, into the next interval when
\* lambda is longer than an interval.
Beginning(lambda) ==
    { s \in States : \E i \in Intervals : s - FirstState(i) \in 0 .. lambda - 1 }

\* The pointers of model "N" index past the states when lambda is longer than the
\* longest interval: the constructor raises an IndexError.
Constructible(name) ==
    /\ name.model \in {"B", "N"} /\ name.lambda \in Nat \ {0}
    /\ name.model = "N" => name.lambda <= MaxInterval

\* The states whose pointer is 2; the pointer of every other state is 0, as there is one
\* beat in the bar of the state space.
Pointed(name) == IF name.model = "B" THEN Border(name.lambda) ELSE Beginning(name.lambda)

=============================================================================
