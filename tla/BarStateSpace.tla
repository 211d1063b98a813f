--------------------------- MODULE BarStateSpace ---------------------------
(***************************************************************************)
(* madmom's BarStateSpace(1, min_interval, max_interval, num_intervals) as *)
(* the particle filter uses it: one pattern of length one, discretised for *)
(* every whole interval between the two bounds.  It is library code, so it *)
(* is modelled from what particle_filtering_cascade.py reads of it:        *)
(* first_states, last_states, state_intervals, state_positions and         *)
(* num_states.                                                             *)
(*                                                                         *)
(* States are numbered from 0.  Interval i owns i consecutive states, the  *)
(* intervals follow each other in increasing order:                        *)
(*                                                                         *)
(*      0 .. Min-1 | Min .. 2*Min | ...       (intervals Min, Min+1, ...)  *)
(*                                                                         *)
(* The beat filter reads an interval as a tempo (frames per beat), the     *)
(* downbeat filter as a meter (beats per bar).                             *)
(***************************************************************************)
EXTENDS Integers

CONSTANTS MinInterval,  \* the shortest interval, in steps
          MaxInterval   \* the longest interval, in steps

\* What the constructor needs: with a single interval np.squeeze turns
\* first_states into a scalar and no motion can be drawn from it.
WellFormed ==
    /\ MinInterval \in Nat \ {0}
    /\ MaxInterval \in Nat
    /\ MinInterval < MaxInterval

Intervals == MinInterval .. MaxInterval

\* The states of the intervals shorter than i precede those of i.
FirstState(i) == (i * (i - 1) - MinInterval * (MinInterval - 1)) \div 2

LastState(i) == FirstState(i) + i - 1

NumStates == LastState(MaxInterval) + 1

States == 0 .. NumStates - 1

\* state_intervals[s] = i
HasInterval(s, i) == FirstState(i) <= s /\ s <= LastState(i)

FirstStates == { FirstState(i) : i \in Intervals }

LastStates == { LastState(i) : i \in Intervals }

\* first_states[0] as the array it is, shortest interval first.
FirstStatesInOrder ==
    [k \in 1 .. (MaxInterval - MinInterval + 1) |-> FirstState(MinInterval + k - 1)]

=============================================================================
