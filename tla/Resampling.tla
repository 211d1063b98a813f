------------------------------ MODULE Resampling ------------------------------
(***************************************************************************)
(* The resampling functions of particle_filtering_cascade.py, with the     *)
(* arithmetic of the code on whole weights: universal_resample_original as *)
(* the loop it is, universal_resample that replaced it, and                *)
(* systematic_resample (stratified_resample has the same body).            *)
(*                                                                         *)
(* Weights are divided by their sum in the code; here every comparison is  *)
(* multiplied by it and exact.  What rounding of the quotients can change  *)
(* beyond the particle a draw on a boundary falls to is the end of the     *)
(* last slice: the sum of all weights may come out below the last draw     *)
(* (FallsShortOf).  Particles are known by their index, from 1.            *)
(***************************************************************************)
EXTENDS Integers, Sequences, FiniteSets, SequencesExt, Selection

CONSTANTS J,       \* len(particles)
          Weights  \* the weights a particle may have

ASSUME ResamplingAssumption == J \in Nat \ {0} /\ Weights \subseteq Nat

VARIABLES
    method,   \* the function that was called
    weights,  \* its argument
    start,    \* the random number it has drawn, if it is one
    i, j,     \* the loop variables
    c,        \* the cumulated weight
    chosen,   \* the indices selected so far
    outcome   \* "none" while the call goes on, then "returned" or "raised"

vars == <<method, weights, start, i, j, c, chosen, outcome>>

\* np.cumsum(weights): what the first k particles weigh.
Cumulated[k \in 0 .. J] == IF k = 0 THEN 0 ELSE Cumulated[k - 1] + weights[k]
Upto(k) == Cumulated[k]
Total == Upto(J)

\* np.random.uniform(0, 1/J) in 1/(J*Grid): fine enough for a draw on every boundary
\* between two particles and one between any two boundaries.
Grid == IF Total = 0 THEN 1 ELSE 2 * Total

\* U[k] > cumulated/Total, for the k-th slice counted from 0.  With Total = 0 the
\* right side is NaN.
Exceeds(draw, k, cumulated) ==
    Total > 0 /\ (draw + k * Grid) * Total > cumulated * J * Grid

\* np.searchsorted(cumsum_weights, U)
Search(draw, k) ==
    CHOOSE n \in 1 .. J : /\ ~Exceeds(draw, k, Upto(n))
                          /\ \A m \in 1 .. n - 1 : Exceeds(draw, k, Upto(m))

Init ==
    /\ method \in {"original", "universal", "systematic"}
    /\ weights \in [1 .. J -> Weights]
    /\ start \in 0 .. CASE method = "original"   -> Grid - 1
                       [] method = "universal"  -> 0
                       [] method = "systematic" -> J - 1
    /\ i = 1 /\ j = IF method = "systematic" THEN 1 ELSE 0
    /\ c = weights[1]
    /\ chosen = IF method = "systematic" THEN [k \in 1 .. J |-> 1] ELSE << >>
    /\ outcome = "none"

\* universal_resample_original: while U > c
Advance ==
    /\ method = "original" /\ j < J /\ outcome = "none"
    /\ Exceeds(start, j, c)
    /\ i' = i + 1
    /\ c' = c + weights[i']
    /\ UNCHANGED <<method, weights, start, j, chosen, outcome>>

\* A draw from the end of the last slice and quotients that are rounded: their sum, all
\* weights cumulated, may be below it.  A single quotient is exactly 1.
FallsShortOf(draw, k) ==
    /\ draw = Grid - 1 /\ k = J - 1
    /\ \E m, n \in 1 .. J : m # n /\ weights[m] > 0 /\ weights[n] > 0

\* The while loop does not stop at the last particle: weights[i] raises IndexError.
\* Particles without a weight that are left add nothing on the way.
RunOff ==
    /\ method = "original" /\ j < J /\ outcome = "none"
    /\ c = Total /\ FallsShortOf(start, j)
    /\ i' = J + 1
    /\ outcome' = "raised"
    /\ UNCHANGED <<method, weights, start, j, c, chosen>>

\* Fault: the particle before the one that was found.
ChooseOneBefore ==
    /\ method = "original" /\ j < J /\ outcome = "none"
    /\ ~Exceeds(start, j, c)
    /\ chosen' = Append(chosen, IF i > 1 THEN i - 1 ELSE 1)
    /\ j' = j + 1
    /\ UNCHANGED <<method, weights, start, i, c, outcome>>

\* Fault: the search starts from the first particle again, the sum does not.
ChooseAndRewind ==
    /\ method = "original" /\ j < J /\ outcome = "none"
    /\ ~Exceeds(start, j, c)
    /\ chosen' = Append(chosen, i)
    /\ j' = j + 1
    /\ i' = 1
    /\ UNCHANGED <<method, weights, start, c, outcome>>

Choose ==
    /\ method = "original" /\ j < J /\ outcome = "none"
    /\ ~Exceeds(start, j, c)
    /\ chosen' = Append(chosen, i)
    /\ j' = j + 1
    /\ UNCHANGED <<method, weights, start, i, c, outcome>>

\* Where the draws of the k-th slice may end.
Found(k) == { Search(draw, k) : draw \in 0 .. Grid - 1 }

\* Fault: all draws are from the first slice.
FirstSliceOnly == { q \in [1 .. J -> 1 .. J] : \A k \in 1 .. J : q[k] \in Found(0) }

\* universal_resample: a draw of its own in every slice.
Outcomes == { q \in [1 .. J -> 1 .. J] : \A k \in 1 .. J : q[k] \in Found(k - 1) }

Universal ==
    /\ method = "universal" /\ outcome = "none"
    /\ chosen' \in Outcomes
    /\ outcome' = "returned"
    /\ UNCHANGED <<method, weights, start, i, j, c>>

\* searchsorted returns J for the last draw: particles[J] raises IndexError.
Miss ==
    /\ method = "universal" /\ outcome = "none"
    /\ \E draw \in 0 .. Grid - 1 : FallsShortOf(draw, J - 1)
    /\ outcome' = "raised"
    /\ UNCHANGED <<method, weights, start, i, j, c, chosen>>

\* Python's & of two numbers, the second of which has the fewer bits.
BitAnd(x, y) ==
    CHOOSE n \in 0 .. y : \A b \in 0 .. y :
        (n \div 2^b) % 2 = ((x \div 2^b) % 2) * ((y \div 2^b) % 2)

\* systematic_resample: "i < N & j < N" chains two comparisons with N & j.  As i and
\* j start from 0 (1 here), it is false before the first turn; were it ever true the
\* model would stop here.
Continues == i - 1 < BitAnd(J, j - 1) /\ BitAnd(J, j - 1) < J

\* Fault: one turn too many is waited for.
ReturnLate ==
    /\ method = "original" /\ j = J + 1 /\ outcome = "none"
    /\ outcome' = "returned"
    /\ UNCHANGED <<method, weights, start, i, j, c, chosen>>

Return ==
    /\ method = "original" /\ j = J /\ outcome = "none"
    /\ outcome' = "returned"
    /\ UNCHANGED <<method, weights, start, i, j, c, chosen>>

ReturnSystematic ==
    /\ method = "systematic" /\ ~Continues /\ outcome = "none"
    /\ outcome' = "returned"
    /\ UNCHANGED <<method, weights, start, i, j, c, chosen>>

Next == Advance \/ Choose \/ RunOff \/ Universal \/ Miss \/ Return \/ ReturnSystematic

Spec == Init /\ [][Next]_vars /\ WF_vars(Next)

-----------------------------------------------------------------------------
\* Types.  The loop indexes past the weights only where it raises: in the last slice,
\* with a draw from its end and all weight cumulated.
TypeOK ==
    /\ outcome \in {"none", "returned", "raised"}
    /\ i \in 1 .. J + 1 /\ j \in 0 .. J
    /\ chosen \in Seq(1 .. J)
    /\ i <= J => c = Upto(i)
    /\ i > J => /\ outcome = "raised" /\ c = Total
                /\ FallsShortOf(start, j) /\ Len(chosen) = J - 1

Copies(k) == Cardinality({n \in DOMAIN chosen : chosen[n] = k})

\* The number of copies of a particle is its share, up to this many.
Within(distance) ==
    \A k \in 1 .. J : /\ Copies(k) * Total <= J * weights[k] + distance * Total
                      /\ Copies(k) * Total >= J * weights[k] - distance * Total

\* "optimized and is faster than the original BeatNet resampling" (line 395): had it
\* drawn one number as the original does, it would return the same particles.
OriginalIsSearch ==
    outcome = "returned" /\ method = "original" => chosen = [k \in 1 .. J |-> Search(start, k - 1)]

\* Both keep the ensemble representative when they return one: every particle has as
\* many copies as its weight calls for, give or take one with a common draw and two with
\* a draw of its own per slice.
SharesKept ==
    outcome = "returned" /\ Total > 0 =>
        /\ method = "original" => Within(1)
        /\ method = "universal" => Within(2)

\* The selection the cascade uses admits exactly what the code can return.
SelectionExact ==
    method = "universal" /\ outcome = "none" /\ Cardinality(ToSet(weights)) <= 2 =>
        LET high == CHOOSE w \in ToSet(weights) : \A v \in ToSet(weights) : v <= w
            low  == CHOOSE w \in ToSet(weights) : \A v \in ToSet(weights) : w <= v
            border == {k \in 1 .. J : weights[k] = high}
        IN  Resampled([k \in 1 .. J |-> k], border, high, low) = Outcomes

\* Every call ends, with a selection or an exception.
CallsEnd == <>(outcome # "none")

=============================================================================
