------------------------------ MODULE Selection ------------------------------
(***************************************************************************)
(* universal_resample (particle_filtering_cascade.py) as the cascade uses  *)
(* it: the particles on a border state have one weight, all others another *)
(* one.  Resampling compares it with the code's arithmetic.                *)
(***************************************************************************)
EXTENDS Integers, Sequences, FiniteSets

\* universal_resample with the weight high for the particles on a border state and
\* low for the others.  U[j] lies in the j-th of Len(p) equal slices of [0, 1) and
\* selects the first particle whose cumulated weight reaches it.  When the weights
\* sum to zero they become NaN, and every search ends at the first particle.
Resampled(p, border, high, low) ==
    LET n == Len(p)
        upto(k) == low * k + (high - low) * Cardinality({i \in 1 .. k : p[i] \in border})
        Selects(j, k) ==
            IF upto(n) = 0 THEN k = 1
            ELSE /\ n * upto(k) >= (j - 1) * upto(n)
                 /\ k > 1 => upto(k - 1) < upto(k) /\ n * upto(k - 1) < j * upto(n)
    IN  { [j \in 1 .. n |-> p[pick[j]]] :
            pick \in { q \in [1 .. n -> 1 .. n] : \A j \in 1 .. n : Selects(j, q[j]) } }

\* The weights are divided by their sum and the quotients added up in floating point:
\* the last sum may come out below the last U, and searchsorted then returns
\* len(particles), an IndexError.  A single quotient is exactly 1, and NaN compares as
\* larger than any U.
FallsShort(p, border, high, low) ==
    /\ Len(p) > 1
    /\ \E i \in DOMAIN p : (IF p[i] \in border THEN high ELSE low) > 0

=============================================================================
