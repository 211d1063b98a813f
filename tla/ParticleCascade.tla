--------------------------- MODULE ParticleCascade ---------------------------
(***************************************************************************)
(* particle_filter_cascade (particle_filtering_cascade.py): the estimator  *)
(* that turns activations into beats.  A first ensemble of particles lives *)
(* on the beat state space (phase and tempo) and moves every frame.  When  *)
(* its median stands just after a beat, the second ensemble (position in   *)
(* the bar and meter) takes one step and the beat is labelled.             *)
(*                                                                         *)
(* process() may be called for a whole track or frame by frame: the object *)
(* keeps its counter, particles and path from call to call, also when an   *)
(* exception ends a call in the middle of a frame.                         *)
(*                                                                         *)
(* Time is counted in frames; activations, thresholds and weights are      *)
(* percentages.  What numpy draws is a nondeterministic choice over the    *)
(* outcomes of positive probability.                                       *)
(***************************************************************************)
EXTENDS Integers, Sequences, FiniteSets, FiniteSetsExt, SequencesExt, Selection

CONSTANTS
    Fps,                 \* frames per second
    MinTempo, MaxTempo,  \* frames per beat: 60*fps/max_bpm .. 60*fps/min_bpm
    MinMeter, MaxMeter,  \* beats per bar
    ParticleSize,        \* particle_size
    DownParticleSize,    \* down_particle_size
    IgThreshold,         \* ig_threshold, in percent
    OffsetFrames,        \* offset, in frames
    ObservationB,        \* observation_lambda_b, as [model, lambda]
    ObservationD,        \* observation_lambda_d
    Plots,               \* self.plot when mode is "online"; the other modes index row 0
    TempoSpread,         \* 36.04/lambda_b * 10^4, see CanBecome
    Activations,         \* the [beat, down] pairs the network may output
    CallSizes,           \* the numbers of frames a caller may pass at once
    MaxFrames,           \* bound: frames delivered in a behaviour
    MaxParticles,        \* bound: injection stops the model at this ensemble size
    MaxDownParticles     \* bound: the same for the downbeat ensemble

VARIABLES
    counter,         \* self.counter: the frame inferred last, -1 before any
    todo,            \* frames of the current call that the loop has not reached
    particles,       \* self.particles
    down_particles,  \* self.down_particles
    path,            \* self.path, with its dummy first row
    rows,            \* len(self.both_activations), of the current call
    delivered        \* frames handed to process() so far, over all its calls

vars == <<counter, todo, particles, down_particles, path, rows, delivered>>

Beat == INSTANCE BDObservationModel WITH MinInterval <- MinTempo, MaxInterval <- MaxTempo
Bar  == INSTANCE BDObservationModel WITH MinInterval <- MinMeter, MaxInterval <- MaxMeter

ASSUME SpacesAssumption == Beat!WellFormed /\ Bar!WellFormed

ASSUME SizesAssumption ==
    /\ ParticleSize \in Nat \ {0} /\ DownParticleSize \in Nat \ {0}
    /\ Fps \in Nat \ {0} /\ OffsetFrames \in Nat
    /\ Beat!Constructible(ObservationB) /\ Bar!Constructible(ObservationD)
    /\ IgThreshold \in 0 .. 100 /\ TempoSpread \in Nat \ {0}
    /\ MaxParticles \in Nat /\ MaxDownParticles \in Nat

ASSUME InputsAssumption ==
    /\ Activations \subseteq [beat : 0 .. 100, down : 0 .. 100]
    /\ CallSizes \subseteq Nat \ {0}
    /\ MaxFrames \in Nat

-----------------------------------------------------------------------------
\* activations after np.max and the information gate: weak frames count as 3%.
Gated(a) ==
    LET strongest == IF a.beat >= a.down THEN a.beat ELSE a.down
    IN  IF strongest < IgThreshold THEN 3 ELSE strongest

BeatStates == Beat!Pointed(ObservationB)
DownStates == Bar!Pointed(ObservationD)

-----------------------------------------------------------------------------
\* int(np.median(p)): the mean of the two middle values, truncated.
Smallest(k, p) ==
    CHOOSE s \in ToSet(p) : /\ Cardinality({i \in DOMAIN p : p[i] < s}) < k
                            /\ Cardinality({i \in DOMAIN p : p[i] <= s}) >= k
Median(p) == (Smallest((Len(p) + 1) \div 2, p) + Smallest((Len(p) + 2) \div 2, p)) \div 2

\* np.argmax(np.bincount(p)) = s: the most frequent state, the least one of a tie.
Occurrences(s, p) == Cardinality({i \in DOMAIN p : p[i] = s})
IsMostFrequent(s, p) ==
    /\ s \in ToSet(p)
    /\ \A t \in ToSet(p) : \/ Occurrences(s, p) > Occurrences(t, p)
                           \/ Occurrences(s, p) = Occurrences(t, p) /\ s <= t

\* The elements of a set of positions in increasing order, as a boolean mask
\* selects them (the set holds exactly one such enumeration).
Enumerations(S) ==
    { f \in [1 .. Cardinality(S) -> S] :
        \A i, j \in 1 .. Cardinality(S) : i < j => f[i] < f[j] }

\* A motion along succ, the successors of every last state: particles in a last
\* state draw one of them and go to the end of the array, all others advance by
\* one and keep their order.
\* Fault: a mask that finds no last state.
NoneWraps(p, succ) == {}

Wrapping(p, succ)  == {i \in 1 .. Len(p) : p[i] \in DOMAIN succ}
Advancing(p, succ) == (1 .. Len(p)) \ Wrapping(p, succ)

Draws(p, succ) ==
    { d \in [Wrapping(p, succ) -> UNION {succ[p[i]] : i \in Wrapping(p, succ)}] :
        \A i \in Wrapping(p, succ) : d[i] \in succ[p[i]] }

\* A list of successors with one element is squeezed to an array without dimensions, and
\* np.random.choice raises for such probabilities.
DrawRaises(p, succ) == \E i \in Wrapping(p, succ) : Cardinality(succ[p[i]]) = 1

Moved(p, m) == [k \in DOMAIN m.advance |-> p[m.advance[k]] + 1]
                 \o [k \in DOMAIN m.wrap |-> m.drawn[m.wrap[k]]]

Motions(p, succ) ==
    { Moved(p, m) : m \in [advance : Enumerations(Advancing(p, succ)),
                           wrap    : Enumerations(Wrapping(p, succ)),
                           drawn   : Draws(p, succ)] }

\* madmom's exponential tempo transition: exp(-lambda_b * |new/old - 1|), cut to
\* zero below 2^-52, which leaves |new - old| < TempoSpread/10^4 * old.
CanBecome(old, new) == LET d == IF new > old THEN new - old ELSE old - new
                       IN  10000 * d < TempoSpread * old

BeatSuccessors ==
    [s \in Beat!LastStates |->
        { Beat!FirstState(new) : new \in { i \in Beat!Intervals :
            \E old \in Beat!Intervals : s = Beat!LastState(old) /\ CanBecome(old, i) } }]

\* tm2 gives every meter a positive probability.
DownSuccessors == [s \in Bar!LastStates |-> Bar!FirstStates]

\* universal_resample, weighted by beat_densities and down_densities.
BeatCorrected(p, act) == Resampled(p, BeatStates, act, 3)
DownCorrected(p, a)   == Resampled(p, DownStates, a.down, a.beat)

-----------------------------------------------------------------------------
\* The information gate between the two filters: the median particle is less than
\* int(.07/T) + 1 frames into its beat, and more than two fifths of that beat
\* have passed since the last reported one.  Both sides of the second comparison
\* are rounded floats: when they are equal as numbers either may come out larger.
BeatWindow == (7 * Fps) \div 100 + 1

Clock == OffsetFrames + counter     \* offset + counter*T, in frames
Reported == Tail(path)              \* what process returns
Now == Clock'                       \* the loop has advanced the counter already
LastBeat == path[Len(path)][1]
LastLabel == path[Len(path)][2]

InWindow(i) == LET gathering == Median(particles)
               IN  Beat!HasInterval(gathering, i) /\ gathering - Beat!FirstState(i) < BeatWindow

\* Fault: the distance to the last beat is not looked at.
MayOpenAnyTime == \E i \in Beat!Intervals : InWindow(i)

MayOpen  == \E i \in Beat!Intervals : InWindow(i) /\ 5 * (Now - LastBeat) >= 2 * i
MustOpen == \E i \in Beat!Intervals : InWindow(i) /\ 5 * (Now - LastBeat) > 2 * i

\* np.delete of len(st2.first_states) = 1 element among the first down_particle_size.
Deletions(p) == { RemoveAt(p, k) : k \in 1 .. DownParticleSize }

\* Fault: the deletion has a lower threshold than the injection it undoes.
DeletesMoreOften(a) == a.down > 40

Deletes(a) == a.down > 70

\* Downbeat motion: a strong downbeat injects every meter's first state.
DownMoved(a) ==
    { IF a.down > 70 THEN moved \o Bar!FirstStatesInOrder ELSE moved :
        moved \in Motions(down_particles, DownSuccessors) }

\* Downbeat correction, which takes one particle out again after an injection.
DownFilter(a) ==
    \E ensemble \in DownMoved(a) :
        /\ Len(ensemble) <= MaxDownParticles
        /\ \E chosen \in DownCorrected(ensemble, a) :
              down_particles' \in IF Deletes(a) THEN Deletions(chosen) ELSE {chosen}

\* ... when it raises.
DownBreaks(a) ==
    \E ensemble \in DownMoved(a) :
        /\ Len(ensemble) <= MaxDownParticles
        /\ FallsShort(ensemble, DownStates, a.down, a.beat)
        /\ down_particles' = ensemble

\* Beat vs downbeat distinguishment.
IsDownbeat(a) == /\ \E s \in Bar!FirstStates : IsMostFrequent(s, down_particles')
                 /\ LastLabel # 1
                 /\ a.down > 40

\* Fault: "if" for "elif", a downbeat is reported as a beat as well.
LabelTwice(a) ==
    IF IsDownbeat(a) THEN path' = path \o << <<Now, 1>>, <<Now, 2>> >>
    ELSE path' = IF Gated(a) > 40 THEN Append(path, <<Now, 2>>) ELSE path

Label(a) ==
    \/ IsDownbeat(a) /\ path' = Append(path, <<Now, 1>>)
    \/ ~IsDownbeat(a) /\ Gated(a) > 40 /\ path' = Append(path, <<Now, 2>>)
    \/ ~IsDownbeat(a) /\ Gated(a) <= 40 /\ UNCHANGED path

\* Fault: positions taken for states.
InjectedPositions(offset) == << offset >>

\* Every sixth first state from a random one of the first four, as far as it goes.
Injected(offset) ==
    LET tempi == MaxTempo - MinTempo + 1
        size  == IF offset < tempi THEN (tempi - offset + 5) \div 6 ELSE 0
    IN  [k \in 1 .. size |-> Beat!FirstState(MinTempo + offset + 6 * (k - 1))]

Injections(act) == IF act > 80 THEN { Injected(offset) : offset \in 0 .. 3 } ELSE {<< >>}

\* The particle plots look up row self.counter of the current call's activations:
\* an IndexError when earlier calls have moved the counter past the last row.
PlotRaises(plot) == plot \in Plots /\ counter' >= rows

\* Beat motion and correction, the rest of a turn.  The result of the np.delete that
\* should take the injected particles out again is not assigned: the ensemble keeps
\* them.  An exception of the resampling or the plot ends the call.
BeatTurn(a) ==
    LET act == Gated(a)
    IN  \E moved \in Motions(particles, BeatSuccessors) : \E injected \in Injections(act) :
          /\ Len(moved) + Len(injected) <= MaxParticles
          /\ \/ /\ \/ act <= 10 /\ particles' = moved
                   \/ act > 10 /\ particles' \in BeatCorrected(moved \o injected, act)
                /\ todo' = IF PlotRaises("beat_particles") THEN 0 ELSE todo - 1
             \/ /\ act > 10 /\ FallsShort(moved \o injected, BeatStates, act, 3)
                /\ particles' = moved \o injected
                /\ todo' = 0

\* ... unless the motion raises, before it is assigned.
BeatFilter(a) ==
    \/ ~DrawRaises(particles, BeatSuccessors) /\ BeatTurn(a)
    \/ DrawRaises(particles, BeatSuccessors) /\ todo' = 0 /\ UNCHANGED particles

-----------------------------------------------------------------------------
\* __init__: both ensembles are drawn from all states but the last, and sorted.
Init ==
    /\ counter = -1 /\ todo = 0 /\ rows = 0 /\ delivered = 0
    /\ path = << <<0, 0>> >>
    /\ particles \in { p \in [1 .. ParticleSize -> 0 .. Beat!NumStates - 2] :
                         \A i \in 2 .. ParticleSize : p[i - 1] <= p[i] }
    /\ down_particles \in { p \in [1 .. DownParticleSize -> 0 .. Bar!NumStates - 2] :
                              \A i \in 2 .. DownParticleSize : p[i - 1] <= p[i] }

\* process(activations) is called with n frames: each call cuts the offset off.
Call(n) ==
    /\ todo = 0
    /\ delivered + n <= MaxFrames
    /\ delivered' = delivered + n
    /\ rows' = IF n > OffsetFrames THEN n - OffsetFrames ELSE 0
    /\ todo' = rows'
    /\ UNCHANGED <<counter, particles, down_particles, path>>

NextFrame ==
    /\ todo > 0
    /\ counter' = counter + 1
    /\ UNCHANGED <<rows, delivered>>

\* One turn of the loop with the gate open.
BeatFrame(a) ==
    /\ NextFrame
    /\ MayOpen
    /\ \/ DownFilter(a) /\ Label(a) /\ ~PlotRaises("downbeat_particles") /\ BeatFilter(a)
       \/ /\ DownFilter(a) /\ Label(a) /\ PlotRaises("downbeat_particles")
          /\ todo' = 0 /\ UNCHANGED particles
       \/ DownBreaks(a) /\ todo' = 0 /\ UNCHANGED <<particles, path>>

\* One turn of the loop with the gate closed.
PlainFrame(a) ==
    /\ NextFrame
    /\ ~MustOpen
    /\ BeatFilter(a)
    /\ UNCHANGED <<down_particles, path>>

Next ==
    \/ \E n \in CallSizes : Call(n)
    \/ \E a \in Activations : BeatFrame(a) \/ PlainFrame(a)

Spec == Init /\ [][Next]_vars

-----------------------------------------------------------------------------
(***************************************************************************)
(* Properties.                                                             *)
(***************************************************************************)

\* Every variable has its type; in particular every particle is a state of its
\* space, so that the tables indexed by particles never miss (lines 262, 277, 310).
TypeOK ==
    /\ counter \in Nat \cup {-1} /\ todo \in 0 .. rows /\ rows \in Nat /\ delivered \in Nat
    /\ particles \in Seq(Beat!States) /\ particles # << >>
    /\ down_particles \in Seq(Bar!States) /\ down_particles # << >>
    /\ path \in Seq(Int \X {0, 1, 2}) /\ path # << >>

\* Two reported beats are never closer than two fifths of the fastest beat, and
\* the first is as far from time zero: the gate of line 260 keeps the distance to
\* the row appended last, over any number of tempo changes and calls.
BeatsApart ==
    \A k \in 2 .. Len(path) : 5 * (path[k][1] - path[k - 1][1]) >= 2 * MinTempo

\* The downbeat ensemble never falls below its nominal size, so the index drawn
\* for np.delete on line 279 is always in range.
EnoughToDelete == Len(down_particles) >= DownParticleSize

\* A particle changes tempo only where a beat ends and meter only where a bar
\* ends: after a frame each one stands a step after an old one of the same
\* interval, or at the start of an interval.  The downbeat ensemble may also rest, and
\* the beat ensemble does in a frame that raises before its turn.
MovesWithin(old, new, starts, ends) ==
    \A s \in ToSet(new) : s \in starts \/ (s - 1 \in ToSet(old) /\ s - 1 \notin ends)

IntervalsKept ==
    [][ todo' < todo =>
          /\ \/ MovesWithin(particles, particles', Beat!FirstStates, Beat!LastStates)
             \/ todo' = 0 /\ particles' = particles
          /\ \/ MovesWithin(down_particles, down_particles', Bar!FirstStates, Bar!LastStates)
             \/ down_particles' = down_particles ]_vars

\* The path starts with its dummy row and the rows after it are apart: together
\* with the types and the ensemble size this is preserved by every step.
Safety ==
    /\ TypeOK
    /\ EnoughToDelete
    /\ path[1] = <<0, 0>>
    /\ BeatsApart

\* The cascade implements the beat sequence it promises: every frame is a quiet
\* frame or a report that keeps its distance, and reports are never withdrawn.
Promise == INSTANCE BeatSequence WITH
              ShortestInterval <- MinTempo, FirstFrame <- OffsetFrames,
              now <- Clock, beats <- Reported

ImplementsPromise == Promise!Spec

\* "PARTICLE_SIZE = 1500" (line 108) is the size of the ensemble: what a strong
\* beat injects, line 313 deletes.
ParticleSizeKept == Len(particles) = ParticleSize

\* "Plots beat/tempo tracking state space and current particle states at each time
\* frame" (BeatNet.py line 40): a frame that is plotted has a row to be plotted with.
PlotsEachFrame == Plots # {} /\ todo < rows => counter < rows

=============================================================================
