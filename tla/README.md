# BeatNet in TLA+

BeatNet tracks beats and downbeats in music. A convolutional recurrent network
turns audio frames into activations (how beat-like, how downbeat-like), and a
cascade of two particle filters turns activations into beat times. The Python
package (`src/src/BeatNet/`) does this for a microphone, for a file chunk by
chunk, or for a whole file; `src/onnx/` holds a C++ front end that feeds the same
network through ONNX Runtime. This directory models the control of both: what
changes state, in which order, under which conditions. Spectra, network weights
and probabilities are data and are abstracted to what the properties tell apart.

## Inventory

| Component | Source | State | Operations |
|---|---|---|---|
| Particle filter cascade | `particle_filtering_cascade.py` | `counter`, `particles`, `down_particles`, `path` | `__init__`, `process(activations)` |
| State spaces | madmom, as used by the cascade | none | tables of states, intervals, first and last states |
| Observation models, resampling | `particle_filtering_cascade.py` | none | weights of states, selection of particles |
| BeatNet handler | `BeatNet.py` | mode, inference method, `plot`, `thread`, `counter`, `completed`, `pred`, `stream_window` | `__init__`, `process`, three activation extractors |
| Microphone | PyAudio, as used by `BeatNet.py` | what it captured and still holds | `read`, `is_active` |
| Feature extraction | `log_spect.py`, `common.py` | none | frames, spectra; frame and sample arithmetic |
| Network | `model.py` | LSTM `hidden` and `cell`, never reset | `forward` |
| DBN | madmom | none | whole-track inference |
| Plotting | `particle_filtering_cascade.py` | `beats_activation_show`, matplotlib artists | particle and activation plots |
| FramedSignalProcessor (C++) | `frameprocessor.cpp` | ring buffer, write position, sample count | `process`, `reset` |
| Resampler (C++) | `resampler.cpp` | ratio, sizes, reused output buffer | `setup`, `resample`, libsamplerate callback |
| FFT, filterbank, spectral utilities (C++) | `fftprocessor.cpp`, `filterbankprocessor.cpp`, `logspecutils.cpp` | FFT plan, previous spectrum | transforms |
| BeatNet pipeline (C++) | `BeatNet.cpp` | ONNX session, previous spectrum | constructor, `setup`, `process`, destructor |
| Dynamic linking | `dynamic_link.cpp` | library handles | load, unload, symbol |
| Demo, export, build | `main.cpp`, `exportModel.py`, CMake, `setup.py` | none | none modelled |

How they interact. In Python the handler owns everything: `process()` pulls audio
(from the device, or by slicing the track), has the features and the network
compute `self.pred`, and calls `estimator.process(self.pred)` on its own thread or
on a worker thread that it joins. The estimator is one object for the life of the
handler. The microphone captures while the handler is busy. In C++ a host calls
`process(block)` for each audio block: resampler, ring buffer, FFT, filterbank,
difference to the previous spectrum, network.

What is hard, and what would make each component correct:

* *Cascade.* A long sequence of frames with changing tempo must never report two
  beats too close, over any division of the track into
  calls. Particles must stay on their state spaces, or every table lookup misses.
  Two injections are each undone by a deletion; one of the two is lost. A turn may be
  cut short by an exception (of the resampling, of a plot), and the next call goes on
  with what the turn left.
* *Handler.* Device, main thread and worker interleave; a device that is not read
  in time loses samples; an exception ends a call and another call follows on the
  state it left. Every exit of a call must be a result or the error meant for it. The
  network is recurrent, so a frame heard twice, skipped or out of order would change
  every activation after it.
* *Ring buffer.* Modular arithmetic in a ring barely longer than a frame, with
  blocks of any length, and a reset that must not leave anything behind.
* *C++ pipeline.* A setup may change the rate while the ring holds samples of the
  old one; the output buffer of the resampler is reused from call to call.

`PROJECT.json` lists every hazard at its line.

## Modules

| Module | Models | 
|---|---|
| `BarStateSpace` | madmom's one-pattern state space: numbering, first and last states |
| `BDObservationModel` | which states of a space observe a beat, for both kinds of observation and every lambda |
| `BeatSequence` | abstract: frames pass, a frame may report a beat that keeps its distance |
| `ParticleCascade` | the cascade, frame by frame |
| `ParticleCascadeProofs` | proofs about it and about the two state spaces |
| `BeatNetHandler` | the handler, its worker thread, the microphone, what the network has heard, the activation plot of the chunk modes |
| `BeatNetHandlerProofs` | proofs about it |
| `Selection` | `universal_resample` as the cascade uses it: the set of its outcomes |
| `Resampling` | the resampling functions, draw by draw and turn by turn; compared with `Selection` |
| `ResamplingProofs` | proofs about it |
| `NumberTheorems` | least elements, induction and products of natural numbers, for the proofs |
| `FeatureModule` | number of frames and range of lengths of the feature extractor |
| `FeatureModuleProofs` | proofs about it |
| `SlidingWindow` | abstract: hear samples, answer with the latest |
| `FramedSignalProcessor` | the ring buffer, sample by sample |
| `FramedSignalProcessorProofs` | proofs about it |
| `BeatNetPipeline` | C++: setup and process over resampler, window, spectral difference |
| `BeatNetPipelineProofs` | proofs about it |
| `BeatNetLifecycle` | C++: what is loaded, created, released, unloaded, with every failure |
| `BeatNetLifecycleProofs` | proofs about it |
| `MC*` | values of the constants for TLC, with the end of the bounded run |

### ParticleCascade

Variables are the attributes of the same names; `todo` counts the frames of the
current call not reached yet and `delivered` the frames of all calls. Times are in
frames, activations and weights in percent, so that every comparison of the code is
one of integers. `Call(n)` is the head of `process` (it slices the offset off);
one turn of the loop is `BeatFrame(a)` when the information gate opens and
`PlainFrame(a)` when it does not. A turn is atomic: nothing else runs inside it.

* Random draws are nondeterministic choices among the outcomes of positive
  probability. `Resampled` admits exactly the selections that some `r` in
  `universal_resample` makes, with exact sums; with weights that sum to zero it is
  the collapse onto the first particle that NaN produces.
* A turn may raise. A last state with one successor, which a narrow tempo transition
  leaves, makes `np.squeeze` return an array without dimensions and `np.random.choice` raise
  (`DrawRaises`): the beat ensemble stays as it was, while label and downbeat ensemble are those of
  the frame. `universal_resample` indexes past the last particle when the
  rounded sum of the weights stays below the last draw (`FallsShort`): the frame has been
  counted and the particles have moved, but nothing is resampled and nothing after it
  happens (`DownBreaks`, the second half of `BeatFilter`). The particle plots look up row
  `self.counter` among the `rows` of the current call and miss it from the second call on
  (`PlotRaises`). Each ends the call, and the next one starts from there.
* A state observes a beat by its position in the interval. `BDObservationModel` has
  both kinds, B (the lambda is a number of parts) and N (a share), and the values for which the
  constructor raises; `ObservationB` and `ObservationD` choose one for each filter.
* The gate compares rounded floats. Where both sides are the same number either
  outcome is admitted (`MayOpen`, `MustOpen`).
* The order of particles in the arrays is kept: a motion puts the particles that
  wrap at the end, and resampling depends on the order.
* `CanBecome` is madmom's tempo transition, external: the cut-off at machine
  precision of an exponential, as a fraction of the old interval. The fraction is not
  zero: a tempo may always stay, as the exponential of zero is one. With a small fraction nothing
  else is left, and the motion raises.

### BeatNetHandler

`pc` is the position of the main thread: `test` (loop condition), `extract`,
`infer`, `join`; `idle` between calls. An activation is the call it was computed in
and the hop of the recording it is centred on (realtime, online) or whose samples
arrived last (stream); 0 stands for the zeros of the warm-up. `fed` is the history
of what the estimator processed, `network` that of what the network heard: hidden and
cell state are functions of it, and nothing resets them between calls. `window` is the
hops that `stream_window` spans, `shown` the activation plot, which `np.roll` turns
to the right: the newest stands at the right end, the others newest first from the left.
The estimator may raise on the main thread, which ends the call, or on a worker, where
nobody learns of it. What an empty track does is up to madmom and torch: it ends the call with an
error (`ExtractNothing`) or goes through as a track without frames.
Sample counts are those of the code (441 per hop, 1411 per frame, 22050 per
second). Loading the track (in the first turn of the loop) is part of entering the
call, as no step in between reads it.

The device is external: it captures hop after hop, holds `Capacity` of them, drops
everything when that overruns, and lets the next read raise (`read` is called
without `exception_on_overflow=False`). It may stop at any time.

### FramedSignalProcessor

A turn of the loop over the input is a step (`Write`), the copy of the frame is
one (`Return`); `heard` is a history variable. Samples are small values.

### Resampling

Each behaviour is one call of one of the functions. `universal_resample_original` is
the loop it is (`Advance` is a turn of the inner loop, `Choose` the end of one of the
outer); `universal_resample` is one step to any of its `Outcomes`. Draws are taken
from a grid that has a point on every boundary between two particles and one between
any two, so every selection that a real number makes is made. `Cumulated` is the running
sum `np.cumsum`, a recursive function; `BitAnd` is Python's `&`. Sums are exact but for what
rounding changes in the control: with more than one positive weight the sum of all may come out
below a draw from the end of the last slice (`FallsShortOf`). The loop then runs past the last weight
(`RunOff`), and `searchsorted` returns `J` (`Miss`): both are an IndexError.

### FeatureModule

Lengths are in samples. The only state is which extractor is asked about which length.

### BeatNetPipeline

`setup` and `process` are an action each: the class has no threads and calls nobody
back while it works. The ring buffer is `SlidingWindow`, which
`FramedSignalProcessorProofs` justifies for every frame size. A sample is the call
it was heard in and the call whose audio it is, which is what tells a fresh sample
from one left over in the output buffer. A frame, its spectrum and its difference are
known by the position of the frame, as the transforms are functions of it. The host
calls `process` after a first `setup` and with blocks of the size that was set up, as
`main.cpp` does. libsamplerate is external: asked for a rounded number of samples it
writes that many or one less, and nothing for a ratio beyond its limit. The size of
a resampled block is rounded as in the code (`Rounded`), with nothing carried over, and
`DriftBounded` says how far that can lead.

### BeatNetLifecycle

Constructor, `process` and destructor are sequences of steps; `todo` is the rest of the
one that runs. A load, a creation or the check of the model may fail at every place;
statuses are ignored as in the code, and a use of what is not there ends in `crashed`.
An exception in the constructor runs the destructors of the members only. Each function of
FFTW and libsamplerate is found or missing on its own (`resolved`), so a constructor may return
although the one that executes or releases the plan is null; those of ONNX Runtime come in one
structure.

## Runs

| Run | Shows | Bounds, and why they are enough |
|---|---|---|
| `cascade` | `TypeOK`, `BeatsApart`, `EnoughToDelete`, `IntervalsKept`, refinement of `BeatSequence`, all with frames that raise | ensembles of one particle growing to two (downbeat: three), normal observations of the downbeats and a downbeat plot, tempi of 3 to 5 frames of which the first has no successor but itself, meters 2 and 3, eight frames in calls of two and six, of which the offset takes one each, all activations: injection, resampling, deletion, a wrap at each tempo, a motion, a resampling and a plot that raise each happen, together and apart, and two beats and a third gate opening fit |
| `handler` | `TypeOK`, `WindowUnbroken`, `ChunksInOrder`, `EstimatorExclusive`, `NetworkStepsOnce`, `CallsEnd` | two calls, each of which the estimator may end at any frame, a plot of three activations (turns enough to fill it), a device of two hops and fifteen captured: the warm-up of five, an overrun after it and a second warm-up fit; tracks on both sides of every rounding, an empty one included |
| `framed` | `TypeOK`, `RingHoldsTail`, refinement of `SlidingWindow` | frames of ten (the least size for which the ring is longer than a frame), fourteen samples: every write position, and a block longer than the ring |
| `resampling` | `TypeOK`, `OriginalIsSearch`, `SharesKept`, `SelectionExact`, `CallsEnd` | three particles with weights 0, 1 and 3: empty, equal and dominating weights, and none at all; only a single weight cannot fall short |
| `feature` | `RangeInvertsFrames` | hops of 1, 2, 3 and 7, up to thirty samples: many frames on and off a hop |
| `pipeline` | `TypeOK`, `FramesAreFresh`, `WarmUp`, `DriftBounded`, `DiffToFrameBefore` | four calls between any setups, rates rounded up and beyond the limit, blocks that become none, some or more samples than a frame, and empty ones |
| `lifecycle` | `OwnersOutlive`, `NothingLeftBehind`, `ReadyHasSession` | three calls: one more changes nothing but the count |

The other runs state what the repository says of the program and find it violated:

| Run | The repository says | The code does |
|---|---|---|
| `particle_size` | the ensemble has PARTICLE_SIZE particles | injected particles stay: `np.delete` is not assigned. With the default 42 tempi each strong beat adds 7; the deletion, if it were assigned, would take out one, as `first_states` is a list of one pattern |
| `aligned` | online mode is identical to realtime mode | realtime is one hop ahead after two activations of zeros, and infers once more on its last one |
| `thread_result` | `thread` chooses where inference runs | with a thread the call ends in UnboundLocalError |
| `plotted` | particles are plotted "at each time frame" (`BeatNet.py` line 40) | in online mode the plots take row `self.counter`, which counts the frames of all calls, from the activations of the current one: the second call raises IndexError |
| `plot_order` | the axis of the activation plot is `t`, and it shows the activations "of each time frame" (`BeatNet.py` line 39) | `np.roll` by +1 and a write at the end: from the left the plot runs backwards in time, with the newest activation at the right end |

Seen while modelling, and visible in the modules, but without a run of their own: a call
without audio in realtime mode ends in AttributeError before the RuntimeError meant for
it (`BeatNet.py` line 114); a second call of one object goes on with the particles and the
path of the first; the second column of the result is 1 or 2 and not a beat number; the
offset is cut off every call of the estimator; the loops of `systematic_resample` and
`stratified_resample` end before their first turn, as `i < N & j < N` compares with
`N & j`; `hop_size` of the C++ frame processor is never read, so frames are a block apart;
`get_expected_frames`, which says that it returns the number of frames the module will return
(`common.py` lines 39 and 40), returns one more than online mode cuts when the audio ends on a hop,
and has nothing to do with the four frames of a slice in the chunk modes; `get_times`, which says that it
returns the time of each frame, returns one time more than that;
the worker is started with `args=(self.pred)`, without a comma, so that the array is
unpacked into its only row, which `process` shapes back; a G observation model of the
downbeats ends in a ValueError, as the shapes of line 94 do not broadcast; a C++ block of
512 samples at 96000 becomes 118 samples and not 117.6, and nothing carries the remainder.

Every action of each next-state relation occurs in a passing run. The bounds are
named: `MaxFrames`, `MaxParticles`, `MaxDownParticles`, `MaxCalls`, `MaxHops`,
`MaxSamples`, `MaxAudio`. `Capacity` and `PlotWidth` are parameters of the program made
small. Each property has a fault, an operator next to the definition it replaces, that
violates it.

Fairness. `CallsEnd` of `Resampling` assumes that a function once called goes on with its loop.
`CallsEnd` of the handler assumes weak fairness of the main thread and of the worker, because the
interpreter runs every runnable thread. Nothing is assumed of the device or of the
caller; a stream call must end only once the device has stopped. Deadlock is checked
wherever the system goes on for ever, and the MC modules let a run rest once its bound
is reached; `resampling` and `lifecycle` do not check it, as a function that has
returned and a destroyed object do nothing more.

## Proofs

`ParticleCascadeProofs` proves, for all sizes, tempo and meter ranges, thresholds
and activations, that `Safety` is inductive: types, ensemble size, dummy row,
distances. The parts need each other. That beats keep their distance needs that
the last row is a row of the path (types), the distance at the gate is to the
interval of the median, which is a beat state only if particles are, and never
below the fastest beat. That the deletion finds enough particles needs that the
injection before it happened under the same condition. One lemma per filter step
(`MotionsStay`, `ResampledStay`, `InjectedStay`, `RemoveAtStay`) carries the type
of the ensembles. `CascadeKeepsPromise` then shows that each step maps to a step or
a stutter of `BeatSequence`. `CascadeIntervalsKept` is an action property: a particle
changes tempo or meter only where its interval ends, also in a frame that raises. It
follows from `Safety` and from what each of motion, injection, resampling and
deletion may leave in an ensemble. `DefaultModels` says that with the default `B56` of both
filters the first state of a beat or a bar alone observes it, as no interval is longer
(`FineBorder` is the same of any space).

`CascadeResamples` is about what a turn computes with: a model whose selection is undefined would
lose behaviours without a word, where the code goes on. A resampling has an outcome because for
every slice there is a first particle at which the weights exceed its beginning
(`ResampledExists`); a zero sum selects the first particle.

`BeatNetHandlerProofs` proves every safety property of the handler, for all tracks, widths
and capacities and any interleaving of device, main thread and worker. The invariant follows
one call turn by turn: `Extracted` and `Estimated` count the turns that have got that far, and
`HopOf(t)` is the hop that turn `t` is about. `WindowFollows` says that the hops read so far
are consecutive at the end of the window and that the device goes on where they end,
which `DeviceHolds` makes true of what it holds; with five turns of zeros and six hops
in a window this gives `WindowUnbroken`. `PredOfTurn`, `FedLast` and `NetworkAhead` tie
prediction, estimator and network to the turn, which gives the order and the absence of
gaps and repetitions; that the network hears nothing the estimator does not get
needs that it is never ahead by more than one. `NoneRepeated` is what is left of order before
the last turn of a realtime call, which repeats an activation. The lemma `Kinds` sorts all
steps into six kinds (constructed, called, extracted, completed, estimated, quiet), and
the preservation of each part is shown once per kind.

`FramedSignalProcessorProofs` proves for every frame size and any blocks that the
ring holds the tail of what was heard and implements `SlidingWindow`. The
invariant speaks of every distance up to the ring size, not only of a frame: that
is what survives a write.

`BeatNetPipelineProofs` proves that the output buffer always has the size asked for,
that frames are fresh and that differences are to the frame before, for all rates,
blocks and frame lengths. `FramesAreFresh` speaks of the last frame only and is not
inductive, as a call moves the frame; `AllHeardFresh` says the same of all that was
ever heard. `WarmUp` and `DriftBounded` need to know how much was heard: with one size of
block that is a product (`Counted`), and whether the last call had a frame depends on that
amount (`LastValid`). `RoundedNear` bounds the error of one block, `ErrorsAdd` that of all.

`BeatNetLifecycleProofs` treats the sequences of steps as programs. `Constructs`,
`Processes` and `Undoes` say what a program must do in which order: they hold of the
three sequences and, which makes them inductive, of every rest of one. `Built` says what
exists at each point of the construction, `Accounted` that every object that exists is
still to be released. From these follow, for every place of failure and any number of calls, that
nothing outlives its library or environment, that a destroyed object leaves nothing and
that a constructed one has its session.

The end of a call is liveness, but what makes it end is not. `HandlerCallsShrink` says of a
realtime call, and of a stream call whose device has stopped, that every step leaves fewer of
`StepsLeft` and that until the call has ended the guard of one of its two threads holds. It
needs that only a stream has a device (`DeviceOfStream`) and that a turn which did extract
something was not the one that completes the track (`TrackNotOver`): without it, the turn that
is being counted might leave as much as before. With fairness of both threads this is `CallsEnd`.

`FeatureModuleProofs` proves the property of the frame arithmetic from two facts about quotients.

`ResamplingProofs` proves every safety property of the resampling functions, for any number
of particles, any weights and any draws. Sums of weights are recursive, so this takes
induction. The library's induction theorems quantify over operators; here induction is
stated for a set of numbers (`Induction`, `InductionTo`, in `NumberTheorems`), and follows from the least
element of such a set (`LeastNumber`), which exists because inclusion of finite sets is
well-founded. `UptoGrows` is the first use of it: sums never fall, so a search has an end
(`SearchFinds`) and a later slice ends no earlier (`SearchGrows`). The invariant of the loop,
`SearchedSoFar`, says that it has found for every slice what a search finds and that the slice
it is at exceeds all it has left behind. `SharesKept` does not follow particle by particle: as
selections are in order, the slices that end at one of the first `k` particles are the first
`m` (`CutExists`), and `m` is compared with the weight of the first `k`. With a common draw
the deviation is the same at both ends of a particle, so that one copy remains
(`CutOfDraw`); with a draw per slice both ends deviate on their own, which makes two
(`CutOfDraws`). `SelectionIsSearch` is what the cascade relies on: for every sequence of particles,
border and two weights, `Resampled` is exactly the set of selections that the searches of the
code can return. `FoundIsAdmitted` has the draw for every particle that a slice may end at, and
`UptoCounts` turns sums of two weights into counts. `ResamplingTypeOK` says where the loop may
index past the weights: only where it raises, in the last slice, with a draw from its end and all
weight cumulated; for all other draws the exact sums reach the draw. `ResamplingEnds` is the end of
the loops without fairness: at most `2 * J` steps, of which there always is one to take before the
selection or the IndexError, as `J & 0` is 0.

Assumptions are those of the code: at least two tempi and two meters, non-empty
ensembles, percentages, a device and a plot of some size. Only model-checked is liveness,
`CallsEnd` of the handler and of the resampling functions, as fairness is defined by ENABLED, which the prover does not handle; the
theorems above have what is left of both without it. Every invariant and every action
property of a passing run is a theorem.

## Not modelled

* The numerical content of spectra, network and probabilities. A frame is what it is cut
  from, the state of the network what it has heard, a weight a whole percentage.
* Drawing. Of the plots the rolled activations and the row lookup are modelled, as these
  are state and control.
* The G observation model (Gaussian weights, which are data; for downbeats it raises
  ValueError at the first open gate) and `down_densities2`, which nothing calls.
* DBN inference, a library call that returns.
* Names and paths of libraries, the KissFFT build (it loads nothing), the
  filterbank (built once, then read), demo, export and test scripts, build and packaging.
* The times of the feature extractor (`get_times`): one multiplication.
* State spaces with a single meter: their transition matrix has one entry, and the motion of the
  downbeats raises as that of the beats does. `Bar!WellFormed` leaves them out.
* What the C++ resampler leaks (a converter per block) and the handle of ONNX Runtime that a throwing
  constructor leaves open, which `NothingLeftBehind` exempts by name.
* Hazards of `PROJECT.json` without a property have a note. Some are of the quality of the signal,
  which is data (a setup in the middle of a stream leaves samples of the old rate in the ring; libsamplerate
  is given a new converter for every block). Of others no text of the repository says what should
  happen, so that a property could only restate the code: the offset that is cut off every call, the
  second track that goes on from the first, the track too short for a frame, frames that come by the
  block and not by the hop, the systematic loop that never turns, the original loop that runs past
  the weights (the model does, too), the times and numbers of frames that differ.

## Plan

Order: the cascade first, as it decides what is reported; then the handler that feeds
it, the C++ front end, the pure algorithms; then the proofs, component by component. Done:
all modules above, observation models, exceptions in the middle of a turn, the network's
state, the plots, and the proofs of handler, warm-up, drift, intervals, lifecycle
and resampling. What could follow:

1. Handler composed with cascade: the warm-up zeros of a second call at an open gate, the
   times of a second track, with an abstract estimator that both are shown to fit.
2. The online DBN of a whole track, if madmom's source is to be part of the system.
