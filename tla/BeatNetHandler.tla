--------------------------- MODULE BeatNetHandler ---------------------------
(***************************************************************************)
(* The BeatNet class (BeatNet.py): one object, its process() in the four   *)
(* modes, inference on the main thread or on a worker thread per frame,    *)
(* the microphone it reads in stream mode, the network that computes the   *)
(* activations (model.py) and the estimator they are fed to.               *)
(*                                                                         *)
(* An activation is known by what it was computed from: the process() call *)
(* and the hop of the recording its frame is centred on (realtime, online) *)
(* or whose samples came in last (stream).  Hop 0 of a realtime or stream  *)
(* activation stands for the zeros of the warm-up.                         *)
(***************************************************************************)
EXTENDS Integers, Sequences, FiniteSets, SequencesExt

CONSTANTS
    Configurations,  \* the [mode, inference, plot, thread, model] tried
    Audios,          \* lengths of the tracks, in samples
    None,            \* process() called without an audio
    Capacity,        \* hops the audio device holds before it overruns
    PlotWidth,       \* activations that the plot of a chunk mode shows
    MaxCalls,        \* bound: calls of process()
    MaxHops          \* bound: hops the microphone captures

VARIABLES
    config,     \* the constructor's arguments, None before it has succeeded
    pc,         \* where the main thread is
    calls,      \* calls of process() so far
    audio,      \* self.audio: the length of the current track
    counter,    \* self.counter: turns of the loop in this call
    completed,  \* self.completed
    pred,       \* self.pred, None while the attribute does not exist
    output,     \* whether the local variable output is bound
    worker,     \* the activation a running worker thread was started with, or None
    network,    \* what the LSTM has heard, in its order: hidden and cell are functions of it
    fed,        \* every activation the estimator has processed, in its order
    shown,      \* beats_activation_show: the activations on the plot, from left to right
    result,     \* how the last constructor or process() call ended
    window,     \* self.stream_window, as the hops it spans; 0 for initial zeros
    device      \* the audio device: active, hops captured, held, overrun

control   == <<config, pc, calls>>
loop      == <<audio, counter, completed, output>>
streaming == <<window, device>>
estimator == <<fed, shown>>
vars == <<config, pc, calls, audio, counter, completed, pred, output, worker,
          network, fed, shown, result, window, device>>

ASSUME HandlerAssumption ==
    /\ Capacity \in Nat /\ PlotWidth \in Nat \ {0, 1} /\ {MaxCalls, MaxHops} \subseteq Nat
    /\ Audios \subseteq Nat /\ None \notin Audios
    /\ None \notin [call : Nat, hop : Nat] /\ None \notin Configurations

-----------------------------------------------------------------------------
\* int(20 * 0.001 * 22050), int(64 * 0.001 * 22050) and the stream window, in samples.
HopLength == (20 * 22050) \div 1000
WinLength == (64 * 22050) \div 1000
StreamWindow == WinLength + 2 * HopLength

\* The hops the window spans: the oldest only in part.
WindowHops == (StreamWindow + HopLength - 1) \div HopLength

\* round(len/hop); hop is odd, so there is no tie.
RealtimeFrames(length) == (2 * length + HopLength) \div (2 * HopLength)

\* madmom frames a whole track at every hop that starts inside it.
OnlineFrames(length) == (length + HopLength - 1) \div HopLength

Activation(hop) == [call |-> calls', hop |-> hop]
Zeros == Activation(0)

\* BDA.forward and np.zeros at the start: the network keeps its state for ever.  The
\* zeros of the warm-up are not computed by it.
\* Fault: the warm-up is computed as well, and thrown away.
RememberAll(a) == network' = Append(network, a)

Remember(a) == network' = IF a.hop = 0 THEN network ELSE Append(network, a)

\* activations_plot in the chunk modes: np.roll moves the newest activation, on the
\* right, round to the left end, and the next one takes its place.
\* Fault: the plot grows by the activation.
RolledOn(a) == Append(shown, a)

Rolled(a) ==
    [k \in 1 .. PlotWidth |-> IF k = PlotWidth THEN a
                             ELSE IF k = 1 THEN shown[PlotWidth] ELSE shown[k - 1]]

\* estimator.process on one activation.
Estimate(a) ==
    /\ fed' = Append(fed, a)
    /\ shown' = IF config.plot THEN Rolled(a) ELSE shown

End(how) == pc' = "idle" /\ result' = how

Init ==
    /\ config = None /\ pc = "new" /\ calls = 0
    /\ audio = 0 /\ counter = 0 /\ completed = FALSE /\ output = FALSE
    /\ pred = None /\ worker = None /\ result = "none"
    /\ network = << >> /\ fed = << >>
    /\ shown = [k \in 1 .. PlotWidth |-> [call |-> 0, hop |-> 0]]
    /\ window = [i \in 1 .. WindowHops |-> 0]
    /\ device = [active |-> FALSE, captured |-> 0, held |-> << >>, overrun |-> FALSE]

\* __init__: three combinations are refused; the mode is not looked at.
Accepted(c) == /\ ~(c.plot /\ c.thread)
               /\ c.inference \in {"PF", "DBN"}
               /\ c.model \in 1 .. 3

Construct(c) ==
    /\ pc = "new"
    /\ \/ /\ Accepted(c)
          /\ config' = c /\ pc' = "idle" /\ result' = "none"
          /\ device' = [device EXCEPT !.active = (c.mode = "stream")]
       \/ /\ ~Accepted(c)
          /\ result' = "RuntimeError"
          /\ UNCHANGED <<config, pc, device>>
    /\ UNCHANGED <<calls, loop, pred, worker, network, estimator, window>>

-----------------------------------------------------------------------------
\* process(): the part before the loop, or all of it when there is no loop.
Enter(mode) ==
    /\ pc = "idle" /\ calls < MaxCalls
    /\ config.mode = mode
    /\ calls' = calls + 1
    /\ output' = FALSE
    /\ UNCHANGED <<config, pred, worker, shown, streaming>>

ProcessStream ==
    /\ Enter("stream")
    /\ \/ config.inference # "PF" /\ End("RuntimeError") /\ UNCHANGED counter
       \/ config.inference = "PF" /\ counter' = 0 /\ pc' = "test" /\ result' = "none"
    /\ UNCHANGED <<audio, completed, network, fed>>

\* Without an audio None.all() fails before the RuntimeError meant for it.
ProcessRealtime(a) ==
    /\ Enter("realtime")
    /\ counter' = 0 /\ completed' = FALSE
    /\ \/ config.inference # "PF" /\ End("RuntimeError") /\ UNCHANGED audio
       \/ config.inference = "PF" /\ a = None /\ End("AttributeError") /\ UNCHANGED audio
       \/ /\ config.inference = "PF" /\ a # None
          /\ audio' = a /\ pc' = "test" /\ result' = "none"
    /\ UNCHANGED <<network, fed>>

\* The whole track at once through the network ...
Frames(a) == [k \in 1 .. OnlineFrames(a) |-> Activation(k - 1)]
ExtractOnline(a) == a \in Audios /\ network' = network \o Frames(a)

\* ... which may refuse an empty track: madmom and torch decide what becomes of a
\* spectrogram without frames ...
ExtractNothing(a) == a = 0 /\ End("RuntimeError") /\ UNCHANGED network

\* ... and through the estimator, which may raise on the way.
ProcessOnline(a) ==
    /\ Enter("online")
    /\ \/ a = None /\ End("AttributeError") /\ UNCHANGED <<network, fed>>
       \/ a \in Audios /\ ExtractNothing(a) /\ UNCHANGED fed
       \/ /\ ExtractOnline(a) /\ config.inference = "DBN"
          /\ End("beats") /\ UNCHANGED fed
       \/ /\ ExtractOnline(a) /\ config.inference = "PF"
          /\ \/ fed' = fed \o Frames(a) /\ End("beats")
             \/ /\ \E n \in DOMAIN Frames(a) : fed' = fed \o SubSeq(Frames(a), 1, n)
                /\ End("IndexError")
    /\ UNCHANGED <<audio, counter, completed>>

ProcessOffline(a) ==
    /\ Enter("offline")
    /\ \/ config.inference # "DBN" /\ End("RuntimeError") /\ UNCHANGED network
       \/ config.inference = "DBN" /\ a = None /\ End("AttributeError") /\ UNCHANGED network
       \/ config.inference = "DBN" /\ a \in Audios /\ ExtractNothing(a)
       \/ config.inference = "DBN" /\ ExtractOnline(a) /\ End("beats")
    /\ UNCHANGED <<audio, counter, completed, fed>>

\* A mode that process() does not know falls through.
ProcessUnknown ==
    /\ config # None /\ config.mode \notin {"stream", "realtime", "online", "offline"}
    /\ Enter(config.mode)
    /\ End("nothing")
    /\ UNCHANGED <<audio, counter, completed, network, fed>>

-----------------------------------------------------------------------------
\* The loop conditions.  A stream that has ended leaves process() without a result.
TestStream ==
    /\ pc = "test" /\ config.mode = "stream"
    /\ \/ device.active /\ pc' = "extract" /\ UNCHANGED result
       \/ ~device.active /\ End("nothing")
    /\ UNCHANGED <<config, calls, loop, pred, worker, network, estimator, streaming>>

TestRealtime ==
    /\ pc = "test" /\ config.mode = "realtime"
    /\ \/ ~completed /\ pc' = "extract" /\ UNCHANGED result
       \/ completed /\ End(IF output THEN "beats" ELSE "UnboundLocalError")
    /\ UNCHANGED <<config, calls, loop, pred, worker, network, estimator, streaming>>

\* activation_extractor_stream: read a hop, slide the window over it.  Five turns
\* of zeros, then the network.
\* Fault: a turn too few.
StreamWarmEarly == counter < 4

StreamWarm == counter < 5

ExtractStream ==
    /\ pc = "extract" /\ config.mode = "stream"
    /\ ~device.overrun /\ device.held # << >>
    /\ device' = [device EXCEPT !.held = Tail(@)]
    /\ window' = Append(Tail(window), Head(device.held))
    /\ calls' = calls
    /\ pred' = IF StreamWarm THEN Zeros ELSE Activation(Head(device.held))
    /\ Remember(pred')
    /\ pc' = "infer"
    /\ UNCHANGED <<config, loop, worker, estimator, result>>

\* stream.read raises after an overrun, and on a stream that has ended.
ReadFails ==
    /\ pc = "extract" /\ config.mode = "stream"
    /\ device.overrun \/ (~device.active /\ device.held = << >>)
    /\ device' = [device EXCEPT !.overrun = FALSE]
    /\ End("OSError")
    /\ UNCHANGED <<config, calls, loop, pred, worker, network, estimator, window>>

\* The last of four frames over audio[hop*(counter-2) : hop*counter + win] is centred
\* 3 hops into the slice.
\* Fault: the slice advances by two hops per turn.
ChunkHopSkipping == 2 * (counter - 2) + 3

ChunkHop == counter - 2 + 3

\* activation_extractor_realtime: two turns of zeros, then the network.  Past the end of
\* the track only completed changes.
ExtractRealtime ==
    /\ pc = "extract" /\ config.mode = "realtime"
    /\ calls' = calls
    /\ \/ /\ counter < RealtimeFrames(audio)
          /\ pred' = IF counter < 2 THEN Zeros ELSE Activation(ChunkHop)
          /\ Remember(pred')
          /\ UNCHANGED completed
       \/ /\ counter >= RealtimeFrames(audio)
          /\ completed' = TRUE
          /\ UNCHANGED <<pred, network>>
    /\ pc' = "infer"
    /\ UNCHANGED <<config, audio, counter, output, worker, estimator, result, streaming>>

\* Fault: the loop continues on zeros, before it has counted the turn.
TurnUnlessZeros ==
    IF pred.hop = 0 THEN UNCHANGED <<estimator, output, counter>>
    ELSE Estimate(pred) /\ output' = TRUE /\ counter' = counter + 1

Turn == Estimate(pred) /\ output' = TRUE /\ counter' = counter + 1

\* The inference on the main thread ...
Infer ==
    /\ pc = "infer" /\ ~config.thread /\ pred # None
    /\ Turn
    /\ pc' = "test"
    /\ UNCHANGED <<config, calls, audio, completed, pred, worker, network, result, streaming>>

\* ... when the estimator raises, after it has counted and plotted the frame (it does not
\* resample on zeros) ...
InferRaises ==
    /\ pc = "infer" /\ ~config.thread /\ pred # None /\ pred.hop > 0
    /\ Estimate(pred)
    /\ End("IndexError")
    /\ UNCHANGED <<config, calls, loop, pred, worker, network, streaming>>

\* ... or in a thread of its own, which the main thread joins.  Nobody learns of an
\* exception there.
StartWorker ==
    /\ pc = "infer" /\ config.thread /\ pred # None
    /\ worker' = pred
    /\ pc' = "join"
    /\ UNCHANGED <<config, calls, loop, pred, network, estimator, result, streaming>>

WorkerInfers ==
    /\ worker # None
    /\ Estimate(worker)
    /\ worker' = None
    /\ UNCHANGED <<control, loop, pred, network, result, streaming>>

\* Fault: the join has a timeout.
WorkerDoneOrLate == worker \in {worker, None}

WorkerDone == worker = None

Join ==
    /\ pc = "join" /\ WorkerDone
    /\ counter' = counter + 1
    /\ pc' = "test"
    /\ UNCHANGED <<config, calls, audio, completed, output, pred, worker, network, estimator,
                   result, streaming>>

\* A track shorter than half a hop, on an object that never extracted anything.
NothingExtracted ==
    /\ pc = "infer" /\ pred = None
    /\ End("AttributeError")
    /\ UNCHANGED <<config, calls, loop, pred, worker, network, estimator, streaming>>

-----------------------------------------------------------------------------
\* The audio device, external.  It captures a hop after the other; when the reader
\* is too late it overruns: what it holds and what comes is lost until the next
\* read reports it.
Full == Len(device.held) = Capacity

Capture ==
    /\ device.active /\ device.captured < MaxHops
    /\ LET hop == device.captured + 1
       IN  device' = [active |-> TRUE, captured |-> hop,
                      held |-> IF device.overrun \/ Full THEN << >> ELSE Append(device.held, hop),
                      overrun |-> device.overrun \/ Full]
    /\ UNCHANGED <<control, loop, pred, worker, network, estimator, result, window>>

StopDevice ==
    /\ device.active
    /\ device' = [device EXCEPT !.active = FALSE]
    /\ UNCHANGED <<control, loop, pred, worker, network, estimator, result, window>>

MainThread ==
    \/ TestStream \/ TestRealtime \/ ExtractStream \/ ReadFails \/ ExtractRealtime
    \/ Infer \/ InferRaises \/ StartWorker \/ Join \/ NothingExtracted

Caller ==
    \/ \E c \in Configurations : Construct(c)
    \/ ProcessStream \/ ProcessUnknown
    \/ \E a \in Audios \cup {None} :
          ProcessRealtime(a) \/ ProcessOnline(a) \/ ProcessOffline(a)

Next == Caller \/ MainThread \/ WorkerInfers \/ Capture \/ StopDevice

Spec == Init /\ [][Next]_vars

\* The interpreter runs both threads; nothing makes a caller call or a device go on.
FairSpec == Spec /\ WF_vars(MainThread) /\ WF_vars(WorkerInfers)

-----------------------------------------------------------------------------
(***************************************************************************)
(* Properties.                                                             *)
(***************************************************************************)

\* Types; in particular the plot keeps its width, that of its line (line 181).
TypeOK ==
    /\ config \in Configurations \cup {None}
    /\ pc \in {"new", "idle", "test", "extract", "infer", "join"}
    /\ calls \in 0 .. MaxCalls /\ counter \in Nat
    /\ completed \in BOOLEAN /\ output \in BOOLEAN
    /\ audio \in Audios \cup {0}
    /\ {pred, worker} \subseteq [call : 1 .. MaxCalls, hop : Nat] \cup {None}
    /\ {network, fed} \subseteq Seq([call : 1 .. MaxCalls, hop : Nat])
    /\ shown \in [1 .. PlotWidth -> [call : 0 .. MaxCalls, hop : Nat]]
    /\ window \in [1 .. WindowHops -> 0 .. MaxHops]
    /\ device \in [active : BOOLEAN, captured : 0 .. MaxHops, held : Seq(1 .. MaxHops), overrun : BOOLEAN]

\* The network only ever sees a whole, unbroken stretch of the recording: no initial
\* zeros and no gap, whatever overran, raised and was called again before.  The
\* five turns of zeros of every call are just long enough to flush the window.
WindowUnbroken ==
    pc = "infer" /\ config.mode = "stream" /\ pred.hop > 0 =>
        /\ window[1] > 0
        /\ \A i \in 2 .. WindowHops : window[i] = window[i - 1] + 1

\* The estimator gets the activations of a call in recording order, none left out,
\* on the main thread or on workers; only the last of the call may be repeated.
ChunksInOrder ==
    \A k \in 2 .. Len(fed) :
        fed[k].call = fed[k - 1].call /\ fed[k - 1].hop > 0 =>
            \/ fed[k].hop = fed[k - 1].hop + 1
            \/ /\ fed[k].hop = fed[k - 1].hop
               /\ \A j \in k .. Len(fed) : fed[j].call = fed[k].call => fed[j].hop = fed[k].hop

\* The network's state carries on from frame to frame, so it must hear every hop of a
\* call once and in order, whatever raises, waits or is inferred again; and what it makes
\* of a hop reaches the estimator before it hears the next.
NetworkStepsOnce ==
    /\ \A k \in 2 .. Len(network) :
          network[k].call = network[k - 1].call => network[k].hop = network[k - 1].hop + 1
    /\ config # None /\ config.mode \in {"stream", "realtime"} =>
          \A k \in 1 .. Len(network) - 1 : network[k] \in ToSet(fed)
    /\ \A k \in DOMAIN fed : fed[k].hop > 0 => fed[k] \in ToSet(network)

\* One thread at a time works on the estimator and its activation: while a worker
\* runs, the main thread waits and pred stays what the worker was given.
EstimatorExclusive == worker # None => pc = "join" /\ worker = pred

\* A realtime call ends, and a stream call ends once the device has stopped.
CallsEnd ==
    (pc \notin {"new", "idle"} /\ (config.mode = "stream" => ~device.active)) ~> pc = "idle"

\* "while still producing identical outcomes to the real-time mode" (README line 8):
\* as in online mode, the k-th activation of the first call is that of hop k-1.
AlignedWithOnline ==
    calls = 1 => \A k \in DOMAIN fed : fed[k].hop \in {0, k - 1}

\* "To decide whether accomplish the inference at the main thread or another thread"
\* (BeatNet.py line 43): the choice of thread does not change the outcome of a call.
ThreadMakesNoDifference == result # "UnboundLocalError"

\* The axis of the activation plot is labelled "t" (particle_filtering_cascade.py line
\* 182), and it shows the activations "of each time frame" (BeatNet.py line 39): from left
\* to right no activation is followed by one that the estimator was given before it.
PlotInTimeOrder ==
    \A j, k \in 1 .. PlotWidth :
        j < k /\ shown[j].call > 0 /\ shown[k].call = shown[j].call => shown[j].hop <= shown[k].hop

=============================================================================
