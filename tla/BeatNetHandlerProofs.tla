------------------------- MODULE BeatNetHandlerProofs -------------------------
(***************************************************************************)
(* Proofs about BeatNetHandler, for all tracks, capacities of the device,  *)
(* widths of the plot, numbers of calls and interleavings of the device,   *)
(* the main thread and the worker.                                         *)
(*                                                                         *)
(* The invariant follows one call of a chunk mode turn by turn: how many   *)
(* hops it has extracted and estimated, and which hop every turn is about. *)
(***************************************************************************)
EXTENDS BeatNetHandler, SequenceTheorems, TLAPS

Chunked == config # None /\ config.mode \in {"stream", "realtime"}
Loop    == pc \in {"test", "extract", "infer", "join"}

\* An activation has been extracted that the estimator has not got yet.
Pending == pc = "infer" \/ worker # None

\* Turns of this call whose activation was extracted, and was estimated.
Extracted == IF pc \in {"infer", "join"} THEN counter + 1 ELSE counter
Estimated == IF pc = "join" /\ worker = None THEN counter + 1 ELSE counter

\* The hop of turn t of this call.  A stream call reads hop after hop.
Warm == IF config.mode = "stream" THEN 5 ELSE 2
HopOf(t) ==
    IF t < Warm THEN 0
    ELSE IF config.mode = "stream" THEN window[WindowHops] - (Extracted - 1 - t)
    ELSE t + 1

\* Before the constructor has succeeded nothing has happened; calls have no worker
\* running but in a join, and completed is only ever set in realtime mode.
Control ==
    /\ pc = "new" => /\ network = << >> /\ fed = << >> /\ pred = None /\ calls = 0
    /\ pc \in {"new", "extract"} \/ config.mode = "stream" => ~completed
    /\ EstimatorExclusive
    /\ pc # "new" => config # None
    /\ Loop => calls > 0 /\ Chunked
    /\ pc = "join" => pred # None

\* What the device holds are the latest hops it has captured.
DeviceHolds ==
    /\ device.overrun => device.held = << >>
    /\ \A j \in 1 .. Len(device.held) :
          device.held[j] = device.captured - Len(device.held) + j

\* The hops a stream call has read so far are consecutive at the end of the window, and
\* the device goes on where they end unless it has overrun.
WindowFollows ==
    Loop /\ config.mode = "stream" =>
        /\ \A i \in 1 .. WindowHops : i > WindowHops - Extracted => window[i] > 0
        /\ \A i \in 2 .. WindowHops : i > WindowHops - Extracted + 1 => window[i] = window[i - 1] + 1
        /\ Extracted > 0 /\ ~device.overrun =>
              window[WindowHops] = device.captured - Len(device.held)

\* The activation that waits is that of the turn.
PredOfTurn ==
    Loop /\ Pending /\ ~completed => pred = [call |-> calls, hop |-> HopOf(counter)]

\* What the estimator got last is what was extracted last, or the turn before it.
FedLast ==
    /\ \A k \in DOMAIN fed : fed[k].call <= calls
    /\ Chunked /\ (completed \/ ~Pending) /\ pred # None => fed # << >> /\ fed[Len(fed)] = pred
    /\ Loop /\ ~completed =>
          IF Estimated = 0 THEN \A k \in DOMAIN fed : fed[k].call < calls
          ELSE fed # << >> /\ fed[Len(fed)] = [call |-> calls, hop |-> HopOf(Estimated - 1)]

\* Only the turn that completes a call repeats an activation.
NoneRepeated ==
    Loop /\ ~completed =>
        \A k \in 2 .. Len(fed) :
            fed[k].call = calls /\ fed[k - 1].call = calls /\ fed[k - 1].hop > 0 =>
                fed[k].hop = fed[k - 1].hop + 1

\* The network is one turn ahead of the estimator at most.
NetworkAhead ==
    /\ \A k \in DOMAIN network : network[k].call <= calls
    /\ Loop /\ ~completed =>
          IF Extracted <= Warm THEN \A k \in DOMAIN network : network[k].call < calls
          ELSE network # << >> /\ network[Len(network)] = [call |-> calls, hop |-> HopOf(Extracted - 1)]
    /\ \A k \in 2 .. Len(network) :
          network[k].call = network[k - 1].call => network[k].hop = network[k - 1].hop + 1
    /\ Chunked => \A k \in DOMAIN network :
          \/ network[k] \in ToSet(fed)
          \/ Pending /\ k = Len(network) /\ network[k] = pred
    /\ \A k \in DOMAIN fed : fed[k].hop > 0 => fed[k] \in ToSet(network)
    /\ pred # None /\ pred.hop > 0 => pred \in ToSet(network)

Inv == /\ TypeOK /\ Control /\ DeviceHolds /\ WindowFollows /\ PredOfTurn
       /\ FedLast /\ NoneRepeated /\ ChunksInOrder /\ NetworkAhead

-----------------------------------------------------------------------------
LEMMA Constants == WindowHops = 6 /\ HopLength = 441
BY DEF WindowHops, StreamWindow, WinLength, HopLength

LEMMA ActivationType ==
    ASSUME TypeOK, calls' \in 1 .. MaxCalls, NEW h \in Nat
    PROVE  Activation(h) \in [call : 1 .. MaxCalls, hop : Nat]
BY DEF Activation

\* What the estimator does to its history and its plot.
LEMMA EstimateType ==
    ASSUME TypeOK, NEW a \in [call : 1 .. MaxCalls, hop : Nat], Estimate(a)
    PROVE  /\ fed' \in Seq([call : 1 .. MaxCalls, hop : Nat])
           /\ shown' \in [1 .. PlotWidth -> [call : 0 .. MaxCalls, hop : Nat]]
<1> DEFINE A == [call : 1 .. MaxCalls, hop : Nat]
           B == [call : 0 .. MaxCalls, hop : Nat]
<1>1. fed' \in Seq(A)
  BY AppendProperties DEF Estimate, TypeOK
<1>2. a \in B
  OBVIOUS
<1>3. PlotWidth \in Nat /\ PlotWidth > 1 /\ shown \in [1 .. PlotWidth -> B]
  BY HandlerAssumption DEF TypeOK
<1>. HIDE DEF B
<1>4. Rolled(a) \in [1 .. PlotWidth -> B]
  BY <1>2, <1>3 DEF Rolled
<1>5. shown' \in [1 .. PlotWidth -> B]
  BY <1>3, <1>4 DEF Estimate
<1>. QED BY <1>1, <1>5 DEF B

LEMMA InitInv == Init => Inv
<1> SUFFICES ASSUME Init PROVE Inv
  OBVIOUS
<1>1. TypeOK
  <2>1. device \in [active : BOOLEAN, captured : 0 .. MaxHops, held : Seq(1 .. MaxHops), overrun : BOOLEAN]
    BY HandlerAssumption DEF Init
  <2>2. /\ shown \in [1 .. PlotWidth -> [call : 0 .. MaxCalls, hop : Nat]]
        /\ window \in [1 .. WindowHops -> 0 .. MaxHops]
    BY HandlerAssumption DEF Init
  <2>3. {network, fed} \subseteq Seq([call : 1 .. MaxCalls, hop : Nat])
    BY DEF Init
  <2>4. calls \in 0 .. MaxCalls /\ counter \in Nat
    BY HandlerAssumption DEF Init
  <2>5. config \in Configurations \cup {None} /\ audio \in Audios \cup {0}
        /\ {pred, worker} \subseteq [call : 1 .. MaxCalls, hop : Nat] \cup {None}
        /\ pc \in {"new", "idle", "test", "extract", "infer", "join"}
        /\ completed \in BOOLEAN /\ output \in BOOLEAN
    BY DEF Init
  <2>. QED BY <2>1, <2>2, <2>3, <2>4, <2>5 DEF TypeOK
<1>2. Control /\ DeviceHolds /\ WindowFollows /\ PredOfTurn
  BY <1>1 DEF Init, Control, DeviceHolds, WindowFollows, PredOfTurn, Loop, Pending, EstimatorExclusive
<1>3. FedLast /\ NoneRepeated /\ ChunksInOrder /\ NetworkAhead
  BY <1>1 DEF Init, FedLast, NoneRepeated, ChunksInOrder, NetworkAhead, Loop, Pending, Chunked
<1>. QED BY <1>1, <1>2, <1>3 DEF Inv

LEMMA ControlStep == TypeOK /\ Control /\ [Next]_vars => Control'
<1> SUFFICES ASSUME TypeOK, Control, [Next]_vars PROVE Control'
  OBVIOUS
<1> USE DEF Control, EstimatorExclusive, Loop, Chunked, loop, control, streaming, estimator, End, Enter
<1>1. ASSUME NEW c \in Configurations, Construct(c) PROVE Control'
  <2>1. /\ pc = "new" /\ ~completed /\ worker = None
        /\ UNCHANGED <<calls, completed, pred, worker, network, fed, shown>>
    BY <1>1 DEF Construct
  <2>2. CASE config' = c /\ pc' = "idle"
    <3>1. config' # None
      BY <2>2, HandlerAssumption
    <3>. QED BY <2>1, <2>2, <3>1
  <2>3. CASE config' = config /\ pc' = pc
    BY <2>1, <2>3
  <2>. QED BY <1>1, <2>2, <2>3 DEF Construct
<1>2. CASE ProcessStream \/ ProcessUnknown
  <2>1. /\ pc = "idle" /\ calls' = calls + 1 /\ UNCHANGED <<config, completed, pred, worker>>
        /\ pc' \in {"idle", "test"} /\ (pc' = "test" => config.mode = "stream")
    BY <1>2 DEF ProcessStream, ProcessUnknown
  <2>2. calls \in Nat
    BY DEF TypeOK
  <2>. QED BY <2>1, <2>2
<1>3. ASSUME NEW a \in Audios \cup {None}, ProcessRealtime(a) \/ ProcessOnline(a) \/ ProcessOffline(a)
      PROVE Control'
  <2>1. /\ pc = "idle" /\ calls' = calls + 1 /\ UNCHANGED <<config, pred, worker>>
        /\ config.mode \in {"realtime", "online", "offline"}
    BY <1>3 DEF ProcessRealtime, ProcessOnline, ProcessOffline, ExtractNothing
  <2>3. calls \in Nat
    BY DEF TypeOK
  <2>2. pc' \in {"idle", "test"} /\ (pc' = "test" => config.mode = "realtime")
    BY <1>3 DEF ProcessRealtime, ProcessOnline, ProcessOffline, ExtractNothing
  <2>. QED BY <2>1, <2>2, <2>3
<1>4. CASE TestStream \/ TestRealtime \/ ExtractStream \/ ReadFails \/ ExtractRealtime
  BY <1>4 DEF TestStream, TestRealtime, ExtractStream, ReadFails, ExtractRealtime
<1>5. CASE Infer \/ InferRaises \/ StartWorker \/ Join \/ NothingExtracted
  BY <1>5 DEF Infer, InferRaises, StartWorker, Join, NothingExtracted, Turn, WorkerDone
<1>6. CASE WorkerInfers \/ Capture \/ StopDevice
  BY <1>6 DEF WorkerInfers, Capture, StopDevice
<1>7. CASE UNCHANGED vars
  BY <1>7 DEF vars
<1>. QED BY <1>1, <1>2, <1>3, <1>4, <1>5, <1>6, <1>7 DEF Next, Caller, MainThread

\* A window over which one element slides.
LEMMA Slide ==
    ASSUME NEW n \in Nat \ {0}, NEW S, NEW w \in [1 .. n -> S], NEW x \in S,
           NEW v, v = Append(Tail(w), x)
    PROVE  v \in [1 .. n -> S] /\ v[n] = x /\ \A i \in 1 .. n - 1 : v[i] = w[i + 1]
<1>1. w \in Seq(S) /\ Len(w) = n
  BY SeqDef
<1>2. Tail(w) \in Seq(S) /\ Len(Tail(w)) = n - 1 /\ \A i \in 1 .. n - 1 : Tail(w)[i] = w[i + 1]
  BY <1>1, HeadTailProperties
<1>3. v \in Seq(S) /\ Len(v) = n /\ v[n] = x /\ \A i \in 1 .. n - 1 : v[i] = Tail(w)[i]
  BY <1>2, AppendProperties
<1>. QED BY <1>2, <1>3, LenProperties

LEMMA TypeStep == TypeOK /\ Control /\ [Next]_vars => TypeOK'
<1> SUFFICES ASSUME TypeOK, Control, [Next]_vars PROVE TypeOK'
  OBVIOUS
<1> DEFINE A == [call : 1 .. MaxCalls, hop : Nat]
           D == [active : BOOLEAN, captured : 0 .. MaxHops, held : Seq(1 .. MaxHops), overrun : BOOLEAN]
           Device == device \in D
           Histories == network \in Seq(A) /\ fed \in Seq(A)
           Plot == shown \in [1 .. PlotWidth -> [call : 0 .. MaxCalls, hop : Nat]]
           Window == window \in [1 .. WindowHops -> 0 .. MaxHops]
           Activations == pred \in A \cup {None} /\ worker \in A \cup {None}
           Counters == calls \in Nat /\ calls <= MaxCalls /\ counter \in Nat
           Flags == completed \in BOOLEAN /\ output \in BOOLEAN
           Places == /\ config \in Configurations \cup {None} /\ audio \in Audios \cup {0}
                     /\ pc \in {"new", "idle", "test", "extract", "infer", "join"}
           Scalars == Counters /\ Flags /\ Places
<1>a. MaxCalls \in Nat /\ MaxHops \in Nat /\ Capacity \in Nat
  BY HandlerAssumption
<1>b. Device /\ Histories /\ Plot /\ Window /\ Activations /\ Scalars
  BY <1>a DEF TypeOK
<1>d. Scalars
  BY <1>b
<1>c. Device' /\ Histories' /\ Plot' /\ Window' /\ Activations' /\ Scalars' => TypeOK'
  BY <1>a DEF TypeOK
<1> HIDE DEF A, D, Plot, Window
<1> USE DEF loop, control, streaming, estimator, End, Enter
<1>1. ASSUME NEW c \in Configurations, Construct(c) PROVE TypeOK'
  <2>1. Device'
    BY <1>1, <1>b DEF Construct, D
  <2>2. Window' /\ Plot'
    BY <1>1, <1>b DEF Construct, Window, Plot
  <2>. QED BY <1>1, <1>b, <1>c, <2>1, <2>2 DEF Construct
<1>2. CASE ProcessStream \/ ProcessUnknown
  <2>1. UNCHANGED <<shown, window>>
    BY <1>2 DEF ProcessStream, ProcessUnknown
  <2>2. Plot' /\ Window'
    BY <1>b, <2>1 DEF Plot, Window
  <2>3. Scalars'
    <3>1. config' = config /\ calls' = calls + 1 /\ calls < MaxCalls /\ output' = FALSE
          /\ audio' = audio /\ completed' = completed
      BY <1>2 DEF ProcessStream, ProcessUnknown
    <3>2. counter' \in {counter, 0} /\ pc' \in {"idle", "test"}
      BY <1>2 DEF ProcessStream, ProcessUnknown
    <3>3. Counters'
      BY <3>1, <3>2, <1>a, <1>d
    <3>4. Flags' /\ Places'
      BY <3>1, <3>2, <1>d
    <3>. QED BY <3>3, <3>4
  <2>. QED BY <1>2, <1>b, <1>c, <2>2, <2>3 DEF ProcessStream, ProcessUnknown
<1>3. ASSUME NEW a \in Audios \cup {None}, ProcessRealtime(a) \/ ProcessOnline(a) \/ ProcessOffline(a)
      PROVE TypeOK'
  <2>1. /\ UNCHANGED <<config, pred, worker, shown, window, device>>
        /\ calls' = calls + 1 /\ calls < MaxCalls
    BY <1>3 DEF ProcessRealtime, ProcessOnline, ProcessOffline, ExtractNothing
  <2>2. Scalars'
    <3>1. output' = FALSE /\ completed' \in {completed, FALSE} /\ counter' \in {counter, 0}
          /\ pc' \in {"idle", "test"}
      BY <1>3 DEF ProcessRealtime, ProcessOnline, ProcessOffline, ExtractNothing
    <3>2. audio' \in Audios \cup {0}
      BY <1>3, <1>b DEF ProcessRealtime, ProcessOnline, ProcessOffline, ExtractNothing
    <3>3. Counters'
      BY <3>1, <1>a, <1>d, <2>1
    <3>4. Flags' /\ Places'
      BY <3>1, <3>2, <1>d, <2>1
    <3>. QED BY <3>3, <3>4
  <2>3. Plot' /\ Window' /\ Device' /\ Activations'
    BY <1>b, <2>1 DEF Plot, Window
  <2>4. ASSUME ExtractOnline(a) PROVE Frames(a) \in Seq(A)
    <3>1. calls' \in 1 .. MaxCalls
      BY <1>a, <1>b, <2>1
    <3>2. a \in Nat
      BY <2>4, HandlerAssumption DEF ExtractOnline
    <3>3. OnlineFrames(a) \in Nat
      BY <3>2, Constants, Z3 DEF OnlineFrames
    <3>4. Frames(a) \in [1 .. OnlineFrames(a) -> A]
      BY <3>1, <3>3 DEF A, Frames, Activation
    <3>. QED BY <3>3, <3>4, SeqDef
  <2>5. Histories'
    <3>1. CASE UNCHANGED <<network, fed>>
      BY <3>1, <1>b
    <3>2. CASE ExtractOnline(a) /\ (fed' = fed \/ fed' = fed \o Frames(a))
      BY <3>2, <1>b, <2>4, ConcatProperties DEF ExtractOnline
    <3>3. ASSUME ExtractOnline(a), NEW n \in DOMAIN Frames(a), fed' = fed \o SubSeq(Frames(a), 1, n)
          PROVE  Histories'
      <4>1. n \in 1 .. Len(Frames(a))
        BY <3>3, <2>4, LenProperties
      <4>2. SubSeq(Frames(a), 1, n) \in Seq(A)
        BY <4>1, <2>4, <3>3, SubSeqProperties
      <4>. QED BY <3>3, <4>2, <1>b, <2>4, ConcatProperties DEF ExtractOnline
    <3>. QED BY <1>3, <3>1, <3>2, <3>3 DEF ProcessRealtime, ProcessOnline, ProcessOffline, ExtractNothing
  <2>. QED BY <1>c, <2>2, <2>3, <2>5
<1>4. CASE TestStream \/ TestRealtime
  <2>1. Plot' /\ Window' /\ Device' /\ Activations' /\ Histories'
    BY <1>4, <1>b DEF TestStream, TestRealtime, Plot, Window
  <2>2. Scalars'
    BY <1>4, <1>b DEF TestStream, TestRealtime
  <2>. QED BY <1>c, <2>1, <2>2
<1>5. CASE ExtractStream
  <2>1. Device' /\ Head(device.held) \in 1 .. MaxHops
    <3>1. device' = [device EXCEPT !.held = Tail(@)] /\ device.held # << >>
      BY <1>5 DEF ExtractStream
    <3>2. device.held \in Seq(1 .. MaxHops) /\ Len(device.held) \in Nat
      BY <1>b, LenProperties DEF D
    <3>3. /\ Tail(device.held) \in Seq(1 .. MaxHops)
          /\ Head(device.held) \in 1 .. MaxHops
      <4>1. /\ Tail(device.held) \in Seq(1 .. MaxHops) /\ Head(device.held) \in 1 .. MaxHops
            /\ Len(Tail(device.held)) = Len(device.held) - 1
        BY <3>1, <3>2, HeadTailProperties
      <4>. QED BY <4>1, <3>2, <1>a
    <3>. QED BY <3>1, <3>3, <1>b DEF D
  <2>2. Window'
    <3>1. Head(device.held) \in 0 .. MaxHops /\ window' = Append(Tail(window), Head(device.held))
      BY <1>5, <2>1 DEF ExtractStream
    <3>2. WindowHops \in Nat \ {0} /\ window \in [1 .. WindowHops -> 0 .. MaxHops]
      BY <1>b, Constants DEF Window
    <3>. QED BY <3>1, <3>2, Slide DEF Window
  <2>3. Plot' /\ Scalars'
    BY <1>5, <1>b DEF ExtractStream, Plot
  <2>4. pred' \in A
    BY <1>5, <1>a, <1>b, <2>1 DEF ExtractStream, Control, Loop, Zeros, Activation, A
  <2>5. Activations' /\ Histories'
    BY <1>5, <1>b, <2>4 DEF ExtractStream, Remember
  <2>. QED BY <1>c, <2>1, <2>2, <2>3, <2>5
<1>6. CASE ReadFails \/ NothingExtracted
  <2>1. Device'
    BY <1>6, <1>b DEF ReadFails, NothingExtracted, D
  <2>2. Plot' /\ Window' /\ Activations' /\ Histories'
    BY <1>6, <1>b DEF ReadFails, NothingExtracted, Plot, Window
  <2>3. Scalars'
    BY <1>6, <1>b DEF ReadFails, NothingExtracted
  <2>. QED BY <1>c, <2>1, <2>2, <2>3
<1>7. CASE ExtractRealtime
  <2>1. Plot' /\ Window' /\ Device' /\ Scalars'
    BY <1>7, <1>b DEF ExtractRealtime, Plot, Window
  <2>2. pred' \in A \cup {None}
    BY <1>7, <1>a, <1>b DEF ExtractRealtime, Control, Loop, Zeros, Activation, ChunkHop, A
  <2>3. CASE UNCHANGED network
    BY <1>7, <1>b, <1>c, <2>1, <2>2, <2>3 DEF ExtractRealtime
  <2>4. CASE network' # network
    <3>1. pred' \in A /\ network' = Append(network, pred')
      BY <1>7, <1>a, <1>b, <2>4 DEF ExtractRealtime, Remember, Control, Loop, Zeros, Activation, ChunkHop, A
    <3>. QED BY <1>7, <1>b, <1>c, <2>1, <3>1 DEF ExtractRealtime
  <2>. QED BY <2>3, <2>4
<1>8. CASE Infer \/ InferRaises \/ WorkerInfers
  <2>1. PICK a \in A : Estimate(a)
    <3>1. CASE Infer \/ InferRaises
      <4>1. pred \in A /\ Estimate(pred)
        BY <3>1, <1>b DEF Infer, InferRaises, Turn
      <4>. QED BY <4>1
    <3>2. CASE WorkerInfers
      <4>1. worker \in A /\ Estimate(worker)
        BY <3>2, <1>b DEF WorkerInfers
      <4>. QED BY <4>1
    <3>. QED BY <1>8, <3>1, <3>2
  <2>2. Histories' /\ Plot'
    BY <1>8, <1>b, <2>1, EstimateType DEF A, Infer, InferRaises, WorkerInfers, Plot
  <2>3. Window' /\ Device' /\ Activations'
    BY <1>8, <1>b DEF Infer, InferRaises, WorkerInfers, Window, Turn
  <2>4. Scalars'
    <3>1. UNCHANGED <<config, calls, audio, completed>> /\ counter' \in {counter, counter + 1}
      BY <1>8 DEF Infer, InferRaises, WorkerInfers, Turn
    <3>2. output' \in {output, TRUE} /\ pc' \in {pc, "test", "idle"}
      BY <1>8 DEF Infer, InferRaises, WorkerInfers, Turn
    <3>3. Counters'
      BY <3>1, <1>d
    <3>4. Flags' /\ Places'
      BY <3>1, <3>2, <1>d
    <3>. QED BY <3>3, <3>4
  <2>. QED BY <1>c, <2>2, <2>3, <2>4
<1>9. CASE StartWorker \/ Join
  <2>1. Plot' /\ Window' /\ Device' /\ Activations' /\ Histories'
    BY <1>9, <1>b DEF StartWorker, Join, Plot, Window
  <2>2. Scalars'
    BY <1>9, <1>b DEF StartWorker, Join
  <2>. QED BY <1>c, <2>1, <2>2
<1>11. CASE Capture
  <2>1. Device'
    <3> DEFINE h == IF device.overrun \/ Full THEN << >> ELSE Append(device.held, device.captured + 1)
    <3>1. device.captured \in Nat /\ device.captured + 1 \in 1 .. MaxHops /\ device.held \in Seq(1 .. MaxHops)
          /\ device.overrun \in BOOLEAN
      BY <1>11, <1>b, <1>a DEF Capture, D
    <3>2. h \in Seq(1 .. MaxHops)
      <4>1. << >> \in Seq(1 .. MaxHops) /\ Append(device.held, device.captured + 1) \in Seq(1 .. MaxHops)
        BY <3>1, AppendProperties
      <4>. QED BY <4>1
    <3>3. device' = [active |-> TRUE, captured |-> device.captured + 1, held |-> h,
                     overrun |-> device.overrun \/ Full]
      BY <1>11 DEF Capture
    <3>4. (device.overrun \/ Full) \in BOOLEAN
      BY <3>1 DEF Full
    <3>. HIDE DEF h
    <3>. QED BY <3>1, <3>2, <3>3, <3>4 DEF D
  <2>2. Plot' /\ Window' /\ Activations' /\ Histories'
    BY <1>11, <1>b DEF Capture, Plot, Window
  <2>3. Scalars'
    BY <1>11, <1>b DEF Capture
  <2>. QED BY <1>c, <2>1, <2>2, <2>3
<1>12. CASE StopDevice
  <2>1. Device'
    BY <1>12, <1>b DEF StopDevice, D
  <2>2. Plot' /\ Window' /\ Activations' /\ Histories'
    BY <1>12, <1>b DEF StopDevice, Plot, Window
  <2>3. Scalars'
    BY <1>12, <1>b DEF StopDevice
  <2>. QED BY <1>c, <2>1, <2>2, <2>3
<1>13. CASE UNCHANGED vars
  BY <1>13 DEF vars, TypeOK
<1>. QED BY <1>1, <1>2, <1>3, <1>4, <1>5, <1>6, <1>7, <1>8, <1>9, <1>11, <1>12, <1>13
         DEF Next, Caller, MainThread

-----------------------------------------------------------------------------
\* A queue of consecutive numbers up to c, before and after a read or a capture.
Consecutive(s, c) == \A j \in 1 .. Len(s) : s[j] = c - Len(s) + j

LEMMA ReadOne ==
    ASSUME NEW s \in Seq(Nat), NEW c \in Nat, Consecutive(s, c), s # << >>
    PROVE  /\ Consecutive(Tail(s), c) /\ Len(Tail(s)) = Len(s) - 1
           /\ Head(s) = c - Len(s) + 1
<1>1. Len(s) \in Nat \ {0} /\ Head(s) = s[1]
  BY HeadTailProperties, LenProperties
<1>2. Len(Tail(s)) = Len(s) - 1 /\ \A j \in 1 .. Len(s) - 1 : Tail(s)[j] = s[j + 1]
  BY HeadTailProperties
<1>. QED BY <1>1, <1>2 DEF Consecutive

LEMMA HoldOne ==
    ASSUME NEW s \in Seq(Nat), NEW c \in Nat, Consecutive(s, c)
    PROVE  Consecutive(Append(s, c + 1), c + 1)
<1>1. Len(s) \in Nat
  BY LenProperties
<1>2. /\ Len(Append(s, c + 1)) = Len(s) + 1 /\ Append(s, c + 1)[Len(s) + 1] = c + 1
      /\ \A j \in 1 .. Len(s) : Append(s, c + 1)[j] = s[j]
  BY AppendProperties
<1>. QED BY <1>1, <1>2 DEF Consecutive

LEMMA HeldType ==
    ASSUME TypeOK
    PROVE  device.held \in Seq(Nat) /\ device.captured \in Nat /\ Len(device.held) \in Nat
<1>1. device.held \in Seq(1 .. MaxHops) /\ device.captured \in Nat
  BY HandlerAssumption DEF TypeOK
<1>2. Len(device.held) \in Nat /\ device.held \in [1 .. Len(device.held) -> 1 .. MaxHops]
  BY <1>1, LenProperties
<1>3. device.held \in [1 .. Len(device.held) -> Nat]
  BY <1>2
<1>. QED BY <1>1, <1>2, <1>3, SeqDef

LEMMA DeviceStep == TypeOK /\ DeviceHolds /\ [Next]_vars => DeviceHolds'
<1> SUFFICES ASSUME TypeOK, DeviceHolds, [Next]_vars PROVE DeviceHolds'
  OBVIOUS
<1> USE DEF loop, control, streaming, estimator, End, Enter
<1>0. device.held \in Seq(Nat) /\ device.captured \in Nat /\ Consecutive(device.held, device.captured)
  BY HeldType DEF DeviceHolds, Consecutive
<1>1. CASE UNCHANGED <<device.captured, device.held>> /\ device'.overrun \in {device.overrun, FALSE}
  BY <1>1 DEF DeviceHolds
<1>2. ASSUME device.held # << >>, device' = [device EXCEPT !.held = Tail(@)]
      PROVE  DeviceHolds'
  <2>1. device'.held = Tail(device.held) /\ device'.captured = device.captured /\ device'.overrun = device.overrun
    BY <1>2 DEF TypeOK
  <2>2. Consecutive(device'.held, device'.captured)
    BY <1>0, <1>2, <2>1, ReadOne
  <2>3. ~device'.overrun
    BY <1>2, <2>1 DEF DeviceHolds
  <2>. QED BY <2>2, <2>3 DEF DeviceHolds, Consecutive
<1>3. CASE Capture
  <2>1. CASE device.overrun \/ Full
    <3>1. device'.held = << >>
      BY <1>3, <2>1 DEF Capture
    <3>. QED BY <3>1 DEF DeviceHolds
  <2>2. CASE ~(device.overrun \/ Full)
    <3>1. device'.held = Append(device.held, device.captured + 1) /\ device'.captured = device.captured + 1
          /\ ~device'.overrun
      BY <1>3, <2>2 DEF Capture
    <3>2. Consecutive(device'.held, device'.captured)
      BY <1>0, <3>1, HoldOne
    <3>. QED BY <3>1, <3>2 DEF DeviceHolds, Consecutive
  <2>. QED BY <2>1, <2>2
<1>4. CASE Next /\ ~Capture
  <2>1. CASE ExtractStream
    <3>1. device' = [device EXCEPT !.held = Tail(@)] /\ device.held # << >>
      BY <2>1 DEF ExtractStream
    <3>. QED BY <1>2, <3>1 DEF TypeOK
  <2>2. ASSUME NEW c \in Configurations, Construct(c)
        PROVE  UNCHANGED <<device.captured, device.held, device.overrun>>
    BY <2>2 DEF Construct, TypeOK
  <2>3. CASE ReadFails \/ StopDevice
    BY <2>3, <1>1 DEF ReadFails, StopDevice, TypeOK
  <2>4. ASSUME NEW a \in Audios \cup {None}, ProcessRealtime(a) \/ ProcessOnline(a) \/ ProcessOffline(a)
        PROVE  UNCHANGED device
    BY <2>4 DEF ProcessRealtime, ProcessOnline, ProcessOffline, ExtractNothing
  <2>5. CASE ProcessStream \/ ProcessUnknown
    BY <2>5, <1>1 DEF ProcessStream, ProcessUnknown
  <2>6. CASE MainThread /\ ~ExtractStream /\ ~ReadFails
    BY <2>6, <1>1 DEF MainThread, TestStream, TestRealtime, ExtractRealtime, Infer, InferRaises,
                      StartWorker, Join, NothingExtracted
  <2>7. CASE WorkerInfers
    BY <2>7, <1>1 DEF WorkerInfers
  <2>. QED BY <1>1, <1>4, <2>1, <2>2, <2>3, <2>4, <2>5, <2>6, <2>7 DEF Next, Caller, MainThread
<1>5. CASE UNCHANGED vars
  BY <1>1, <1>5 DEF vars
<1>. QED BY <1>3, <1>4, <1>5

-----------------------------------------------------------------------------
(***************************************************************************)
(* What a step does to the histories: the object is built, a call begins,  *)
(* a turn's activation is extracted, a track is completed, an activation   *)
(* is estimated, or none of these.                                         *)
(***************************************************************************)
Acts == [call : Nat, hop : Nat]
Frame(c, k) == [call |-> c, hop |-> k]
Track(c, n) == [k \in 1 .. n |-> Frame(c, k - 1)]

Built == /\ pc = "new" /\ pc' \in {"new", "idle"}
         /\ UNCHANGED <<calls, pred, worker, network, fed, shown>>

Called ==
    /\ pc = "idle" /\ pc' \in {"idle", "test"} /\ calls' = calls + 1
    /\ UNCHANGED <<config, pred, worker, shown, window, device>>
    /\ pc' = "test" => counter' = 0 /\ ~completed'
    /\ \/ UNCHANGED <<network, fed>>
       \/ /\ ~Chunked
          /\ \E m \in Nat, n \in Nat : /\ n <= m
                                      /\ network' = network \o Track(calls', m)
                                      /\ fed' \in {fed, fed \o Track(calls', n)}

TurnExtracted ==
    /\ pc = "extract" /\ pc' = "infer" /\ ~completed /\ ~completed' /\ worker = None /\ worker' = None
    /\ UNCHANGED <<config, calls, counter, fed, shown>>
    /\ pred' = [call |-> calls, hop |-> HopOf(counter)']
    /\ Remember(pred')
    /\ counter > 0 => HopOf(counter - 1)' = HopOf(counter - 1)
    /\ HopOf(counter)' \in Nat /\ (HopOf(counter)' = 0 <=> counter < Warm)
    /\ counter > Warm => HopOf(counter)' = HopOf(counter - 1) + 1

Completes ==
    /\ pc = "extract" /\ pc' = "infer" /\ completed' /\ worker = None /\ worker' = None
    /\ UNCHANGED <<config, calls, counter, pred, network, fed, shown>>

TurnEstimated ==
    /\ Pending /\ ~Pending' /\ pred # None /\ Estimate(pred)
    /\ UNCHANGED <<config, calls, completed, pred, network, window>>
    /\ Loop' => Extracted' = Extracted /\ Estimated' = counter + 1
    /\ Estimated = counter /\ Extracted = counter + 1 /\ Loop

Quiet ==
    /\ UNCHANGED <<config, calls, completed, pred, network, fed, shown, window>>
    /\ Loop' => Loop /\ Extracted' = Extracted /\ Estimated' = Estimated
    /\ Pending' => Pending /\ counter' = counter
    /\ Pending /\ ~Pending' => pred = None

LEMMA StreamTurn ==
    ASSUME TypeOK, Control, DeviceHolds, WindowFollows, ExtractStream
    PROVE  TurnExtracted /\ WindowFollows'
<1> USE DEF loop, streaming, estimator
<1>1. /\ pc = "extract" /\ pc' = "infer" /\ config.mode = "stream" /\ config' = config
      /\ UNCHANGED <<calls, counter, completed, worker, fed, shown>>
      /\ ~device.overrun /\ device.held # << >>
      /\ device' = [device EXCEPT !.held = Tail(@)]
      /\ window' = Append(Tail(window), Head(device.held))
  BY DEF ExtractStream
<1>2. ~completed /\ worker = None
  BY <1>1 DEF Control, EstimatorExclusive
<1>3. counter \in Nat /\ window \in [1 .. 6 -> Nat]
  BY HandlerAssumption, Constants DEF TypeOK
<1> DEFINE x == Head(device.held)
           c == device.captured - Len(device.held)
<1>4. x = c + 1 /\ x \in Nat \ {0}
  <2>1. Consecutive(device.held, device.captured) /\ device.held # << >>
    BY <1>1 DEF DeviceHolds, Consecutive
  <2>2. x = device.captured - Len(device.held) + 1
    BY <2>1, HeldType, ReadOne
  <2>3. x \in 1 .. MaxHops
    BY <1>1, HeadTailProperties DEF TypeOK
  <2>. QED BY <2>2, <2>3, HeldType
<1>5. device'.captured - Len(device'.held) = x
  <2>1. device'.held = Tail(device.held) /\ device'.captured = device.captured
    BY <1>1 DEF TypeOK
  <2>2. Len(Tail(device.held)) = Len(device.held) - 1
    BY <1>1, HeldType, HeadTailProperties
  <2>. QED BY <1>4, <2>1, <2>2, HeldType
<1>6. window' \in [1 .. 6 -> Nat] /\ window'[6] = x /\ \A i \in 1 .. 5 : window'[i] = window[i + 1]
  <2>1. x \in Nat
    BY <1>4
  <2>. HIDE DEF x
  <2>2. WindowHops \in Nat \ {0} /\ window \in [1 .. WindowHops -> Nat]
    BY <1>3, Constants
  <2>3. window' = Append(Tail(window), x)
    BY <1>1 DEF x
  <2>4. /\ window' \in [1 .. WindowHops -> Nat] /\ window'[WindowHops] = x
        /\ \A i \in 1 .. WindowHops - 1 : window'[i] = window[i + 1]
    <3>1. window' \in [1 .. WindowHops -> Nat]
      BY <2>1, <2>2, <2>3, Slide
    <3>2. window'[WindowHops] = x
      BY <2>1, <2>2, <2>3, Slide
    <3>3. \A i \in 1 .. WindowHops - 1 : window'[i] = window[i + 1]
      BY <2>1, <2>2, <2>3, Slide
    <3>. QED BY <3>1, <3>2, <3>3
  <2>. QED BY <2>4, Constants
<1>7. Extracted = counter /\ Extracted' = counter + 1 /\ Loop /\ Loop'
  BY <1>1 DEF Extracted, Loop
<1>8. /\ \A i \in 1 .. 6 : i > 6 - counter => window[i] > 0
      /\ \A i \in 2 .. 6 : i > 6 - counter + 1 => window[i] = window[i - 1] + 1
      /\ counter > 0 => window[6] = c
  BY <1>1, <1>7, Constants DEF WindowFollows
<1> HIDE DEF x, c
<1>9. WindowFollows'
  <2>1. ASSUME NEW i \in 1 .. 6, i > 6 - (counter + 1) PROVE window'[i] > 0
    <3>1. CASE i = 6
      BY <1>4, <1>6, <3>1
    <3>2. CASE i < 6
      BY <1>3, <1>6, <1>8, <2>1, <3>2
    <3>. QED BY <3>1, <3>2
  <2>2. ASSUME NEW i \in 2 .. 6, i > 6 - (counter + 1) + 1 PROVE window'[i] = window'[i - 1] + 1
    <3>1. CASE i = 6
      <4>1. window'[5] = window[6] /\ counter > 0
        BY <1>3, <1>6, <2>2, <3>1
      <4>. QED BY <1>4, <1>6, <1>8, <3>1, <4>1
    <3>2. CASE i < 6
      <4>1. window'[i] = window[i + 1] /\ window'[i - 1] = window[i]
        BY <1>6, <3>2
      <4>. QED BY <1>3, <1>8, <2>2, <3>2, <4>1
    <3>. QED BY <3>1, <3>2
  <2>. QED BY <1>5, <1>6, <1>7, <2>1, <2>2, Constants DEF WindowFollows
<1>10. HopOf(counter)' = IF counter < 5 THEN 0 ELSE x
  <2>1. HopOf(counter)' = IF counter < 5 THEN 0 ELSE window'[6] - (counter + 1 - 1 - counter)
    BY <1>1, <1>3, Constants DEF HopOf, Warm, Extracted
  <2>. QED BY <2>1, <1>3, <1>4, <1>6
<1>11. counter > 0 => /\ HopOf(counter - 1) = IF counter - 1 < 5 THEN 0 ELSE window[6]
                      /\ HopOf(counter - 1)' = IF counter - 1 < 5 THEN 0 ELSE x - 1
  <2>1. /\ HopOf(counter - 1) = IF counter - 1 < 5 THEN 0 ELSE window[6] - (counter - 1 - (counter - 1))
        /\ HopOf(counter - 1)' = IF counter - 1 < 5 THEN 0 ELSE window'[6] - (counter + 1 - 1 - (counter - 1))
    BY <1>1, <1>3, Constants DEF HopOf, Warm, Extracted
  <2>. QED BY <2>1, <1>3, <1>4, <1>6
<1>12. counter > 0 => x = window[6] + 1
  BY <1>4, <1>8
<1>13. pred' = [call |-> calls, hop |-> HopOf(counter)'] /\ Remember(pred')
  BY <1>1, <1>10 DEF ExtractStream, StreamWarm, Zeros, Activation, x
<1>14. window[6] \in Nat /\ Warm = 5
  BY <1>1, <1>3 DEF Warm
<1>15. /\ counter > 0 => HopOf(counter - 1)' = HopOf(counter - 1)
       /\ HopOf(counter)' \in Nat /\ (HopOf(counter)' = 0 <=> counter < Warm)
       /\ counter > Warm => HopOf(counter)' = HopOf(counter - 1) + 1
  BY <1>3, <1>4, <1>10, <1>11, <1>12, <1>14
<1>. QED BY <1>1, <1>2, <1>9, <1>13, <1>15 DEF TurnExtracted

LEMMA RealtimeTurn ==
    ASSUME TypeOK, Control, ExtractRealtime
    PROVE  TurnExtracted \/ Completes
<1> USE DEF loop, streaming, estimator
<1>1. /\ pc = "extract" /\ pc' = "infer" /\ config.mode = "realtime" /\ config' = config
      /\ UNCHANGED <<calls, counter, worker, fed, shown>>
  BY DEF ExtractRealtime
<1>2. ~completed /\ worker = None /\ counter \in Nat
  BY <1>1 DEF Control, EstimatorExclusive, TypeOK
<1>5. RealtimeFrames(audio) \in Int
  <2>1. audio \in Nat
    BY HandlerAssumption DEF TypeOK
  <2>. QED BY <2>1, Constants, Z3 DEF RealtimeFrames
<1>3. CASE counter < RealtimeFrames(audio)
  <2>2. /\ pred' = [call |-> calls, hop |-> IF counter < 2 THEN 0 ELSE counter + 1]
        /\ Remember(pred') /\ ~completed'
    <3>1. pred' = (IF counter < 2 THEN Zeros ELSE Activation(ChunkHop)) /\ Remember(pred') /\ completed' = completed
      BY <1>2, <1>3, <1>5 DEF ExtractRealtime
    <3>2. ChunkHop = counter + 1
      BY <1>2 DEF ChunkHop
    <3>. QED BY <1>1, <1>2, <3>1, <3>2 DEF Zeros, Activation
  <2>3. HopOf(counter)' = IF counter < 2 THEN 0 ELSE counter + 1
    BY <1>1, <1>2 DEF HopOf, Warm
  <2>4. Warm = 2 /\ (counter > 0 => /\ HopOf(counter - 1)' = HopOf(counter - 1)
                                   /\ HopOf(counter - 1) = IF counter - 1 < 2 THEN 0 ELSE counter)
    BY <1>1, <1>2 DEF HopOf, Warm
  <2>. QED BY <1>1, <1>2, <2>2, <2>3, <2>4 DEF TurnExtracted
<1>4. CASE ~(counter < RealtimeFrames(audio))
  BY <1>1, <1>2, <1>4 DEF ExtractRealtime, Completes
<1>. QED BY <1>3, <1>4

LEMMA TrackProperties ==
    ASSUME NEW c, NEW m \in Nat
    PROVE  /\ Track(c, m) \in Seq({Frame(c, k - 1) : k \in 1 .. m}) /\ Len(Track(c, m)) = m
           /\ \A k \in 1 .. m : Track(c, m)[k] = Frame(c, k - 1)
<1> DEFINE A == {Frame(c, k - 1) : k \in 1 .. m}
<1>1. Track(c, m) \in [1 .. m -> A]
  BY DEF Track
<1> HIDE DEF A
<1>2. Track(c, m) \in Seq(A)
  BY <1>1, SeqDef
<1>3. Len(Track(c, m)) \in Nat /\ 1 .. Len(Track(c, m)) = 1 .. m
  BY <1>1, <1>2, LenProperties
<1>4. Len(Track(c, m)) = m
  BY <1>3
<1>. QED BY <1>2, <1>4 DEF A, Track

LEMMA Prefix ==
    ASSUME NEW c, NEW m \in Nat, NEW n \in 1 .. m
    PROVE  SubSeq(Track(c, m), 1, n) = Track(c, n)
<1> DEFINE A == {Frame(c, k - 1) : k \in 1 .. m}
           s == SubSeq(Track(c, m), 1, n)
<1>1. Track(c, m) \in Seq(A) /\ Len(Track(c, m)) = m /\ \A k \in 1 .. m : Track(c, m)[k] = Frame(c, k - 1)
  BY TrackProperties
<1> HIDE DEF A
<1>2. s \in Seq(A) /\ Len(s) = n /\ \A k \in 1 .. n : s[k] = Track(c, m)[k]
  BY <1>1, SubSeqProperties
<1> HIDE DEF s
<1>3. s \in [1 .. n -> A] /\ \A k \in 1 .. n : s[k] = Frame(c, k - 1)
  BY <1>1, <1>2, LenProperties
<1>. QED BY <1>3 DEF Track, s

LEMMA CalledSteps ==
    ASSUME TypeOK, Control,
           ProcessStream \/ ProcessUnknown
             \/ \E a \in Audios \cup {None} : ProcessRealtime(a) \/ ProcessOnline(a) \/ ProcessOffline(a)
    PROVE  Called
<1> USE DEF End, Enter, loop, streaming, estimator
<1>1. CASE ProcessStream \/ ProcessUnknown
  BY <1>1 DEF ProcessStream, ProcessUnknown, Called, Control
<1>2. ASSUME NEW a \in Audios \cup {None}, ProcessRealtime(a)
      PROVE  Called
  BY <1>2 DEF ProcessRealtime, Called
<1>3. ASSUME NEW a \in Audios \cup {None}, ProcessOnline(a) \/ ProcessOffline(a)
      PROVE  Called
  <2>1. /\ pc = "idle" /\ pc' = "idle" /\ calls' = calls + 1
        /\ UNCHANGED <<config, pred, worker, shown, window, device>> /\ ~Chunked
    BY <1>3 DEF ProcessOnline, ProcessOffline, ExtractNothing, Chunked
  <2>2. CASE UNCHANGED <<network, fed>>
    BY <2>1, <2>2 DEF Called
  <2>3. ASSUME ExtractOnline(a)
        PROVE  OnlineFrames(a) \in Nat /\ network' = network \o Track(calls', OnlineFrames(a))
    <3>1. a \in Nat /\ network' = network \o Frames(a)
      BY <2>3, HandlerAssumption DEF ExtractOnline
    <3>2. OnlineFrames(a) \in Nat
      BY <3>1, Constants, Z3 DEF OnlineFrames
    <3>. QED BY <3>1, <3>2 DEF Frames, Track, Frame, Activation
  <2>4. CASE ExtractOnline(a) /\ fed' \in {fed, fed \o Track(calls', OnlineFrames(a))}
    <3> DEFINE m == OnlineFrames(a)
    <3>1. m \in Nat /\ m <= m /\ network' = network \o Track(calls', m) /\ fed' \in {fed, fed \o Track(calls', m)}
      BY <2>3, <2>4
    <3>. HIDE DEF m
    <3>. QED BY <2>1, <3>1 DEF Called
  <2>5. ASSUME ExtractOnline(a), NEW n \in DOMAIN Frames(a), fed' = fed \o SubSeq(Frames(a), 1, n)
        PROVE  Called
    <3>1. n \in Nat /\ n <= OnlineFrames(a)
      BY <2>3, <2>5 DEF Frames
    <3>2. SubSeq(Frames(a), 1, n) = Track(calls', n)
      <4>1. Frames(a) = Track(calls', OnlineFrames(a)) /\ OnlineFrames(a) \in Nat /\ n \in 1 .. OnlineFrames(a)
        BY <2>3, <2>5 DEF Frames, Track, Frame, Activation
      <4>. QED BY <4>1, Prefix
    <3>. QED BY <2>1, <2>3, <2>5, <3>1, <3>2 DEF Called
  <2>. QED BY <1>3, <2>2, <2>4, <2>3, <2>5 DEF ProcessOnline, ProcessOffline, ExtractNothing, Frames, Track, Frame, Activation
<1>. QED BY <1>1, <1>2, <1>3

LEMMA EstimatedSteps ==
    ASSUME TypeOK, Control, Infer \/ InferRaises \/ WorkerInfers
    PROVE  TurnEstimated
<1> USE DEF End, Turn, loop, control, streaming, estimator, TurnEstimated, Pending, Loop, Extracted, Estimated
<1>1. CASE Infer
  <2>1. worker = None /\ counter \in Nat
    BY <1>1 DEF Infer, Control, EstimatorExclusive, TypeOK
  <2>. QED BY <1>1, <2>1 DEF Infer
<1>2. CASE InferRaises
  <2>1. worker = None /\ counter \in Nat
    BY <1>2 DEF InferRaises, Control, EstimatorExclusive, TypeOK
  <2>. QED BY <1>2, <2>1 DEF InferRaises
<1>3. CASE WorkerInfers
  <2>1. pc = "join" /\ worker = pred /\ counter \in Nat
    BY <1>3 DEF WorkerInfers, Control, EstimatorExclusive, TypeOK
  <2>. QED BY <1>3, <2>1 DEF WorkerInfers
<1>. QED BY <1>1, <1>2, <1>3

LEMMA QuietSteps ==
    ASSUME TypeOK, Control,
           \/ TestStream \/ TestRealtime \/ ReadFails \/ StartWorker \/ Join \/ NothingExtracted
           \/ Capture \/ StopDevice \/ UNCHANGED vars
    PROVE  Quiet
<1> USE DEF End, loop, control, streaming, estimator, Quiet, Pending, Loop, Extracted, Estimated
<1>0. counter \in Nat /\ (worker # None => pc = "join")
  BY DEF TypeOK, Control, EstimatorExclusive
<1>1. CASE TestStream \/ TestRealtime \/ ReadFails
  BY <1>0, <1>1 DEF TestStream, TestRealtime, ReadFails
<1>2. CASE StartWorker \/ Join \/ NothingExtracted
  BY <1>0, <1>2 DEF StartWorker, Join, NothingExtracted, WorkerDone
<1>3. CASE Capture \/ StopDevice
  BY <1>0, <1>3 DEF Capture, StopDevice
<1>4. CASE UNCHANGED vars
  BY <1>0, <1>4 DEF vars
<1>. QED BY <1>1, <1>2, <1>3, <1>4

LEMMA Kinds ==
    ASSUME TypeOK, Control, DeviceHolds, WindowFollows, [Next]_vars
    PROVE  Built \/ Called \/ TurnExtracted \/ Completes \/ TurnEstimated \/ Quiet
<1>1. ASSUME NEW c \in Configurations, Construct(c) PROVE Built
  BY <1>1 DEF Construct, Built, estimator
<1>. QED BY <1>1, CalledSteps, StreamTurn, RealtimeTurn, EstimatedSteps, QuietSteps
         DEF Next, Caller, MainThread

LEMMA WindowStep == TypeOK /\ Control /\ DeviceHolds /\ WindowFollows /\ [Next]_vars => WindowFollows'
<1> SUFFICES ASSUME TypeOK, Control, DeviceHolds, WindowFollows, [Next]_vars PROVE WindowFollows'
  OBVIOUS
<1> USE DEF loop, control, streaming, estimator, End
<1>1. CASE Built
  BY <1>1 DEF Built, WindowFollows, Loop
<1>2. CASE Called
  <2>1. Loop' => Extracted' = 0
    BY <1>2 DEF Called, Loop, Extracted
  <2>. QED BY <2>1, Constants DEF WindowFollows
<1>3. CASE ReadFails
  BY <1>3 DEF ReadFails, WindowFollows, Loop
<1>4. CASE Capture
  <2>1. UNCHANGED <<Loop, Extracted, window, config>>
    BY <1>4 DEF Capture, Loop, Extracted
  <2>2. ~device'.overrun =>
            /\ ~device.overrun /\ device'.captured = device.captured + 1
            /\ device'.held = Append(device.held, device.captured + 1)
    BY <1>4 DEF Capture
  <2>3. ~device'.overrun => device'.captured - Len(device'.held) = device.captured - Len(device.held)
    BY <2>2, HeldType, AppendProperties
  <2>. QED BY <2>1, <2>2, <2>3 DEF WindowFollows
<1>5. CASE Quiet /\ device'.held = device.held /\ device'.captured = device.captured /\ device'.overrun = device.overrun
  BY <1>5 DEF Quiet, WindowFollows
<1>6. CASE TurnEstimated /\ UNCHANGED device
  BY <1>6 DEF TurnEstimated, WindowFollows
<1>7. CASE config.mode = "realtime" /\ config' = config
  BY <1>7 DEF WindowFollows
<1>8. ASSUME NEW c \in Configurations, Construct(c) PROVE Built
  BY <1>8 DEF Construct, Built, estimator
<1>9. CASE TestStream \/ TestRealtime \/ StartWorker \/ Join \/ NothingExtracted \/ UNCHANGED vars
  BY <1>5, <1>9, QuietSteps DEF TestStream, TestRealtime, StartWorker, Join, NothingExtracted, vars
<1>10. CASE Infer \/ InferRaises \/ WorkerInfers
  BY <1>6, <1>10, EstimatedSteps DEF Infer, InferRaises, WorkerInfers
<1>11. CASE StopDevice
  <2>1. device'.held = device.held /\ device'.captured = device.captured /\ device'.overrun = device.overrun
    BY <1>11 DEF StopDevice, TypeOK
  <2>. QED BY <1>5, <1>11, <2>1, QuietSteps
<1>12. CASE ExtractRealtime
  BY <1>7, <1>12 DEF ExtractRealtime
<1>. QED BY <1>1, <1>2, <1>3, <1>4, <1>8, <1>9, <1>10, <1>11, <1>12, CalledSteps, StreamTurn
         DEF Next, Caller, MainThread

-----------------------------------------------------------------------------
LEMMA HopsKept ==
    ASSUME Quiet \/ TurnEstimated, Loop', NEW t \in Int
    PROVE  HopOf(t)' = HopOf(t)
BY DEF Quiet, TurnEstimated, HopOf, Warm

LEMMA PredStep ==
    TypeOK /\ Control /\ DeviceHolds /\ WindowFollows /\ PredOfTurn /\ [Next]_vars => PredOfTurn'
<1> SUFFICES ASSUME TypeOK, Control, DeviceHolds, WindowFollows, PredOfTurn, [Next]_vars,
                    Loop', Pending', ~completed'
             PROVE  pred' = [call |-> calls', hop |-> HopOf(counter)']
  BY DEF PredOfTurn
<1>1. ~Built /\ ~Called /\ ~Completes /\ ~TurnEstimated
  BY DEF Built, Called, Completes, TurnEstimated, Loop, Pending, Control, EstimatorExclusive
<1>2. CASE TurnExtracted
  BY <1>2 DEF TurnExtracted
<1>3. CASE Quiet
  <2>1. pred' = [call |-> calls, hop |-> HopOf(counter)] /\ calls' = calls /\ counter' = counter
    BY <1>3 DEF Quiet, PredOfTurn
  <2>2. counter \in Int
    BY DEF TypeOK
  <2>3. HopOf(counter)' = HopOf(counter)
    BY <1>3, <2>1 DEF Quiet, HopOf, Warm
  <2>. QED BY <2>1, <2>3
<1>. QED BY <1>1, <1>2, <1>3, Kinds

\* The activation that gets estimated repeats the last one or goes on from it.
LEMMA EstimatedFollows ==
    ASSUME TypeOK, Control, PredOfTurn, FedLast, TurnEstimated
    PROVE  \/ completed /\ fed # << >> /\ fed[Len(fed)] = pred
           \/ /\ ~completed /\ pred = [call |-> calls, hop |-> HopOf(counter)]
              /\ \/ \A k \in DOMAIN fed : fed[k].call < calls
                 \/ /\ fed # << >> /\ fed[Len(fed)].call = calls
                    /\ fed[Len(fed)].hop > 0 => pred.hop = fed[Len(fed)].hop + 1
<1>1. Loop /\ Pending /\ pred # None /\ Estimated = counter /\ Extracted = counter + 1 /\ Chunked
  BY DEF TurnEstimated, Control
<1>2. CASE completed
  BY <1>1, <1>2 DEF FedLast
<1>3. CASE ~completed
  <2>1. pred = [call |-> calls, hop |-> HopOf(counter)]
    BY <1>1, <1>3 DEF PredOfTurn
  <2>2. CASE counter = 0
    BY <1>1, <1>3, <2>1, <2>2 DEF FedLast
  <2>3. CASE counter # 0
    <3>1. fed # << >> /\ fed[Len(fed)] = [call |-> calls, hop |-> HopOf(counter - 1)]
      BY <1>1, <1>3, <2>3 DEF FedLast
    <3>2. counter \in Nat /\ window[6] \in Int
      BY HandlerAssumption, Constants DEF TypeOK
    <3>3. HopOf(counter - 1) > 0 => HopOf(counter) = HopOf(counter - 1) + 1
      BY <1>1, <3>2, Constants DEF HopOf, Warm
    <3>. QED BY <1>3, <2>1, <3>1, <3>3
  <2>. QED BY <2>2, <2>3
<1>. QED BY <1>2, <1>3

\* v is s and then a.
Grown(v, s, a) ==
    /\ Len(s) \in Nat /\ Len(v) = Len(s) + 1 /\ v # << >> /\ v[Len(v)] = a
    /\ DOMAIN s = 1 .. Len(s) /\ DOMAIN v = 1 .. Len(v)
    /\ \A k \in 1 .. Len(v) : v[k] = IF k = Len(s) + 1 THEN a ELSE s[k]
    /\ ToSet(v) = ToSet(s) \cup {a}

LEMMA Grows ==
    ASSUME NEW s \in Seq(Acts), NEW a \in Acts
    PROVE  Grown(Append(s, a), s, a)
<1> DEFINE v == Append(s, a)
<1>1. Len(s) \in Nat /\ DOMAIN s = 1 .. Len(s)
  BY LenProperties
<1>2. v \in Seq(Acts) /\ Len(v) = Len(s) + 1 /\ v[Len(s) + 1] = a /\ \A k \in 1 .. Len(s) : v[k] = s[k]
  BY AppendProperties
<1> HIDE DEF v
<1>3. DOMAIN v = 1 .. Len(v) /\ v # << >>
  BY <1>1, <1>2, LenProperties
<1>4. \A k \in 1 .. Len(v) : v[k] = IF k = Len(s) + 1 THEN a ELSE s[k]
  BY <1>1, <1>2
<1>5. ToSet(v) = ToSet(s) \cup {a}
  BY <1>1, <1>2, <1>3, <1>4 DEF ToSet
<1>6. Grown(v, s, a)
  BY <1>1, <1>2, <1>3, <1>4, <1>5 DEF Grown
<1>. QED BY <1>6 DEF v

LEMMA TrackType ==
    ASSUME NEW c \in Nat, NEW n \in Nat
    PROVE  Track(c, n) \in Seq(Acts) /\ Len(Track(c, n)) = n
<1>1. Track(c, n) \in [1 .. n -> Acts]
  BY DEF Track, Frame, Acts
<1>2. Track(c, n) \in Seq(Acts)
  BY <1>1, SeqDef
<1>. QED BY <1>2, TrackProperties

\* v is s and then the first n hops of call c.
Extends(v, s, c, n) ==
    /\ v \in Seq(Acts) /\ Len(s) \in Nat /\ Len(v) = Len(s) + n
    /\ DOMAIN s = 1 .. Len(s) /\ DOMAIN v = 1 .. Len(v)
    /\ \A k \in 1 .. Len(v) : v[k] = IF k <= Len(s) THEN s[k] ELSE Frame(c, k - Len(s) - 1)

LEMMA Tracked ==
    ASSUME NEW c \in Nat, NEW s \in Seq(Acts), NEW n \in Nat
    PROVE  Extends(s \o Track(c, n), s, c, n)
<1> DEFINE A == {Frame(c, k - 1) : k \in 1 .. n}
           v == s \o Track(c, n)
<1>1. Len(s) \in Nat
  BY LenProperties
<1>2. Track(c, n) \in Seq(A) /\ Len(Track(c, n)) = n /\ \A k \in 1 .. n : Track(c, n)[k] = Frame(c, k - 1)
  BY TrackProperties
<1>3. Track(c, n) \in Seq(Acts)
  BY TrackType
<1> HIDE DEF A
<1>4. /\ v \in Seq(Acts) /\ Len(v) = Len(s) + n
      /\ \A k \in 1 .. Len(s) + n : v[k] = IF k <= Len(s) THEN s[k] ELSE Track(c, n)[k - Len(s)]
  BY <1>2, <1>3, ConcatProperties
<1> HIDE DEF v
<1>5. \A k \in 1 .. Len(v) : v[k] = IF k <= Len(s) THEN s[k] ELSE Frame(c, k - Len(s) - 1)
  BY <1>1, <1>2, <1>4
<1>6. DOMAIN s = 1 .. Len(s) /\ DOMAIN v = 1 .. Len(v)
  BY <1>4, LenProperties
<1>7. Extends(v, s, c, n)
  BY <1>1, <1>4, <1>5, <1>6 DEF Extends
<1>. QED BY <1>7 DEF v

LEMMA TrackedSet ==
    ASSUME NEW c \in Nat, NEW s \in Seq(Acts), NEW n \in Nat, NEW v, Extends(v, s, c, n)
    PROVE  ToSet(v) = ToSet(s) \cup {Frame(c, k) : k \in 0 .. n - 1}
<1>1. /\ Len(s) \in Nat /\ Len(v) = Len(s) + n
      /\ DOMAIN s = 1 .. Len(s) /\ DOMAIN v = 1 .. Len(v)
      /\ \A k \in 1 .. Len(v) : v[k] = IF k <= Len(s) THEN s[k] ELSE Frame(c, k - Len(s) - 1)
  BY DEF Extends
<1>3. ASSUME NEW k \in 1 .. Len(v) PROVE v[k] \in ToSet(s) \cup {Frame(c, i) : i \in 0 .. n - 1}
  <2>1. CASE k <= Len(s)
    BY <1>1, <2>1 DEF ToSet
  <2>2. CASE k > Len(s)
    <3>1. v[k] = Frame(c, k - Len(s) - 1) /\ k - Len(s) - 1 \in 0 .. n - 1
      BY <1>1, <2>2
    <3>. QED BY <3>1
  <2>. QED BY <1>1, <2>1, <2>2
<1>4. ASSUME NEW k \in 1 .. Len(s) PROVE s[k] \in ToSet(v)
  BY <1>1 DEF ToSet
<1>5. ASSUME NEW k \in 0 .. n - 1 PROVE Frame(c, k) \in ToSet(v)
  <2>1. Len(s) + k + 1 \in 1 .. Len(v) /\ Len(s) + k + 1 - Len(s) - 1 = k /\ ~(Len(s) + k + 1 <= Len(s))
    BY <1>1
  <2>2. v[Len(s) + k + 1] = Frame(c, k)
    BY <1>1, <2>1
  <2>. QED BY <1>1, <2>1, <2>2 DEF ToSet
<1>. QED BY <1>1, <1>3, <1>4, <1>5 DEF ToSet

\* The frames of a track come after those of earlier calls.
LEMMA TrackedCalls ==
    ASSUME NEW c \in Nat, NEW s \in Seq(Acts), NEW n \in Nat,
           NEW v, Extends(v, s, c + 1, n), \A k \in DOMAIN s : s[k].call <= c
    PROVE  \A k \in DOMAIN v : v[k].call <= c + 1
<1>1. /\ Len(s) \in Nat /\ DOMAIN s = 1 .. Len(s) /\ DOMAIN v = 1 .. Len(v)
      /\ \A k \in 1 .. Len(v) : v[k] = IF k <= Len(s) THEN s[k] ELSE Frame(c + 1, k - Len(s) - 1)
  BY DEF Extends
<1>3. ASSUME NEW k \in 1 .. Len(v) PROVE v[k].call <= c + 1
  <2>1. CASE k <= Len(s)
    <3>1. v[k] = s[k] /\ k \in 1 .. Len(s)
      BY <1>1, <2>1
    <3>2. s[k] \in Acts
      BY <3>1, ElementOfSeq
    <3>3. s[k].call \in Nat /\ s[k].call <= c
      BY <1>1, <3>1, <3>2 DEF Acts
    <3>. QED BY <3>1, <3>3
  <2>2. CASE ~(k <= Len(s))
    <3>1. v[k] = Frame(c + 1, k - Len(s) - 1)
      BY <1>1, <2>2
    <3>. QED BY <3>1 DEF Frame
  <2>. QED BY <1>1, <2>1, <2>2
<1>. QED BY <1>1, <1>3

-----------------------------------------------------------------------------
\* The typed histories, as the steps below use them.
LEMMA HistoryType ==
    ASSUME TypeOK
    PROVE  /\ network \in Seq(Acts) /\ fed \in Seq(Acts)
           /\ DOMAIN network = 1 .. Len(network) /\ DOMAIN fed = 1 .. Len(fed)
           /\ Len(network) \in Nat /\ Len(fed) \in Nat
           /\ \A k \in 1 .. Len(network) : network[k] \in Acts
           /\ \A k \in 1 .. Len(fed) : fed[k] \in Acts
           /\ calls \in Nat /\ counter \in Nat
           /\ pred # None => pred \in Acts
<1> DEFINE A == [call : 1 .. MaxCalls, hop : Nat]
<1>1. network \in Seq(A) /\ fed \in Seq(A) /\ pred \in A \cup {None} /\ calls \in Nat /\ counter \in Nat
  BY HandlerAssumption DEF TypeOK
<1>2. A \subseteq Acts
  BY DEF Acts
<1> HIDE DEF A
<1>3. ASSUME NEW s \in Seq(A)
      PROVE  /\ s \in Seq(Acts) /\ DOMAIN s = 1 .. Len(s) /\ Len(s) \in Nat
             /\ \A k \in 1 .. Len(s) : s[k] \in Acts
  <2>1. Len(s) \in Nat /\ s \in [1 .. Len(s) -> A]
    BY LenProperties
  <2>2. s \in [1 .. Len(s) -> Acts]
    BY <1>2, <2>1
  <2>. QED BY <2>1, <2>2, SeqDef
<1>. QED BY <1>1, <1>2, <1>3

LEMMA FedStep ==
    /\ TypeOK /\ Control /\ DeviceHolds /\ WindowFollows /\ PredOfTurn /\ FedLast
    /\ [Next]_vars /\ Control'
    => FedLast'
<1> SUFFICES ASSUME TypeOK, Control, DeviceHolds, WindowFollows, PredOfTurn, FedLast, [Next]_vars, Control'
             PROVE  FedLast'
  OBVIOUS
<1> DEFINE LastFed == /\ fed # << >>
                      /\ fed[Len(fed)] = [call |-> calls, hop |-> HopOf(Estimated - 1)]
<1>0. /\ fed \in Seq(Acts) /\ DOMAIN fed = 1 .. Len(fed) /\ Len(fed) \in Nat /\ calls \in Nat /\ counter \in Nat
      /\ pred # None => pred \in Acts
      /\ \A k \in 1 .. Len(fed) : fed[k] \in Acts
  BY HistoryType
<1>a. /\ \A k \in DOMAIN fed : fed[k].call <= calls
      /\ Chunked /\ (completed \/ ~Pending) /\ pred # None => fed # << >> /\ fed[Len(fed)] = pred
      /\ Loop /\ ~completed => IF Estimated = 0 THEN \A k \in DOMAIN fed : fed[k].call < calls ELSE LastFed
  BY DEF FedLast
<1>1. CASE Built
  BY <1>a, <1>1 DEF Built, FedLast, Loop, Control
<1>2. CASE Called
  <2>1. \A k \in DOMAIN fed' : fed'[k].call <= calls'
    <3>1. CASE fed' = fed
      BY <1>0, <1>a, <1>2, <3>1 DEF Called, Acts
    <3>2. ASSUME NEW n \in Nat, fed' = fed \o Track(calls + 1, n)
          PROVE  \A k \in DOMAIN fed' : fed'[k].call <= calls'
      <4>1. calls' = calls + 1
        BY <1>2 DEF Called
      <4>2. \A k \in DOMAIN fed : fed[k].call <= calls
        BY <1>a
      <4>3. Extends(fed', fed, calls + 1, n)
        <5>1. calls + 1 \in Nat
          BY <1>0
        <5>. QED BY <1>0, <3>2, <5>1, Tracked
      <4>. QED BY <1>0, <4>1, <4>2, <4>3, TrackedCalls
    <3>. QED BY <1>2, <3>1, <3>2 DEF Called
  <2>2. ~Pending' /\ ~Pending /\ config' = config /\ pred' = pred
    BY <1>2 DEF Called, Pending, Control, EstimatorExclusive
  <2>3. Chunked' => Chunked /\ fed' = fed
    BY <1>2, <2>2 DEF Called, Chunked
  <2>4. Loop' => /\ Estimated' = 0 /\ Chunked' /\ calls' = calls + 1
    BY <1>2 DEF Called, Loop, Estimated, Control
  <2>5. Loop' => \A k \in DOMAIN fed' : fed'[k].call < calls'
    BY <1>0, <1>a, <2>3, <2>4 DEF Acts
  <2>6. Chunked' /\ pred' # None => fed' # << >> /\ fed'[Len(fed')] = pred'
    BY <1>a, <2>2, <2>3
  <2>. QED BY <2>1, <2>4, <2>5, <2>6 DEF FedLast
<1>3. CASE TurnExtracted
  <2>1. /\ UNCHANGED <<calls, fed, counter>> /\ Pending' /\ ~completed /\ ~completed' /\ Loop
        /\ Estimated = counter /\ Estimated' = counter
        /\ counter > 0 => HopOf(counter - 1)' = HopOf(counter - 1)
    BY <1>3 DEF TurnExtracted, Pending, Loop, Estimated
  <2>2. counter > 0 => HopOf(Estimated - 1)' = HopOf(Estimated - 1)
    BY <2>1
  <2>. QED BY <1>0, <1>a, <2>1, <2>2 DEF FedLast
<1>4. CASE Completes
  <2>1. UNCHANGED <<config, calls, fed, pred>> /\ ~Pending /\ completed'
    BY <1>4 DEF Completes, Pending
  <2>. QED BY <1>a, <2>1 DEF FedLast, Chunked
<1>5. CASE TurnEstimated
  <2>1. /\ UNCHANGED <<config, calls, completed, pred, network, window>> /\ pred \in Acts
        /\ fed' = Append(fed, pred)
        /\ Loop' => Estimated' = counter + 1
    BY <1>0, <1>5 DEF TurnEstimated, Estimate
  <2>2. /\ fed' # << >> /\ fed'[Len(fed')] = pred /\ DOMAIN fed' = 1 .. Len(fed')
        /\ \A k \in 1 .. Len(fed') : fed'[k] = IF k = Len(fed) + 1 THEN pred ELSE fed[k]
        /\ Len(fed') = Len(fed) + 1
    <3>1. Grown(fed', fed, pred)
      BY <1>0, <2>1, Grows
    <3>. QED BY <3>1 DEF Grown
  <2>3. pred.call <= calls
    <3>1. CASE completed /\ fed # << >> /\ fed[Len(fed)] = pred
      <4>1. Len(fed) \in DOMAIN fed
        BY <1>0, <3>1
      <4>. QED BY <1>a, <3>1, <4>1
    <3>2. CASE pred = [call |-> calls, hop |-> HopOf(counter)]
      BY <1>0, <3>2
    <3>. QED BY <1>5, <3>1, <3>2, EstimatedFollows
  <2>4. \A k \in DOMAIN fed' : fed'[k].call <= calls'
    BY <1>0, <1>a, <2>1, <2>2, <2>3
  <2>5. Loop' /\ ~completed' =>
            Estimated' = counter + 1 /\ fed'[Len(fed')] = [call |-> calls', hop |-> HopOf(Estimated - 1)']
    <3> SUFFICES ASSUME Loop', ~completed' PROVE fed'[Len(fed')] = [call |-> calls', hop |-> HopOf(Estimated - 1)']
      BY <2>1
    <3>1. pred = [call |-> calls, hop |-> HopOf(counter)]
      BY <1>5, <2>1, EstimatedFollows
    <3>2. Estimated' - 1 = counter
      BY <1>0, <2>1
    <3>3. HopOf(Estimated - 1)' = HopOf(counter)
      BY <1>0, <1>5, <3>2 DEF TurnEstimated, HopOf, Warm
    <3>. QED BY <2>1, <2>2, <3>1, <3>3
  <2>. QED BY <1>0, <2>1, <2>2, <2>4, <2>5 DEF FedLast
<1>6. CASE Quiet
  <2>1. /\ UNCHANGED <<config, calls, completed, pred, fed>> /\ (Loop' => Loop /\ Estimated' = Estimated)
        /\ Pending' => Pending
        /\ Pending /\ ~Pending' => pred = None
    BY <1>6 DEF Quiet
  <2>2. Loop' => HopOf(Estimated - 1)' = HopOf(Estimated - 1)
    BY <1>6, <2>1 DEF Quiet, HopOf, Warm
  <2>. QED BY <1>a, <2>1, <2>2 DEF FedLast, Chunked
<1>. QED BY <1>1, <1>2, <1>3, <1>4, <1>5, <1>6, Kinds

LEMMA NoneRepeatedStep ==
    /\ TypeOK /\ Control /\ DeviceHolds /\ WindowFollows /\ PredOfTurn /\ FedLast /\ NoneRepeated
    /\ [Next]_vars /\ Control'
    => NoneRepeated'
<1> SUFFICES ASSUME TypeOK, Control, DeviceHolds, WindowFollows, PredOfTurn, FedLast, NoneRepeated,
                    [Next]_vars, Control', Loop', ~completed'
             PROVE  \A k \in 2 .. Len(fed') :
                        fed'[k].call = calls' /\ fed'[k - 1].call = calls' /\ fed'[k - 1].hop > 0 =>
                            fed'[k].hop = fed'[k - 1].hop + 1
  BY DEF NoneRepeated
<1>0. /\ fed \in Seq(Acts) /\ DOMAIN fed = 1 .. Len(fed) /\ Len(fed) \in Nat /\ calls \in Nat
      /\ pred # None => pred \in Acts
      /\ \A k \in 1 .. Len(fed) : fed[k] \in Acts
  BY HistoryType
<1>1. ~Built /\ ~Completes
  BY DEF Built, Completes, Loop
<1>2. CASE Called
  <2>1. fed' = fed /\ calls' = calls + 1
    BY <1>2 DEF Called, Control, Chunked
  <2>2. \A k \in 1 .. Len(fed) : fed[k].call # calls'
    BY <1>0, <2>1 DEF FedLast, Acts
  <2>. QED BY <1>0, <2>1, <2>2
<1>3. CASE TurnExtracted
  BY <1>3 DEF TurnExtracted, NoneRepeated, Loop
<1>4. CASE Quiet
  BY <1>4 DEF Quiet, NoneRepeated
<1>5. CASE TurnEstimated
  <2>1. UNCHANGED <<calls, completed>> /\ pred \in Acts /\ fed' = Append(fed, pred) /\ Loop
    BY <1>0, <1>5 DEF TurnEstimated, Estimate
  <2>2. /\ \A k \in 1 .. Len(fed') : fed'[k] = IF k = Len(fed) + 1 THEN pred ELSE fed[k]
        /\ Len(fed') = Len(fed) + 1
    <3>1. Grown(fed', fed, pred)
      BY <1>0, <2>1, Grows
    <3>. QED BY <3>1 DEF Grown
  <2>3. ASSUME NEW k \in 2 .. Len(fed'), fed'[k].call = calls', fed'[k - 1].call = calls', fed'[k - 1].hop > 0
        PROVE  fed'[k].hop = fed'[k - 1].hop + 1
    <3>1. CASE k = Len(fed) + 1
      <4>1. fed'[k] = pred /\ fed'[k - 1] = fed[Len(fed)] /\ Len(fed) \in DOMAIN fed
        BY <1>0, <2>2, <2>3, <3>1
      <4>2. ~(\A j \in DOMAIN fed : fed[j].call < calls)
        BY <1>0, <2>1, <2>3, <4>1
      <4>. QED BY <1>5, <2>1, <2>3, <4>1, <4>2, EstimatedFollows
    <3>2. CASE k # Len(fed) + 1
      <4>1. k \in 2 .. Len(fed) /\ fed'[k] = fed[k] /\ fed'[k - 1] = fed[k - 1]
        BY <1>0, <2>2, <2>3, <3>2
      <4>. QED BY <2>1, <2>3, <4>1 DEF NoneRepeated
    <3>. QED BY <3>1, <3>2
  <2>. QED BY <2>3
<1>. QED BY <1>1, <1>2, <1>3, <1>4, <1>5, Kinds

-----------------------------------------------------------------------------
\* A history in the order that ChunksInOrder states of the estimator's.
Ordered(s) ==
    \A k \in 2 .. Len(s) :
        s[k].call = s[k - 1].call /\ s[k - 1].hop > 0 =>
            \/ s[k].hop = s[k - 1].hop + 1
            \/ /\ s[k].hop = s[k - 1].hop
               /\ \A j \in k .. Len(s) : s[j].call = s[k].call => s[j].hop = s[k].hop

\* A history whose elements of one call are consecutive hops.
Steady(s) == \A k \in 2 .. Len(s) : s[k].call = s[k - 1].call => s[k].hop = s[k - 1].hop + 1

LEMMA AppendOrdered ==
    ASSUME NEW s \in Seq(Acts), Ordered(s), NEW a \in Acts, NEW v, v = Append(s, a),
           \/ s # << >> /\ s[Len(s)] = a
           \/ /\ \A k \in 2 .. Len(s) : s[k].call = a.call /\ s[k - 1].call = a.call /\ s[k - 1].hop > 0
                                       => s[k].hop = s[k - 1].hop + 1
              /\ s # << >> /\ s[Len(s)].call = a.call /\ s[Len(s)].hop > 0 => a.hop = s[Len(s)].hop + 1
    PROVE  Ordered(v)
<1>1. /\ Len(s) \in Nat /\ Len(v) = Len(s) + 1
      /\ \A k \in 1 .. Len(v) : v[k] = IF k = Len(s) + 1 THEN a ELSE s[k]
  <2>1. Grown(v, s, a)
    BY Grows
  <2>. QED BY <2>1 DEF Grown
<1>2. \A k \in 1 .. Len(s) : s[k] \in Acts
  BY ElementOfSeq
<1> SUFFICES ASSUME NEW k \in 2 .. Len(v), v[k].call = v[k - 1].call, v[k - 1].hop > 0
             PROVE  \/ v[k].hop = v[k - 1].hop + 1
                    \/ /\ v[k].hop = v[k - 1].hop
                       /\ \A j \in k .. Len(v) : v[j].call = v[k].call => v[j].hop = v[k].hop
  BY DEF Ordered
<1>3. CASE k = Len(s) + 1
  <2>1. v[k] = a /\ v[k - 1] = s[Len(s)] /\ s # << >> /\ \A j \in k .. Len(v) : j = k
    BY <1>1, <1>3
  <2>. QED BY <2>1
<1>4. CASE k # Len(s) + 1
  <2>1. k \in 2 .. Len(s) /\ v[k] = s[k] /\ v[k - 1] = s[k - 1]
    BY <1>1, <1>4
  <2>2. CASE s[k].hop = s[k - 1].hop + 1
    BY <2>1, <2>2
  <2>3. CASE s[k].hop # s[k - 1].hop + 1
    <3>1. s[k].hop = s[k - 1].hop /\ \A j \in k .. Len(s) : s[j].call = s[k].call => s[j].hop = s[k].hop
      BY <2>1, <2>3 DEF Ordered
    <3>2. ASSUME a.call = s[k].call PROVE a.hop = s[k].hop
      <4>1. CASE s # << >> /\ s[Len(s)] = a
        BY <1>1, <2>1, <3>1, <3>2, <4>1
      <4>2. CASE \A i \in 2 .. Len(s) : s[i].call = a.call /\ s[i - 1].call = a.call /\ s[i - 1].hop > 0
                                       => s[i].hop = s[i - 1].hop + 1
        BY <2>1, <2>3, <3>2, <4>2
      <4>. QED BY <4>1, <4>2
    <3>3. ASSUME NEW j \in k .. Len(v), v[j].call = v[k].call PROVE v[j].hop = v[k].hop
      <4>1. CASE j = Len(s) + 1
        BY <1>1, <2>1, <3>2, <3>3, <4>1
      <4>2. CASE j # Len(s) + 1
        <5>1. j \in k .. Len(s) /\ v[j] = s[j]
          BY <1>1, <2>1, <3>3, <4>2
        <5>. QED BY <2>1, <3>1, <3>3, <5>1
      <4>. QED BY <4>1, <4>2
    <3>. QED BY <2>1, <3>1, <3>3
  <2>. QED BY <2>2, <2>3
<1>. QED BY <1>3, <1>4

LEMMA AppendSteady ==
    ASSUME NEW s \in Seq(Acts), Steady(s), NEW a \in Acts, NEW v, v = Append(s, a),
           s # << >> /\ s[Len(s)].call = a.call => a.hop = s[Len(s)].hop + 1
    PROVE  Steady(v)
<1>1. /\ Len(s) \in Nat /\ Len(v) = Len(s) + 1
      /\ \A k \in 1 .. Len(v) : v[k] = IF k = Len(s) + 1 THEN a ELSE s[k]
  <2>1. Grown(v, s, a)
    BY Grows
  <2>. QED BY <2>1 DEF Grown
<1> SUFFICES ASSUME NEW k \in 2 .. Len(v), v[k].call = v[k - 1].call PROVE v[k].hop = v[k - 1].hop + 1
  BY DEF Steady
<1>2. CASE k = Len(s) + 1
  <2>1. v[k] = a /\ v[k - 1] = s[Len(s)] /\ s # << >>
    BY <1>1, <1>2
  <2>. QED BY <2>1
<1>3. CASE k # Len(s) + 1
  <2>1. k \in 2 .. Len(s) /\ v[k] = s[k] /\ v[k - 1] = s[k - 1]
    BY <1>1, <1>3
  <2>. QED BY <2>1 DEF Steady
<1>. QED BY <1>2, <1>3

LEMMA TrackOrdered ==
    ASSUME NEW c \in Nat, NEW s \in Seq(Acts), NEW n \in Nat, NEW v, Extends(v, s, c + 1, n),
           \A k \in DOMAIN s : s[k].call <= c
    PROVE  (Ordered(s) => Ordered(v)) /\ (Steady(s) => Steady(v))
<1>1. /\ Len(s) \in Nat /\ Len(v) = Len(s) + n /\ DOMAIN s = 1 .. Len(s)
      /\ \A k \in 1 .. Len(v) : v[k] = IF k <= Len(s) THEN s[k] ELSE Frame(c + 1, k - Len(s) - 1)
  BY DEF Extends
<1>2. \A k \in 1 .. Len(s) : v[k] = s[k] /\ s[k].call \in Nat /\ s[k].call <= c
  <2>1. ASSUME NEW k \in 1 .. Len(s) PROVE v[k] = s[k] /\ s[k].call \in Nat /\ s[k].call <= c
    <3>1. s[k] \in Acts
      BY ElementOfSeq
    <3>2. k \in 1 .. Len(v) /\ k <= Len(s)
      BY <1>1
    <3>. QED BY <1>1, <3>1, <3>2 DEF Acts
  <2>. QED BY <2>1
<1>3. \A k \in 1 .. Len(v) : k > Len(s) => v[k].call = c + 1 /\ v[k].hop = k - Len(s) - 1
  BY <1>1 DEF Frame
<1>4. ASSUME NEW k \in 2 .. Len(v), v[k].call = v[k - 1].call
      PROVE  k <= Len(s) \/ v[k].hop = v[k - 1].hop + 1
  <2>1. CASE k = Len(s) + 1
    <3>1. v[k].call = c + 1 /\ v[k - 1].call <= c /\ v[k - 1].call \in Nat
      BY <1>1, <1>2, <1>3, <2>1
    <3>. QED BY <1>4, <3>1
  <2>2. CASE k > Len(s) + 1
    <3>1. v[k].hop = k - Len(s) - 1 /\ v[k - 1].hop = (k - 1) - Len(s) - 1
      BY <1>1, <1>3, <2>2
    <3>. QED BY <1>1, <3>1
  <2>. QED BY <1>1, <2>1, <2>2
<1>5. ASSUME Steady(s) PROVE Steady(v)
  <2> SUFFICES ASSUME NEW k \in 2 .. Len(v), v[k].call = v[k - 1].call PROVE v[k].hop = v[k - 1].hop + 1
    BY DEF Steady
  <2>1. CASE k <= Len(s)
    <3>1. k \in 2 .. Len(s) /\ v[k] = s[k] /\ v[k - 1] = s[k - 1]
      BY <1>1, <1>2, <2>1
    <3>. QED BY <1>5, <3>1 DEF Steady
  <2>. QED BY <1>4, <2>1
<1>6. ASSUME Ordered(s) PROVE Ordered(v)
  <2> SUFFICES ASSUME NEW k \in 2 .. Len(v), v[k].call = v[k - 1].call, v[k - 1].hop > 0
               PROVE  \/ v[k].hop = v[k - 1].hop + 1
                      \/ /\ v[k].hop = v[k - 1].hop
                         /\ \A j \in k .. Len(v) : v[j].call = v[k].call => v[j].hop = v[k].hop
    BY DEF Ordered
  <2>1. CASE k <= Len(s)
    <3>1. k \in 2 .. Len(s) /\ v[k] = s[k] /\ v[k - 1] = s[k - 1]
      BY <1>1, <1>2, <2>1
    <3>2. CASE s[k].hop = s[k - 1].hop + 1
      BY <3>1, <3>2
    <3>3. CASE s[k].hop # s[k - 1].hop + 1
      <4>1. s[k].hop = s[k - 1].hop /\ \A j \in k .. Len(s) : s[j].call = s[k].call => s[j].hop = s[k].hop
        BY <1>6, <3>1, <3>3 DEF Ordered
      <4>2. ASSUME NEW j \in k .. Len(v), v[j].call = v[k].call PROVE v[j].hop = v[k].hop
        <5>1. j <= Len(s)
          <6>1. v[k].call <= c /\ v[k].call \in Nat /\ j \in 1 .. Len(v)
            BY <1>1, <1>2, <3>1
          <6>. QED BY <1>1, <1>3, <4>2, <6>1
        <5>2. j \in k .. Len(s) /\ v[j] = s[j]
          BY <1>1, <1>2, <3>1, <5>1
        <5>. QED BY <3>1, <4>1, <4>2, <5>2
      <4>. QED BY <3>1, <4>1, <4>2
    <3>. QED BY <3>2, <3>3
  <2>. QED BY <1>4, <2>1
<1>. QED BY <1>5, <1>6

LEMMA ChunksStep ==
    /\ TypeOK /\ Control /\ DeviceHolds /\ WindowFollows /\ PredOfTurn /\ FedLast /\ NoneRepeated
    /\ ChunksInOrder /\ [Next]_vars
    => ChunksInOrder'
<1> SUFFICES ASSUME TypeOK, Control, DeviceHolds, WindowFollows, PredOfTurn, FedLast, NoneRepeated,
                    ChunksInOrder, [Next]_vars
             PROVE  ChunksInOrder'
  OBVIOUS
<1>0. fed \in Seq(Acts) /\ Ordered(fed) /\ calls \in Nat /\ (pred # None => pred \in Acts)
  BY HistoryType DEF ChunksInOrder, Ordered
<1>1. CASE fed' = fed
  BY <1>0, <1>1 DEF ChunksInOrder, Ordered
<1>2. ASSUME Called, NEW n \in Nat, fed' = fed \o Track(calls', n) PROVE ChunksInOrder'
  <2>1. calls' = calls + 1 /\ calls + 1 \in Nat
    BY <1>0, <1>2 DEF Called
  <2>2. Extends(fed', fed, calls + 1, n)
    BY <1>0, <1>2, <2>1, Tracked
  <2>3. \A k \in DOMAIN fed : fed[k].call <= calls
    BY DEF FedLast
  <2>4. Ordered(fed')
    BY <1>0, <1>2, <2>2, <2>3, TrackOrdered
  <2>. QED BY <2>4 DEF ChunksInOrder, Ordered
<1>3. CASE TurnEstimated
  <2>1. pred \in Acts /\ fed' = Append(fed, pred) /\ Loop
    BY <1>0, <1>3 DEF TurnEstimated, Estimate
  <2>2. \/ fed # << >> /\ fed[Len(fed)] = pred
        \/ /\ \A k \in 2 .. Len(fed) :
                  fed[k].call = pred.call /\ fed[k - 1].call = pred.call /\ fed[k - 1].hop > 0
                  => fed[k].hop = fed[k - 1].hop + 1
           /\ fed # << >> /\ fed[Len(fed)].call = pred.call /\ fed[Len(fed)].hop > 0
              => pred.hop = fed[Len(fed)].hop + 1
    <3>1. CASE completed
      BY <1>3, <3>1, EstimatedFollows
    <3>2. CASE ~completed
      <4>1. pred = [call |-> calls, hop |-> HopOf(counter)]
        BY <1>3, <3>2, EstimatedFollows
      <4>2. \A k \in 2 .. Len(fed) :
                fed[k].call = pred.call /\ fed[k - 1].call = pred.call /\ fed[k - 1].hop > 0
                => fed[k].hop = fed[k - 1].hop + 1
        BY <2>1, <3>2, <4>1 DEF NoneRepeated
      <4>3. fed # << >> => Len(fed) \in DOMAIN fed
        BY <1>0, LenProperties
      <4>4. fed # << >> /\ fed[Len(fed)].call = pred.call /\ fed[Len(fed)].hop > 0
            => pred.hop = fed[Len(fed)].hop + 1
        BY <1>0, <1>3, <3>2, <4>1, <4>3, EstimatedFollows
      <4>. QED BY <4>2, <4>4
    <3>. QED BY <3>1, <3>2
  <2>3. Ordered(fed')
    BY <1>0, <2>1, <2>2, AppendOrdered
  <2>. QED BY <2>3 DEF ChunksInOrder, Ordered
<1>. QED BY <1>1, <1>2, <1>3, Kinds DEF Built, Called, TurnExtracted, Completes, Quiet

-----------------------------------------------------------------------------
LEMMA NetworkStep ==
    /\ TypeOK /\ Control /\ DeviceHolds /\ WindowFollows /\ PredOfTurn /\ NetworkAhead
    /\ [Next]_vars /\ Control'
    => NetworkAhead'
<1> SUFFICES ASSUME TypeOK, Control, DeviceHolds, WindowFollows, PredOfTurn, NetworkAhead,
                    [Next]_vars, Control'
             PROVE  NetworkAhead'
  OBVIOUS
<1>0. /\ network \in Seq(Acts) /\ fed \in Seq(Acts) /\ Len(network) \in Nat /\ Len(fed) \in Nat
      /\ DOMAIN network = 1 .. Len(network) /\ DOMAIN fed = 1 .. Len(fed)
      /\ \A k \in 1 .. Len(network) : network[k] \in Acts
      /\ calls \in Nat /\ counter \in Nat /\ (pred # None => pred \in Acts) /\ Warm \in Nat
  BY HistoryType DEF Warm
<1> DEFINE Calls == \A k \in DOMAIN network : network[k].call <= calls
           Ahead == Loop /\ ~completed =>
                        IF Extracted <= Warm THEN \A k \in DOMAIN network : network[k].call < calls
                        ELSE /\ network # << >>
                             /\ network[Len(network)] = [call |-> calls, hop |-> HopOf(Extracted - 1)]
           Reached == Chunked => \A k \in DOMAIN network :
                          network[k] \in ToSet(fed) \/ (Pending /\ k = Len(network) /\ network[k] = pred)
           Heard == \A k \in DOMAIN fed : fed[k].hop > 0 => fed[k] \in ToSet(network)
           Known == pred # None /\ pred.hop > 0 => pred \in ToSet(network)
<1>a. Calls /\ Ahead /\ Steady(network) /\ Reached /\ Heard /\ Known
  BY DEF NetworkAhead, Steady
<1>b. SUFFICES Calls' /\ Ahead' /\ Steady(network)' /\ Reached' /\ Heard' /\ Known'
  BY DEF NetworkAhead, Steady
<1>1. CASE Built
  BY <1>1 DEF Built, Loop, Control, Steady
<1>2. CASE Called
  <2>1. /\ calls' = calls + 1 /\ config' = config /\ pred' = pred /\ ~Pending /\ ~Pending' /\ calls + 1 \in Nat
        /\ Loop' => Chunked /\ ~completed' /\ Extracted' = 0
    BY <1>0, <1>2 DEF Called, Pending, Control, EstimatorExclusive, Loop, Chunked, Extracted
  <2>2. CASE UNCHANGED <<network, fed>>
    <3>1. \A k \in DOMAIN network : network[k].call \in Nat
      BY <1>0 DEF Acts
    <3>2. Calls' /\ Ahead'
      BY <1>0, <1>a, <2>1, <2>2, <3>1 DEF Warm
    <3>3. Steady(network)' /\ Heard' /\ Known' /\ Reached'
      BY <1>a, <2>1, <2>2 DEF Steady, Chunked
    <3>. QED BY <3>2, <3>3
  <2>3. ASSUME ~Chunked, NEW m \in Nat, NEW n \in Nat, n <= m, network' = network \o Track(calls', m),
               fed' \in {fed, fed \o Track(calls', n)}
        PROVE  Calls' /\ Ahead' /\ Steady(network)' /\ Reached' /\ Heard' /\ Known'
    <3>1. Extends(network', network, calls + 1, m)
      BY <1>0, <2>1, <2>3, Tracked
    <3>2. Calls'
      BY <1>0, <1>a, <2>1, <3>1, TrackedCalls
    <3>3. Steady(network')
      BY <1>0, <1>a, <3>1, TrackOrdered
    <3>4. ToSet(network') = ToSet(network) \cup {Frame(calls + 1, k) : k \in 0 .. m - 1}
      BY <1>0, <3>1, TrackedSet
    <3>5. ToSet(fed') \subseteq ToSet(fed) \cup {Frame(calls + 1, k) : k \in 0 .. n - 1}
      <4>1. CASE fed' = fed
        BY <4>1
      <4>2. CASE fed' = fed \o Track(calls', n)
        <5>1. Extends(fed', fed, calls + 1, n)
          BY <1>0, <2>1, <4>2, Tracked
        <5>. QED BY <1>0, <5>1, TrackedSet
      <4>. QED BY <2>3, <4>1, <4>2
    <3>6. \A a \in ToSet(fed) : a.hop > 0 => a \in ToSet(network)
      BY <1>a DEF ToSet
    <3>7. \A a \in ToSet(fed') : a.hop > 0 => a \in ToSet(network')
      <4> SUFFICES ASSUME NEW a \in ToSet(fed'), a.hop > 0 PROVE a \in ToSet(network')
        OBVIOUS
      <4>1. CASE a \in ToSet(fed)
        BY <3>4, <3>6, <4>1
      <4>2. CASE a \in {Frame(calls + 1, k) : k \in 0 .. n - 1}
        <5>1. PICK k \in 0 .. n - 1 : a = Frame(calls + 1, k)
          BY <4>2
        <5>2. k \in 0 .. m - 1
          BY <2>3
        <5>. QED BY <3>4, <5>1, <5>2
      <4>. QED BY <3>5, <4>1, <4>2
    <3>8. Heard'
      BY <3>7 DEF ToSet
    <3>9. Known' /\ Reached' /\ Ahead'
      BY <1>a, <2>1, <2>3, <3>4 DEF Chunked
    <3>. QED BY <3>2, <3>3, <3>8, <3>9 DEF Steady
  <2>. QED BY <1>2, <2>2, <2>3 DEF Called
<1>3. CASE TurnExtracted
  <2> DEFINE h == HopOf(counter)'
  <2>1. /\ UNCHANGED <<config, calls, counter, fed>> /\ ~Pending /\ Pending' /\ ~completed /\ Loop
        /\ Extracted = counter /\ Extracted' = counter + 1
        /\ pred' = [call |-> calls, hop |-> h] /\ h \in Nat /\ (h = 0 <=> counter < Warm)
        /\ network' = IF h = 0 THEN network ELSE Append(network, pred')
        /\ counter > Warm => h = HopOf(counter - 1) + 1
    BY <1>0, <1>3 DEF TurnExtracted, Pending, Loop, Extracted, Remember
  <2>2. Warm' = Warm /\ (Chunked' <=> Chunked)
    BY <2>1 DEF Warm, Chunked
  <2>3. Extracted' - 1 = counter /\ HopOf(Extracted - 1)' = h
    BY <1>0, <2>1 DEF HopOf, Warm
  <2> HIDE DEF h
  <2>4. CASE h = 0
    <3>1. network' = network /\ counter < Warm
      BY <2>1, <2>4
    <3>2. Extracted <= Warm /\ Extracted' <= Warm'
      <4>1. Warm \in Nat /\ counter \in Nat /\ Extracted = counter /\ Extracted' = counter + 1 /\ Warm' = Warm
        BY <1>0, <2>1, <2>2
      <4>. QED BY <3>1, <4>1
    <3>3. Calls' /\ Ahead'
      BY <1>a, <2>1, <3>1, <3>2
    <3>4. Steady(network)' /\ Heard' /\ Known' /\ Reached'
      BY <1>a, <2>1, <2>2, <2>4, <3>1 DEF Steady
    <3>. QED BY <3>3, <3>4
  <2>5. CASE h # 0
    <3>1. pred' \in Acts /\ network' = Append(network, pred') /\ counter >= Warm
      BY <1>0, <2>1, <2>5 DEF Acts
    <3>2. /\ Len(network') = Len(network) + 1 /\ network' # << >> /\ network'[Len(network')] = pred'
          /\ DOMAIN network' = 1 .. Len(network')
          /\ \A k \in 1 .. Len(network') : network'[k] = IF k = Len(network) + 1 THEN pred' ELSE network[k]
          /\ ToSet(network') = ToSet(network) \cup {pred'}
      <4>1. Grown(network', network, pred')
        BY <1>0, <3>1, Grows
      <4>. QED BY <4>1 DEF Grown
    <3>3. Calls'
      BY <1>0, <1>a, <2>1, <3>2
    <3>4. ~(Extracted' <= Warm')
      BY <1>0, <2>1, <2>2, <3>1
    <3>5. Ahead'
      BY <2>1, <2>3, <3>2, <3>4
    <3>6. network # << >> /\ network[Len(network)].call = pred'.call => pred'.hop = network[Len(network)].hop + 1
      <4>1. CASE counter = Warm
        <5>1. \A k \in DOMAIN network : network[k].call < calls
          BY <1>0, <1>a, <2>1, <4>1
        <5>2. network # << >> => Len(network) \in DOMAIN network
          BY <1>0
        <5>. QED BY <1>0, <2>1, <5>1, <5>2
      <4>2. CASE counter > Warm
        <5>1. network[Len(network)] = [call |-> calls, hop |-> HopOf(counter - 1)]
          BY <1>0, <1>a, <2>1, <4>2
        <5>. QED BY <2>1, <4>2, <5>1
      <4>. QED BY <1>0, <3>1, <4>1, <4>2
    <3>7. Steady(network')
      BY <1>0, <1>a, <3>1, <3>6, AppendSteady
    <3>8. Heard' /\ Known'
      BY <1>a, <2>1, <3>2
    <3>9. Reached'
      BY <1>0, <1>a, <2>1, <2>2, <3>2
    <3>. QED BY <3>3, <3>5, <3>7, <3>8, <3>9 DEF Steady
  <2>. QED BY <2>4, <2>5
<1>4. CASE Completes
  <2>1. UNCHANGED <<config, calls, network, fed, pred>> /\ ~Pending /\ completed'
    BY <1>4 DEF Completes, Pending
  <2>. QED BY <1>a, <2>1 DEF Steady, Chunked
<1>5. CASE TurnEstimated
  <2>1. /\ UNCHANGED <<config, calls, completed, pred, network>> /\ pred \in Acts
        /\ fed' = Append(fed, pred) /\ ~Pending' /\ Loop /\ pred # None
        /\ Loop' => Extracted' = Extracted
    BY <1>0, <1>5 DEF TurnEstimated, Estimate
  <2>2. /\ DOMAIN fed' = 1 .. Len(fed')
        /\ \A k \in 1 .. Len(fed') : fed'[k] = IF k = Len(fed) + 1 THEN pred ELSE fed[k]
        /\ Len(fed') = Len(fed) + 1
        /\ ToSet(fed') = ToSet(fed) \cup {pred}
    <3>1. Grown(fed', fed, pred)
      BY <1>0, <2>1, Grows
    <3>. QED BY <3>1 DEF Grown
  <2>3. Loop' => Warm' = Warm /\ HopOf(Extracted - 1)' = HopOf(Extracted - 1)
    BY <1>5, <2>1 DEF TurnEstimated, HopOf, Warm
  <2>4. Calls' /\ Ahead' /\ Steady(network)' /\ Known'
    BY <1>a, <2>1, <2>3 DEF Steady
  <2>5. Reached'
    BY <1>a, <2>1, <2>2 DEF Chunked
  <2>6. Heard'
    <3> SUFFICES ASSUME NEW k \in DOMAIN fed', fed'[k].hop > 0 PROVE fed'[k] \in ToSet(network)
      BY <2>1
    <3>1. CASE k = Len(fed) + 1
      BY <1>a, <2>1, <2>2, <3>1, HandlerAssumption DEF TurnEstimated, Acts
    <3>2. CASE k # Len(fed) + 1
      <4>1. k \in DOMAIN fed /\ fed'[k] = fed[k]
        BY <1>0, <2>2, <3>2
      <4>. QED BY <1>a, <4>1
    <3>. QED BY <3>1, <3>2
  <2>. QED BY <2>4, <2>5, <2>6
<1>6. CASE Quiet
  <2>1. /\ UNCHANGED <<config, calls, completed, pred, network, fed>> /\ (Pending' => Pending)
        /\ Loop' => Loop /\ Extracted' = Extracted
        /\ Pending /\ ~Pending' => pred = None
    BY <1>6 DEF Quiet
  <2>2. Loop' => Warm' = Warm /\ HopOf(Extracted - 1)' = HopOf(Extracted - 1)
    BY <1>6, <2>1 DEF Quiet, HopOf, Warm
  <2>3. \A k \in DOMAIN network : network[k] # None
    BY <1>0, HandlerAssumption DEF Acts
  <2>4. Calls' /\ Ahead' /\ Steady(network)' /\ Known' /\ Heard'
    BY <1>a, <2>1, <2>2 DEF Steady
  <2>5. Reached'
    BY <1>a, <2>1, <2>3 DEF Chunked
  <2>. QED BY <2>4, <2>5
<1>. QED BY <1>1, <1>2, <1>3, <1>4, <1>5, <1>6, Kinds

-----------------------------------------------------------------------------
LEMMA InvStep == Inv /\ [Next]_vars => Inv'
BY TypeStep, ControlStep, DeviceStep, WindowStep, PredStep, FedStep, NoneRepeatedStep, ChunksStep,
   NetworkStep DEF Inv

LEMMA Invariance == Spec => []Inv
BY InitInv, InvStep, PTL DEF Spec

\* Types: activations and hops are what they should be, and the plot keeps its width.
THEOREM HandlerTypeOK == Spec => []TypeOK
<1>1. Inv => TypeOK
  BY DEF Inv
<1>. QED BY <1>1, Invariance, PTL

\* While a worker thread works on the estimator the main thread waits for it, and its
\* activation stays what the worker was given.
THEOREM HandlerEstimatorExclusive == Spec => []EstimatorExclusive
<1>1. Inv => EstimatorExclusive
  BY DEF Inv, Control
<1>. QED BY <1>1, Invariance, PTL

\* A frame that the network computes in stream mode spans six consecutive hops of the
\* recording, for every capacity of the device and whatever overran or raised before.
THEOREM HandlerWindowUnbroken == Spec => []WindowUnbroken
<1>1. Inv => WindowUnbroken
  <2> SUFFICES ASSUME Inv, pc = "infer", config.mode = "stream", pred.hop > 0
               PROVE  window[1] > 0 /\ \A i \in 2 .. WindowHops : window[i] = window[i - 1] + 1
    BY DEF WindowUnbroken
  <2>1. Loop /\ Pending /\ ~completed /\ Extracted = counter + 1 /\ counter \in Nat
    BY DEF Inv, Control, Loop, Pending, Extracted, TypeOK
  <2>2. pred.hop = HopOf(counter)
    BY <2>1 DEF Inv, PredOfTurn
  <2>3. counter >= 5
    BY <2>1, <2>2 DEF HopOf, Warm
  <2>. QED BY <2>1, <2>3, Constants DEF Inv, WindowFollows
<1>. QED BY <1>1, Invariance, PTL

\* The estimator gets the activations of every call in recording order, in every mode, on
\* the main thread or on workers, whatever raises.
THEOREM HandlerChunksInOrder == Spec => []ChunksInOrder
<1>1. Inv => ChunksInOrder
  BY DEF Inv
<1>. QED BY <1>1, Invariance, PTL

\* The network hears every hop of a call once and in order, and what it made of a hop has
\* reached the estimator before it hears the next.
THEOREM HandlerNetworkStepsOnce == Spec => []NetworkStepsOnce
<1>1. Inv => NetworkStepsOnce
  <2> SUFFICES ASSUME Inv PROVE NetworkStepsOnce
    OBVIOUS
  <2>1. DOMAIN network = 1 .. Len(network) /\ Len(network) \in Nat /\ NetworkAhead
    BY HistoryType DEF Inv
  <2>2. Chunked => \A k \in 1 .. Len(network) - 1 : network[k] \in ToSet(fed)
    BY <2>1 DEF NetworkAhead
  <2>. QED BY <2>1, <2>2 DEF NetworkStepsOnce, NetworkAhead, Chunked
<1>. QED BY <1>1, Invariance, PTL

-----------------------------------------------------------------------------
(***************************************************************************)
(* The end of a call, without fairness: what is left of it once a stream's *)
(* device has stopped.                                                     *)
(***************************************************************************)

\* A call that must end: nothing but its own two threads can delay it.
Ending == Loop /\ (config.mode = "stream" => ~device.active)

\* Turns left: those that extract what remains, the current one, and in realtime mode one
\* that finds the track completed.
TurnsLeft ==
    IF config.mode = "stream"
    THEN Len(device.held) + (IF pc \in {"infer", "join"} THEN 1 ELSE 0)
    ELSE IF completed THEN (IF pc = "test" THEN 0 ELSE 1)
    ELSE (IF counter < RealtimeFrames(audio) THEN RealtimeFrames(audio) - counter ELSE 0) + 1

\* A turn is at most five steps of the main thread and the worker.
StepsLeft ==
    6 * TurnsLeft + (CASE pc = "test" -> 5 [] pc = "extract" -> 4 [] pc = "infer" -> 3
                       [] pc = "join" -> IF worker = None THEN 1 ELSE 2)

\* The guard of a step of either thread holds.
CanGoOn ==
    \/ pc \in {"test", "infer"}
    \/ pc = "extract" /\ config.mode = "realtime"
    \/ /\ pc = "extract" /\ config.mode = "stream"
       /\ \/ ~device.overrun /\ device.held # << >>
          \/ device.overrun
          \/ ~device.active /\ device.held = << >>
    \/ pc = "join" /\ (worker # None \/ WorkerDone)

\* Only a stream has a device.
DeviceOfStream == device.active => pc # "new" /\ config.mode = "stream"

LEMMA DeviceOfStreamStep == TypeOK /\ Control /\ DeviceOfStream /\ [Next]_vars => DeviceOfStream'
<1> SUFFICES ASSUME TypeOK, Control, DeviceOfStream, [Next]_vars PROVE DeviceOfStream'
  OBVIOUS
<1> USE DEF DeviceOfStream, loop, control, streaming, estimator, End, Enter
<1>0. device \in [active : BOOLEAN, captured : 0 .. MaxHops, held : Seq(1 .. MaxHops), overrun : BOOLEAN]
  BY DEF TypeOK
<1>1. ASSUME NEW c \in Configurations, Construct(c) PROVE DeviceOfStream'
  BY <1>0, <1>1 DEF Construct
<1>2. CASE ProcessStream \/ ProcessUnknown
  BY <1>2 DEF ProcessStream, ProcessUnknown
<1>3. ASSUME NEW a \in Audios \cup {None}, ProcessRealtime(a) \/ ProcessOnline(a) \/ ProcessOffline(a)
      PROVE DeviceOfStream'
  BY <1>3 DEF ProcessRealtime, ProcessOnline, ProcessOffline, ExtractNothing
<1>4. CASE TestStream \/ TestRealtime \/ ExtractRealtime
  BY <1>4 DEF TestStream, TestRealtime, ExtractRealtime
<1>5. CASE ExtractStream \/ ReadFails
  BY <1>0, <1>5 DEF ExtractStream, ReadFails
<1>6. CASE Infer \/ InferRaises \/ StartWorker
  BY <1>6 DEF Infer, InferRaises, StartWorker, Turn
<1>7. CASE Join \/ NothingExtracted \/ WorkerInfers
  BY <1>7 DEF Join, NothingExtracted, WorkerInfers
<1>8. CASE Capture \/ StopDevice
  BY <1>0, <1>8 DEF Capture, StopDevice
<1>9. CASE UNCHANGED vars
  BY <1>9 DEF vars
<1>. QED BY <1>1, <1>2, <1>3, <1>4, <1>5, <1>6, <1>7, <1>8, <1>9 DEF Next, Caller, MainThread

\* A turn that has extracted an activation was not the one that completes the call: what
\* it counts brings the end nearer.
TrackNotOver ==
    pc \in {"infer", "join"} /\ config.mode = "realtime" /\ ~completed =>
        counter < RealtimeFrames(audio)

LEMMA TrackNotOverStep == TypeOK /\ Control /\ TrackNotOver /\ [Next]_vars => TrackNotOver'
<1> SUFFICES ASSUME TypeOK, Control, TrackNotOver, [Next]_vars PROVE TrackNotOver'
  OBVIOUS
<1> USE DEF TrackNotOver, loop, control, streaming, estimator, End, Enter
<1>1. ASSUME NEW c \in Configurations, Construct(c) PROVE TrackNotOver'
  BY <1>1 DEF Construct
<1>2. CASE ProcessStream \/ ProcessUnknown
  BY <1>2 DEF ProcessStream, ProcessUnknown
<1>3. ASSUME NEW a \in Audios \cup {None}, ProcessRealtime(a) \/ ProcessOnline(a) \/ ProcessOffline(a)
      PROVE TrackNotOver'
  BY <1>3 DEF ProcessRealtime, ProcessOnline, ProcessOffline, ExtractNothing
<1>4. CASE TestStream \/ TestRealtime \/ ExtractStream \/ ReadFails
  BY <1>4 DEF TestStream, TestRealtime, ExtractStream, ReadFails
<1>5. CASE ExtractRealtime
  BY <1>5 DEF ExtractRealtime, RealtimeFrames
<1>6. CASE Infer \/ InferRaises \/ Join \/ NothingExtracted
  BY <1>6 DEF Infer, InferRaises, Turn, Join, NothingExtracted
<1>7. CASE StartWorker
  BY <1>7 DEF StartWorker, RealtimeFrames
<1>8. CASE WorkerInfers \/ Capture \/ StopDevice \/ UNCHANGED vars
  BY <1>8 DEF WorkerInfers, Capture, StopDevice, vars, RealtimeFrames
<1>. QED BY <1>1, <1>2, <1>3, <1>4, <1>5, <1>6, <1>7, <1>8 DEF Next, Caller, MainThread

LEMMA StepsLeftType ==
    ASSUME TypeOK, Control, Ending
    PROVE  /\ TurnsLeft \in Nat /\ StepsLeft \in Nat
           /\ RealtimeFrames(audio) \in Int /\ counter \in Nat /\ Len(device.held) \in Nat
           /\ config.mode \in {"stream", "realtime"}
<1>1. counter \in Nat /\ Len(device.held) \in Nat /\ pc \in {"test", "extract", "infer", "join"}
  BY HeldType DEF Ending, Loop, TypeOK
<1>2. RealtimeFrames(audio) \in Int
  <2>1. audio \in Nat
    BY HandlerAssumption DEF TypeOK
  <2>. QED BY <2>1, Constants DEF RealtimeFrames
<1>3. TurnsLeft \in Nat
  <2>1. CASE config.mode = "stream"
    <3>1. TurnsLeft = Len(device.held) + (IF pc \in {"infer", "join"} THEN 1 ELSE 0)
      BY <2>1 DEF TurnsLeft
    <3>2. (IF pc \in {"infer", "join"} THEN 1 ELSE 0) \in Nat
      OBVIOUS
    <3>3. \A x, y \in Nat : x + y \in Nat
      OBVIOUS
    <3>. QED BY <1>1, <3>1, <3>2, <3>3
  <2>2. CASE config.mode # "stream" /\ completed
    BY <1>1, <2>2 DEF TurnsLeft
  <2>3. CASE config.mode # "stream" /\ ~completed /\ counter < RealtimeFrames(audio)
    BY <1>1, <1>2, <2>3 DEF TurnsLeft
  <2>4. CASE config.mode # "stream" /\ ~completed /\ ~(counter < RealtimeFrames(audio))
    BY <1>1, <1>2, <2>4 DEF TurnsLeft
  <2>. QED BY <2>1, <2>2, <2>3, <2>4
<1>4. StepsLeft \in Nat
  BY <1>1, <1>3 DEF StepsLeft
<1>. QED BY <1>1, <1>2, <1>3, <1>4 DEF Control, Ending, Chunked

\* Every step is one of the call's own threads.
LEMMA EndingStep ==
    ASSUME TypeOK, Control, DeviceOfStream, TrackNotOver, Ending, Next
    PROVE  StepsLeft' < StepsLeft \/ pc' = "idle"
<1> USE DEF loop, control, streaming, estimator
<1>0. /\ TurnsLeft \in Nat /\ RealtimeFrames(audio) \in Int /\ counter \in Nat
      /\ Len(device.held) \in Nat /\ config.mode \in {"stream", "realtime"} /\ ~device.active
      /\ pc \in {"test", "extract", "infer", "join"}
  BY StepsLeftType DEF Ending, DeviceOfStream, Loop
<1>1. MainThread \/ WorkerInfers
  <2>1. ~Capture /\ ~StopDevice
    BY <1>0 DEF Capture, StopDevice
  <2>2. ~Caller
    BY <1>0 DEF Caller, Construct, ProcessStream, ProcessUnknown, ProcessRealtime, ProcessOnline,
                ProcessOffline, Enter
  <2>. QED BY <2>1, <2>2 DEF Next
<1>2. CASE TestStream
  BY <1>0, <1>2 DEF TestStream, End
<1>3. CASE TestRealtime
  <2>1. CASE ~completed /\ pc' = "extract"
    <3>1. TurnsLeft' = TurnsLeft
      BY <1>3, <2>1 DEF TestRealtime, TurnsLeft, RealtimeFrames
    <3>. QED BY <1>0, <1>3, <2>1, <3>1 DEF StepsLeft, TestRealtime
  <2>. QED BY <1>3, <2>1 DEF TestRealtime, End
<1>4. CASE ExtractStream
  <2>1. device.held \in Seq(Nat) /\ device.held # << >>
    BY <1>4, HeldType DEF ExtractStream
  <2>2. Len(Tail(device.held)) = Len(device.held) - 1
    BY <2>1
  <2>3. device'.held = Tail(device.held)
    BY <1>4 DEF ExtractStream, TypeOK
  <2>4. pc = "extract" /\ pc' = "infer" /\ config' = config /\ config.mode = "stream"
    BY <1>4 DEF ExtractStream
  <2>5. TurnsLeft' = TurnsLeft
    BY <1>0, <2>2, <2>3, <2>4 DEF TurnsLeft
  <2>. QED BY <1>0, <2>4, <2>5 DEF StepsLeft
<1>5. CASE ReadFails \/ InferRaises \/ NothingExtracted
  BY <1>5 DEF ReadFails, InferRaises, NothingExtracted, End
<1>6. CASE ExtractRealtime
  <2>1. /\ pc = "extract" /\ pc' = "infer" /\ config' = config /\ config.mode = "realtime"
        /\ audio' = audio /\ counter' = counter /\ ~completed
    BY <1>6 DEF ExtractRealtime, Control
  <2>2. RealtimeFrames(audio)' = RealtimeFrames(audio)
    BY <2>1 DEF RealtimeFrames
  <2>3. TurnsLeft' <= TurnsLeft /\ TurnsLeft' \in Nat
    <3>1. CASE completed' /\ ~(counter < RealtimeFrames(audio))
      BY <1>0, <2>1, <2>2, <3>1 DEF TurnsLeft
    <3>2. CASE ~completed'
      BY <1>0, <2>1, <2>2, <3>2 DEF TurnsLeft
    <3>3. completed' => ~(counter < RealtimeFrames(audio))
      <4>1. UNCHANGED completed \/ counter >= RealtimeFrames(audio)
        BY <1>6 DEF ExtractRealtime
      <4>2. counter >= RealtimeFrames(audio) => ~(counter < RealtimeFrames(audio))
        BY <1>0
      <4>. QED BY <2>1, <4>1, <4>2
    <3>. QED BY <3>1, <3>2, <3>3
  <2>. QED BY <1>0, <2>1, <2>3 DEF StepsLeft
<1>7. CASE StartWorker
  <2>1. /\ pc = "infer" /\ pc' = "join" /\ worker' # None
        /\ UNCHANGED <<config, device, completed, counter, audio>>
    BY <1>7 DEF StartWorker
  <2>2. TurnsLeft' = TurnsLeft
    BY <2>1 DEF TurnsLeft, RealtimeFrames
  <2>. QED BY <1>0, <2>1, <2>2 DEF StepsLeft
<1>8. CASE WorkerInfers
  <2>1. /\ pc = "join" /\ pc' = "join" /\ worker # None /\ worker' = None
        /\ UNCHANGED <<config, device, completed, counter, audio>>
    BY <1>8 DEF WorkerInfers, Control, EstimatorExclusive
  <2>2. TurnsLeft' = TurnsLeft
    BY <2>1 DEF TurnsLeft, RealtimeFrames
  <2>. QED BY <1>0, <2>1, <2>2 DEF StepsLeft
<1>9. CASE Infer \/ Join
  <2>1. /\ pc \in {"infer", "join"} /\ pc' = "test" /\ counter' = counter + 1
        /\ UNCHANGED <<config, device, completed, audio>>
    BY <1>9 DEF Infer, Join, Turn
  <2>2. RealtimeFrames(audio)' = RealtimeFrames(audio)
    BY <2>1 DEF RealtimeFrames
  <2>3. TurnsLeft' + 1 <= TurnsLeft /\ TurnsLeft' \in Nat
    <3>1. CASE config.mode = "stream"
      BY <1>0, <2>1, <3>1 DEF TurnsLeft
    <3>2. CASE config.mode = "realtime" /\ completed
      BY <1>0, <2>1, <3>2 DEF TurnsLeft
    <3>3. CASE config.mode = "realtime" /\ ~completed /\ counter < RealtimeFrames(audio)
      BY <1>0, <2>1, <2>2, <3>3 DEF TurnsLeft
    <3>4. config.mode = "realtime" /\ ~completed => counter < RealtimeFrames(audio)
      BY <2>1 DEF TrackNotOver
    <3>. QED BY <1>0, <3>1, <3>2, <3>3, <3>4
  <2>. QED BY <1>0, <2>1, <2>3 DEF StepsLeft
<1>. QED BY <1>1, <1>2, <1>3, <1>4, <1>5, <1>6, <1>7, <1>8, <1>9 DEF MainThread

LEMMA EndingKept ==
    ASSUME TypeOK, Control, DeviceOfStream, Ending, Next, pc' # "idle"
    PROVE  Ending'
<1> USE DEF loop, control, streaming, estimator, End
<1>1. ~device.active /\ Loop
  BY StepsLeftType DEF Ending, DeviceOfStream, Control
<1>2. MainThread \/ WorkerInfers
  <2>1. ~Capture /\ ~StopDevice
    BY <1>1 DEF Capture, StopDevice
  <2>2. ~Caller
    BY <1>1 DEF Caller, Construct, ProcessStream, ProcessUnknown, ProcessRealtime, ProcessOnline,
                ProcessOffline, Enter, Loop
  <2>. QED BY <2>1, <2>2 DEF Next
<1>3. config' = config /\ pc' \in {"test", "extract", "infer", "join"}
  <2>1. CASE TestStream \/ TestRealtime \/ ExtractStream \/ ReadFails \/ ExtractRealtime
    BY <2>1 DEF TestStream, TestRealtime, ExtractStream, ReadFails, ExtractRealtime
  <2>2. CASE Infer \/ InferRaises \/ StartWorker \/ Join \/ NothingExtracted
    BY <2>2 DEF Infer, InferRaises, StartWorker, Join, NothingExtracted
  <2>3. CASE WorkerInfers
    BY <1>1, <2>3 DEF WorkerInfers, Loop
  <2>. QED BY <1>2, <2>1, <2>2, <2>3 DEF MainThread
<1>4. device'.active = device.active
  <2>1. CASE ExtractStream \/ ReadFails
    BY <2>1 DEF ExtractStream, ReadFails, TypeOK
  <2>2. CASE ~ExtractStream /\ ~ReadFails
    BY <1>2, <2>2 DEF MainThread, TestStream, TestRealtime, ExtractRealtime, Infer, InferRaises,
                      StartWorker, Join, NothingExtracted, WorkerInfers
  <2>. QED BY <2>1, <2>2
<1>. QED BY <1>1, <1>3, <1>4 DEF Ending, Loop

\* A call that must end does: in every step of it what is left becomes less, and as long as
\* it has not ended one of its threads can take a step.  The main thread never waits for a
\* worker that will not come, and no turn is without progress.
THEOREM HandlerCallsShrink ==
    Spec => /\ [](Ending => StepsLeft \in Nat /\ CanGoOn)
            /\ [][Ending => (Ending' /\ StepsLeft' < StepsLeft) \/ pc' = "idle"]_vars
<1> DEFINE More == Inv /\ DeviceOfStream /\ TrackNotOver
<1>1. Init => More
  <2>1. Init => DeviceOfStream /\ TrackNotOver
    BY DEF Init, DeviceOfStream, TrackNotOver
  <2>. QED BY <2>1, InitInv
<1>2. More /\ [Next]_vars => More'
  BY InvStep, DeviceOfStreamStep, TrackNotOverStep DEF Inv
<1>3. More => (Ending => StepsLeft \in Nat /\ CanGoOn)
  <2> SUFFICES ASSUME TypeOK, Control, Ending PROVE StepsLeft \in Nat /\ CanGoOn
    BY DEF Inv
  <2>1. StepsLeft \in Nat /\ config.mode \in {"stream", "realtime"}
    BY StepsLeftType
  <2>2. pc \in {"test", "extract", "infer", "join"} /\ (config.mode = "stream" => ~device.active)
    BY DEF Ending, Loop
  <2>. QED BY <2>1, <2>2 DEF CanGoOn, WorkerDone
<1>4. More /\ [Next]_vars => [Ending => (Ending' /\ StepsLeft' < StepsLeft) \/ pc' = "idle"]_vars
  <2> SUFFICES ASSUME TypeOK, Control, DeviceOfStream, TrackNotOver, Ending, Next, TypeOK', Control',
                      DeviceOfStream', pc' # "idle"
               PROVE  Ending' /\ StepsLeft' < StepsLeft
    BY <1>2 DEF Inv
  <2>1. StepsLeft' < StepsLeft
    BY EndingStep
  <2>2. Ending'
    BY EndingKept
  <2>. QED BY <2>1, <2>2
<1>. QED BY <1>1, <1>2, <1>3, <1>4, PTL DEF Spec

=============================================================================
