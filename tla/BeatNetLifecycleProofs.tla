------------------------ MODULE BeatNetLifecycleProofs ------------------------
(***************************************************************************)
(* Proofs about BeatNetLifecycle, for every number of calls and every way  *)
(* that loads, creations and checks may fail.                              *)
(*                                                                         *)
(* What is proved of a program is stated so that it holds of every rest of *)
(* it: Constructs, Processes and Undoes are kept by a step.                *)
(***************************************************************************)
EXTENDS BeatNetLifecycle, TLAPS

Libraries == {"samplerate", "fftw3f", "onnxruntime"}
FftObjects == {"fft_input", "fft_output", "fft_plan"}
Tensors == {"input_tensor", "output_tensor"}

\* What a constructor creates, and what the network and the transform need of it.
Created == FftObjects \cup {"env", "session_options", "run_options", "memory_info", "allocator",
                            "session", "input_name", "output_name"}
Needed == {"env", "session_options", "session", "fft_input", "fft_output"}

\* What a step is made of.
Acts == {"load", "check", "create", "use", "resample", "release", "unload"}
Things == Libraries \cup Created \cup Tensors
          \cup {"modelPath", "num_threads", "compute_fft", "output_data", "shape_info"}
Step == Acts \X Things

-----------------------------------------------------------------------------
(***************************************************************************)
(* The programs.                                                           *)
(***************************************************************************)

\* A constructor creates the objects of the transform only, until the library and the
\* model of the network have been found.
Constructs(p) ==
    /\ \A k \in 1 .. Len(p) :
          /\ p[k][1] \in {"load", "check", "create", "use"}
          /\ p[k][1] = "load" => p[k][2] \in Libraries
          /\ p[k][1] = "check" => p[k][2] = "modelPath"
          /\ p[k][1] = "create" => p[k][2] \in Created
    /\ \A j, k \in 1 .. Len(p) :
          j < k /\ p[j][1] = "create" /\ p[k] \in {<<"load", "onnxruntime">>, <<"check", "modelPath">>}
             => p[j][2] \in FftObjects

\* process() creates tensors, and releases each of them later.
Processes(p) ==
    /\ \A k \in 1 .. Len(p) :
          /\ p[k][1] \in {"resample", "use", "create", "release"}
          /\ p[k][1] \in {"create", "release"} => p[k][2] \in Tensors
    /\ \A j \in 1 .. Len(p) :
          p[j][1] = "create" => \E k \in 1 .. Len(p) : j < k /\ p[k] = <<"release", p[j][2]>>

\* Destructors release before they unload, and the session before the environment.
Undoes(p) ==
    /\ \A k \in 1 .. Len(p) : p[k][1] \in {"release", "unload"}
    /\ \A j, k \in 1 .. Len(p) :
          j < k /\ p[j][1] = "unload" /\ p[k][1] = "release" => Library(p[k][2]) # p[j][2]
    /\ \A j, k \in 1 .. Len(p) : j < k /\ p[j] = <<"release", "env">> => p[k] # <<"release", "session">>

Includes(p, act, object) == \E k \in 1 .. Len(p) : p[k] = <<act, object>>

\* The programs, step by step.
LEMMA ConstructionSteps ==
    /\ Len(Construction) = 16
    /\ Construction[1] = <<"load", "samplerate">> /\ Construction[2] = <<"load", "fftw3f">>
    /\ Construction[3] = <<"create", "fft_input">> /\ Construction[4] = <<"create", "fft_output">>
    /\ Construction[5] = <<"create", "fft_plan">>
    /\ Construction[6] = <<"load", "onnxruntime">> /\ Construction[7] = <<"check", "modelPath">>
    /\ Construction[8] = <<"create", "env">> /\ Construction[9] = <<"create", "session_options">>
    /\ Construction[10] = <<"use", "num_threads">>
    /\ Construction[11] = <<"create", "run_options">> /\ Construction[12] = <<"create", "memory_info">>
    /\ Construction[13] = <<"create", "allocator">> /\ Construction[14] = <<"create", "session">>
    /\ Construction[15] = <<"create", "input_name">> /\ Construction[16] = <<"create", "output_name">>
  BY DEF Construction, MembersConstruction, Environment, Session, Names, Steps

\* They are sequences of steps.
LEMMA ConstructionType == Construction \in Seq(Step)
  BY DEF Construction, MembersConstruction, Environment, Session, Names, Steps,
         Step, Acts, Things, Libraries, Created, FftObjects, Tensors

LEMMA UndoingSteps ==
    /\ Len(MembersDestruction) = 5
    /\ MembersDestruction[1] = <<"release", "fft_plan">>
    /\ MembersDestruction[2] = <<"release", "fft_input">>
    /\ MembersDestruction[3] = <<"release", "fft_output">>
    /\ MembersDestruction[4] = <<"unload", "fftw3f">>
    /\ MembersDestruction[5] = <<"unload", "samplerate">>
  BY DEF MembersDestruction, Steps

LEMMA UndoingType == MembersDestruction \in Seq(Step)
  BY DEF MembersDestruction, Steps,
         Step, Acts, Things, Libraries, Created, FftObjects, Tensors

LEMMA DestructionSteps ==
    /\ Len(Destruction) = 13
    /\ Destruction[1] = <<"release", "input_name">> /\ Destruction[2] = <<"release", "output_name">>
    /\ Destruction[3] = <<"release", "session">> /\ Destruction[4] = <<"release", "session_options">>
    /\ Destruction[5] = <<"release", "memory_info">> /\ Destruction[6] = <<"release", "run_options">>
    /\ Destruction[7] = <<"release", "env">> /\ Destruction[8] = <<"unload", "onnxruntime">>
    /\ Destruction[9] = <<"release", "fft_plan">> /\ Destruction[10] = <<"release", "fft_input">>
    /\ Destruction[11] = <<"release", "fft_output">> /\ Destruction[12] = <<"unload", "fftw3f">>
    /\ Destruction[13] = <<"unload", "samplerate">>
  BY DEF Destruction, MembersDestruction, Steps

LEMMA DestructionType == Destruction \in Seq(Step)
  BY DEF Destruction, MembersDestruction, Steps,
         Step, Acts, Things, Libraries, Created, FftObjects, Tensors

LEMMA ProcessingSteps ==
    /\ Len(Preprocessing) = 1
    /\ Preprocessing[1] = <<"resample", "samplerate">>
    /\ Len(Preprocessing \o Inference) = 8
    /\ (Preprocessing \o Inference)[1] = <<"resample", "samplerate">>
    /\ (Preprocessing \o Inference)[2] = <<"use", "compute_fft">>
    /\ (Preprocessing \o Inference)[3] = <<"create", "input_tensor">>
    /\ (Preprocessing \o Inference)[4] = <<"create", "output_tensor">>
    /\ (Preprocessing \o Inference)[5] = <<"use", "output_data">>
    /\ (Preprocessing \o Inference)[6] = <<"use", "shape_info">>
    /\ (Preprocessing \o Inference)[7] = <<"release", "input_tensor">>
    /\ (Preprocessing \o Inference)[8] = <<"release", "output_tensor">>
  BY DEF Preprocessing, Inference, Steps

LEMMA ProcessingType == Preprocessing \in Seq(Step) /\ Preprocessing \o Inference \in Seq(Step)
  BY DEF Preprocessing, Inference, Steps,
         Step, Acts, Things, Libraries, Created, FftObjects, Tensors

\* Every program is what its phase allows.
LEMMA ConstructionConstructs == Constructs(Construction)
<1>1. \A k \in 1 .. 16 :
        /\ Construction[k][1] \in {"load", "check", "create", "use"}
        /\ Construction[k][1] = "load" => Construction[k][2] \in Libraries
        /\ Construction[k][1] = "check" => Construction[k][2] = "modelPath"
        /\ Construction[k][1] = "create" => Construction[k][2] \in Created
        /\ Construction[k][1] = "create" /\ k < 7 => Construction[k][2] \in FftObjects
        /\ Construction[k] \in {<<"load", "onnxruntime">>, <<"check", "modelPath">>} => k <= 7
  BY ConstructionSteps DEF Libraries, Created, FftObjects
<1>. QED BY <1>1, ConstructionSteps DEF Constructs

LEMMA MembersUndone == Undoes(MembersDestruction)
<1>1. \A k \in 1 .. 5 :
        /\ MembersDestruction[k][1] \in {"release", "unload"}
        /\ MembersDestruction[k][1] = "release" <=> k <= 3
        /\ MembersDestruction[k] # <<"release", "env">>
  BY UndoingSteps
<1>. QED BY <1>1, UndoingSteps DEF Undoes

LEMMA DestructionUndoes == Undoes(Destruction)
<1>1. \A k \in 1 .. 13 :
        /\ Destruction[k][1] \in {"release", "unload"}
        /\ Destruction[k][1] = "release" /\ k > 8 => Library(Destruction[k][2]) = "fftw3f" /\ k < 12
        /\ Destruction[k][1] = "unload" => (k = 8 /\ Destruction[k][2] = "onnxruntime") \/ k >= 12
        /\ Destruction[k] = <<"release", "env">> => k = 7
        /\ Destruction[k] = <<"release", "session">> => k = 3
  BY DestructionSteps DEF Library
<1>. QED BY <1>1, DestructionSteps DEF Undoes

LEMMA ProcessingProcesses ==
    ASSUME NEW p \in {Preprocessing, Preprocessing \o Inference}
    PROVE  Processes(p)
<1>1. CASE p = Preprocessing
  BY <1>1, ProcessingSteps DEF Processes
<1>2. CASE p = Preprocessing \o Inference
  <2>0. /\ p[1] = <<"resample", "samplerate">> /\ p[2] = <<"use", "compute_fft">>
        /\ p[3] = <<"create", "input_tensor">> /\ p[4] = <<"create", "output_tensor">>
        /\ p[5] = <<"use", "output_data">> /\ p[6] = <<"use", "shape_info">>
        /\ p[7] = <<"release", "input_tensor">> /\ p[8] = <<"release", "output_tensor">>
    BY <1>2, ProcessingSteps
  <2>1. \A k \in 1 .. 8 :
          /\ p[k][1] \in {"resample", "use", "create", "release"}
          /\ p[k][1] \in {"create", "release"} => p[k][2] \in Tensors
          /\ p[k][1] = "create" => k < 7 /\ (p[7] = <<"release", p[k][2]>> \/ p[8] = <<"release", p[k][2]>>)
    BY <2>0 DEF Tensors
  <2>2. Len(p) = 8 /\ 7 \in 1 .. 8 /\ 8 \in 1 .. 8
    BY <1>2, ProcessingSteps
  <2>. QED BY <2>1, <2>2 DEF Processes
<1>. QED BY <1>1, <1>2

\* The first step of a program and the rest of it.
LEMMA Taken ==
    ASSUME NEW p \in Seq(Step), p # << >>
    PROVE  /\ Tail(p) \in Seq(Step) /\ Len(p) \in Nat /\ Len(p) > 0 /\ Head(p) = p[1]
           /\ Len(Tail(p)) = Len(p) - 1
           /\ \A k \in 1 .. Len(p) - 1 : Tail(p)[k] = p[k + 1]
           /\ p[1] = <<p[1][1], p[1][2]>> /\ p[1][1] \in Acts /\ p[1][2] \in Things
<1>1. /\ Tail(p) \in Seq(Step) /\ Len(p) \in Nat /\ Len(p) > 0 /\ Head(p) = p[1]
      /\ Len(Tail(p)) = Len(p) - 1
      /\ \A k \in 1 .. Len(p) - 1 : Tail(p)[k] = p[k + 1]
      /\ p[1] \in Step
  OBVIOUS
<1>2. p[1] = <<p[1][1], p[1][2]>> /\ p[1][1] \in Acts /\ p[1][2] \in Things
  BY <1>1 DEF Step
<1>. QED BY <1>1, <1>2

\* A step of a program is the first one or one of the rest.
LEMMA RestIncludes ==
    ASSUME NEW p \in Seq(Step), p # << >>, NEW act, NEW object
    PROVE  Includes(p, act, object) <=> p[1] = <<act, object>> \/ Includes(Tail(p), act, object)
<1>1. ASSUME Includes(p, act, object), p[1] # <<act, object>> PROVE Includes(Tail(p), act, object)
  <2>1. PICK k \in 1 .. Len(p) : p[k] = <<act, object>>
    BY <1>1 DEF Includes
  <2>2. k - 1 \in 1 .. Len(Tail(p)) /\ Tail(p)[k - 1] = <<act, object>>
    BY <1>1, <2>1, Taken
  <2>. QED BY <2>2 DEF Includes
<1>2. ASSUME p[1] = <<act, object>> PROVE Includes(p, act, object)
  BY <1>2, Taken DEF Includes
<1>3. ASSUME Includes(Tail(p), act, object) PROVE Includes(p, act, object)
  <2>1. PICK k \in 1 .. Len(Tail(p)) : Tail(p)[k] = <<act, object>>
    BY <1>3 DEF Includes
  <2>2. k + 1 \in 1 .. Len(p) /\ p[k + 1] = <<act, object>>
    BY <2>1, Taken
  <2>. QED BY <2>2 DEF Includes
<1>. QED BY <1>1, <1>2, <1>3

\* What holds of a program holds of its rest.
LEMMA RestConstructs ==
    ASSUME NEW p \in Seq(Step), p # << >>, Constructs(p)
    PROVE  Constructs(Tail(p))
<1>1. \A k \in 1 .. Len(Tail(p)) : k + 1 \in 1 .. Len(p) /\ Tail(p)[k] = p[k + 1]
  BY Taken
<1>2. \A j, k \in 1 .. Len(Tail(p)) : j < k => j + 1 < k + 1
  BY Taken
<1>. QED BY <1>1, <1>2, Zenon DEF Constructs

LEMMA RestUndoes ==
    ASSUME NEW p \in Seq(Step), p # << >>, Undoes(p)
    PROVE  Undoes(Tail(p))
<1>1. \A k \in 1 .. Len(Tail(p)) : k + 1 \in 1 .. Len(p) /\ Tail(p)[k] = p[k + 1]
  BY Taken
<1>2. \A j, k \in 1 .. Len(Tail(p)) : j < k => j + 1 < k + 1
  BY Taken
<1>. QED BY <1>1, <1>2, Zenon DEF Undoes

LEMMA RestProcesses ==
    ASSUME NEW p \in Seq(Step), p # << >>, Processes(p)
    PROVE  Processes(Tail(p))
<1>1. \A k \in 1 .. Len(Tail(p)) : k + 1 \in 1 .. Len(p) /\ Tail(p)[k] = p[k + 1]
  BY Taken
<1>2. ASSUME NEW j \in 1 .. Len(Tail(p)), Tail(p)[j][1] = "create"
      PROVE  \E k \in 1 .. Len(Tail(p)) : j < k /\ Tail(p)[k] = <<"release", Tail(p)[j][2]>>
  <2>1. PICK k \in 1 .. Len(p) : j + 1 < k /\ p[k] = <<"release", p[j + 1][2]>>
    BY <1>1, <1>2 DEF Processes
  <2>2. k - 1 \in 1 .. Len(Tail(p)) /\ j < k - 1 /\ Tail(p)[k - 1] = p[k]
    BY <2>1, Taken
  <2>. QED BY <1>1, <2>1, <2>2
<1>. QED BY <1>1, <1>2 DEF Processes

-----------------------------------------------------------------------------
(***************************************************************************)
(* The invariant.                                                          *)
(***************************************************************************)

Awaits(act, object) == Includes(todo, act, object)

\* The functions found are functions of loaded libraries.
FoundIn(libraries, functions) ==
    \A f \in functions : f[1] \in libraries /\ f \in Functions(f[1])

\* The end of an object is to come.
Ends(object) ==
    IF object = "allocator" THEN Awaits("unload", "onnxruntime") ELSE Awaits("release", object)

Types ==
    /\ phase \in {"constructing", "ready", "processing", "destroying", "destroyed",
                  "failing", "failed", "crashed"}
    /\ todo \in Seq(Step)
    /\ FoundIn(loaded, resolved) /\ loaded \subseteq Libraries

\* The running program is one of its phase.
Fits ==
    /\ phase = "constructing" => Constructs(todo)
    /\ phase = "processing" => Processes(todo)
    /\ phase \in {"destroying", "failing"} => Undoes(todo)
    /\ phase \in {"ready", "destroyed", "failed", "crashed"} => todo = << >>

\* A constructor has what it has passed the use of, as using a null object ends the process.
Built ==
    /\ phase = "constructing" =>
          /\ Awaits("create", "session") \/ {"env", "session_options"} \subseteq live
          /\ Awaits("create", "input_name") \/ "session" \in live
          /\ Awaits("create", "fft_plan") \/ {"fft_input", "fft_output"} \subseteq live
          /\ live \subseteq Created
          /\ Awaits("load", "onnxruntime") \/ Awaits("check", "modelPath") => live \subseteq FftObjects
    /\ phase \in {"ready", "processing"} => Needed \subseteq live

\* What lives will be released, and what is loaded unloaded.
Accounted ==
    /\ phase = "ready" => live \subseteq Created
    /\ phase = "processing" => \A object \in live : object \in Created \/ Awaits("release", object)
    /\ phase \in {"destroying", "failing"} =>
          /\ \A object \in live : Ends(object)
          /\ \A library \in loaded :
                Awaits("unload", library) \/ (phase = "failing" /\ library = "onnxruntime")

Inv == Types /\ Fits /\ Built /\ OwnersOutlive /\ Accounted /\ NothingLeftBehind

\* Before the first step nothing lives and everything is awaited.
LEMMA InitInv == Init => Inv
<1> SUFFICES ASSUME Init PROVE Inv
  OBVIOUS
<1>1. Types
  BY ConstructionType DEF Init, Types, FoundIn
<1>2. Fits
  BY ConstructionConstructs DEF Init, Fits
<1>3. /\ Includes(Construction, "create", "session") /\ Includes(Construction, "create", "input_name")
      /\ Includes(Construction, "create", "fft_plan")
  BY ConstructionSteps DEF Includes
<1>4. Built
  BY <1>3 DEF Init, Built, Awaits
<1>. QED BY <1>1, <1>2, <1>4 DEF Init, Inv, OwnersOutlive, Accounted, NothingLeftBehind

\* What a step finds at the head of the program, and leaves.
LEMMA StepTaken ==
    ASSUME Inv, todo # << >>
    PROVE  /\ Head(todo) = <<Head(todo)[1], Object>>
           /\ Tail(todo) \in Seq(Step)
           /\ phase \in {"constructing", "processing", "destroying", "failing"}
           /\ phase = "constructing" =>
                 /\ Constructs(Tail(todo))
                 /\ Head(todo)[1] \in {"load", "check", "create", "use"}
                 /\ Head(todo)[1] = "load" => Object \in Libraries
                 /\ Head(todo)[1] = "check" => Object = "modelPath"
                 /\ Head(todo)[1] = "create" => Object \in Created
           /\ phase = "processing" =>
                 /\ Processes(Tail(todo))
                 /\ Head(todo)[1] \in {"resample", "use", "create", "release"}
                 /\ Head(todo)[1] \in {"create", "release"} => Object \in Tensors
                 /\ Head(todo)[1] = "create" => Includes(Tail(todo), "release", Object)
           /\ phase \in {"destroying", "failing"} =>
                 /\ Undoes(Tail(todo))
                 /\ Head(todo)[1] \in {"release", "unload"}
           /\ \A act, object : Awaits(act, object) <=>
                 Head(todo) = <<act, object>> \/ Includes(Tail(todo), act, object)
<1>1. todo \in Seq(Step) /\ todo # << >>
  BY DEF Inv, Types
<1>2. /\ Tail(todo) \in Seq(Step) /\ Len(todo) \in Nat /\ Len(todo) > 0 /\ Head(todo) = todo[1]
      /\ Len(Tail(todo)) = Len(todo) - 1
      /\ \A k \in 1 .. Len(todo) - 1 : Tail(todo)[k] = todo[k + 1]
      /\ Head(todo) = <<Head(todo)[1], Object>> /\ 1 \in 1 .. Len(todo)
  BY <1>1, Taken DEF Object
<1>3. phase \in {"constructing", "processing", "destroying", "failing"}
  BY <1>1 DEF Inv, Types, Fits
<1>4. ASSUME phase = "constructing"
      PROVE  /\ Constructs(Tail(todo))
             /\ Head(todo)[1] \in {"load", "check", "create", "use"}
             /\ Head(todo)[1] = "load" => Object \in Libraries
             /\ Head(todo)[1] = "check" => Object = "modelPath"
             /\ Head(todo)[1] = "create" => Object \in Created
  <2>1. Constructs(todo)
    BY <1>4 DEF Inv, Fits
  <2>2. Constructs(Tail(todo))
    BY <1>1, <2>1, RestConstructs
  <2>. QED BY <1>2, <2>1, <2>2 DEF Constructs, Object
<1>5. ASSUME phase = "processing"
      PROVE  /\ Processes(Tail(todo))
             /\ Head(todo)[1] \in {"resample", "use", "create", "release"}
             /\ Head(todo)[1] \in {"create", "release"} => Object \in Tensors
             /\ Head(todo)[1] = "create" => Includes(Tail(todo), "release", Object)
  <2>1. Processes(todo)
    BY <1>5 DEF Inv, Fits
  <2>2. Processes(Tail(todo))
    BY <1>1, <2>1, RestProcesses
  <2>3. /\ Head(todo)[1] \in {"resample", "use", "create", "release"}
        /\ Head(todo)[1] \in {"create", "release"} => Object \in Tensors
    BY <1>2, <2>1 DEF Processes, Object
  <2>4. ASSUME Head(todo)[1] = "create" PROVE Includes(Tail(todo), "release", Object)
    <3>1. PICK k \in 1 .. Len(todo) : 1 < k /\ todo[k] = <<"release", todo[1][2]>>
      BY <1>2, <2>1, <2>4 DEF Processes
    <3>2. k - 1 \in 1 .. Len(Tail(todo)) /\ Tail(todo)[k - 1] = <<"release", Object>>
      BY <1>2, <3>1 DEF Object
    <3>. QED BY <3>2 DEF Includes
  <2>. QED BY <2>2, <2>3, <2>4
<1>6. ASSUME phase \in {"destroying", "failing"}
      PROVE  Undoes(Tail(todo)) /\ Head(todo)[1] \in {"release", "unload"}
  <2>1. Undoes(todo)
    BY <1>6 DEF Inv, Fits
  <2>2. Undoes(Tail(todo))
    BY <1>1, <2>1, RestUndoes
  <2>. QED BY <1>2, <2>1, <2>2 DEF Undoes
<1>7. \A act, object : Awaits(act, object) <=>
         Head(todo) = <<act, object>> \/ Includes(Tail(todo), act, object)
  BY <1>1, <1>2, RestIncludes DEF Awaits
<1>. QED BY <1>2, <1>3, <1>4, <1>5, <1>6, <1>7

\* A step that goes on with its program leaves it fit.
LEMMA Going ==
    ASSUME Inv, todo # << >>, todo' = Tail(todo), phase' = phase
    PROVE  /\ todo' \in Seq(Step) /\ Fits' /\ NothingLeftBehind'
           /\ phase \in {"constructing", "processing", "destroying", "failing"}
           /\ \A act, object : Awaits(act, object) <=> Head(todo) = <<act, object>> \/ Awaits(act, object)'
<1>1. Fits'
  BY StepTaken DEF Fits
<1>2. NothingLeftBehind'
  BY StepTaken DEF NothingLeftBehind
<1>3. \A act, object : Awaits(act, object) <=> Head(todo) = <<act, object>> \/ Awaits(act, object)'
  BY StepTaken DEF Awaits
<1>. QED BY <1>1, <1>2, <1>3, StepTaken

\* An exception finds nothing but the objects of the transform, which the members release.
LEMMA ThrowInv ==
    ASSUME Inv, phase = "constructing", Throw,
           Awaits("load", "onnxruntime") \/ Awaits("check", "modelPath"),
           live' = live, FoundIn(loaded', resolved'), loaded \subseteq loaded',
           loaded' \subseteq Libraries
    PROVE  Inv'
<1>1. live \subseteq FftObjects
  BY DEF Inv, Built
<1>2. phase' = "failing" /\ todo' = MembersDestruction
  BY DEF Throw
<1>3. Types'
  BY <1>2, UndoingType DEF Inv, Types
<1>4. Fits'
  BY <1>2, MembersUndone DEF Fits
<1>5. Built' /\ NothingLeftBehind'
  BY <1>2 DEF Built, NothingLeftBehind
<1>6. OwnersOutlive'
  BY DEF Inv, OwnersOutlive
<1>7. Accounted'
  <2>1. \A object \in FftObjects : Includes(MembersDestruction, "release", object)
    BY UndoingSteps DEF Includes, FftObjects
  <2>2. \A library \in Libraries :
          Includes(MembersDestruction, "unload", library) \/ library = "onnxruntime"
    BY UndoingSteps DEF Includes, Libraries
  <2>3. \A object \in live' : object \in FftObjects /\ object # "allocator"
    BY <1>1 DEF FftObjects
  <2>. QED BY <1>1, <1>2, <2>1, <2>2, <2>3 DEF Accounted, Awaits, Ends
<1>. QED BY <1>3, <1>4, <1>5, <1>6, <1>7 DEF Inv

\* Steps that create and release nothing.
LEMMA OnwardInv ==
    ASSUME Inv, todo # << >>, todo' = Tail(todo), phase' = phase, live' = live,
           Head(todo)[1] \in {"load", "check", "use", "resample"},
           loaded \subseteq loaded', FoundIn(loaded', resolved'), loaded' \subseteq Libraries,
           loaded' = loaded \/ phase = "constructing"
    PROVE  Inv'
<1>1. /\ todo' \in Seq(Step) /\ Fits' /\ NothingLeftBehind'
      /\ phase \in {"constructing", "processing"}
  BY Going, StepTaken
<1>2. \A act \in {"create", "release", "unload"} : \A object :
         Awaits(act, object) <=> Awaits(act, object)'
  BY Going, StepTaken
<1>3. \A act, object : Awaits(act, object)' => Awaits(act, object)
  BY Going
<1>4. Types'
  BY <1>1 DEF Inv, Types
<1>5. Built'
  BY <1>1, <1>2, <1>3 DEF Inv, Built
<1>6. OwnersOutlive'
  BY DEF Inv, OwnersOutlive
<1>7. Accounted'
  BY <1>1, <1>2 DEF Inv, Accounted
<1>. QED BY <1>1, <1>4, <1>5, <1>6, <1>7 DEF Inv

\* A load that fails ends the constructor, or nothing.
LEMMA LoadInv == ASSUME Inv, Load \/ LoadFails PROVE Inv'
<1>1. todo # << >> /\ Head(todo)[1] = "load" /\ live' = live
  BY DEF Load, LoadFails, Now
<1>2. phase = "constructing" /\ Object \in Libraries /\ Head(todo) = <<"load", Object>>
  BY <1>1, StepTaken
<1>3. loaded \subseteq loaded' /\ loaded' \subseteq Libraries
  BY <1>2 DEF Load, LoadFails, Inv, Types
<1>0. FoundIn(loaded', resolved')
  <2>1. \A f \in Functions(Object) : f[1] = Object
    BY DEF Functions
  <2>2. \A f \in resolved' : f \in resolved \/ (f \in Functions(Object) /\ Object \in loaded')
    BY DEF Load, LoadFails
  <2>3. FoundIn(loaded, resolved)
    BY DEF Inv, Types
  <2>. QED BY <1>3, <2>1, <2>2, <2>3 DEF FoundIn
<1>4. CASE todo' = Tail(todo) /\ phase' = phase
  BY <1>0, <1>1, <1>2, <1>3, <1>4, OnwardInv
<1>5. CASE Throw /\ Object = "onnxruntime"
  <2>1. Awaits("load", "onnxruntime")
    BY <1>1, <1>2, <1>5, StepTaken
  <2>. QED BY <1>0, <1>1, <1>2, <1>3, <1>5, <2>1, ThrowInv
<1>. QED BY <1>4, <1>5 DEF Load, LoadFails

\* The model is there, or the constructor ends.
LEMMA CheckInv == ASSUME Inv, CheckModel PROVE Inv'
<1>1. todo # << >> /\ Head(todo)[1] = "check" /\ live' = live /\ loaded' = loaded /\ resolved' = resolved
  BY DEF CheckModel, Now
<1>2. phase = "constructing" /\ Head(todo) = <<"check", "modelPath">>
  BY <1>1, StepTaken
<1>3. loaded \subseteq Libraries /\ FoundIn(loaded, resolved)
  BY DEF Inv, Types
<1>4. CASE todo' = Tail(todo) /\ phase' = phase
  BY <1>1, <1>2, <1>3, <1>4, OnwardInv
<1>5. CASE Throw
  <2>1. Awaits("check", "modelPath")
    BY <1>1, <1>2, StepTaken
  <2>. QED BY <1>1, <1>2, <1>3, <1>5, <2>1, ThrowInv
<1>. QED BY <1>4, <1>5 DEF CheckModel

\* A process that ends leaves everything as it is.
LEMMA CrashInv == ASSUME Inv, Crash PROVE Inv'
<1>1. phase' = "crashed" /\ todo' = << >> /\ UNCHANGED <<loaded, resolved, live>>
  BY DEF Crash
<1>2. Types'
  BY <1>1 DEF Inv, Types
<1>3. Fits' /\ Built' /\ Accounted' /\ NothingLeftBehind'
  BY <1>1 DEF Fits, Built, Accounted, NothingLeftBehind
<1>4. OwnersOutlive'
  BY <1>1 DEF Inv, OwnersOutlive
<1>. QED BY <1>2, <1>3, <1>4 DEF Inv

\* A use changes nothing, or ends the process.
LEMMA UseInv == ASSUME Inv, Use \/ UseOfNull \/ Resample \/ ReleaseWithoutFunction PROVE Inv'
<1>1. loaded \subseteq Libraries /\ FoundIn(loaded, resolved)
  BY DEF Inv, Types
<1>2. CASE Crash
  BY <1>2, CrashInv
<1>3. CASE /\ todo # << >> /\ Head(todo)[1] \in {"use", "resample"}
           /\ todo' = Tail(todo) /\ UNCHANGED <<phase, loaded, resolved, live>>
  BY <1>1, <1>3, OnwardInv
<1>. QED BY <1>2, <1>3 DEF Use, UseOfNull, Resample, ReleaseWithoutFunction, Now

\* What is created has its library and, if it is the session, its environment; what has
\* not been created yet is still to come.
LEMMA CreateInv == ASSUME Inv, Create PROVE Inv'
<1>1. /\ todo # << >> /\ todo' = Tail(todo) /\ phase' = phase
      /\ Head(todo)[1] = "create" /\ UNCHANGED <<loaded, resolved>>
      /\ live \subseteq live' /\ live' \subseteq live \cup {Object} /\ Usable
  BY DEF Create, Now
<1>2. /\ todo' \in Seq(Step) /\ Fits' /\ NothingLeftBehind'
      /\ phase \in {"constructing", "processing"}
      /\ Head(todo) = <<"create", Object>>
  BY <1>1, Going, StepTaken
<1>3. \A act, object : Awaits(act, object) <=> Head(todo) = <<act, object>> \/ Awaits(act, object)'
  BY <1>1, Going
<1>4. Types'
  BY <1>1, <1>2 DEF Inv, Types
<1>5. Built'
  <2>1. CASE phase = "processing"
    BY <1>1, <2>1 DEF Inv, Built
  <2>2. CASE phase = "constructing"
    <3>1. Object = "session" => {"env", "session_options"} \subseteq live
      BY <1>1 DEF Usable, Arguments
    <3>2. Object = "input_name" => "session" \in live
      BY <1>1 DEF Usable, Arguments
    <3>3. Object = "fft_plan" => {"fft_input", "fft_output"} \subseteq live
      BY <1>1 DEF Usable, Arguments
    <3>4. Object \in Created
      BY <1>1, <2>2, StepTaken
    <3>5. Awaits("load", "onnxruntime")' \/ Awaits("check", "modelPath")' =>
             Object \in FftObjects /\ live \subseteq FftObjects
      <4> SUFFICES ASSUME Awaits("load", "onnxruntime")' \/ Awaits("check", "modelPath")'
                   PROVE  Object \in FftObjects /\ live \subseteq FftObjects
        OBVIOUS
      <4>1. live \subseteq FftObjects
        BY <1>3, <2>2 DEF Inv, Built
      <4>2. PICK k \in 1 .. Len(todo') : todo'[k] \in {<<"load", "onnxruntime">>, <<"check", "modelPath">>}
        BY DEF Awaits, Includes
      <4>3. k + 1 \in 1 .. Len(todo) /\ todo[k + 1] = todo'[k] /\ todo[1] = <<"create", Object>>
            /\ 1 \in 1 .. Len(todo) /\ 1 < k + 1
        BY <1>1, <1>2, Taken DEF Inv, Types
      <4>4. Constructs(todo) /\ todo[1][1] = "create" /\ todo[1][2] = Object
        BY <2>2, <4>3 DEF Inv, Fits
      <4>. QED BY <4>1, <4>2, <4>3, <4>4 DEF Constructs
    <3>6. /\ Awaits("create", "session")' \/ {"env", "session_options"} \subseteq live'
          /\ Awaits("create", "input_name")' \/ "session" \in live'
          /\ Awaits("create", "fft_plan")' \/ {"fft_input", "fft_output"} \subseteq live'
      BY <1>1, <1>2, <1>3, <2>2, <3>1, <3>2, <3>3 DEF Inv, Built
    <3>7. live \subseteq Created
      BY <2>2 DEF Inv, Built
    <3>. QED BY <1>1, <2>2, <3>4, <3>5, <3>6, <3>7 DEF Built
  <2>. QED BY <1>2, <2>1, <2>2
<1>6. OwnersOutlive'
  <2>1. Library(Object) \in loaded
    <3>1. Function("create", Object) \in resolved /\ FoundIn(loaded, resolved)
      BY <1>1 DEF Usable, Inv, Types
    <3>2. Function("create", Object)[1] = Library(Object)
      BY DEF Function, Library
    <3>. QED BY <3>1, <3>2 DEF FoundIn
  <2>2. Object = "session" => "env" \in live
    BY <1>1 DEF Usable, Arguments
  <2>. QED BY <1>1, <2>1, <2>2 DEF Inv, OwnersOutlive
<1>7. Accounted'
  <2>1. ASSUME phase = "processing", NEW object \in live'
        PROVE  object \in Created \/ Awaits("release", object)'
    <3>1. CASE object \in live
      BY <1>2, <1>3, <2>1, <3>1 DEF Inv, Accounted
    <3>2. CASE object = Object
      BY <1>1, <2>1, <3>2, StepTaken DEF Awaits
    <3>. QED BY <1>1, <3>1, <3>2
  <2>. QED BY <1>1, <1>2, <2>1 DEF Accounted
<1>. QED BY <1>2, <1>4, <1>5, <1>6, <1>7 DEF Inv

\* A release takes nothing that is needed later: tensors while the object is in use, and
\* the environment after the session.
LEMMA ReleaseInv == ASSUME Inv, Release PROVE Inv'
<1>1. /\ todo # << >> /\ todo' = Tail(todo) /\ phase' = phase
      /\ Head(todo)[1] = "release" /\ UNCHANGED <<loaded, resolved>>
      /\ live' = live \ {Object}
  BY DEF Release, Now
<1>2. /\ todo' \in Seq(Step) /\ Fits' /\ NothingLeftBehind'
      /\ phase \in {"processing", "destroying", "failing"}
      /\ Head(todo) = <<"release", Object>>
      /\ phase = "processing" => Object \in Tensors
  BY <1>1, Going, StepTaken
<1>3. \A act, object : Awaits(act, object) <=> Head(todo) = <<act, object>> \/ Awaits(act, object)'
  BY <1>1, Going
<1>4. Types'
  BY <1>1, <1>2 DEF Inv, Types
<1>5. Built'
  BY <1>1, <1>2 DEF Inv, Built, Needed, Tensors
<1>6. OwnersOutlive'
  <2>1. ASSUME "session" \in live, Object = "env" PROVE Object = "session"
    <3>1. phase \in {"destroying", "failing"}
      BY <1>2, <2>1 DEF Tensors
    <3>2. Awaits("release", "session")
      BY <2>1, <3>1 DEF Inv, Accounted, Ends
    <3>3. PICK k \in 1 .. Len(todo) : todo[k] = <<"release", "session">>
      BY <3>2 DEF Awaits, Includes
    <3>4. todo[1] = <<"release", "env">> /\ 1 \in 1 .. Len(todo) /\ Len(todo) \in Nat
      BY <1>1, <1>2, <2>1, Taken DEF Inv, Types
    <3>5. k # 1
      BY <3>3, <3>4
    <3>6. Undoes(todo) /\ 1 < k
      BY <3>1, <3>4, <3>5 DEF Inv, Fits
    <3>. QED BY <3>3, <3>4, <3>6 DEF Undoes
  <2>2. "session" \in live' => "env" \in live'
    BY <1>1, <2>1 DEF Inv, OwnersOutlive
  <2>. QED BY <1>1, <2>2 DEF Inv, OwnersOutlive
<1>7. Accounted'
  <2>1. \A object \in live' : object \in live /\ object # Object
    BY <1>1
  <2>2. \A object \in live' : Ends(object) => Ends(object)'
    BY <1>2, <1>3, <2>1 DEF Ends
  <2>. QED BY <1>1, <1>2, <1>3, <2>1, <2>2 DEF Inv, Accounted
<1>. QED BY <1>2, <1>4, <1>5, <1>6, <1>7 DEF Inv

\* No object of a library lives when it is unloaded: its release would come too late.
LEMMA UnloadInv == ASSUME Inv, Unload PROVE Inv'
<1>1. /\ todo # << >> /\ todo' = Tail(todo) /\ phase' = phase
      /\ Head(todo)[1] = "unload" /\ live' \subseteq live
      /\ Object = "onnxruntime" => "allocator" \notin live'
      /\ \A object \in live : object # "allocator" => object \in live'
      /\ loaded' = loaded \ {Object} /\ resolved' = resolved \ Functions(Object)
  BY DEF Unload, Now
<1>2. /\ todo' \in Seq(Step) /\ Fits' /\ NothingLeftBehind'
      /\ phase \in {"destroying", "failing"}
      /\ Head(todo) = <<"unload", Object>>
  BY <1>1, Going, StepTaken
<1>3. \A act, object : Awaits(act, object) <=> Head(todo) = <<act, object>> \/ Awaits(act, object)'
  BY <1>1, Going
<1>4. Types'
  <2>1. FoundIn(loaded', resolved')
    BY <1>1 DEF Inv, Types, FoundIn
  <2>. QED BY <1>1, <1>2, <2>1 DEF Inv, Types
<1>5. Built'
  BY <1>1, <1>2 DEF Built
<1>6. OwnersOutlive'
  <2>0. ASSUME NEW object \in live', object = "allocator" PROVE Library(object) # Object
    BY <1>1, <2>0 DEF Library
  <2>1. ASSUME NEW object \in live', object # "allocator" PROVE Library(object) # Object
    <3>1. Awaits("release", object)
      BY <1>1, <1>2, <2>1 DEF Inv, Accounted, Ends
    <3>2. PICK k \in 1 .. Len(todo) : todo[k] = <<"release", object>>
      BY <3>1 DEF Awaits, Includes
    <3>3. todo[1] = <<"unload", Object>> /\ 1 \in 1 .. Len(todo) /\ Len(todo) \in Nat
      BY <1>1, <1>2, Taken DEF Inv, Types
    <3>4. k # 1
      BY <3>2, <3>3
    <3>5. Undoes(todo) /\ 1 < k
      BY <1>2, <3>3, <3>4 DEF Inv, Fits
    <3>6. todo[1][1] = "unload" /\ todo[1][2] = Object /\ todo[k][1] = "release" /\ todo[k][2] = object
      BY <3>2, <3>3
    <3>. QED BY <3>3, <3>5, <3>6 DEF Undoes
  <2>. QED BY <1>1, <2>0, <2>1 DEF Inv, OwnersOutlive
<1>7. Accounted'
  <2>1. \A library \in loaded' : library \in loaded /\ library # Object
    BY <1>1
  <2>2. \A object : Awaits("release", object) <=> Awaits("release", object)'
    BY <1>2, <1>3
  <2>3. \A object \in live' : Ends(object) => Ends(object)'
    <3>1. "allocator" \in live' => Head(todo) # <<"unload", "onnxruntime">>
      BY <1>1, <1>2
    <3>. QED BY <1>3, <2>2, <3>1 DEF Ends
  <2>. QED BY <1>1, <1>2, <1>3, <2>1, <2>3 DEF Inv, Accounted
<1>. QED BY <1>2, <1>4, <1>5, <1>6, <1>7 DEF Inv

\* At the end of a program nothing is awaited any more.
LEMMA ReturnInv == ASSUME Inv, Return PROVE Inv'
<1>1. todo = << >> /\ UNCHANGED <<todo, loaded, resolved, live>>
      /\ <<phase, phase'>> \in {<<"constructing", "ready">>, <<"processing", "ready">>,
                               <<"failing", "failed">>, <<"destroying", "destroyed">>}
  BY DEF Return
<1>2. \A act, object : ~Awaits(act, object)
  BY <1>1 DEF Awaits, Includes
<1>3. Types' /\ Fits'
  BY <1>1 DEF Inv, Types, Fits
<1>4. Built'
  BY <1>1, <1>2 DEF Inv, Built, Needed
<1>5. OwnersOutlive'
  BY <1>1 DEF Inv, OwnersOutlive
<1>6. Accounted'
  BY <1>1, <1>2 DEF Inv, Accounted, Built, Ends
<1>7. NothingLeftBehind'
  BY <1>1, <1>2 DEF Inv, Accounted, NothingLeftBehind, Ends
<1>. QED BY <1>3, <1>4, <1>5, <1>6, <1>7 DEF Inv

\* A call starts with what the constructor made.
LEMMA ProcessInv == ASSUME Inv, Process PROVE Inv'
<1>1. /\ phase = "ready" /\ phase' = "processing" /\ UNCHANGED <<loaded, resolved, live>>
      /\ todo' \in {Preprocessing, Preprocessing \o Inference}
  BY DEF Process
<1>2. todo' \in Seq(Step) /\ Processes(todo')
  BY <1>1, ProcessingType, ProcessingProcesses
<1>3. Types' /\ Fits'
  BY <1>1, <1>2 DEF Inv, Types, Fits
<1>4. Built' /\ Accounted' /\ NothingLeftBehind'
  BY <1>1 DEF Inv, Built, Accounted, NothingLeftBehind
<1>5. OwnersOutlive'
  BY <1>1 DEF Inv, OwnersOutlive
<1>. QED BY <1>3, <1>4, <1>5 DEF Inv

\* The destructor releases all that a constructor creates, and unloads all libraries.
LEMMA DestroyInv == ASSUME Inv, Destroy PROVE Inv'
<1>1. /\ phase = "ready" /\ phase' = "destroying" /\ UNCHANGED <<loaded, resolved, live>>
      /\ todo' = Destruction
  BY DEF Destroy
<1>2. Types' /\ Fits'
  BY <1>1, DestructionType, DestructionUndoes DEF Inv, Types, Fits
<1>3. Built' /\ NothingLeftBehind'
  BY <1>1 DEF Built, NothingLeftBehind
<1>4. Accounted'
  <2>1. \A object \in Created \ {"allocator"} : Includes(Destruction, "release", object)
    BY DestructionSteps DEF Includes, Created, FftObjects
  <2>2. \A library \in Libraries : Includes(Destruction, "unload", library)
    BY DestructionSteps DEF Includes, Libraries
  <2>3. live \subseteq Created /\ loaded \subseteq Libraries
    BY <1>1 DEF Inv, Accounted, Types
  <2>4. Includes(Destruction, "unload", "onnxruntime")
    BY <2>2 DEF Libraries
  <2>. QED BY <1>1, <2>1, <2>2, <2>3, <2>4 DEF Accounted, Awaits, Ends
<1>5. OwnersOutlive'
  BY <1>1 DEF Inv, OwnersOutlive
<1>. QED BY <1>2, <1>3, <1>4, <1>5 DEF Inv

-----------------------------------------------------------------------------
(***************************************************************************)
(* Theorems.                                                               *)
(***************************************************************************)

\* Every action keeps the invariant.
LEMMA LifecycleInv == Spec => []Inv
<1>1. Inv /\ [Next]_vars => Inv'
  <2> SUFFICES ASSUME Inv, [Next]_vars PROVE Inv'
    OBVIOUS
  <2>1. CASE UNCHANGED vars
    BY <2>1 DEF vars, Inv, Types, Fits, Built, OwnersOutlive, Accounted, NothingLeftBehind, Awaits, Ends
  <2>. QED BY <2>1, LoadInv, CheckInv, CreateInv, UseInv, ReleaseInv, UnloadInv, ReturnInv,
              ProcessInv, DestroyInv DEF Next
<1>. QED BY <1>1, InitInv, PTL DEF Spec

\* No object outlives its library and no session its environment, whichever loads and
\* creations fail, wherever the constructor throws and however often process() is called.
THEOREM LifecycleOwnersOutlive == Spec => []OwnersOutlive
<1>1. Inv => OwnersOutlive
  BY DEF Inv
<1>. QED BY <1>1, LifecycleInv, PTL

\* A destroyed object leaves nothing, and one whose constructor threw no object.
THEOREM LifecycleNothingLeftBehind == Spec => []NothingLeftBehind
<1>1. Inv => NothingLeftBehind
  BY DEF Inv
<1>. QED BY <1>1, LifecycleInv, PTL

\* An object that was constructed has its session and the buffers of its transform,
\* although no status was looked at.
THEOREM LifecycleReadyHasSession == Spec => []ReadyHasSession
<1>1. Inv => ReadyHasSession
  BY DEF Inv, Built, Needed, ReadyHasSession
<1>. QED BY <1>1, LifecycleInv, PTL

=============================================================================
