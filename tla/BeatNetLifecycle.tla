--------------------------- MODULE BeatNetLifecycle ---------------------------
(***************************************************************************)
(* What the C++ class BeatNet loads, creates, releases and unloads, in its *)
(* constructor, in process() and in its destructor, members included       *)
(* (BeatNet.cpp, resampler.cpp, fftprocessor.cpp in the FFTW build).       *)
(*                                                                         *)
(* Each of the three is a program: a sequence of steps, done one by one.   *)
(* A creation may fail, and the status it returns is not looked at: the    *)
(* object stays null.  Using a null object or a function that was not      *)
(* found ends the process.                                                 *)
(***************************************************************************)
EXTENDS Integers, Sequences

CONSTANT MaxCalls   \* bound: calls of process()

ASSUME CallsAssumption == MaxCalls \in Nat

VARIABLES
    phase,     \* what the object is doing, or how it ended
    todo,      \* the rest of the running program
    loaded,    \* libraries with a handle
    resolved,  \* functions that were found, each with its library
    live,      \* objects created and not released
    calls      \* calls of process() made

vars == <<phase, todo, loaded, resolved, live, calls>>

\* The library whose functions create, use and release the object.
Library(object) ==
    IF object \in {"fft_input", "fft_output", "fft_plan", "compute_fft"} THEN "fftw3f"
    ELSE "onnxruntime"

\* The functions asked of a library; those of the network's come in one structure.
Functions(library) ==
    CASE library = "fftw3f" ->
            {library} \X {"malloc", "free", "plan", "execute", "destroy_plan"}
      [] library = "samplerate" ->
            {library} \X {"callback_new", "callback_read", "strerror"}
      [] OTHER -> {<<library, "api">>}

\* The function that does this with the object.
Function(act, object) ==
    CASE object \in {"fft_input", "fft_output"} ->
            <<"fftw3f", IF act = "create" THEN "malloc" ELSE "free">>
      [] object = "fft_plan" -> <<"fftw3f", IF act = "create" THEN "plan" ELSE "destroy_plan">>
      [] object = "compute_fft" -> <<"fftw3f", "execute">>
      [] OTHER -> <<"onnxruntime", "api">>

\* The objects handed to the call that creates or uses this one.
Arguments(object) ==
    CASE object = "fft_plan" -> {"fft_input", "fft_output"}
      [] object = "compute_fft" -> {"fft_plan"}
      [] object = "num_threads" -> {"session_options"}
      [] object = "session" -> {"env", "session_options"}
      [] object \in {"input_name", "output_name"} -> {"session", "allocator"}
      [] object = "input_tensor" -> {"memory_info"}
      [] object = "output_tensor" -> {"session", "input_tensor", "input_name", "output_name"}
      [] object \in {"output_data", "shape_info"} -> {"output_tensor"}
      [] OTHER -> {}

Steps(act, objects) == [n \in DOMAIN objects |-> <<act, objects[n]>>]

\* The members with something to create, in the order they are declared.
MembersConstruction ==
    <<<<"load", "samplerate">>, <<"load", "fftw3f">>>>
    \o Steps("create", <<"fft_input", "fft_output", "fft_plan">>)

Environment == Steps("create", <<"env", "session_options">>)
Session ==
    <<<<"use", "num_threads">>>> \o Steps("create", <<"run_options", "memory_info", "allocator", "session">>)
Names == Steps("create", <<"input_name", "output_name">>)

\* Fault: the names of the network's input and output are not asked for.
ConstructionWithoutNames ==
    MembersConstruction \o <<<<"load", "onnxruntime">>, <<"check", "modelPath">>>>
    \o Environment \o Session

\* Fault: the model is looked for after the environment was created.
ConstructionChecksLate ==
    MembersConstruction \o <<<<"load", "onnxruntime">>>> \o Environment
    \o <<<<"check", "modelPath">>>> \o Session \o Names

Construction ==
    MembersConstruction \o <<<<"load", "onnxruntime">>, <<"check", "modelPath">>>>
    \o Environment \o Session \o Names

Preprocessing == <<<<"resample", "samplerate">>>>

Inference ==
    <<<<"use", "compute_fft">>>> \o Steps("create", <<"input_tensor", "output_tensor">>)
    \o <<<<"use", "output_data">>, <<"use", "shape_info">>>>
    \o Steps("release", <<"input_tensor", "output_tensor">>)

\* The members' destructors, which also run when the constructor's body throws.
MembersDestruction ==
    Steps("release", <<"fft_plan", "fft_input", "fft_output">>)
    \o Steps("unload", <<"fftw3f", "samplerate">>)

\* Fault: the environment goes before the session made in it.
DestructionEnvFirst ==
    Steps("release", <<"input_name", "output_name", "env", "session", "session_options",
                       "memory_info", "run_options">>)
    \o <<<<"unload", "onnxruntime">>>> \o MembersDestruction

Destruction ==
    Steps("release", <<"input_name", "output_name", "session", "session_options",
                       "memory_info", "run_options", "env">>)
    \o <<<<"unload", "onnxruntime">>>> \o MembersDestruction

Init ==
    /\ phase = "constructing" /\ todo = Construction
    /\ loaded = {} /\ resolved = {} /\ live = {} /\ calls = 0

Now(act) == todo # << >> /\ Head(todo)[1] = act
Object == Head(todo)[2]

Crash ==
    /\ phase' = "crashed" /\ todo' = << >>
    /\ UNCHANGED <<loaded, resolved, live, calls>>

\* An exception out of the constructor's body: the destructor does not run.
Throw == phase' = "failing" /\ todo' = MembersDestruction

\* A handle, and all functions.
Load ==
    /\ Now("load")
    /\ loaded' = loaded \cup {Object} /\ resolved' = resolved \cup Functions(Object)
    /\ todo' = Tail(todo)
    /\ UNCHANGED <<phase, live, calls>>

\* No handle, or one in which a function is missing.  Only the network's library is
\* insisted on.
LoadFails ==
    /\ Now("load")
    /\ \/ UNCHANGED <<loaded, resolved>>
       \/ /\ loaded' = loaded \cup {Object}
          /\ \E found \in SUBSET Functions(Object) \ {Functions(Object)} :
                resolved' = resolved \cup found
    /\ IF Object = "onnxruntime" THEN Throw ELSE todo' = Tail(todo) /\ UNCHANGED phase
    /\ UNCHANGED <<live, calls>>

CheckModel ==
    /\ Now("check")
    /\ Throw \/ (todo' = Tail(todo) /\ UNCHANGED phase)
    /\ UNCHANGED <<loaded, resolved, live, calls>>

Usable == Function(Head(todo)[1], Object) \in resolved /\ Arguments(Object) \subseteq live

Create ==
    /\ Now("create")
    /\ Usable
    /\ live' \in {live, live \cup {Object}}
    /\ todo' = Tail(todo)
    /\ UNCHANGED <<phase, loaded, resolved, calls>>

Use ==
    /\ Now("use")
    /\ Usable
    /\ todo' = Tail(todo)
    /\ UNCHANGED <<phase, loaded, resolved, live, calls>>

UseOfNull == (Now("create") \/ Now("use")) /\ ~Usable /\ Crash

\* Resampler::resample through the functions of libsamplerate: without a block it needs
\* none, and strerror only if no state is created.
Resample ==
    /\ Now("resample")
    /\ \/ todo' = Tail(todo) /\ UNCHANGED <<phase, loaded, resolved, live, calls>>
       \/ ~(Functions("samplerate") \subseteq resolved) /\ Crash

\* The runtime's objects are looked at, if (object) Release(object); those of the
\* transform are not, and their functions do nothing with null.
Release ==
    /\ Now("release")
    /\ Function("release", Object) \in resolved
    /\ live' = live \ {Object}
    /\ todo' = Tail(todo)
    /\ UNCHANGED <<phase, loaded, resolved, calls>>

ReleaseWithoutFunction ==
    Now("release") /\ Function("release", Object) \notin resolved /\ Crash

\* The default allocator is the runtime's own: it is handed out, never released, and
\* goes with the library.
Unload ==
    /\ Now("unload")
    /\ loaded' = loaded \ {Object} /\ resolved' = resolved \ Functions(Object)
    /\ live' = IF Object = "onnxruntime" THEN live \ {"allocator"} ELSE live
    /\ todo' = Tail(todo)
    /\ UNCHANGED <<phase, calls>>

\* The end of the running program.
Return ==
    /\ todo = << >>
    /\ \/ phase \in {"constructing", "processing"} /\ phase' = "ready"
       \/ phase = "failing" /\ phase' = "failed"
       \/ phase = "destroying" /\ phase' = "destroyed"
    /\ UNCHANGED <<todo, loaded, resolved, live, calls>>

\* process(): without a frame yet, preprocess returns before the transform.
Process ==
    /\ phase = "ready"
    /\ calls < MaxCalls
    /\ phase' = "processing"
    /\ todo' \in {Preprocessing, Preprocessing \o Inference}
    /\ calls' = calls + 1
    /\ UNCHANGED <<loaded, resolved, live>>

Destroy ==
    /\ phase = "ready"
    /\ phase' = "destroying" /\ todo' = Destruction
    /\ UNCHANGED <<loaded, resolved, live, calls>>

Next ==
    \/ Load \/ LoadFails \/ CheckModel \/ Create \/ Use \/ UseOfNull \/ Resample
    \/ Release \/ ReleaseWithoutFunction \/ Unload \/ Return \/ Process \/ Destroy

Spec == Init /\ [][Next]_vars

-----------------------------------------------------------------------------
\* Nothing lives longer than what it was made from: an object not longer than its
\* library, a session not longer than its environment, whichever creations failed and
\* wherever the constructor threw (BeatNet.cpp lines 64 to 128).
OwnersOutlive ==
    \A object \in live :
        /\ Library(object) \in loaded
        /\ object = "session" => "env" \in live

\* A destroyed object has left nothing behind; one whose constructor threw has released
\* every object (but not always the handle of the network's library).
NothingLeftBehind ==
    /\ phase \in {"destroyed", "failed"} => live = {}
    /\ phase = "destroyed" => loaded = {}
    /\ phase = "failed" => loaded \subseteq {"onnxruntime"}

\* Although no status is looked at, a constructor that returns has a session with its
\* environment, and the transform has its buffers.  It need not have all that process()
\* uses: memory_info, the names, the plan and functions of both libraries may be null.
ReadyHasSession ==
    phase = "ready" => {"env", "session_options", "session", "fft_input", "fft_output"} \subseteq live

=============================================================================
