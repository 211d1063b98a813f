-------------------------- MODULE MCBeatNetHandler --------------------------
(***************************************************************************)
(* A small instance of BeatNetHandler for TLC: every mode with every       *)
(* inference, inline and threaded, and tracks on both sides of the places  *)
(* where the number of frames is rounded.                                  *)
(***************************************************************************)
EXTENDS BeatNetHandler

Setup(modes, inferences, threads) ==
    [mode : modes, inference : inferences, plot : {FALSE}, thread : threads, model : {1}]

AllConfigurations ==
    Setup({"stream", "realtime", "online", "offline", "Realtime"}, {"PF", "DBN"}, BOOLEAN)
        \cup [mode : {"stream"}, inference : {"PF", "HMM"}, plot : BOOLEAN,
              thread : BOOLEAN, model : {3, 4}]
        \cup [mode : {"realtime"}, inference : {"PF"}, plot : {TRUE}, thread : {FALSE}, model : {2}]

RealtimeThread == Setup({"realtime"}, {"PF"}, {TRUE})
RealtimePlot   == [mode : {"realtime"}, inference : {"PF"}, plot : {TRUE}, thread : {FALSE}, model : {1}]
FileModes      == Setup({"realtime", "online"}, {"PF"}, {FALSE})

\* Nothing; less than half a hop; half a hop; three hops; five hops and a bit.
Tracks == {0, 220, 221, 3 * 441, 5 * 441 + 100}

\* The caller has stopped calling.
Finished == pc = "idle" /\ calls = MaxCalls /\ UNCHANGED vars

MCSpec == /\ Init /\ [][Next \/ Finished]_vars
          /\ WF_vars(MainThread) /\ WF_vars(WorkerInfers)

=============================================================================
