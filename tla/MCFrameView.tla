---------------------------- MODULE MCFrameView ----------------------------
(* Two streams of two out of three channels, names of different lengths. *)
EXTENDS FrameView
MCName == <<<<77, 49>>, <<77, 85, 50>>>>
MCNewName == <<78>>
MCPool == <<"Ia", "Ib", "Va">>
MCSample == [Ia |-> 5, Ib |-> -2, Va |-> 70000]
MCInitialList == <<"Ia", "Va">>
MCToggled == {<<"frame", 0, "">>, <<"asdu", 1, "">>, <<"channel", 0, "Ib">>}
=============================================================================
