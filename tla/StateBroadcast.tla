---------------------------- MODULE StateBroadcast ----------------------------
(***************************************************************************)
(* What a GOOSE publisher promises its subscribers.  The application hands *)
(* over a sequence of Boolean states; the publisher puts on the wire a     *)
(* sampling of that sequence that never goes back, that numbers the states *)
(* it shows (stNum) and counts the repetitions of each (sqNum).  States    *)
(* that do not last may be skipped, the newest may not for ever.           *)
(***************************************************************************)
EXTENDS Naturals, Sequences

CONSTANTS MaxSt, MaxSq         \* bounds: the numbers saturate

VARIABLES
    history,                   \* the states handed over, in order
    wire                       \* [n, st, sq] of the last frame, or Silent

Silent == [n |-> 0, st |-> 0, sq |-> 0]

Frames(h) == [n : 1 .. Len(h), st : 1 .. MaxSt, sq : 0 .. MaxSq]

Init == history = <<>> /\ wire = Silent

\* The application hands over a state.
HandOver ==
    /\ \E v \in BOOLEAN : history' = Append(history, v)
    /\ UNCHANGED wire

\* A state other than the last one shown: a higher number.
Announce ==
    /\ \E f \in Frames(history) :
         /\ wire' = f
         /\ f.n > wire.n /\ f.st > wire.st
    /\ UNCHANGED history

\* The state last shown once more.
Repeat ==
    /\ wire # Silent
    /\ \E f \in Frames(history) :
         /\ wire' = f
         /\ f.n = wire.n /\ f.st = wire.st
         /\ f.sq > wire.sq \/ f.sq = MaxSq
    /\ UNCHANGED history

\* The publisher is stopped and its successor starts counting anew.
Restart ==
    /\ wire' = Silent
    /\ UNCHANGED history

Next == HandOver \/ Announce \/ Repeat \/ Restart

Spec == Init /\ [][Next]_<<history, wire>>
=============================================================================
