------------------------------ MODULE MCGooseTx ------------------------------
(* Instances of GooseTx for TLC: intervals of 1, 2 and 4 ms stand for the   *)
(* ramp 2 ms, 4 ms, ..., heartbeat.                                         *)
EXTENDS GooseTx
=============================================================================
