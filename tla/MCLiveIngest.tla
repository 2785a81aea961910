----------------------------- MODULE MCLiveIngest -----------------------------
(* Instances of LiveIngest for TLC.  The configurations give the constants  *)
(* their values: which submitters there are and how much the host keeps to. *)
EXTENDS LiveIngest
=============================================================================
