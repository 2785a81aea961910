----------------------- MODULE MCPublisherController -----------------------
(* Instances of PublisherController for TLC.  The configurations give the   *)
(* constants their values: one client thread, or one client and the main    *)
(* thread of the service on its way out.                                    *)
EXTENDS PublisherController
=============================================================================
