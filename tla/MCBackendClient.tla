---------------------------- MODULE MCBackendClient ----------------------------
(* Instances of BackendClient for TLC: the configuration gives the commands *)
(* and says what may go wrong.                                              *)
EXTENDS BackendClient
=============================================================================
