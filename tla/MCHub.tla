------------------------------- MODULE MCHub -------------------------------
(***************************************************************************)
(* Instances of Hub for TLC.  Symmetry is not used: the main run checks    *)
(* liveness together with safety.                                          *)
(***************************************************************************)
EXTENDS Hub
============================================================================
