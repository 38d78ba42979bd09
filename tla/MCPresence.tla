----------------------------- MODULE MCPresence -----------------------------
(***************************************************************************)
(* Instances of Presence for TLC.  Two of its properties are about liveness,  *)
(* so symmetry is not used.                                                *)
(***************************************************************************)
EXTENDS Presence
============================================================================
