--------------------------- MODULE MCAgentSession ---------------------------
(***************************************************************************)
(* Instance of AgentSession for TLC.  Symmetry is not used: the run checks *)
(* liveness together with safety.                                          *)
(***************************************************************************)
EXTENDS AgentSession
=============================================================================
