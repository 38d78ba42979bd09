---------------------------- MODULE MCAgentHost ----------------------------
(***************************************************************************)
(* A small instance of AgentHost, in two sizes: up to three devices, so    *)
(* that one mishap that costs two devices can be told from two mishaps, on *)
(* a PC without the service; up to two on a PC that may have it.           *)
(***************************************************************************)
EXTENDS AgentHost

CONSTANT FewDevices  \* bound on the devices of a PC that may have the service

ASSUME FewAssumption == FewDevices < MaxDevices

VARIABLE mayServe  \* the PC may have the service

MCInit == HostInit /\ mayServe \in BOOLEAN

MCNext ==
  /\ HostNext
  /\ IF mayServe THEN issued' <= FewDevices ELSE service' = "none"
  /\ UNCHANGED mayServe

\* Where the bound FewDevices keeps the task from registering for ever, fairness
\* rules the behaviour out; at MaxDevices, ServesAgain excepts it.
MCFairSpec == MCInit /\ [][MCNext]_<<hostVars, mayServe>> /\ HostFairness
=============================================================================
