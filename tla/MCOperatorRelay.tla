-------------------------- MODULE MCOperatorRelay --------------------------
(***************************************************************************)
(* Instances of OperatorRelay for TLC.                                     *)
(***************************************************************************)
EXTENDS OperatorRelay
============================================================================
