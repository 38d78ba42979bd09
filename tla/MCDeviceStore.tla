--------------------------- MODULE MCDeviceStore ---------------------------
(***************************************************************************)
(* Instances of DeviceStore for TLC.                                       *)
(***************************************************************************)
EXTENDS DeviceStore
============================================================================
