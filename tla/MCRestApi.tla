----------------------------- MODULE MCRestApi -----------------------------
(* A small instance of RestApi.                                            *)
EXTENDS RestApi, TLC

MCSymmetry == Permutations(Servers) \cup Permutations(Devices) \cup Permutations(Handlers)
=============================================================================
