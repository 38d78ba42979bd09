------------------------------- MODULE MCRpc -------------------------------
(***************************************************************************)
(* An instance of Rpc for TLC: two calls of Request over one connection,   *)
(* or one call over a connection and the one that replaces it.  What is    *)
(* left out, both at once, is covered by HubProofs for the safety          *)
(* properties.  Connections and calls are taken in a fixed order.          *)
(***************************************************************************)
EXTENDS Rpc

CONSTANTS c1, c2, s1, s2

InOrder ==
  /\ device[c2] # None => device[c1] # None /\ rq[s2] = "idle"
  /\ rq[s2] # "idle" => rq[s1] # "idle"

OrderedSpec == RpcInit /\ [][RpcNext /\ InOrder']_vars /\ RpcFairness
============================================================================
