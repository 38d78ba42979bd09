----------------------------- MODULE RemoteCall -----------------------------
(***************************************************************************)
(* What Hub.Request promises its caller, without the registry, the queues, *)
(* the sockets or the table of pending requests: a remote call executed at *)
(* most once.                                                              *)
(*                                                                         *)
(*   - "offline" means that the agent has not executed the command and     *)
(*     never will, so the caller may safely repeat it;                     *)
(*   - "response" and "error" come only from an agent that executed it;    *)
(*   - "timeout" says nothing: the command may be executed before it, or   *)
(*     after it;                                                           *)
(*   - an outcome, once given, does not change.                            *)
(***************************************************************************)

CONSTANTS Senders   \* the calls

VARIABLES
  call,       \* the state of a call: "new", "open" or its outcome
  executed    \* the calls the agent has executed

callVars == <<call, executed>>

Init ==
  /\ call = [r \in Senders |-> "new"]
  /\ executed = {}

Become(r, from, to) ==
  /\ call[r] = from
  /\ call' = [call EXCEPT ![r] = to]

Start(r) == Become(r, "new", "open") /\ UNCHANGED executed

Execute(r) ==
  /\ call[r] \notin {"new", "offline"}
  /\ r \notin executed
  /\ executed' = executed \cup {r}
  /\ UNCHANGED call

Offline(r) ==
  /\ r \notin executed
  /\ Become(r, "open", "offline")
  /\ UNCHANGED executed

GiveUp(r) == Become(r, "open", "timeout") /\ UNCHANGED executed

Answer(r) ==
  /\ r \in executed
  /\ Become(r, "open", "response") \/ Become(r, "open", "error")
  /\ UNCHANGED executed

Next ==
  \E r \in Senders : Start(r) \/ Execute(r) \/ Offline(r) \/ GiveUp(r) \/ Answer(r)

Spec == Init /\ [][Next]_callVars
============================================================================
