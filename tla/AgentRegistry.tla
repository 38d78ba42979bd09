--------------------------- MODULE AgentRegistry ---------------------------
(***************************************************************************)
(* What the hub promises its users, without goroutines, queues or sockets: *)
(* a map from a device to the connection that serves it.                   *)
(*                                                                         *)
(*   - a connection enters the map once, when it is fresh, and replaces    *)
(*     whatever the device had;                                            *)
(*   - a connection ends once, and stays ended;                            *)
(*   - a device loses its entry only when the connection in that entry has *)
(*     ended: the end of a replaced connection never takes the new one     *)
(*     out of the map.                                                     *)
(***************************************************************************)

CONSTANTS Devices, Conns, None

VARIABLES
  current,   \* current[d]: the connection that serves device d, or None
  seen,      \* the connections that have entered the map
  ended      \* the connections that have ended

registryVars == <<current, seen, ended>>

Init ==
  /\ current = [d \in Devices |-> None]
  /\ seen = {}
  /\ ended = {}

Connect(c, d) ==
  /\ c \notin seen
  /\ seen' = seen \cup {c}
  /\ current' = [current EXCEPT ![d] = c]
  /\ UNCHANGED ended

End(c) ==
  /\ c \in seen \ ended
  /\ ended' = ended \cup {c}
  /\ UNCHANGED <<current, seen>>

Disconnect(c, d) ==
  /\ current[d] = c
  /\ c \in ended
  /\ current' = [current EXCEPT ![d] = None]
  /\ UNCHANGED <<seen, ended>>

Next ==
  \E c \in Conns :
    \/ End(c)
    \/ \E d \in Devices : Connect(c, d) \/ Disconnect(c, d)

Spec == Init /\ [][Next]_registryVars
============================================================================
