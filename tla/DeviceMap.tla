----------------------------- MODULE DeviceMap -----------------------------
(***************************************************************************)
(* What a repository of the storage package promises, without a lock, a    *)
(* list or a temporary file: a write-through map from a key to a value.    *)
(*                                                                         *)
(*   - a request that is answered "ok" has taken effect, in memory and, as *)
(*     everything that memory holds, in the file;                          *)
(*   - a request that is answered "error" has changed nothing in the file, *)
(*     and in memory nothing but the entries it names: a failed save may   *)
(*     show its value, a failed delete may show any;                       *)
(*   - a crash brings memory back to what the file holds.                  *)
(***************************************************************************)

CONSTANTS Ids, None

VARIABLES
  visible,   \* what a reader finds: the status of each key, or None
  durable,   \* what it would find after a restart
  request,   \* the request that was made last
  reply      \* its answer: "none" until there is one

mapVars == <<visible, durable, request, reply>>

Statuses == {"online", "offline"}

Requests ==
  [kind : {"save"}, id : Ids, status : Statuses]
  \cup [kind : {"delete"}, id : Ids]
  \cup [kind : {"expire"}]

Init ==
  /\ visible = [i \in Ids |-> None]
  /\ durable = visible
  /\ request = [kind |-> "none"]
  /\ reply = "none"

Expirable == {i \in Ids : visible[i] = "online"}

\* The maps that request r may turn the map into, by taking effect.
Effects(r) ==
  CASE r.kind = "save" -> {[visible EXCEPT ![r.id] = r.status]}
    [] r.kind = "delete" -> {[visible EXCEPT ![r.id] = None]}
    [] r.kind = "expire" ->
         {[i \in Ids |-> IF i \in S THEN "offline" ELSE visible[i]] :
            S \in SUBSET Expirable}
    [] OTHER -> {}

\* Those that a reader may find after r has failed.
Remains(r) ==
  {visible} \cup
  IF r.kind = "delete"
  THEN {[visible EXCEPT ![r.id] = s] : s \in Statuses \cup {None}}
  ELSE Effects(r)

Ask(r) ==
  /\ request' = r
  /\ reply' = "none"
  /\ UNCHANGED <<visible, durable>>

Done ==
  /\ reply = "none"
  /\ visible' \in Effects(request)
  /\ durable' = visible'
  /\ reply' = "ok"
  /\ UNCHANGED request

Failed ==
  /\ reply = "none"
  /\ visible' \in Remains(request)
  /\ reply' = "error"
  /\ UNCHANGED <<durable, request>>

Crash ==
  /\ visible' = durable
  /\ request' = [kind |-> "none"]
  /\ reply' = "none"
  /\ UNCHANGED durable

Next == (\E r \in Requests : Ask(r)) \/ Done \/ Failed \/ Crash

Spec == Init /\ [][Next]_mapVars
============================================================================
