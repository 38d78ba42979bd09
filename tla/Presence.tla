------------------------------ MODULE Presence ------------------------------
(***************************************************************************)
(* Who a device is and whether it is there: registration, heartbeats and   *)
(* the end of a connection in server/ws/handler.go, the offline sweeper of *)
(* server/http.go, DeleteDevice of server/api/devices.go, and the agent's  *)
(* side of the handshake (agent/client.go).                                *)
(*                                                                         *)
(* The module composes two abstractions.  The registry of connections is   *)
(* AgentRegistry, which Hub implements.  The repository of devices is a    *)
(* map whose operations are atomic, as DeviceMap says, which DeviceStore   *)
(* implements; of the writes that fail only those of a registration are    *)
(* here, which end it.                                                     *)
(*                                                                         *)
(* The handlers read a device with Get and write it back with Save, two    *)
(* operations: whatever happens to the device in between is overwritten.   *)
(*                                                                         *)
(* A device is abstracted to its status and to whether its LastSeen is     *)
(* within the offline threshold.  A token identifies its device, and the   *)
(* agents keep theirs; a wrong token would be one more registration that   *)
(* fails.                                                                  *)
(***************************************************************************)
EXTENDS Naturals

CONSTANTS
  Agents,   \* agent processes
  Conns,    \* connections, one per socket
  Ids,      \* device IDs the server can hand out; uuid.NewString repeats none
  None

ASSUME PresenceAssumption == None \notin Agents \cup Conns \cup Ids

VARIABLES
  identity,   \* identity[a]: the device ID agent a keeps, or None
  store,      \* store[i]: the repository's entry of device i, or None
  issued,     \* the IDs handed out so far
  deleted,    \* those whose device an operator deleted
  current, seen, ended,   \* the registry of connections
  agent,      \* the agent that opened a connection, or None
  gone,       \* connections that their agent has lost or given up
  id,         \* the device ID a connection was registered for
  copy,       \* what a handler got from the repository and has yet to save
  pc          \* where ServeAgent of a connection is

registryVars == <<current, seen, ended>>
connVars == <<agent, gone, id, copy, pc>>
presenceVars == <<identity, store, issued, deleted, registryVars, connVars>>

Registry == INSTANCE AgentRegistry WITH Devices <- Ids

Device(status, recent) == [status |-> status, recent |-> recent]

\* Fault: applyRegisterInfo sets no status.
NewWithoutStatus == Device("", TRUE)

\* A device that was registered or heard of just now.
New == Device("online", TRUE)

\* The connection that serves an agent, as the agent sees it.
Serving(a) == {c \in Conns : agent[c] = a /\ c \notin gone}

Init ==
  /\ identity = [a \in Agents |-> None]
  /\ store = [i \in Ids |-> None]
  /\ issued = {}
  /\ deleted = {}
  /\ Registry!Init
  /\ agent = [c \in Conns |-> None]
  /\ gone = {}
  /\ id = [c \in Conns |-> None]
  /\ copy = [c \in Conns |-> None]
  /\ pc = [c \in Conns |-> "idle"]

Goto(c, l) == pc' = [pc EXCEPT ![c] = l]

----------------------------------------------------------------------------
(* The agent: Run and connectAndServe                                      *)

\* One connection at a time; the register message carries the identity.
Dial(a, c) ==
  /\ pc[c] = "idle"
  /\ Serving(a) = {}
  /\ agent' = [agent EXCEPT ![c] = a]
  /\ id' = [id EXCEPT ![c] = identity[a]]
  /\ Goto(c, "resolve")
  /\ UNCHANGED <<identity, store, issued, deleted, registryVars, gone, copy>>

\* The reply arrives: persistIdentity.
Adopt(c) ==
  /\ pc[c] \in {"add", "loop", "beat"}
  /\ c \notin gone
  /\ identity[agent[c]] # id[c]
  /\ identity' = [identity EXCEPT ![agent[c]] = id[c]]
  /\ UNCHANGED <<store, issued, deleted, registryVars, connVars>>

\* The agent loses the connection: a failure of the network, its 15 s of
\* patience for the reply, the end of its process, or the server closed it.
Lose(c) ==
  /\ agent[c] # None
  /\ c \notin gone
  /\ gone' = gone \cup {c}
  /\ UNCHANGED <<identity, store, issued, deleted, registryVars, agent, id,
                 copy, pc>>

----------------------------------------------------------------------------
(* ServeAgent of connection c: register and resolveDevice                  *)

\* Fault: the identity of the agent is not looked up.
KnownNever(c) == FALSE

\* Get finds the device the agent says it is.
Known(c) == id[c] # None /\ store[id[c]] # None

\* The registration does not come within 15 s, is something else, or cannot be saved.
RegisterFails(c) ==
  /\ pc[c] \in {"resolve", "resave", "create"}
  /\ gone' = gone \cup {c}
  /\ Goto(c, "done")
  /\ UNCHANGED <<identity, store, issued, deleted, registryVars, agent, id, copy>>

Resolve(c) ==
  /\ pc[c] = "resolve"
  /\ IF Known(c) THEN Goto(c, "resave") ELSE Goto(c, "create")
  /\ UNCHANGED <<identity, store, issued, deleted, registryVars, agent, gone,
                 id, copy>>

Resave(c) ==
  /\ pc[c] = "resave"
  /\ store' = [store EXCEPT ![id[c]] = New]
  /\ Goto(c, "reply")
  /\ UNCHANGED <<identity, issued, deleted, registryVars, agent, gone, id, copy>>

\* Fault: the new device is not saved.
CreateUnsaved(c, i) ==
  /\ pc[c] = "create"
  /\ i \notin issued
  /\ issued' = issued \cup {i}
  /\ id' = [id EXCEPT ![c] = i]
  /\ Goto(c, "reply")
  /\ UNCHANGED <<identity, store, deleted, registryVars, agent, gone, copy>>

Create(c, i) ==
  /\ pc[c] = "create"
  /\ i \notin issued
  /\ issued' = issued \cup {i}
  /\ id' = [id EXCEPT ![c] = i]
  /\ store' = [store EXCEPT ![i] = New]
  /\ Goto(c, "reply")
  /\ UNCHANGED <<identity, deleted, registryVars, agent, gone, copy>>

\* The reply is written, which says nothing of its arrival.
Reply(c) ==
  /\ pc[c] = "reply"
  /\ Goto(c, "add")
  /\ UNCHANGED <<identity, store, issued, deleted, registryVars, agent, gone,
                 id, copy>>

\* It cannot be written: ServeAgent returns, and the device stays "online".
ReplyFails(c) ==
  /\ pc[c] = "reply"
  /\ gone' = gone \cup {c}
  /\ Goto(c, "done")
  /\ UNCHANGED <<identity, store, issued, deleted, registryVars, agent, id, copy>>

Add(c) ==
  /\ pc[c] = "add"
  /\ Registry!Connect(c, id[c])
  /\ Goto(c, "loop")
  /\ UNCHANGED <<identity, store, issued, deleted, agent, gone, id, copy>>

----------------------------------------------------------------------------
(* readPump of connection c, and what closes it                            *)

\* handleHeartbeat: Get, and nothing more when the device is not there.  What
\* was received before the socket was shut is still read after it.
BeatGet(c) ==
  /\ pc[c] = "loop"
  /\ store[id[c]] # None
  /\ copy' = [copy EXCEPT ![c] = store[id[c]]]
  /\ Goto(c, "beat")
  /\ UNCHANGED <<identity, store, issued, deleted, registryVars, agent, gone, id>>

\* Fault: only the metrics are written back.
BeatSaveMetrics(c) ==
  /\ pc[c] = "beat"
  /\ store' = [store EXCEPT ![id[c]] = copy[c]]
  /\ copy' = [copy EXCEPT ![c] = None]
  /\ Goto(c, "loop")
  /\ UNCHANGED <<identity, issued, deleted, registryVars, agent, gone, id>>

BeatSave(c) ==
  /\ pc[c] = "beat"
  /\ store' = [store EXCEPT ![id[c]] = New]
  /\ copy' = [copy EXCEPT ![c] = None]
  /\ Goto(c, "loop")
  /\ UNCHANGED <<identity, issued, deleted, registryVars, agent, gone, id>>

\* close() begins: the agent is gone, another connection has replaced this one,
\* or the server could not write to it.
End(c) ==
  /\ pc[c] \in {"loop", "beat"}
  /\ Registry!End(c)
  /\ UNCHANGED <<identity, store, issued, deleted, connVars>>

\* Hub.remove
Remove(c) ==
  /\ id[c] # None
  /\ Registry!Disconnect(c, id[c])
  /\ UNCHANGED <<identity, store, issued, deleted, connVars>>

\* readPump returns once close() is through; then markOffline: Get ...
OfflineGet(c) ==
  /\ pc[c] = "loop"
  /\ c \in ended
  /\ current[id[c]] # c
  /\ copy' = [copy EXCEPT ![c] = store[id[c]]]
  /\ IF store[id[c]] = None THEN Goto(c, "done") ELSE Goto(c, "offline")
  /\ UNCHANGED <<identity, store, issued, deleted, registryVars, agent, gone, id>>

\* ... and Save, which keeps the LastSeen of the copy.
OfflineSave(c) ==
  /\ pc[c] = "offline"
  /\ store' = [store EXCEPT ![id[c]] = Device("offline", copy[c].recent)]
  /\ copy' = [copy EXCEPT ![c] = None]
  /\ Goto(c, "done")
  /\ UNCHANGED <<identity, issued, deleted, registryVars, agent, gone, id>>

----------------------------------------------------------------------------
(* The rest of the server                                                  *)

\* Time: nothing has been heard of device i for longer than the threshold.
Age(i) ==
  /\ store[i] # None
  /\ store[i].recent
  /\ store' = [store EXCEPT ![i].recent = FALSE]
  /\ UNCHANGED <<identity, issued, deleted, registryVars, connVars>>

\* Fault: the comparison with the threshold is the wrong way round.
StaleSwapped(i) ==
  store[i] # None /\ store[i].status = "online" /\ store[i].recent

\* What MarkStaleOffline changes.
Stale(i) ==
  store[i] # None /\ store[i].status = "online" /\ ~store[i].recent

\* One tick of runOfflineSweeper: one Mutate over all devices.
Sweep ==
  /\ \E i \in Ids : Stale(i)
  /\ store' = [i \in Ids |->
                 IF Stale(i) THEN Device("offline", FALSE) ELSE store[i]]
  /\ UNCHANGED <<identity, issued, deleted, registryVars, connVars>>

\* An operator deletes the device; its connection is not touched.
DeleteDevice(i) ==
  /\ store[i] # None
  /\ store' = [store EXCEPT ![i] = None]
  /\ deleted' = deleted \cup {i}
  /\ UNCHANGED <<identity, issued, registryVars, connVars>>

\* The server process dies and is started again: the repository is kept, the
\* connections and whatever a handler was doing are not.
Crash ==
  /\ \E c \in Conns : pc[c] \notin {"idle", "done"}
  /\ current' = [i \in Ids |-> None]
  /\ ended' = seen
  /\ gone' = {c \in Conns : agent[c] # None}
  /\ copy' = [c \in Conns |-> None]
  /\ pc' = [c \in Conns |-> IF pc[c] = "idle" THEN "idle" ELSE "done"]
  /\ UNCHANGED <<identity, store, issued, deleted, seen, agent, id>>

----------------------------------------------------------------------------

Handshake(c) ==
  Resolve(c) \/ Resave(c) \/ (\E i \in Ids : Create(c, i)) \/ Reply(c) \/ Add(c)
Leave(c) == BeatSave(c) \/ Remove(c) \/ OfflineGet(c) \/ OfflineSave(c)
\* close() is bound to begin when the agent is gone, at the latest when pongWait
\* is over, and when the connection has been replaced.
EndCertain(c) == End(c) /\ (c \in gone \/ current[id[c]] # c)

Next ==
  \/ \E a \in Agents, c \in Conns : Dial(a, c)
  \/ \E c \in Conns :
       \/ Adopt(c) \/ Lose(c)
       \/ Handshake(c) \/ RegisterFails(c) \/ ReplyFails(c)
       \/ BeatGet(c) \/ End(c) \/ Leave(c)
  \/ \E i \in Ids : Age(i) \/ DeleteDevice(i)
  \/ Sweep
  \/ Crash

Spec == Init /\ [][Next]_presenceVars

\* The server's goroutines run, the sweeper ticks and time passes.  An agent
\* that keeps a connection sends heartbeats over it.  Of a closed socket only
\* finitely many heartbeats can still be read (the strong fairness).
Fairness ==
  /\ \A c \in Conns :
       /\ WF_presenceVars(Handshake(c))
       /\ WF_presenceVars(Leave(c))
       /\ WF_presenceVars(EndCertain(c))
       /\ SF_presenceVars(OfflineGet(c))
       /\ WF_presenceVars(c \notin gone /\ BeatGet(c))
  /\ \A i \in Ids : WF_presenceVars(Age(i))
  /\ WF_presenceVars(Sweep)

FairSpec == Spec /\ Fairness

----------------------------------------------------------------------------
(* Properties                                                              *)

Devices == [status : {"online", "offline"}, recent : BOOLEAN]

ASSUME NobodyAssumption == None \notin Devices

PresenceTypeOK ==
  /\ identity \in [Agents -> Ids \cup {None}]
  /\ store \in [Ids -> Devices \cup {None}]
  /\ issued \subseteq Ids
  /\ deleted \subseteq issued
  /\ current \in [Ids -> Conns \cup {None}]
  /\ ended \subseteq seen
  /\ seen \subseteq Conns
  /\ agent \in [Conns -> Agents \cup {None}]
  /\ gone \subseteq Conns
  /\ id \in [Conns -> Ids \cup {None}]
  /\ copy \in [Conns -> Devices \cup {None}]
  /\ pc \in [Conns -> {"idle", "resolve", "resave", "create", "reply", "add",
                       "loop", "beat", "offline", "done"}]

\* An agent that has an identity gets another one only if an operator has
\* deleted the device: neither a reconnect nor a crash of the server nor a lost
\* reply makes one computer into two (resolveDevice).
IdentityKept ==
  [][\A a \in Agents :
       identity[a] # None /\ identity'[a] # identity[a] =>
         identity[a] \in deleted]_presenceVars

\* A connection in the registry belongs to a device that the repository knows,
\* unless the device was deleted meanwhile: an operator sees every agent that
\* commands can be sent to.
RegisteredIsStored ==
  \A i \in Ids : current[i] # None => store[i] # None \/ i \in deleted

\* A device that stays without a connection is stored as offline in the end, or
\* is not stored, also when its handshake failed half-way, when the server
\* crashed before markOffline, or when a heartbeat of an older connection was
\* written after it.
OfflineInTheEnd ==
  \A i \in Ids :
    <>[](current[i] = None) =>
      <>[](store[i] = None \/ store[i].status = "offline")

\* A device that stays connected is stored as online again and again: the
\* "offline" that a replaced connection leaves behind is repaired.
OnlineAgain ==
  \A i \in Ids, c \in Conns :
    <>[](current[i] = c /\ c \notin gone) =>
      []<>(store[i] = None \/ store[i].status = "online")

\* "StatusOffline berarti device melewati ambang batas heartbeat"
\* (model/device.go:12): a device that is connected and was heard of within the
\* threshold is not stored as offline.
OfflineMeansSilent ==
  \A i \in Ids :
    current[i] # None /\ store[i] # None /\ store[i].status = "offline" =>
      ~store[i].recent

\* "DeleteDevice menghapus device dari storage" (devices.go:84): a deleted
\* device does not come back by itself.
DeletedStaysDeleted == \A i \in deleted : store[i] = None
============================================================================
