--------------------------- MODULE PresenceProofs ---------------------------
(***************************************************************************)
(* Proofs about Presence, for any agents, connections and identities: the  *)
(* types, that a connection in the registry belongs to a device that is    *)
(* stored, and that an agent keeps its identity.                           *)
(***************************************************************************)
EXTENDS Presence, TLAPS

\* Past the lookup a handler knows its device, and markOffline has read it.
HandlerKnows ==
  \A c \in Conns :
    /\ pc[c] # "idle" => agent[c] # None
    /\ pc[c] \in {"resave", "reply", "add", "loop", "beat", "offline"} => id[c] # None
    /\ pc[c] = "offline" => copy[c] # None

\* Every id was handed out by this server, and its device is stored or was deleted.
IdsAreIssued ==
  /\ \A a \in Agents : identity[a] # None => identity[a] \in issued
  /\ \A c \in Conns : id[c] # None => id[c] \in issued
  /\ \A i \in Ids : current[i] # None \/ store[i] # None => i \in issued
  /\ \A i \in issued : store[i] # None \/ i \in deleted

\* An agent has one connection at a time, which says the identity of the agent, if
\* that is still worth something.
SaysIdentity ==
  /\ \A c, d \in Conns \ gone : agent[c] # None /\ agent[d] = agent[c] => d = c
  /\ \A c \in Conns \ gone :
       agent[c] # None =>
         LET i == identity[agent[c]] IN i = None \/ i \in deleted \/ i = id[c]
  /\ \A c \in Conns : pc[c] = "create" => id[c] = None \/ id[c] \in deleted

PresenceInv == PresenceTypeOK /\ HandlerKnows /\ IdsAreIssued /\ SaysIdentity

-----------------------------------------------------------------------------

\* At first there are no devices, no identities and no connections.
LEMMA InitPresenceInv == Init => PresenceInv
  BY DEF Init, Registry!Init, PresenceInv, PresenceTypeOK, HandlerKnows, IdsAreIssued,
         SaysIdentity

\* What is stored is a device.
LEMMA DevicesTyped ==
  /\ New \in Devices /\ New # None
  /\ \A r \in BOOLEAN : Device("offline", r) \in Devices /\ Device("offline", r) # None
<1>1. New \in Devices /\ \A r \in BOOLEAN : Device("offline", r) \in Devices
  BY DEF New, Device, Devices
<1> QED
  BY <1>1, NobodyAssumption

-----------------------------------------------------------------------------

\* The agent: it dials only without a connection, and adopts what its own says.
LEMMA AgentKeeps ==
  ASSUME PresenceInv,
         \/ \E a \in Agents, c \in Conns : Dial(a, c)
         \/ \E c \in Conns : Adopt(c) \/ Lose(c)
  PROVE  PresenceInv'
<1> USE PresenceAssumption
        DEF PresenceInv, PresenceTypeOK, HandlerKnows, IdsAreIssued, SaysIdentity,
            registryVars, connVars, Goto
<1>1. ASSUME NEW a \in Agents, NEW c \in Conns, Dial(a, c) PROVE PresenceInv'
  BY <1>1 DEF Dial, Serving
<1>2. ASSUME NEW c \in Conns, Adopt(c) PROVE PresenceInv'
  BY <1>2 DEF Adopt
<1>3. ASSUME NEW c \in Conns, Lose(c) PROVE PresenceInv'
  BY <1>3 DEF Lose
<1> QED
  BY <1>1, <1>2, <1>3

\* The handshake: only an id that nobody keeps is replaced by a new one.
LEMMA HandshakeKeeps ==
  ASSUME PresenceInv, NEW c \in Conns, Handshake(c) \/ RegisterFails(c) \/ ReplyFails(c)
  PROVE  PresenceInv'
<1> USE PresenceAssumption, DevicesTyped
        DEF PresenceInv, PresenceTypeOK, HandlerKnows, IdsAreIssued, SaysIdentity,
            registryVars, Goto
<1>1. CASE Resolve(c)
  BY <1>1 DEF Resolve, Known
<1>2. CASE Resave(c)
  BY <1>2 DEF Resave
<1>3. ASSUME NEW i \in Ids, Create(c, i) PROVE PresenceInv'
  BY <1>3 DEF Create
<1>4. CASE Reply(c)
  BY <1>4 DEF Reply
<1>5. CASE ReplyFails(c)
  BY <1>5 DEF ReplyFails
<1>6. CASE Add(c)
  BY <1>6 DEF Add, Registry!Connect
<1>7. CASE RegisterFails(c)
  BY <1>7 DEF RegisterFails
<1> QED
  BY <1>1, <1>2, <1>3, <1>4, <1>5, <1>6, <1>7 DEF Handshake

\* readPump and close(): a device is written back, at the worst one that was deleted.
LEMMA PumpKeeps ==
  ASSUME PresenceInv, NEW c \in Conns, BeatGet(c) \/ End(c) \/ Leave(c)
  PROVE  PresenceInv'
<1> USE PresenceAssumption, DevicesTyped
        DEF PresenceInv, PresenceTypeOK, HandlerKnows, IdsAreIssued, SaysIdentity,
            registryVars, connVars, Goto
<1>1. CASE BeatGet(c)
  BY <1>1 DEF BeatGet
<1>2. CASE BeatSave(c)
  BY <1>2 DEF BeatSave
<1>3. CASE End(c)
  BY <1>3 DEF End, Registry!End
<1>4. CASE Remove(c)
  BY <1>4 DEF Remove, Registry!Disconnect
<1>5. CASE OfflineGet(c)
  BY <1>5 DEF OfflineGet
<1>6. CASE OfflineSave(c)
  <2>1. Device("offline", copy[c].recent) \in Devices
    BY <1>6 DEF OfflineSave, Devices
  <2> QED
    BY <1>6, <2>1, NobodyAssumption DEF OfflineSave
<1> QED
  BY <1>1, <1>2, <1>3, <1>4, <1>5, <1>6 DEF Leave

\* Time, the sweeper, the operator and a crash.
LEMMA ServerKeeps ==
  ASSUME PresenceInv,
         \/ \E i \in Ids : Age(i) \/ DeleteDevice(i)
         \/ Sweep \/ Crash
  PROVE  PresenceInv'
<1> USE PresenceAssumption
        DEF PresenceInv, PresenceTypeOK, HandlerKnows, IdsAreIssued, SaysIdentity,
            registryVars, connVars
<1>1. ASSUME NEW i \in Ids, Age(i) PROVE PresenceInv'
  <2> DEFINE one == [store[i] EXCEPT !.recent = FALSE]
  <2>1. one \in Devices
    <3>1. store[i] \in Devices
      BY <1>1 DEF Age
    <3> QED
      BY <3>1 DEF Devices
  <2>2. store' = [store EXCEPT ![i] = one]
    BY <1>1 DEF Age
  <2>3. store[i] # None /\ UNCHANGED <<identity, issued, deleted, registryVars, connVars>>
    BY <1>1 DEF Age
  <2> HIDE DEF one
  <2>4. store' \in [Ids -> Devices \cup {None}]
    BY <2>1, <2>2
  <2>5. \A k \in Ids : store[k] # None <=> store'[k] # None
    BY <2>1, <2>2, <2>3, NobodyAssumption
  <2> QED
    BY <2>3, <2>4, <2>5
<1>2. ASSUME NEW i \in Ids, DeleteDevice(i) PROVE PresenceInv'
  BY <1>2 DEF DeleteDevice
<1>3. CASE Sweep
  BY <1>3, DevicesTyped DEF Sweep, Stale
<1>4. CASE Crash
  BY <1>4 DEF Crash
<1> QED
  BY <1>1, <1>2, <1>3, <1>4

\* Every step keeps the invariant.
LEMMA NextPresenceInv == PresenceInv /\ [Next]_presenceVars => PresenceInv'
<1> SUFFICES ASSUME PresenceInv, [Next]_presenceVars PROVE PresenceInv'
  OBVIOUS
<1>1. CASE UNCHANGED presenceVars
  BY <1>1 DEF presenceVars, registryVars, connVars, PresenceInv, PresenceTypeOK,
              HandlerKnows, IdsAreIssued, SaysIdentity
<1> QED
  BY <1>1, AgentKeeps, HandshakeKeeps, PumpKeeps, ServerKeeps DEF Next

\* An identity changes only in Adopt, to what the one connection of the agent says.
LEMMA IdentityStep ==
  PresenceInv /\ [Next]_presenceVars =>
    \A a \in Agents :
      identity[a] # None /\ identity'[a] # identity[a] => identity[a] \in deleted
<1> SUFFICES ASSUME PresenceInv, [Next]_presenceVars, NEW a \in Agents,
                    identity[a] # None, identity'[a] # identity[a]
             PROVE  identity[a] \in deleted
  OBVIOUS
<1>1. PICK c \in Conns : Adopt(c)
  BY DEF Next, presenceVars, registryVars, connVars, Dial, Lose, Handshake, Resolve, Resave,
         Create, RegisterFails, Reply, ReplyFails, Add, BeatGet, BeatSave, End, Leave,
         Remove, OfflineGet, OfflineSave, Age, DeleteDevice, Sweep, Crash
<1>2. agent[c] = a /\ id[c] # identity[a]
  BY <1>1 DEF Adopt, PresenceInv, PresenceTypeOK
<1> QED
  BY <1>1, <1>2, PresenceAssumption DEF Adopt, PresenceInv, SaysIdentity

-----------------------------------------------------------------------------

\* The invariant holds in every state of every execution.
THEOREM PresenceInvariant == Spec => []PresenceInv
  BY InitPresenceInv, NextPresenceInv, PTL DEF Spec

\* Every variable keeps its type: markOffline never writes a device it has not read.
THEOREM PresenceTypeCorrect == Spec => []PresenceTypeOK
<1>1. PresenceInv => PresenceTypeOK
  BY DEF PresenceInv
<1> QED
  BY <1>1, PresenceInvariant, PTL

\* A device with a connection in the registry is stored, unless it was deleted
\* (register before Hub.Add in ServeAgent).
THEOREM PresenceRegisteredIsStored == Spec => []RegisteredIsStored
<1>1. PresenceInv => RegisteredIsStored
  BY DEF PresenceInv, IdsAreIssued, RegisteredIsStored
<1> QED
  BY <1>1, PresenceInvariant, PTL

\* An agent gets another identity only when its device was deleted: not by a
\* reconnect, not by a crash of the server, not by a lost reply (resolveDevice).
THEOREM PresenceIdentityKept == Spec => IdentityKept
<1>1. PresenceInv /\ [Next]_presenceVars =>
        [\A a \in Agents :
           identity[a] # None /\ identity'[a] # identity[a] =>
             identity[a] \in deleted]_presenceVars
  BY IdentityStep
<1> QED
  BY <1>1, PresenceInvariant, PTL DEF Spec, IdentityKept
=============================================================================
