----------------------------- MODULE HubProofs -----------------------------
(***************************************************************************)
(* Proofs about Hub, for every number of devices, connections and calls of *)
(* Send and every size of the send buffer, and about Rpc, for every number *)
(* of requests too.  What is shown of the hub carries over to Rpc, since   *)
(* every step of the composition is a step of the hub or leaves it alone.  *)
(***************************************************************************)
EXTENDS Rpc, TLAPS

-----------------------------------------------------------------------------
(* The hub.  HubInv is the inductive invariant.  The properties do not     *)
(* follow from themselves: that a dead connection is not registered rests  *)
(* on when its close can begin (Called), that rests on which goroutine can *)
(* be inside close() of what (ServeShape, PumpShape, SendShape,            *)
(* CloseAllShape).                                                         *)

\* Where the handler of c is, what it is closing, and what that says of c.
ServeShape ==
  \A c \in Conns :
    /\ pc[Serve(c)] \in {"idle", "add", "adding", "read", "leave"}
    /\ pc[Serve(c)] \in {"idle", "add", "read"} => call[Serve(c)] = None
    /\ pc[Serve(c)] = "leave" => call[Serve(c)] = c
    /\ pc[Serve(c)] # "idle" => device[c] \in Devices
    /\ ~Added(c) => once[c] = "open"
    /\ pc[Serve(c)] = "adding" /\ call[Serve(c)] # None =>
         device[call[Serve(c)]] = device[c]

PumpShape ==
  \A c \in Conns :
    /\ pc[Pump(c)] \in {"idle", "select", "leave", "done"}
    /\ pc[Pump(c)] # "idle" => pc[Serve(c)] \in {"read", "leave"}
    /\ call[Pump(c)] = IF pc[Pump(c)] = "leave" THEN c ELSE None
    /\ pc[Pump(c)] = "done" => Closed(c)

SendShape ==
  \A s \in Senders :
    /\ pc[Send(s)] \in {"idle", "enqueue", "leave", "done"}
    /\ pc[Send(s)] \in {"enqueue", "leave"} => target[s] # None
    /\ target[s] # None => Added(target[s])
    /\ call[Send(s)] = IF pc[Send(s)] = "leave" THEN target[s] ELSE None
    /\ pc[Send(s)] # "done" => result[s] = "none"
    /\ result[s] = "refused" => target[s] # None /\ Closed(target[s])

CloseAllShape ==
  /\ pc[CloseAll] \in {"idle", "close", "done"}
  /\ pc[CloseAll] \in {"idle", "done"} => call[CloseAll] = None
  /\ visited \subseteq snapshot
  /\ \A c \in snapshot : Added(c)
  /\ pc[CloseAll] = "idle" => visited = {}
  /\ pc[CloseAll] = "close" =>
       \A c \in visited : once[c] = "removed" \/ call[CloseAll] = c
  /\ pc[CloseAll] = "done" => \A c \in snapshot : once[c] = "removed"

\* Only a connection that has been added can be closed.
Called == \A t \in Threads : call[t] # None => Added(call[t])

\* A registry entry is a connection of that device, added and not yet removed.
Registered ==
  \A d \in Devices :
    conns[d] # None =>
      /\ device[conns[d]] = d
      /\ Added(conns[d])
      /\ once[conns[d]] # "removed"

HubInv ==
  /\ TypeOK
  /\ ServeShape
  /\ PumpShape
  /\ SendShape
  /\ CloseAllShape
  /\ Called
  /\ Registered
  /\ NoOrphan

----------------------------------------------------------------------------

\* The four kinds of thread are threads, and no two of them are the same one.
LEMMA ThreadNames ==
  /\ \A c \in Conns : Serve(c) \in Threads /\ Pump(c) \in Threads
  /\ \A s \in Senders : Send(s) \in Threads
  /\ CloseAll \in Threads
  /\ \A c, n \in Conns : /\ Serve(c) = Serve(n) => c = n
                         /\ Pump(c) = Pump(n) => c = n
  /\ \A s, r \in Senders : Send(s) = Send(r) => s = r
  /\ \A c, n \in Conns : Serve(c) # Pump(n)
  /\ \A c \in Conns, s \in Senders : Serve(c) # Send(s) /\ Pump(c) # Send(s)
  /\ \A c \in Conns : Serve(c) # CloseAll /\ Pump(c) # CloseAll
  /\ \A s \in Senders : Send(s) # CloseAll
  /\ \A t \in Threads :
       \/ \E c \in Conns : t = Serve(c) \/ t = Pump(c)
       \/ \E s \in Senders : t = Send(s)
       \/ t = CloseAll
BY DEF Threads, Serve, Pump, Send, CloseAll

\* The hub starts in a state of the invariant.
LEMMA InitHubInv == Init => HubInv
BY ThreadNames, HubAssumption
   DEF Init, HubInv, TypeOK, ServeShape, PumpShape, SendShape, CloseAllShape,
       Called, Registered, NoOrphan, Added, Closed

\* Every step of the hub preserves the invariant.
LEMMA NextHubInv == HubInv /\ [Next]_hubVars => HubInv'
<1> SUFFICES ASSUME HubInv, [Next]_hubVars PROVE HubInv'
  OBVIOUS
<1>1. ASSUME NEW c \in Conns, NEW d \in Devices, Accept(c, d)
     PROVE  HubInv'
  <2>1. TypeOK'
    BY <1>1, ThreadNames, HubAssumption DEF HubInv, TypeOK, Accept, At,
       socketVars, sendVars, shutdownVars
  <2>2. ServeShape'
    BY <1>1, ThreadNames, HubAssumption DEF HubInv, TypeOK, ServeShape,
       Called, Accept, At, Added, socketVars, sendVars, shutdownVars
  <2>3. /\ PumpShape' /\ SendShape' /\ CloseAllShape'
        /\ Called' /\ Registered' /\ NoOrphan'
    BY <1>1, ThreadNames, HubAssumption DEF HubInv, TypeOK, PumpShape,
       SendShape, CloseAllShape, Called, Registered, NoOrphan, Accept, At,
       Added, Closed, socketVars, sendVars, shutdownVars
  <2> QED BY <2>1, <2>2, <2>3 DEF HubInv
<1>2. ASSUME NEW c \in Conns, Add(c)
     PROVE  HubInv'
  <2>1. TypeOK'
    BY <1>2, ThreadNames, HubAssumption DEF HubInv, TypeOK, ServeShape, Add,
       At, Added, socketVars, sendVars, shutdownVars
  <2>2. ServeShape'
    BY <1>2, ThreadNames, HubAssumption DEF HubInv, TypeOK, ServeShape,
       Registered, Add, At, Added, socketVars, sendVars, shutdownVars
  <2>3. Called'
    BY <1>2, ThreadNames, HubAssumption DEF HubInv, TypeOK, Called,
       ServeShape, Registered, Add, At, Added, socketVars, sendVars,
       shutdownVars
  <2>4. Registered'
    BY <1>2, ThreadNames, HubAssumption DEF HubInv, TypeOK, Registered,
       ServeShape, Add, At, Added, socketVars, sendVars, shutdownVars
  <2>5. NoOrphan'
    BY <1>2, ThreadNames, HubAssumption DEF HubInv, TypeOK, NoOrphan,
       ServeShape, Add, At, Added, Closed, socketVars, sendVars, shutdownVars
  <2>6. PumpShape' /\ SendShape' /\ CloseAllShape'
    BY <1>2, ThreadNames, HubAssumption DEF HubInv, TypeOK, PumpShape,
       SendShape, CloseAllShape, Add, At, Added, Closed, socketVars, sendVars,
       shutdownVars
  <2> QED BY <2>1, <2>2, <2>3, <2>4, <2>5, <2>6 DEF HubInv
<1>3. ASSUME NEW c \in Conns, StartPumps(c)
     PROVE  HubInv'
  <2>1. TypeOK'
    BY <1>3, ThreadNames, HubAssumption DEF HubInv, TypeOK, ServeShape,
       StartPumps, At, Added, socketVars, sendVars, shutdownVars
  <2>2. ServeShape'
    BY <1>3, ThreadNames, HubAssumption DEF HubInv, TypeOK, ServeShape,
       StartPumps, At, Added, socketVars, sendVars, shutdownVars
  <2>3. PumpShape'
    <3> SUFFICES ASSUME NEW n \in Conns PROVE PumpShape!(n)'
      BY DEF PumpShape
    <3>1. /\ pc' = [pc EXCEPT ![Serve(c)] = "read", ![Pump(c)] = "select"]
          /\ call' = [call EXCEPT ![Serve(c)] = None]
          /\ once' = once
      BY <1>3 DEF StartPumps, socketVars
    <3>2. call'[Pump(n)] = call[Pump(n)]
      BY <3>1, ThreadNames DEF HubInv, TypeOK
    <3>3. CASE n = c
      <4>1. pc'[Pump(c)] = "select" /\ pc'[Serve(c)] = "read"
        BY <3>1, ThreadNames DEF HubInv, TypeOK
      <4>2. call[Pump(c)] = None
        BY <1>3 DEF StartPumps, HubInv, PumpShape, At
      <4> QED BY <3>2, <3>3, <4>1, <4>2 DEF Added
    <3>4. CASE n # c
      BY <3>1, <3>2, <3>4, ThreadNames
      DEF HubInv, TypeOK, PumpShape, Added, Closed
    <3> QED BY <3>3, <3>4
  <2>4. NoOrphan'
    BY <1>3, ThreadNames, HubAssumption DEF HubInv, TypeOK, NoOrphan,
       ServeShape, StartPumps, At, Added, Closed, socketVars, sendVars,
       shutdownVars
  <2>5. SendShape' /\ CloseAllShape' /\ Called' /\ Registered'
    BY <1>3, ThreadNames, HubAssumption DEF HubInv, TypeOK, SendShape,
       CloseAllShape, Called, Registered, StartPumps, At, Added, Closed,
       socketVars, sendVars, shutdownVars
  <2> QED BY <2>1, <2>2, <2>3, <2>4, <2>5 DEF HubInv
<1>4. ASSUME NEW c \in Conns, ReadError(c)
     PROVE  HubInv'
  <2>1. TypeOK'
    BY <1>4, ThreadNames, HubAssumption DEF HubInv, TypeOK, ReadError, At,
       socketVars, sendVars, shutdownVars
  <2>2. ServeShape'
    BY <1>4, ThreadNames, HubAssumption DEF HubInv, TypeOK, ServeShape,
       ReadError, At, Added, socketVars, sendVars, shutdownVars
  <2>3. Called'
    BY <1>4, ThreadNames, HubAssumption DEF HubInv, TypeOK, Called, ReadError,
       At, Added, socketVars, sendVars, shutdownVars
  <2>4. PumpShape' /\ SendShape' /\ CloseAllShape' /\ Registered' /\ NoOrphan'
    BY <1>4, ThreadNames, HubAssumption DEF HubInv, TypeOK, PumpShape,
       SendShape, CloseAllShape, Registered, NoOrphan, ReadError, At, Added,
       Closed, socketVars, sendVars, shutdownVars
  <2> QED BY <2>1, <2>2, <2>3, <2>4 DEF HubInv
<1>5. ASSUME NEW c \in Conns, PumpWrite(c)
     PROVE  HubInv'
  <2>1. TypeOK'
    BY <1>5, ThreadNames, HubAssumption DEF HubInv, TypeOK, PumpWrite, At,
       socketVars, sendVars, shutdownVars
  <2>2. /\ ServeShape' /\ PumpShape' /\ SendShape' /\ CloseAllShape'
        /\ Called' /\ Registered' /\ NoOrphan'
    BY <1>5, ThreadNames, HubAssumption DEF HubInv, TypeOK, ServeShape,
       PumpShape, SendShape, CloseAllShape, Called, Registered, NoOrphan,
       PumpWrite, At, Added, Closed, socketVars, sendVars, shutdownVars
  <2> QED BY <2>1, <2>2 DEF HubInv
<1>6. ASSUME NEW c \in Conns, PumpFail(c)
     PROVE  HubInv'
  <2>1. TypeOK'
    <3>1. /\ queue' \in [Conns -> Seq(Senders)]
          /\ \A n \in Conns : Len(queue'[n]) <= SendBuffer
      <4>1. CASE queue' = queue
        BY <4>1 DEF HubInv, TypeOK
      <4>2. CASE queue[c] # <<>> /\ queue' = [queue EXCEPT ![c] = Tail(@)]
        BY <4>2, HubAssumption DEF HubInv, TypeOK
      <4> QED BY <1>6, <4>1, <4>2 DEF PumpFail
    <3> QED
      BY <1>6, <3>1, ThreadNames DEF HubInv, TypeOK, PumpFail, socketVars,
         sendVars, shutdownVars
  <2>2. PumpShape'
    BY <1>6, ThreadNames, HubAssumption DEF HubInv, TypeOK, PumpShape,
       PumpFail, At, Added, Closed, socketVars, sendVars, shutdownVars
  <2>3. Called'
    <3>1. \A n \in Conns : Added(n)' <=> Added(n)
      BY <1>6, ThreadNames DEF HubInv, TypeOK, PumpFail, Added
    <3>2. Added(c)
      BY <1>6 DEF HubInv, PumpShape, PumpFail, At, Added
    <3>3. \A t \in Threads : call'[t] = call[t] \/ call'[t] = c
      BY <1>6 DEF HubInv, TypeOK, PumpFail
    <3> QED BY <3>1, <3>2, <3>3, HubAssumption DEF HubInv, TypeOK, Called
  <2>4. /\ ServeShape' /\ SendShape' /\ CloseAllShape'
        /\ Registered' /\ NoOrphan'
    BY <1>6, ThreadNames, HubAssumption DEF HubInv, TypeOK, ServeShape,
       SendShape, CloseAllShape, Registered, NoOrphan, PumpFail, At, Added,
       Closed, socketVars, sendVars, shutdownVars
  <2> QED BY <2>1, <2>2, <2>3, <2>4 DEF HubInv
<1>7. ASSUME NEW c \in Conns, PumpClosed(c)
     PROVE  HubInv'
  <2>1. TypeOK'
    BY <1>7, ThreadNames, HubAssumption DEF HubInv, TypeOK, PumpClosed, At,
       Closed, socketVars, sendVars, shutdownVars
  <2>2. PumpShape'
    BY <1>7, ThreadNames, HubAssumption DEF HubInv, TypeOK, PumpShape,
       PumpClosed, At, Added, Closed, socketVars, sendVars, shutdownVars
  <2>3. /\ ServeShape' /\ SendShape' /\ CloseAllShape'
        /\ Called' /\ Registered' /\ NoOrphan'
    BY <1>7, ThreadNames, HubAssumption DEF HubInv, TypeOK, ServeShape,
       SendShape, CloseAllShape, Called, Registered, NoOrphan, PumpClosed, At,
       Added, Closed, socketVars, sendVars, shutdownVars
  <2> QED BY <2>1, <2>2, <2>3 DEF HubInv
<1>8. ASSUME NEW s \in Senders, NEW d \in Devices, Lookup(s, d)
     PROVE  HubInv'
  <2>1. CASE conns[d] = None
    <3>1. /\ result' = [result EXCEPT ![s] = "offline"]
          /\ pc' = [pc EXCEPT ![Send(s)] = "done"]
          /\ UNCHANGED <<target, conns, device, sock, once, queue, call,
                         snapshot, visited>>
          /\ pc[Send(s)] = "idle"
      BY <1>8, <2>1 DEF Lookup, At, socketVars, shutdownVars
    <3>2. TypeOK'
      BY <3>1, ThreadNames DEF HubInv, TypeOK
    <3>3. SendShape'
      BY <3>1, ThreadNames DEF HubInv, TypeOK, SendShape, Added, Closed
    <3>4. /\ ServeShape' /\ PumpShape' /\ CloseAllShape'
          /\ Called' /\ Registered' /\ NoOrphan'
      BY <3>1, ThreadNames DEF HubInv, TypeOK, ServeShape, PumpShape,
         CloseAllShape, Called, Registered, NoOrphan, Added, Closed
    <3> QED BY <3>2, <3>3, <3>4 DEF HubInv
  <2>2. CASE conns[d] # None
    <3>1. /\ target' = [target EXCEPT ![s] = conns[d]]
          /\ pc' = [pc EXCEPT ![Send(s)] = "enqueue"]
          /\ UNCHANGED <<result, conns, device, sock, once, queue, call,
                         snapshot, visited>>
          /\ pc[Send(s)] = "idle"
      BY <1>8, <2>2 DEF Lookup, At, socketVars, shutdownVars
    <3>2. TypeOK'
      BY <3>1, ThreadNames DEF HubInv, TypeOK
    <3>3. Added(conns[d])'
      BY <2>2, <3>1, ThreadNames DEF HubInv, TypeOK, Registered, Added
    <3>4. result[s] # "refused"
      BY <3>1 DEF HubInv, SendShape
    <3>5. SendShape'
      BY <2>2, <3>1, <3>3, <3>4, ThreadNames, HubAssumption
      DEF HubInv, TypeOK, SendShape, Added, Closed
    <3>6. /\ ServeShape' /\ PumpShape' /\ CloseAllShape'
          /\ Called' /\ Registered' /\ NoOrphan'
      BY <3>1, ThreadNames DEF HubInv, TypeOK, ServeShape, PumpShape,
         CloseAllShape, Called, Registered, NoOrphan, Added, Closed
    <3> QED BY <3>2, <3>5, <3>6 DEF HubInv
  <2> QED BY <2>1, <2>2
<1>9. ASSUME NEW s \in Senders, EnqueueClosed(s)
     PROVE  HubInv'
  <2>1. TypeOK'
    BY <1>9, ThreadNames, HubAssumption DEF HubInv, TypeOK, EnqueueClosed, At,
       Closed, socketVars, shutdownVars
  <2>2. SendShape'
    BY <1>9, ThreadNames, HubAssumption DEF HubInv, TypeOK, SendShape,
       EnqueueClosed, At, Added, Closed, socketVars, shutdownVars
  <2>3. /\ ServeShape' /\ PumpShape' /\ CloseAllShape'
        /\ Called' /\ Registered' /\ NoOrphan'
    BY <1>9, ThreadNames, HubAssumption DEF HubInv, TypeOK, ServeShape,
       PumpShape, CloseAllShape, Called, Registered, NoOrphan, EnqueueClosed,
       At, Added, Closed, socketVars, shutdownVars
  <2> QED BY <2>1, <2>2, <2>3 DEF HubInv
<1>10. ASSUME NEW s \in Senders, EnqueueQueued(s)
      PROVE  HubInv'
  <2>1. TypeOK'
    BY <1>10, ThreadNames, HubAssumption DEF HubInv, TypeOK, SendShape,
       EnqueueQueued, At, Added, Closed, socketVars, shutdownVars
  <2>2. SendShape'
    BY <1>10, ThreadNames, HubAssumption DEF HubInv, TypeOK, SendShape,
       EnqueueQueued, At, Added, Closed, socketVars, shutdownVars
  <2>3. /\ ServeShape' /\ PumpShape' /\ CloseAllShape'
        /\ Called' /\ Registered' /\ NoOrphan'
    BY <1>10, ThreadNames, HubAssumption DEF HubInv, TypeOK, ServeShape,
       PumpShape, CloseAllShape, Called, Registered, NoOrphan, EnqueueQueued,
       At, Added, Closed, socketVars, shutdownVars
  <2> QED BY <2>1, <2>2, <2>3 DEF HubInv
<1>11. ASSUME NEW s \in Senders, EnqueueFull(s)
      PROVE  HubInv'
  <2>1. TypeOK'
    BY <1>11, ThreadNames, HubAssumption DEF HubInv, TypeOK, EnqueueFull, At,
       Closed, socketVars, sendVars, shutdownVars
  <2>2. SendShape'
    BY <1>11, ThreadNames, HubAssumption DEF HubInv, TypeOK, SendShape,
       EnqueueFull, At, Added, Closed, socketVars, sendVars, shutdownVars
  <2>3. Called'
    BY <1>11, ThreadNames, HubAssumption DEF HubInv, TypeOK, Called,
       SendShape, EnqueueFull, At, Added, Closed, socketVars, sendVars,
       shutdownVars
  <2>4. /\ ServeShape' /\ PumpShape' /\ CloseAllShape'
        /\ Registered' /\ NoOrphan'
    BY <1>11, ThreadNames, HubAssumption DEF HubInv, TypeOK, ServeShape,
       PumpShape, CloseAllShape, Registered, NoOrphan, EnqueueFull, At, Added,
       Closed, socketVars, sendVars, shutdownVars
  <2> QED BY <2>1, <2>2, <2>3, <2>4 DEF HubInv
<1>12. ASSUME NEW s \in Senders, SendEnd(s)
      PROVE  HubInv'
  <2>1. TypeOK'
    BY <1>12, ThreadNames, HubAssumption DEF HubInv, TypeOK, SendEnd, At,
       socketVars, shutdownVars
  <2>2. SendShape'
    BY <1>12, ThreadNames, HubAssumption DEF HubInv, TypeOK, SendShape,
       SendEnd, At, Added, Closed, socketVars, shutdownVars
  <2>3. /\ ServeShape' /\ PumpShape' /\ CloseAllShape'
        /\ Called' /\ Registered' /\ NoOrphan'
    BY <1>12, ThreadNames, HubAssumption DEF HubInv, TypeOK, ServeShape,
       PumpShape, CloseAllShape, Called, Registered, NoOrphan, SendEnd, At,
       Added, Closed, socketVars, shutdownVars
  <2> QED BY <2>1, <2>2, <2>3 DEF HubInv
<1>13. ASSUME CloseAllCopy
      PROVE  HubInv'
  <2>1. TypeOK'
    BY <1>13, ThreadNames, HubAssumption DEF HubInv, TypeOK, CloseAllCopy, At,
       socketVars, sendVars
  <2>2. CloseAllShape'
    BY <1>13, ThreadNames, HubAssumption DEF HubInv, TypeOK, CloseAllShape,
       Registered, CloseAllCopy, At, Added, socketVars, sendVars
  <2>3. /\ ServeShape' /\ PumpShape' /\ SendShape'
        /\ Called' /\ Registered' /\ NoOrphan'
    BY <1>13, ThreadNames, HubAssumption DEF HubInv, TypeOK, ServeShape,
       PumpShape, SendShape, Called, Registered, NoOrphan, CloseAllCopy, At,
       Added, Closed, socketVars, sendVars
  <2> QED BY <2>1, <2>2, <2>3 DEF HubInv
<1>14. ASSUME NEW c \in Conns, CloseAllNext(c)
      PROVE  HubInv'
  <2>1. TypeOK'
    BY <1>14, ThreadNames, HubAssumption DEF HubInv, TypeOK, CloseAllNext, At,
       socketVars, sendVars
  <2>2. CloseAllShape'
    BY <1>14, ThreadNames, HubAssumption DEF HubInv, TypeOK, CloseAllShape,
       CloseAllNext, At, Added, socketVars, sendVars
  <2>3. Called'
    BY <1>14, ThreadNames, HubAssumption DEF HubInv, TypeOK, Called,
       CloseAllShape, CloseAllNext, At, Added, socketVars, sendVars
  <2>4. ServeShape' /\ PumpShape' /\ SendShape' /\ Registered' /\ NoOrphan'
    BY <1>14, ThreadNames, HubAssumption DEF HubInv, TypeOK, ServeShape,
       PumpShape, SendShape, Registered, NoOrphan, CloseAllNext, At, Added,
       Closed, socketVars, sendVars
  <2> QED BY <2>1, <2>2, <2>3, <2>4 DEF HubInv
<1>15. ASSUME CloseAllEnd
      PROVE  HubInv'
  <2>1. TypeOK'
    BY <1>15, ThreadNames, HubAssumption DEF HubInv, TypeOK, CloseAllEnd, At,
       socketVars, sendVars, shutdownVars
  <2>2. CloseAllShape'
    BY <1>15, ThreadNames, HubAssumption DEF HubInv, TypeOK, CloseAllShape,
       CloseAllEnd, At, Added, socketVars, sendVars, shutdownVars
  <2>3. /\ ServeShape' /\ PumpShape' /\ SendShape'
        /\ Called' /\ Registered' /\ NoOrphan'
    BY <1>15, ThreadNames, HubAssumption DEF HubInv, TypeOK, ServeShape,
       PumpShape, SendShape, Called, Registered, NoOrphan, CloseAllEnd, At,
       Added, Closed, socketVars, sendVars, shutdownVars
  <2> QED BY <2>1, <2>2, <2>3 DEF HubInv
<1>16. ASSUME NEW c \in Conns, CloseMark(c)
      PROVE  HubInv'
  <2>1. TypeOK'
    BY <1>16, ThreadNames, HubAssumption DEF HubInv, TypeOK, CloseMark,
       sendVars, shutdownVars
  <2>2. ServeShape'
    BY <1>16, ThreadNames, HubAssumption DEF HubInv, TypeOK, ServeShape,
       Called, CloseMark, Added, sendVars, shutdownVars
  <2>3. /\ PumpShape' /\ SendShape' /\ CloseAllShape'
        /\ Called' /\ Registered' /\ NoOrphan'
    BY <1>16, ThreadNames, HubAssumption DEF HubInv, TypeOK, PumpShape,
       SendShape, CloseAllShape, Called, Registered, NoOrphan, CloseMark,
       Added, Closed, sendVars, shutdownVars
  <2> QED BY <2>1, <2>2, <2>3 DEF HubInv
<1>17. ASSUME NEW c \in Conns, CloseSocket(c)
      PROVE  HubInv'
  <2>1. TypeOK'
    BY <1>17, ThreadNames, HubAssumption DEF HubInv, TypeOK, CloseSocket,
       sendVars, shutdownVars
  <2>2. /\ ServeShape' /\ PumpShape' /\ SendShape' /\ CloseAllShape'
        /\ Called' /\ Registered' /\ NoOrphan'
    BY <1>17, ThreadNames, HubAssumption DEF HubInv, TypeOK, ServeShape,
       PumpShape, SendShape, CloseAllShape, Called, Registered, NoOrphan,
       CloseSocket, Added, Closed, sendVars, shutdownVars
  <2> QED BY <2>1, <2>2 DEF HubInv
<1>18. ASSUME NEW c \in Conns, CloseRemove(c)
      PROVE  HubInv'
  <2>1. TypeOK'
    BY <1>18, ThreadNames, HubAssumption DEF HubInv, TypeOK, ServeShape,
       CloseRemove, Added, sendVars, shutdownVars, Unregister
  <2>2. CloseAllShape'
    BY <1>18, ThreadNames, HubAssumption DEF HubInv, TypeOK, CloseAllShape,
       CloseRemove, Added, sendVars, shutdownVars, Unregister
  <2>3. Registered'
    BY <1>18, ThreadNames, HubAssumption DEF HubInv, TypeOK, Registered,
       CloseRemove, Added, sendVars, shutdownVars, Unregister
  <2>4. ServeShape' /\ PumpShape' /\ SendShape' /\ Called' /\ NoOrphan'
    BY <1>18, ThreadNames, HubAssumption DEF HubInv, TypeOK, ServeShape,
       PumpShape, SendShape, Called, NoOrphan, CloseRemove, Added, Closed,
       sendVars, shutdownVars, Unregister
  <2> QED BY <2>1, <2>2, <2>3, <2>4 DEF HubInv
<1>19. ASSUME NEW c \in Conns, SocketLost(c)
      PROVE  HubInv'
  <2>1. TypeOK'
    BY <1>19, ThreadNames, HubAssumption DEF HubInv, TypeOK, SocketLost,
       sendVars, shutdownVars
  <2>2. /\ ServeShape' /\ PumpShape' /\ SendShape' /\ CloseAllShape'
        /\ Called' /\ Registered' /\ NoOrphan'
    BY <1>19, ThreadNames, HubAssumption DEF HubInv, TypeOK, ServeShape,
       PumpShape, SendShape, CloseAllShape, Called, Registered, NoOrphan,
       SocketLost, Added, Closed, sendVars, shutdownVars
  <2> QED BY <2>1, <2>2 DEF HubInv
<1>20. ASSUME UNCHANGED hubVars
      PROVE  HubInv'
  BY <1>20 DEF HubInv, TypeOK, ServeShape, PumpShape, SendShape,
     CloseAllShape, Called, Registered, NoOrphan, hubVars, At, Added, Closed
<1> QED
  BY <1>1, <1>2, <1>3, <1>4, <1>5, <1>6, <1>7, <1>8, <1>9, <1>10, <1>11,
     <1>12, <1>13, <1>14, <1>15, <1>16, <1>17, <1>18, <1>19, <1>20
  DEF Next, ServeStep, PumpRun, SendStep, CloseAllStep, CloseBody, Finished
----------------------------------------------------------------------------
(* Safety                                                                  *)

\* The invariant holds in every reachable state of the hub.
THEOREM HubInvariant == Spec => []HubInv
<1> QED BY InitHubInv, NextHubInv, PTL DEF Spec

\* Every variable keeps its type; the queue of a connection never holds more
\* than its buffer.
THEOREM HubTypeCorrect == Spec => []TypeOK
<1>1. HubInv => TypeOK
  BY DEF HubInv
<1> QED BY <1>1, HubInvariant, PTL

\* An open connection that was added is the registered one of its device, or the
\* one that replaced it is about to close it (Hub.add).
THEOREM HubNoOrphan == Spec => []NoOrphan
<1>1. HubInv => NoOrphan
  BY DEF HubInv
<1> QED BY <1>1, HubInvariant, PTL

\* The registry holds neither a dead connection nor a mute one.
THEOREM HubNoGhost == Spec => []NoGhost
<1>1. HubInv => NoGhost
  BY HubAssumption
  DEF HubInv, TypeOK, NoGhost, Registered, PumpShape, PumpEnded, At, Closed
<1> QED BY <1>1, HubInvariant, PTL

\* A message is refused only by a connection that is cut (Conn.enqueue).
THEOREM HubRefusedMeansCut == Spec => []RefusedMeansCut
<1>1. HubInv => RefusedMeansCut
  BY DEF HubInv, RefusedMeansCut, SendShape
<1> QED BY <1>1, HubInvariant, PTL

\* When CloseAll returns, what it found registered is closed and removed.
THEOREM HubCloseAllComplete == Spec => []CloseAllComplete
<1>1. HubInv => CloseAllComplete
  BY DEF HubInv, CloseAllComplete, CloseAllShape
<1> QED BY <1>1, HubInvariant, PTL

----------------------------------------------------------------------------
(* The hub implements AgentRegistry                                        *)

\* A step of the hub is a step of the registry, or one that it does not see.
LEMMA NextRegistry ==
  HubInv /\ HubInv' /\ [Next]_hubVars => [Registry!Next]_(Registry!registryVars)
<1> SUFFICES ASSUME HubInv, HubInv', [Next]_hubVars
             PROVE  [Registry!Next]_(Registry!registryVars)
  OBVIOUS
<1> DEFINE Silent == /\ conns' = conns
                     /\ \A c \in Conns : /\ Added(c)' <=> Added(c)
                                         /\ Closed(c)' <=> Closed(c)
<1>1. ASSUME Silent PROVE UNCHANGED Registry!registryVars
  BY <1>1 DEF Registry!registryVars
<1>2. ASSUME NEW c \in Conns, Add(c) PROVE Registry!Connect(c, device[c])
  <2>1. ~Added(c) /\ Added(c)' /\ UNCHANGED once
    BY <1>2, ThreadNames DEF Add, At, Added, HubInv, TypeOK, socketVars
  <2>2. \A n \in Conns \ {c} : Added(n)' <=> Added(n)
    BY <1>2, ThreadNames DEF Add, Added, HubInv, TypeOK
  <2> QED
    BY <1>2, <2>1, <2>2 DEF Registry!Connect, Add, Closed
<1>3. ASSUME NEW c \in Conns, CloseMark(c) PROVE Registry!End(c)
  <2>1. Added(c)
    BY <1>3, HubAssumption DEF CloseMark, HubInv, Called
  <2>2. \A n \in Conns : Added(n)' <=> Added(n)
    BY <1>3 DEF CloseMark, Added
  <2>3. /\ ~Closed(c) /\ Closed(c)'
        /\ \A n \in Conns \ {c} : Closed(n)' <=> Closed(n)
    BY <1>3 DEF CloseMark, Closed, HubInv, TypeOK
  <2> QED
    BY <1>3, <2>1, <2>2, <2>3 DEF Registry!End, CloseMark
<1>4. ASSUME NEW c \in Conns, CloseRemove(c)
      PROVE  \/ Registry!Disconnect(c, device[c])
             \/ UNCHANGED Registry!registryVars
  <2>1. \A n \in Conns : /\ Added(n)' <=> Added(n)
                         /\ Closed(n)' <=> Closed(n)
    BY <1>4 DEF CloseRemove, Added, Closed, HubInv, TypeOK
  <2>2. Closed(c)
    BY <1>4 DEF CloseRemove, Closed
  <2>3. CASE conns[device[c]] = c
    <3>1. conns' = [conns EXCEPT ![device[c]] = None]
      BY <1>4, <2>3 DEF CloseRemove, Unregister
    <3>2. UNCHANGED <<{n \in Conns : Added(n)}, {n \in Conns : Closed(n)}>>
      BY <2>1
    <3> QED
      BY <2>2, <2>3, <3>1, <3>2 DEF Registry!Disconnect
  <2>4. CASE conns[device[c]] # c
    <3>1. Silent
      BY <1>4, <2>1, <2>4 DEF CloseRemove, Unregister
    <3> QED BY <1>1, <3>1
  <2> QED BY <2>3, <2>4
<1>5. ASSUME NEW c \in Conns, NEW d \in Devices, Accept(c, d) PROVE Silent
  BY <1>5, ThreadNames
  DEF Accept, At, Added, Closed, HubInv, TypeOK, socketVars
<1>6. ASSUME NEW c \in Conns, StartPumps(c) \/ ReadError(c) PROVE Silent
  BY <1>6, ThreadNames
  DEF StartPumps, ReadError, At, Added, Closed, HubInv, TypeOK, socketVars
<1>7. ASSUME NEW c \in Conns, PumpRun(c) \/ PumpFail(c) PROVE Silent
  BY <1>7, ThreadNames
  DEF PumpRun, PumpWrite, PumpClosed, PumpFail, Added, Closed, HubInv, TypeOK,
      socketVars
<1>8. ASSUME NEW c \in Conns, SocketLost(c) PROVE Silent
  BY <1>8 DEF SocketLost, Added, Closed
<1>9. ASSUME NEW c \in Conns, CloseSocket(c) PROVE Silent
  BY <1>9 DEF CloseSocket, Added, Closed, HubInv, TypeOK
<1>10. ASSUME NEW s \in Senders, SendStep(s) PROVE Silent
  BY <1>10, ThreadNames
  DEF SendStep, EnqueueClosed, EnqueueQueued, EnqueueFull, SendEnd, Added,
      Closed, HubInv, TypeOK, socketVars
<1>11. ASSUME NEW s \in Senders, NEW d \in Devices, Lookup(s, d) PROVE Silent
  <2>1. \E l : pc' = [pc EXCEPT ![Send(s)] = l]
    BY <1>11 DEF Lookup
  <2> QED
    BY <1>11, <2>1, ThreadNames
    DEF Lookup, Added, Closed, HubInv, TypeOK, socketVars
<1>12. ASSUME CloseAllCopy \/ CloseAllStep PROVE Silent
  BY <1>12, ThreadNames
  DEF CloseAllCopy, CloseAllStep, CloseAllEnd, CloseAllNext, Added, Closed,
      HubInv, TypeOK, socketVars
<1>13. ASSUME UNCHANGED hubVars PROVE Silent
  BY <1>13 DEF hubVars, Added, Closed
<1>14. \A c \in Conns : Add(c) \/ CloseRemove(c) => device[c] \in Devices
  BY DEF Add, At, CloseRemove, HubInv, ServeShape, Added
<1> HIDE DEF Silent
<1> QED
  BY <1>1, <1>2, <1>3, <1>4, <1>5, <1>6, <1>7, <1>8, <1>9, <1>10, <1>11,
     <1>12, <1>13, <1>14
  DEF Next, ServeStep, CloseBody, Finished, Registry!Next

\* Every behaviour of the hub is a behaviour of AgentRegistry: a connection
\* enters the map once, and the end of a replaced connection never takes the
\* new one out of it (the comparison in Hub.remove).
THEOREM HubImplementsRegistry == Spec => ImplementsRegistry
<1>1. Init => Registry!Init
  BY ThreadNames DEF Init, Registry!Init, Added, Closed
<1> QED
  BY <1>1, HubInvariant, NextRegistry, PTL
  DEF Spec, ImplementsRegistry, Registry!Spec

-----------------------------------------------------------------------------
(* Requests over the hub.  RpcInv is the inductive invariant.  That a      *)
(* reader never blocks rests on a response being in one place at most      *)
(* (OneReply); that "offline" is true rests on following a command from    *)
(* the queue to its execution (SentOnly) and an answer back to it          *)
(* (Answered).                                                             *)

\* A request has one entry in the table, one response being delivered or one
\* response in its channel; a reader delivers one response at a time.
OneReply ==
  /\ \A r \in pending : chan[r] = <<>>
  /\ \A c \in Conns : \A a \in hold[c] : a[1] \notin pending /\ chan[a[1]] = <<>>
  /\ \A c, n \in Conns : \A a \in hold[c], b \in hold[n] :
       a[1] = b[1] => c = n /\ a = b
  /\ \A c \in Conns : \A a, b \in hold[c] : a = b

\* Of a request that has not begun there is no trace.
Fresh ==
  \A r \in Senders :
    rq[r] = "idle" =>
      /\ chan[r] = <<>>
      /\ result[r] = "none"
      /\ outcome[r] = "none"
      /\ \A c \in Conns : \A a \in hold[c] : a[1] # r

\* A request that is still going on has no outcome, and "offline" is what Send
\* said.
Outcomes ==
  \A r \in Senders :
    /\ rq[r] = "sending" => outcome[r] = "none"
    /\ outcome[r] = "offline" => result[r] \in {"offline", "refused"}

\* Only a command of which Send said that it was sent is in a queue, at an
\* agent, or executed.
QueueSent ==
  \A c \in Conns : \A k \in 1 .. Len(queue[c]) : result[queue[c][k]] = "sent"
SentOnly ==
  /\ \A c \in Conns : \A r \in inbox[c] : result[r] = "sent"
  /\ \A r \in executed : result[r] = "sent"

\* Responses come from executed commands.
Answered ==
  /\ \A c \in Conns : \A a \in answers[c] \cup hold[c] : a[1] \in executed
  /\ \A r \in Senders : chan[r] # <<>> => r \in executed

RpcInv ==
  /\ HubInv
  /\ RpcTypeOK
  /\ PendingExact
  /\ OneReply
  /\ Fresh
  /\ Outcomes
  /\ QueueSent
  /\ SentOnly
  /\ Answered

----------------------------------------------------------------------------
(* The hub inside the composition                                          *)

\* A step of the composition is a step of the hub or leaves the hub alone.
LEMMA RpcStepIsHubStep == [RpcNext]_vars => [Next]_hubVars
  BY DEF RpcNext, vars, Connect, Fail, ServeRun, PumpRest, Close, Transmit,
         AgentRespond, Claim, Deliver, AddPending, RequestStep, SendCommand,
         NotSent, Timeout, TakeReply, RemovePending, RpcFinished, Next, PumpRun

\* An answer is a request and a kind of response.
LEMMA AnswerParts ==
  \A a \in Answers : /\ a[1] \in Senders
                     /\ a[2] \in {"response", "error"}
                     /\ a = <<a[1], a[2]>>
  BY DEF Answers

\* The steps of a connection, but for the pump's writes, leave the results of
\* Send alone and add nothing to a queue.
LEMMA ConnectionKeepsSent ==
  ASSUME RpcInv, NEW c \in Conns,
         \/ \E d \in Devices : Accept(c, d)
         \/ SocketLost(c) \/ ServeStep(c) \/ PumpRun(c) \/ PumpFail(c)
         \/ CloseBody(c)
  PROVE  result' = result /\ QueueSent'
<1>1. result' = result
  BY DEF Accept, SocketLost, ServeStep, Add, StartPumps, ReadError, PumpRun,
         PumpWrite, PumpClosed, PumpFail, CloseBody, CloseMark, CloseSocket,
         CloseRemove, sendVars
<1>2. \/ queue' = queue
      \/ queue[c] # <<>> /\ queue' = [queue EXCEPT ![c] = Tail(@)]
  BY DEF Accept, SocketLost, ServeStep, Add, StartPumps, ReadError, PumpRun,
         PumpWrite, PumpClosed, PumpFail, CloseBody, CloseMark, CloseSocket,
         CloseRemove
<1>3. queue \in [Conns -> Seq(Senders)]
  BY DEF RpcInv, HubInv, TypeOK
<1>4. ASSUME queue[c] # <<>>, queue' = [queue EXCEPT ![c] = Tail(@)],
             NEW n \in Conns, NEW k \in 1 .. Len(queue'[n])
      PROVE  result[queue'[n][k]] = "sent"
  <2>1. CASE n = c
    <3>1. queue'[n] = Tail(queue[c]) /\ queue[c] \in Seq(Senders)
      BY <1>3, <1>4, <2>1
    <3>2. Len(Tail(queue[c])) = Len(queue[c]) - 1 /\ Len(queue[c]) \in Nat
      BY <1>4, <3>1
    <3>3. k \in 1 .. Len(queue[c]) - 1
      BY <1>4, <3>1, <3>2
    <3>4. Tail(queue[c])[k] = queue[c][k + 1]
      BY <1>4, <3>1, <3>2, <3>3
    <3>5. k + 1 \in 1 .. Len(queue[c])
      BY <3>2, <3>3
    <3> QED
      BY <3>1, <3>4, <3>5 DEF RpcInv, QueueSent
  <2>2. CASE n # c
    <3>1. queue'[n] = queue[n]
      BY <1>3, <1>4, <2>2
    <3> QED
      BY <1>4, <3>1 DEF RpcInv, QueueSent
  <2> QED
    BY <2>1, <2>2
<1> QED
  BY <1>1, <1>2, <1>4 DEF RpcInv, QueueSent

\* A step of Send finishes nothing that was finished, touches no result but its
\* own, and puts a message into a queue only by saying so.
LEMMA SendKeepsSent ==
  ASSUME RpcInv, NEW r \in Senders,
         SendStep(r) \/ \E d \in Devices : Lookup(r, d)
  PROVE  /\ result[r] = "none"
         /\ \A s \in Senders : s # r => result'[s] = result[s]
         /\ QueueSent'
<1>1. result[r] = "none"
  BY DEF RpcInv, HubInv, SendShape, SendStep, EnqueueClosed, EnqueueQueued,
         EnqueueFull, SendEnd, Lookup, At
<1>2. \A s \in Senders : s # r => result'[s] = result[s]
  BY DEF RpcInv, HubInv, TypeOK, SendStep, EnqueueClosed, EnqueueQueued,
         EnqueueFull, SendEnd, Lookup, sendVars
<1>3. /\ queue \in [Conns -> Seq(Senders)]
      /\ result \in [Senders -> {"none", "offline", "refused", "sent"}]
      /\ target \in [Senders -> Conns \cup {None}]
  BY DEF RpcInv, HubInv, TypeOK
<1>4. ASSUME NEW c \in Conns, NEW k \in 1 .. Len(queue[c])
      PROVE  result'[queue[c][k]] = "sent"
  <2>1. queue[c][k] \in Senders
    <3>1. queue[c] \in Seq(Senders)
      BY <1>3
    <3> QED
      BY <3>1
  <2>2. result[queue[c][k]] = "sent"
    BY DEF RpcInv, QueueSent
  <2> QED
    BY <1>1, <1>2, <2>1, <2>2
<1>5. CASE queue' = queue
  BY <1>1, <1>2, <1>4, <1>5 DEF QueueSent
<1>6. CASE EnqueueQueued(r)
  <2>1. /\ queue' = [queue EXCEPT ![target[r]] = Append(@, r)]
        /\ result'[r] = "sent"
    BY <1>3, <1>6 DEF EnqueueQueued
  <2>2. ASSUME NEW c \in Conns, NEW k \in 1 .. Len(queue'[c])
        PROVE  result'[queue'[c][k]] = "sent"
    <3>1. CASE c = target[r]
      <4>1. queue'[c] = Append(queue[c], r) /\ queue[c] \in Seq(Senders)
        BY <1>3, <2>1, <3>1
      <4>2. CASE k = Len(queue[c]) + 1
        BY <2>1, <4>1, <4>2
      <4>3. CASE k # Len(queue[c]) + 1
        <5>1. k \in 1 .. Len(queue[c]) + 1 /\ Len(queue[c]) \in Nat
          BY <2>2, <4>1
        <5>2. k \in 1 .. Len(queue[c])
          BY <4>3, <5>1
        <5>3. Append(queue[c], r)[k] = queue[c][k]
          BY <4>1, <5>2
        <5> QED
          BY <1>4, <4>1, <5>2, <5>3
      <4> QED
        BY <4>2, <4>3
    <3>2. CASE c # target[r]
      <4>1. queue'[c] = queue[c]
        BY <1>3, <2>1, <3>2
      <4> QED
        BY <1>4, <2>2, <4>1
    <3> QED
      BY <3>1, <3>2
  <2> QED
    BY <1>1, <1>2, <2>2 DEF QueueSent
<1>7. queue' = queue \/ EnqueueQueued(r)
  BY DEF SendStep, EnqueueClosed, EnqueueFull, SendEnd, Lookup
<1> QED
  BY <1>5, <1>6, <1>7

----------------------------------------------------------------------------
(* The inductive invariant                                                 *)

\* Before the first request there is nothing to be exact about.
LEMMA InitRpcInv == RpcInit => RpcInv
<1> SUFFICES ASSUME RpcInit PROVE RpcInv
  OBVIOUS
<1>1. HubInv /\ TypeOK
  BY InitHubInv DEF RpcInit, HubInv
<1>2. <<>> \in Seq({"response", "error"}) /\ Len(<<>>) = 0
  OBVIOUS
<1>3. RpcTypeOK
  BY <1>1, <1>2 DEF RpcInit, RpcTypeOK
<1>4. QueueSent
  BY <1>2 DEF RpcInit, Init, QueueSent
<1> QED
  BY <1>1, <1>3, <1>4
  DEF RpcInit, Init, RpcInv, PendingExact, OneReply, Fresh, Outcomes, SentOnly,
      Answered

\* The hub's own steps keep its invariant.
LEMMA HubInvKept == RpcInv /\ [RpcNext]_vars => HubInv' /\ TypeOK'
  BY RpcStepIsHubStep, NextHubInv DEF RpcInv, HubInv

\* A step that leaves the request table alone keeps what is said of it, if it
\* forgets no "sent" and no answer of Send.
LEMMA TableKept ==
  ASSUME RpcInv, UNCHANGED rpcVars, HubInv', TypeOK', QueueSent',
         \A r \in Senders : result'[r] = result[r] \/ (rq[r] = "sending" /\ result[r] = "none")
  PROVE  RpcInv'
<1>1. RpcTypeOK'
  BY DEF RpcInv, RpcTypeOK, rpcVars
<1>2. PendingExact' /\ OneReply' /\ Answered'
  BY DEF RpcInv, PendingExact, OneReply, Answered, rpcVars
<1>3. Fresh'
  BY DEF RpcInv, Fresh, rpcVars
<1>4. Outcomes'
  BY DEF RpcInv, Outcomes, rpcVars
<1>5. SentOnly'
  BY DEF RpcInv, RpcTypeOK, SentOnly, rpcVars
<1> QED
  BY <1>1, <1>2, <1>3, <1>4, <1>5 DEF RpcInv

\* A request's own steps, other than sending, keep the invariant.
LEMMA RequestKeeps ==
  ASSUME RpcInv, HubInv', TypeOK', NEW r \in Senders,
         AddPending(r) \/ NotSent(r) \/ Timeout(r) \/ TakeReply(r) \/ RemovePending(r)
  PROVE  RpcInv'
<1>1. QueueSent' /\ SentOnly'
  BY DEF RpcInv, QueueSent, SentOnly, AddPending, NotSent, Timeout, TakeReply,
         RemovePending, hubVars
<1>2. chan' = chan \/ (TakeReply(r) /\ chan[r] # <<>> /\ chan' = [chan EXCEPT ![r] = Tail(@)])
  BY DEF AddPending, NotSent, Timeout, TakeReply, RemovePending
<1>3. chan' \in [Senders -> Seq({"response", "error"})]
  <2>1. chan \in [Senders -> Seq({"response", "error"})]
    BY DEF RpcInv, RpcTypeOK
  <2>2. chan[r] \in Seq({"response", "error"})
    BY <2>1
  <2>3. chan[r] # <<>> => Tail(chan[r]) \in Seq({"response", "error"})
    BY <2>2
  <2> QED
    BY <1>2, <2>1, <2>3
<1>4. chan[r] # <<>> => Head(chan[r]) \in {"response", "error"}
  <2>1. chan[r] \in Seq({"response", "error"})
    BY DEF RpcInv, RpcTypeOK
  <2> QED
    BY <2>1
<1>5. RpcTypeOK'
  BY <1>3, <1>4
  DEF RpcInv, RpcTypeOK, AddPending, NotSent, Timeout, TakeReply, RemovePending
<1>6. PendingExact'
  BY DEF RpcInv, RpcTypeOK, PendingExact, AddPending, NotSent, Timeout, TakeReply,
         RemovePending
<1>7. OneReply'
  <2>1. CASE AddPending(r)
    BY <2>1 DEF RpcInv, RpcTypeOK, OneReply, Fresh, AddPending
  <2>2. CASE TakeReply(r)
    <3>1. r \notin pending /\ \A c \in Conns : \A a \in hold[c] : a[1] # r
      BY <2>2 DEF RpcInv, OneReply, TakeReply
    <3> QED
      BY <2>2, <3>1 DEF RpcInv, RpcTypeOK, OneReply, TakeReply
  <2>3. CASE NotSent(r) \/ Timeout(r) \/ RemovePending(r)
    BY <2>3 DEF RpcInv, RpcTypeOK, OneReply, NotSent, Timeout, RemovePending
  <2> QED
    BY <2>1, <2>2, <2>3
<1>8. Fresh'
  BY DEF RpcInv, RpcTypeOK, Fresh, AddPending, NotSent, Timeout, TakeReply,
         RemovePending, hubVars
<1>9. Outcomes'
  BY <1>4
  DEF RpcInv, RpcTypeOK, Outcomes, Fresh, AddPending, NotSent, Timeout, TakeReply,
      RemovePending, hubVars
<1>10. Answered'
  BY <1>2
  DEF RpcInv, RpcTypeOK, Answered, AddPending, NotSent, Timeout, TakeReply,
      RemovePending
<1> QED
  BY <1>1, <1>5, <1>6, <1>7, <1>8, <1>9, <1>10 DEF RpcInv

\* What an agent does, and what the reader makes of it, keeps the invariant.
LEMMA ResponseKeeps ==
  ASSUME RpcInv, HubInv', TypeOK', NEW c \in Conns, NEW a \in Answers,
         AgentRespond(c, a) \/ Claim(c, a) \/ Deliver(c, a)
  PROVE  RpcInv'
<1>1. a[1] \in Senders /\ a[2] \in {"response", "error"} /\ a = <<a[1], a[2]>>
  BY AnswerParts
<1>2. QueueSent' /\ SentOnly'
  BY DEF RpcInv, RpcTypeOK, QueueSent, SentOnly, AgentRespond, Claim, Deliver, hubVars
<1>3. chan' \in [Senders -> Seq({"response", "error"})]
  <2>1. chan \in [Senders -> Seq({"response", "error"})]
    BY DEF RpcInv, RpcTypeOK
  <2>2. Append(chan[a[1]], a[2]) \in Seq({"response", "error"})
    BY <1>1, <2>1
  <2> QED
    BY <2>1, <2>2 DEF AgentRespond, Claim, Deliver
<1>4. RpcTypeOK'
  <2>1. CASE AgentRespond(c, a)
    BY <1>1, <2>1 DEF RpcInv, RpcTypeOK, AgentRespond
  <2>2. CASE Claim(c, a)
    <3>1. answers' \in [Conns -> SUBSET Answers] /\ pending' \in SUBSET Senders
      BY <2>2 DEF RpcInv, RpcTypeOK, Claim
    <3>2. {a} \in SUBSET Answers /\ hold \in [Conns -> SUBSET Answers]
      BY DEF RpcInv, RpcTypeOK
    <3>3. hold' = hold \/ hold' = [hold EXCEPT ![c] = {a}]
      BY <2>2 DEF Claim
    <3>4. hold' \in [Conns -> SUBSET Answers]
      BY <3>2, <3>3
    <3>5. UNCHANGED <<rq, chan, outcome, inbox, executed>>
      BY <2>2 DEF Claim
    <3> QED
      BY <3>1, <3>5, <3>4 DEF RpcInv, RpcTypeOK
  <2>3. CASE Deliver(c, a)
    BY <1>3, <2>3 DEF RpcInv, RpcTypeOK, Deliver
  <2> QED
    BY <2>1, <2>2, <2>3
<1>5. CASE AgentRespond(c, a)
  <2>1. PendingExact' /\ OneReply'
    BY <1>5 DEF RpcInv, PendingExact, OneReply, AgentRespond
  <2>2. Fresh' /\ Outcomes'
    BY <1>5 DEF RpcInv, Fresh, Outcomes, AgentRespond, hubVars
  <2>3. /\ executed' = executed \cup {a[1]}
        /\ \A n \in Conns : answers'[n] \subseteq answers[n] \cup {a}
        /\ hold' = hold /\ chan' = chan
    BY <1>5 DEF RpcInv, RpcTypeOK, AgentRespond
  <2>4. Answered'
    BY <2>3 DEF RpcInv, Answered
  <2> QED
    BY <1>2, <1>4, <2>1, <2>2, <2>4 DEF RpcInv
<1>6. CASE Claim(c, a)
  <2>1. PendingExact'
    <3>1. CASE a[1] \in pending
      <4>1. hold' = [hold EXCEPT ![c] = {a}] /\ pending' = pending \ {a[1]}
        BY <1>6, <3>1 DEF Claim
      <4>2. \A n \in Conns : hold[n] \subseteq hold'[n]
        BY <1>6, <4>1 DEF RpcInv, RpcTypeOK, Claim
      <4>3. <<a[1], a[2]>> \in hold'[c]
        BY <1>1, <4>1 DEF RpcInv, RpcTypeOK
      <4>4. rq' = rq /\ chan' = chan
        BY <1>6 DEF Claim
      <4> QED
        BY <1>1, <4>1, <4>2, <4>3, <4>4 DEF RpcInv, PendingExact
    <3>2. CASE a[1] \notin pending
      BY <1>6, <3>2 DEF RpcInv, PendingExact, Claim
    <3> QED
      BY <3>1, <3>2
  <2>2. /\ chan' = chan /\ rq' = rq /\ outcome' = outcome /\ executed' = executed
        /\ result' = result
        /\ hold[c] = {} /\ a \in answers[c]
        /\ pending' \subseteq pending
        /\ \A n \in Conns : answers'[n] \subseteq answers[n]
    BY <1>6 DEF RpcInv, RpcTypeOK, Claim, hubVars
  <2>3. \A n \in Conns : hold'[n] = hold[n]
          \/ (n = c /\ hold'[n] = {a} /\ a[1] \in pending /\ a[1] \notin pending')
    BY <1>6 DEF RpcInv, RpcTypeOK, Claim
  <2>4. OneReply'
    <3>1. \A r \in pending' : chan'[r] = <<>>
      BY <2>2 DEF RpcInv, OneReply
    <3>2. \A n \in Conns : \A b \in hold'[n] :
            b[1] \notin pending' /\ chan'[b[1]] = <<>>
      BY <2>2, <2>3 DEF RpcInv, OneReply
    <3>3. \A n, m \in Conns : \A b \in hold'[n], e \in hold'[m] :
            b[1] = e[1] => n = m /\ b = e
      BY <2>2, <2>3 DEF RpcInv, OneReply
    <3>4. \A n \in Conns : \A b, e \in hold'[n] : b = e
      BY <2>2, <2>3 DEF RpcInv, OneReply
    <3> QED
      BY <3>1, <3>2, <3>3, <3>4 DEF OneReply
  <2>5. Fresh'
    <3>1. rq[a[1]] # "idle" \/ a[1] \notin pending
      BY <1>1 DEF RpcInv, PendingExact
    <3>2. \A r \in Senders : rq'[r] = "idle" =>
            chan'[r] = <<>> /\ result'[r] = "none" /\ outcome'[r] = "none"
      BY <2>2 DEF RpcInv, Fresh
    <3>3. \A r \in Senders : rq'[r] = "idle" =>
            \A n \in Conns : \A b \in hold'[n] : b[1] # r
      BY <2>2, <2>3, <3>1 DEF RpcInv, Fresh
    <3> QED
      BY <3>2, <3>3 DEF Fresh
  <2>6. Outcomes' /\ Answered'
    BY <2>2, <2>3 DEF RpcInv, Outcomes, Answered
  <2> QED
    BY <1>2, <1>4, <2>1, <2>4, <2>5, <2>6 DEF RpcInv
<1>7. CASE Deliver(c, a)
  <2>1. chan[a[1]] = <<>> /\ a[1] \notin pending
    BY <1>7 DEF RpcInv, OneReply, Deliver
  <2>2. chan' = [chan EXCEPT ![a[1]] = <<a[2]>>]
    BY <1>7, <2>1 DEF Deliver
  <2>3. hold' = [hold EXCEPT ![c] = {}] /\ a \in hold[c]
    BY <1>7 DEF Deliver
  <2>4. chan'[a[1]] # <<>> /\ \A r \in Senders : r # a[1] => chan'[r] = chan[r]
    BY <1>1, <2>2 DEF RpcInv, RpcTypeOK
  <2>5. \A n \in Conns : hold'[n] = IF n = c THEN {} ELSE hold[n]
    BY <2>3 DEF RpcInv, RpcTypeOK
  <2>6. \A r \in Senders, k \in {"response", "error"} :
          <<r, k>> \in hold[c] => r = a[1]
    BY <2>3 DEF RpcInv, OneReply
  <2>7. PendingExact'
    BY <1>7, <2>4, <2>5, <2>6 DEF RpcInv, RpcTypeOK, PendingExact, Deliver
  <2>8. OneReply'
    <3>1. \A n \in Conns : \A b \in hold'[n] : b \in Answers /\ b[1] # a[1]
      BY <2>3, <2>5 DEF RpcInv, RpcTypeOK, OneReply
    <3>2. \A n \in Conns : \A b \in hold'[n] : b[1] \in Senders
      BY <3>1, AnswerParts
    <3> QED
      BY <1>7, <2>1, <2>4, <2>5, <3>1, <3>2 DEF RpcInv, RpcTypeOK, OneReply, Deliver
  <2>9. Fresh'
    BY <1>7, <2>3, <2>4, <2>5 DEF RpcInv, Fresh, Deliver, hubVars
  <2>10. Outcomes' /\ Answered'
    BY <1>7, <2>3, <2>4, <2>5 DEF RpcInv, Outcomes, Answered, Deliver, hubVars
  <2> QED
    BY <1>2, <1>4, <2>7, <2>8, <2>9, <2>10 DEF RpcInv
<1> QED
  BY <1>5, <1>6, <1>7

\* Every step keeps the invariant.
LEMMA NextRpcInv == RpcInv /\ [RpcNext]_vars => RpcInv'
<1> SUFFICES ASSUME RpcInv, [RpcNext]_vars PROVE RpcInv'
  OBVIOUS
<1>1. HubInv' /\ TypeOK'
  BY HubInvKept
<1>2. ASSUME NEW c \in Conns,
             Connect(c) \/ Fail(c) \/ ServeRun(c) \/ PumpRest(c) \/ Close(c)
      PROVE  RpcInv'
  <2>1. UNCHANGED rpcVars
    BY <1>2 DEF Connect, Fail, ServeRun, PumpRest, Close
  <2>2. result' = result /\ QueueSent'
    BY <1>2, ConnectionKeepsSent
    DEF Connect, Fail, ServeRun, PumpRest, Close, PumpRun
  <2> QED
    BY <1>1, <2>1, <2>2, TableKept
<1>3. ASSUME NEW c \in Conns, Transmit(c)
      PROVE  RpcInv'
  <2>1. result' = result /\ QueueSent'
    BY <1>3, ConnectionKeepsSent DEF Transmit, PumpRun
  <2>2. UNCHANGED <<rq, pending, chan, outcome, executed, answers, hold>>
    BY <1>3 DEF Transmit
  <2>3. Head(queue[c]) \in Senders /\ result[Head(queue[c])] = "sent"
    <3>1. queue[c] \in Seq(Senders) /\ queue[c] # <<>>
      BY <1>3 DEF Transmit, PumpWrite, RpcInv, HubInv, TypeOK
    <3>2. 1 \in 1 .. Len(queue[c]) /\ Head(queue[c]) = queue[c][1]
      BY <3>1
    <3> QED
      BY <3>1, <3>2 DEF RpcInv, QueueSent
  <2>4. /\ inbox' \in [Conns -> SUBSET Senders]
        /\ \A n \in Conns : inbox'[n] \subseteq inbox[n] \cup {Head(queue[c])}
    BY <1>3, <2>3 DEF Transmit, RpcInv, RpcTypeOK
  <2>5. RpcTypeOK'
    BY <1>1, <2>2, <2>4 DEF RpcInv, RpcTypeOK
  <2>6. PendingExact' /\ OneReply' /\ Fresh' /\ Outcomes' /\ Answered'
    BY <2>1, <2>2
    DEF RpcInv, PendingExact, OneReply, Fresh, Outcomes, Answered
  <2>7. SentOnly'
    BY <2>1, <2>2, <2>3, <2>4 DEF RpcInv, SentOnly
  <2> QED
    BY <1>1, <2>1, <2>5, <2>6, <2>7 DEF RpcInv
<1>4. ASSUME NEW c \in Conns, NEW a \in Answers,
             AgentRespond(c, a) \/ Claim(c, a) \/ Deliver(c, a)
      PROVE  RpcInv'
  BY <1>1, <1>4, ResponseKeeps
<1>5. ASSUME NEW r \in Senders, SendCommand(r)
      PROVE  RpcInv'
  <2>1. /\ UNCHANGED rpcVars
        /\ rq[r] = "sending"
        /\ SendStep(r) \/ \E d \in Devices : Lookup(r, d)
    BY <1>5 DEF SendCommand
  <2>2. /\ result[r] = "none"
        /\ \A s \in Senders : s # r => result'[s] = result[s]
        /\ QueueSent'
    BY <2>1, SendKeepsSent
  <2> QED
    BY <1>1, <2>1, <2>2, TableKept
<1>6. ASSUME NEW r \in Senders,
             AddPending(r) \/ NotSent(r) \/ Timeout(r) \/ TakeReply(r)
               \/ RemovePending(r)
      PROVE  RpcInv'
  BY <1>1, <1>6, RequestKeeps
<1>7. CASE UNCHANGED vars
  <2>1. UNCHANGED rpcVars /\ result' = result /\ queue' = queue
    BY <1>7 DEF vars, hubVars
  <2>2. QueueSent'
    BY <2>1 DEF RpcInv, QueueSent
  <2> QED
    BY <1>1, <2>1, <2>2, TableKept
<1> QED
  BY <1>2, <1>3, <1>4, <1>5, <1>6, <1>7 DEF RpcNext, RequestStep, RpcFinished

----------------------------------------------------------------------------
(* The theorems                                                            *)

\* The invariant holds in every state of every execution.
THEOREM RpcInvariant == RpcSpec => []RpcInv
  BY InitRpcInv, NextRpcInv, PTL DEF RpcSpec

\* The variables of the composition keep their types.
THEOREM RpcTypeCorrect == RpcSpec => []RpcTypeOK
<1>1. RpcInv => RpcTypeOK
  BY DEF RpcInv
<1> QED
  BY <1>1, RpcInvariant, PTL

\* The table has an entry for every request that waits and has no response on
\* its way, and for none that has returned (Request and its deferred remove).
THEOREM RpcPendingExact == RpcSpec => []PendingExact
<1>1. RpcInv => PendingExact
  BY DEF RpcInv
<1> QED
  BY <1>1, RpcInvariant, PTL

\* The send of rpc.go:51 always finds room: the goroutine that reads from an
\* agent never waits for a caller.
THEOREM RpcReaderNeverBlocks == RpcSpec => []ReaderNeverBlocks
<1>1. RpcInv => ReaderNeverBlocks
  <2> SUFFICES ASSUME RpcInv, NEW c \in Conns, NEW a \in hold[c]
               PROVE  Len(chan[a[1]]) < ReplyBuffer
    BY DEF ReaderNeverBlocks
  <2>1. chan[a[1]] = <<>>
    BY DEF RpcInv, OneReply
  <2> QED
    BY <2>1 DEF ReplyBuffer
<1> QED
  BY <1>1, RpcInvariant, PTL

\* The hub of the composition is still the hub of Hub, so all that is proved of
\* it holds here as well.
THEOREM RpcContainsHub == RpcSpec => Spec
<1>1. RpcInit => Init
  BY DEF RpcInit
<1> QED
  BY <1>1, RpcStepIsHubStep, PTL DEF RpcSpec, Spec

----------------------------------------------------------------------------
(* Requests implement RemoteCall                                           *)

\* A step of the composition is a step of RemoteCall, or one it does not see.
LEMMA NextRemoteCall ==
  RpcInv /\ [RpcNext]_vars => [RemoteCalls!Next]_(RemoteCalls!callVars)
<1> SUFFICES ASSUME RpcInv, [RpcNext]_vars
             PROVE  [RemoteCalls!Next]_(RemoteCalls!callVars)
  OBVIOUS
<1> DEFINE Call == [r \in Senders |->
                      IF rq[r] = "idle" THEN "new"
                      ELSE IF outcome[r] = "none" THEN "open" ELSE outcome[r]]
<1>1. /\ rq \in [Senders -> {"idle", "sending", "return", "done"}]
      /\ outcome \in [Senders -> {"none", "offline", "timeout", "response", "error"}]
  BY DEF RpcInv, RpcTypeOK
<1>2. ASSUME UNCHANGED <<rq, outcome, executed>>
      PROVE  UNCHANGED RemoteCalls!callVars
  BY <1>2 DEF RemoteCalls!callVars
<1>3. ASSUME NEW r \in Senders, AddPending(r) PROVE RemoteCalls!Start(r)
  <2>1. Call[r] = "new" /\ outcome[r] = "none" /\ UNCHANGED <<outcome, executed>>
    BY <1>3 DEF AddPending, RpcInv, Fresh
  <2>2. Call' = [Call EXCEPT ![r] = "open"]
    BY <1>1, <1>3, <2>1 DEF AddPending
  <2> QED
    BY <2>1, <2>2 DEF RemoteCalls!Start, RemoteCalls!Become
<1>4. ASSUME NEW r \in Senders, NotSent(r) PROVE RemoteCalls!Offline(r)
  <2>1. Call[r] = "open" /\ r \notin executed /\ UNCHANGED executed
    BY <1>4 DEF NotSent, RpcInv, Outcomes, SentOnly
  <2>2. Call' = [Call EXCEPT ![r] = "offline"]
    BY <1>1, <1>4 DEF NotSent
  <2> QED
    BY <2>1, <2>2 DEF RemoteCalls!Offline, RemoteCalls!Become
<1>5. ASSUME NEW r \in Senders, Timeout(r) PROVE RemoteCalls!GiveUp(r)
  <2>1. Call[r] = "open" /\ UNCHANGED executed
    BY <1>5 DEF Timeout, Waiting, RpcInv, Outcomes
  <2>2. Call' = [Call EXCEPT ![r] = "timeout"]
    BY <1>1, <1>5 DEF Timeout, Waiting
  <2> QED
    BY <2>1, <2>2 DEF RemoteCalls!GiveUp, RemoteCalls!Become
<1>6. ASSUME NEW r \in Senders, TakeReply(r) PROVE RemoteCalls!Answer(r)
  <2>1. Call[r] = "open" /\ r \in executed /\ UNCHANGED executed
    BY <1>6 DEF TakeReply, Waiting, RpcInv, Outcomes, Answered
  <2>2. Head(chan[r]) \in {"response", "error"}
    <3>1. chan[r] \in Seq({"response", "error"}) /\ chan[r] # <<>>
      BY <1>6 DEF TakeReply, RpcInv, RpcTypeOK
    <3> QED
      BY <3>1
  <2>3. Call' = [Call EXCEPT ![r] = Head(chan[r])]
    BY <1>1, <1>6, <2>2 DEF TakeReply, Waiting
  <2> QED
    BY <2>1, <2>2, <2>3 DEF RemoteCalls!Answer, RemoteCalls!Become
<1>7. ASSUME NEW r \in Senders, RemovePending(r)
      PROVE  UNCHANGED RemoteCalls!callVars
  <2>1. Call' = Call /\ UNCHANGED executed
    BY <1>1, <1>7 DEF RemovePending
  <2> QED
    BY <2>1 DEF RemoteCalls!callVars
<1>8. ASSUME NEW c \in Conns, NEW a \in Answers, AgentRespond(c, a)
      PROVE  RemoteCalls!Execute(a[1]) \/ UNCHANGED RemoteCalls!callVars
  <2>1. a[1] \in Senders /\ result[a[1]] = "sent"
    BY <1>8, AnswerParts DEF AgentRespond, RpcInv, SentOnly
  <2>2. Call[a[1]] \notin {"new", "offline"}
    BY <1>1, <2>1 DEF RpcInv, Fresh, Outcomes
  <2>3. UNCHANGED <<rq, outcome>> /\ executed' = executed \cup {a[1]}
    BY <1>8 DEF AgentRespond
  <2>4. CASE a[1] \in executed
    BY <1>2, <2>3, <2>4
  <2>5. CASE a[1] \notin executed
    BY <2>2, <2>3, <2>5 DEF RemoteCalls!Execute
  <2> QED
    BY <2>4, <2>5
<1>9. ASSUME NEW c \in Conns,
             \/ Connect(c) \/ Fail(c) \/ ServeRun(c) \/ PumpRest(c) \/ Close(c)
             \/ Transmit(c)
             \/ \E a \in Answers : Claim(c, a) \/ Deliver(c, a)
      PROVE  UNCHANGED RemoteCalls!callVars
  BY <1>2, <1>9
  DEF Connect, Fail, ServeRun, PumpRest, Close, Transmit, Claim, Deliver, rpcVars
<1>10. ASSUME (\E r \in Senders : SendCommand(r)) \/ UNCHANGED vars
       PROVE  UNCHANGED RemoteCalls!callVars
  BY <1>2, <1>10 DEF SendCommand, vars, rpcVars
<1>11. \A a \in Answers : a[1] \in Senders
  BY AnswerParts
<1> HIDE DEF Call
<1> QED
  BY <1>3, <1>4, <1>5, <1>6, <1>7, <1>8, <1>9, <1>10, <1>11
  DEF RpcNext, RequestStep, RpcFinished, RemoteCalls!Next

\* Every behaviour of Request over the hub is a behaviour of RemoteCall: a
\* caller is told "agent tidak terhubung" (rpc.go:15) only of a command that is
\* not executed, before or after.
THEOREM RpcImplementsRemoteCall == RpcSpec => ImplementsRemoteCall
<1>1. RpcInit => RemoteCalls!Init
  BY DEF RpcInit, RemoteCalls!Init
<1> QED
  BY <1>1, RpcInvariant, NextRemoteCall, PTL
  DEF RpcSpec, ImplementsRemoteCall, RemoteCalls!Spec
=============================================================================
