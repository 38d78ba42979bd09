-------------------------------- MODULE Hub --------------------------------
(***************************************************************************)
(* The server's registry of agent connections and the life of one          *)
(* connection: server/ws/hub.go, server/ws/conn.go and the part of         *)
(* server/ws/handler.go that runs them (ServeAgent).                       *)
(*                                                                         *)
(* Threads are the goroutines of the code.  Every connection c has two:    *)
(* Serve(c), the HTTP handler that adds c to the hub and then reads, and   *)
(* Pump(c), its writePump.  A Send(s) is one call of Hub.Send, made by     *)
(* some HTTP handler, and CloseAll is the call made by a shutdown.         *)
(*                                                                         *)
(* A region under hub.mu is one step.  Conn.close() runs its body under a  *)
(* sync.Once: call[t] is the connection on which thread t is inside        *)
(* close(); the three statements of the body run once, and every thread    *)
(* that called close() waits until they are done (At).                     *)
(*                                                                         *)
(* Not in this module: the registration handshake that comes before the    *)
(* connection exists, and what the messages say.                           *)
(***************************************************************************)
EXTENDS Naturals, Sequences

CONSTANTS
  Devices,      \* device IDs
  Conns,        \* the *Conn values the server makes, one per accepted socket
  Senders,      \* the calls of Hub.Send
  SendBuffer,   \* capacity of Conn.send
  None          \* no connection

ASSUME HubAssumption ==
  /\ SendBuffer \in Nat \ {0}
  /\ None \notin Conns
  /\ None \notin Devices

VARIABLES
  conns,      \* Hub.conns: the connection registered for each device
  device,     \* Conn.deviceID
  sock,       \* "up", "lost" (the peer is gone) or "shut" (ws.Close was called)
  once,       \* how far the body of close() got: "open" before it runs
  queue,      \* Conn.send: the messages accepted and not yet taken by the pump
  pc,         \* where each goroutine is
  call,       \* the connection a goroutine is inside close() of, or None
  target,     \* the connection a Send found in the registry
  result,     \* what a Send returned
  snapshot,   \* CloseAll: the connections it copied under the lock
  visited     \* CloseAll: those it has called close() on

socketVars == <<sock, once>>
sendVars == <<target, result>>
shutdownVars == <<snapshot, visited>>
hubVars == <<conns, device, sock, once, queue, pc, call, target, result,
             snapshot, visited>>

Serve(c) == <<"serve", c>>
Pump(c) == <<"pump", c>>
Send(s) == <<"send", s>>
CloseAll == <<"closeall", None>>

Threads == ({"serve", "pump"} \X Conns) \cup ({"send"} \X Senders) \cup {CloseAll}

\* Fault: close() guarded by a flag that a second caller finds set and passes.
AtFlagOnly(t, l) ==
  /\ pc[t] = l
  /\ call[t] # None => once[call[t]] # "open"

\* Thread t is at l, and the close() it called, if any, has returned.
At(t, l) ==
  /\ pc[t] = l
  /\ call[t] # None => once[call[t]] = "removed"

\* Serve(c) has returned from readPump and its close, Pump(c) from writePump.
HandlerEnded(c) == At(Serve(c), "leave")
PumpEnded(c) == pc[Pump(c)] = "done" \/ At(Pump(c), "leave")

\* c has been put into the registry, now or earlier.
Added(c) == pc[Serve(c)] \notin {"idle", "add"}

Closed(c) == once[c] # "open"

----------------------------------------------------------------------------

Init ==
  /\ conns = [d \in Devices |-> None]
  /\ device = [c \in Conns |-> None]
  /\ sock = [c \in Conns |-> "up"]
  /\ once = [c \in Conns |-> "open"]
  /\ queue = [c \in Conns |-> <<>>]
  /\ pc = [t \in Threads |-> "idle"]
  /\ call = [t \in Threads |-> None]
  /\ target = [s \in Senders |-> None]
  /\ result = [s \in Senders |-> "none"]
  /\ snapshot = {}
  /\ visited = {}

----------------------------------------------------------------------------
(* Serve(c): ServeAgent after the handshake                                *)

\* The handshake succeeded for device d and newConn made c.
Accept(c, d) ==
  /\ At(Serve(c), "idle")
  /\ device' = [device EXCEPT ![c] = d]
  /\ pc' = [pc EXCEPT ![Serve(c)] = "add"]
  /\ UNCHANGED <<conns, socketVars, queue, call, sendVars, shutdownVars>>

\* Fault: the replaced connection is not closed.
AddKeepsOld(c) ==
  /\ At(Serve(c), "add")
  /\ conns' = [conns EXCEPT ![device[c]] = c]
  /\ pc' = [pc EXCEPT ![Serve(c)] = "adding"]
  /\ UNCHANGED <<device, socketVars, queue, call, sendVars, shutdownVars>>

\* Hub.add: the entry is swapped under the lock, then the replaced connection
\* is closed outside it.
Add(c) ==
  /\ At(Serve(c), "add")
  /\ conns' = [conns EXCEPT ![device[c]] = c]
  /\ call' = [call EXCEPT ![Serve(c)] = conns[device[c]]]
  /\ pc' = [pc EXCEPT ![Serve(c)] = "adding"]
  /\ UNCHANGED <<device, socketVars, queue, sendVars, shutdownVars>>

\* add returned: "go conn.writePump()", then readPump.
StartPumps(c) ==
  /\ At(Serve(c), "adding")
  /\ pc' = [pc EXCEPT ![Serve(c)] = "read", ![Pump(c)] = "select"]
  /\ call' = [call EXCEPT ![Serve(c)] = None]
  /\ UNCHANGED <<conns, device, socketVars, queue, sendVars, shutdownVars>>

\* ReadMessage fails: the peer is gone (or silent for pongWait), or this side
\* has shut the socket.  The deferred close runs.
ReadError(c) ==
  /\ At(Serve(c), "read")
  /\ sock[c] # "up"
  /\ pc' = [pc EXCEPT ![Serve(c)] = "leave"]
  /\ call' = [call EXCEPT ![Serve(c)] = c]
  /\ UNCHANGED <<conns, device, socketVars, queue, sendVars, shutdownVars>>

----------------------------------------------------------------------------
(* Pump(c): writePump                                                      *)

\* A message is taken from the queue and written.  A write to a peer that is
\* gone can still succeed; after ws.Close it cannot.
PumpWrite(c) ==
  /\ At(Pump(c), "select")
  /\ queue[c] # <<>>
  /\ sock[c] # "shut"
  /\ queue' = [queue EXCEPT ![c] = Tail(@)]
  /\ UNCHANGED <<conns, device, socketVars, pc, call, sendVars, shutdownVars>>

\* Fault: the pump returns after a failed write without closing.
PumpFailSilent(c) ==
  /\ At(Pump(c), "select")
  /\ pc' = [pc EXCEPT ![Pump(c)] = "done"]
  /\ UNCHANGED <<conns, device, socketVars, queue, call, sendVars, shutdownVars>>

\* The write of a message, or of the periodic ping, fails.  It can fail on a
\* socket that is up, by the write deadline.
PumpFail(c) ==
  /\ At(Pump(c), "select")
  /\ \/ UNCHANGED queue
     \/ queue[c] # <<>> /\ queue' = [queue EXCEPT ![c] = Tail(@)]
  /\ pc' = [pc EXCEPT ![Pump(c)] = "leave"]
  /\ call' = [call EXCEPT ![Pump(c)] = c]
  /\ UNCHANGED <<conns, device, socketVars, sendVars, shutdownVars>>

PumpClosed(c) ==
  /\ At(Pump(c), "select")
  /\ Closed(c)
  /\ pc' = [pc EXCEPT ![Pump(c)] = "done"]
  /\ UNCHANGED <<conns, device, socketVars, queue, call, sendVars, shutdownVars>>

----------------------------------------------------------------------------
(* Send(s): Hub.Send and Conn.enqueue                                      *)

Lookup(s, d) ==
  /\ At(Send(s), "idle")
  /\ IF conns[d] = None
     THEN /\ result' = [result EXCEPT ![s] = "offline"]
          /\ pc' = [pc EXCEPT ![Send(s)] = "done"]
          /\ UNCHANGED target
     ELSE /\ target' = [target EXCEPT ![s] = conns[d]]
          /\ pc' = [pc EXCEPT ![Send(s)] = "enqueue"]
          /\ UNCHANGED result
  /\ UNCHANGED <<conns, device, socketVars, queue, call, shutdownVars>>

\* The three cases of the select.  When the connection is closed and the queue
\* has room, both cases are ready and the runtime picks either one.
EnqueueClosed(s) ==
  /\ At(Send(s), "enqueue")
  /\ Closed(target[s])
  /\ result' = [result EXCEPT ![s] = "refused"]
  /\ pc' = [pc EXCEPT ![Send(s)] = "done"]
  /\ UNCHANGED <<conns, device, socketVars, queue, call, target, shutdownVars>>

\* Fault: one message more than the buffer holds.
EnqueueOverfull(s) ==
  /\ At(Send(s), "enqueue")
  /\ Len(queue[target[s]]) <= SendBuffer
  /\ queue' = [queue EXCEPT ![target[s]] = Append(@, s)]
  /\ result' = [result EXCEPT ![s] = "sent"]
  /\ pc' = [pc EXCEPT ![Send(s)] = "done"]
  /\ UNCHANGED <<conns, device, socketVars, call, target, shutdownVars>>

EnqueueQueued(s) ==
  /\ At(Send(s), "enqueue")
  /\ Len(queue[target[s]]) < SendBuffer
  /\ queue' = [queue EXCEPT ![target[s]] = Append(@, s)]
  /\ result' = [result EXCEPT ![s] = "sent"]
  /\ pc' = [pc EXCEPT ![Send(s)] = "done"]
  /\ UNCHANGED <<conns, device, socketVars, call, target, shutdownVars>>

\* Fault: a full queue refuses the message and leaves the connection alone.
EnqueueFullKeeps(s) ==
  /\ At(Send(s), "enqueue")
  /\ ~Closed(target[s])
  /\ Len(queue[target[s]]) >= SendBuffer
  /\ pc' = [pc EXCEPT ![Send(s)] = "leave"]
  /\ UNCHANGED <<conns, device, socketVars, queue, call, sendVars, shutdownVars>>

EnqueueFull(s) ==
  /\ At(Send(s), "enqueue")
  /\ ~Closed(target[s])
  /\ Len(queue[target[s]]) >= SendBuffer
  /\ pc' = [pc EXCEPT ![Send(s)] = "leave"]
  /\ call' = [call EXCEPT ![Send(s)] = target[s]]
  /\ UNCHANGED <<conns, device, socketVars, queue, sendVars, shutdownVars>>

SendEnd(s) ==
  /\ At(Send(s), "leave")
  /\ result' = [result EXCEPT ![s] = "refused"]
  /\ pc' = [pc EXCEPT ![Send(s)] = "done"]
  /\ call' = [call EXCEPT ![Send(s)] = None]
  /\ UNCHANGED <<conns, device, socketVars, queue, target, shutdownVars>>

----------------------------------------------------------------------------
(* CloseAll                                                                *)

CloseAllCopy ==
  /\ At(CloseAll, "idle")
  /\ snapshot' = {conns[d] : d \in Devices} \ {None}
  /\ pc' = [pc EXCEPT ![CloseAll] = "close"]
  /\ UNCHANGED <<conns, device, socketVars, queue, call, sendVars, visited>>

CloseAllNext(c) ==
  /\ At(CloseAll, "close")
  /\ c \in snapshot \ visited
  /\ visited' = visited \cup {c}
  /\ call' = [call EXCEPT ![CloseAll] = c]
  /\ UNCHANGED <<conns, device, socketVars, queue, pc, sendVars, snapshot>>

CloseAllEnd ==
  /\ At(CloseAll, "close")
  /\ visited = snapshot
  /\ pc' = [pc EXCEPT ![CloseAll] = "done"]
  /\ call' = [call EXCEPT ![CloseAll] = None]
  /\ UNCHANGED <<conns, device, socketVars, queue, sendVars, shutdownVars>>

----------------------------------------------------------------------------
(* Conn.close                                                              *)

\* close(c.closed), by the first caller; later callers wait.
CloseMark(c) ==
  /\ \E t \in Threads : call[t] = c
  /\ once[c] = "open"
  /\ once' = [once EXCEPT ![c] = "marked"]
  /\ UNCHANGED <<conns, device, sock, queue, pc, call, sendVars, shutdownVars>>

\* Fault: the socket is left open, so that a blocked read stays blocked.
CloseSocketNot(c) ==
  /\ once[c] = "marked"
  /\ once' = [once EXCEPT ![c] = "shut"]
  /\ UNCHANGED <<conns, device, sock, queue, pc, call, sendVars, shutdownVars>>

\* c.ws.Close()
CloseSocket(c) ==
  /\ once[c] = "marked"
  /\ once' = [once EXCEPT ![c] = "shut"]
  /\ sock' = [sock EXCEPT ![c] = "shut"]
  /\ UNCHANGED <<conns, device, queue, pc, call, sendVars, shutdownVars>>

\* Faults: remove deletes nothing; remove deletes whatever the device has.
UnregisterNever(c) == conns
UnregisterAny(c) == [conns EXCEPT ![device[c]] = None]

\* Hub.remove, which deletes the entry only when it holds c.
Unregister(c) ==
  IF conns[device[c]] = c THEN [conns EXCEPT ![device[c]] = None] ELSE conns

CloseRemove(c) ==
  /\ once[c] = "shut"
  /\ once' = [once EXCEPT ![c] = "removed"]
  /\ conns' = Unregister(c)
  /\ UNCHANGED <<device, sock, queue, pc, call, sendVars, shutdownVars>>

----------------------------------------------------------------------------

\* The peer disappears or the network fails.  No statement looks at the socket
\* before readPump, so an earlier loss is the same as one at that point.
SocketLost(c) ==
  /\ pc[Serve(c)] = "read"
  /\ sock[c] = "up"
  /\ sock' = [sock EXCEPT ![c] = "lost"]
  /\ UNCHANGED <<conns, device, once, queue, pc, call, sendVars, shutdownVars>>

\* Every thread has run to its end.
Finished ==
  /\ \A c \in Conns : HandlerEnded(c) /\ PumpEnded(c)
  /\ \A s \in Senders : pc[Send(s)] = "done"
  /\ pc[CloseAll] = "done"
  /\ UNCHANGED hubVars

ServeStep(c) ==
  Add(c) \/ StartPumps(c) \/ ReadError(c)
SendStep(s) ==
  EnqueueClosed(s) \/ EnqueueQueued(s) \/ EnqueueFull(s) \/ SendEnd(s)
\* What the pump does without a failure of the network.
PumpRun(c) == PumpWrite(c) \/ PumpClosed(c)
CloseAllStep == CloseAllEnd \/ \E c \in Conns : CloseAllNext(c)
CloseBody(c) == CloseMark(c) \/ CloseSocket(c) \/ CloseRemove(c)

Next ==
  \/ \E c \in Conns :
       \/ \E d \in Devices : Accept(c, d)
       \/ SocketLost(c)
       \/ ServeStep(c)
       \/ PumpRun(c) \/ PumpFail(c)
       \/ CloseBody(c)
  \/ \E s \in Senders : SendStep(s) \/ \E d \in Devices : Lookup(s, d)
  \/ CloseAllCopy
  \/ CloseAllStep
  \/ Finished

Spec == Init /\ [][Next]_hubVars

\* The Go scheduler runs every goroutine that can run.  Nothing makes an agent
\* connect, a socket or a write fail, a caller send or the server shut down.
Fairness ==
  /\ \A c \in Conns :
       /\ WF_hubVars(ServeStep(c))
       /\ WF_hubVars(PumpRun(c))
       /\ WF_hubVars(CloseBody(c))
  /\ \A s \in Senders : WF_hubVars(SendStep(s))
  /\ WF_hubVars(CloseAllStep)

FairSpec == Spec /\ Fairness

----------------------------------------------------------------------------
(* Properties                                                              *)

TypeOK ==
  /\ conns \in [Devices -> Conns \cup {None}]
  /\ device \in [Conns -> Devices \cup {None}]
  /\ sock \in [Conns -> {"up", "lost", "shut"}]
  /\ once \in [Conns -> {"open", "marked", "shut", "removed"}]
  /\ queue \in [Conns -> Seq(Senders)]
  /\ \A c \in Conns : Len(queue[c]) <= SendBuffer
  /\ pc \in [Threads -> {"idle", "add", "adding", "read", "select", "enqueue",
                         "close", "leave", "done"}]
  /\ call \in [Threads -> Conns \cup {None}]
  /\ target \in [Senders -> Conns \cup {None}]
  /\ result \in [Senders -> {"none", "offline", "refused", "sent"}]
  /\ snapshot \in SUBSET Conns
  /\ visited \in SUBSET Conns

\* "Hanya ada satu koneksi aktif per device" (hub.go:31): a connection that was
\* added and is still open is the registered one of its device, or the handler
\* that replaced it is about to close it.  No connection lives on outside the
\* registry, where neither Send nor CloseAll would reach it.
NoOrphan ==
  \A c \in Conns :
    Added(c) /\ ~Closed(c) =>
      \/ conns[device[c]] = c
      \/ \E n \in Conns : call[Serve(n)] = c /\ device[n] = device[c]

\* The registry holds no dead connection (one whose close() has run, whoever ran
\* it and whenever the connection was added) and no mute one (one whose pump has
\* stopped while the connection is open): IsOnline would be wrong for good.
NoGhost ==
  \A d \in Devices :
    conns[d] # None =>
      /\ once[conns[d]] # "removed"
      /\ PumpEnded(conns[d]) => Closed(conns[d])

\* "Bila antrean penuh [...] koneksi diputus dan mengembalikan false"
\* (conn.go:50): a message is refused only by a connection that is cut, so a
\* caller told that the agent is offline is not told so of a live connection.
RefusedMeansCut ==
  \A s \in Senders : result[s] = "refused" => Closed(target[s])

\* CloseAll has returned only when every connection that was registered when it
\* started is closed and out of the registry, also those that another goroutine
\* was closing at the time (sync.Once makes the second caller wait).
CloseAllComplete ==
  pc[CloseAll] = "done" => \A c \in snapshot : once[c] = "removed"

\* The registry is the map that AgentRegistry describes: in particular the late
\* close of a replaced connection never takes the new one out of the map.
Registry == INSTANCE AgentRegistry WITH
  current <- conns,
  seen <- {c \in Conns : Added(c)},
  ended <- {c \in Conns : Closed(c)}

ImplementsRegistry == Registry!Spec

\* A connection that has begun to close, for whatever reason, is released: its
\* handler, which may be blocked in a read, ends.
ClosedIsReleased ==
  \A c \in Conns : Closed(c) ~> HandlerEnded(c)

\* A message accepted by a connection leaves the queue or the connection is cut:
\* a connection does not stay registered with a pump that no longer sends.
AcceptedIsSentOrCut ==
  \A c \in Conns : queue[c] # <<>> ~> queue[c] = <<>> \/ Closed(c)

\* "Bila [...] koneksi sudah ditutup, [...] mengembalikan false" (conn.go:50-51):
\* a Send that reaches a closed connection does not report success.
ClosedRefuses ==
  [][\A s \in Senders :
       pc[Send(s)] = "enqueue" /\ Closed(target[s]) => result'[s] # "sent"]_hubVars
============================================================================
