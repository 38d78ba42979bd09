--------------------------- MODULE OperatorRelay ---------------------------
(***************************************************************************)
(* Operators who watch the stream of one device: server/ws/broker.go,      *)
(* server/ws/operator.go and, on the agent, startScreen and stopScreen of  *)
(* agent/stream.go, with the end of a session in agent/client.go.          *)
(*                                                                         *)
(* ServeOperator runs two goroutines for an operator v: the handler, which *)
(* subscribes, reads what the browser sends and takes everything down, and *)
(* the writer, which moves frames from the subscription to the browser.    *)
(* The broker's operations are one step each, being under its lock.        *)
(*                                                                         *)
(* Server and agent each have their own view of the agent's connection:    *)
(* the hub's entry can be of a connection that the agent has left, the     *)
(* agent can serve one that the hub has closed, replaced or not yet added. *)
(* Commands arrive in order, or those that were sent last are lost.        *)
(* Frames are counted, one on its way at a time, and can be lost only in   *)
(* the broker; the input that the handler forwards for the browser         *)
(* is left out.  The terminal channel works alike, but that its start is   *)
(* such forwarded input.                                                   *)
(***************************************************************************)
EXTENDS Naturals, Sequences

CONSTANTS
  Operators,   \* calls of ServeOperator for the device
  Buffer,      \* capacity of a subscription
  MaxCommands  \* bound of the model on the commands in flight

ASSUME RelayAssumption == Buffer \in Nat \ {0} /\ MaxCommands \in Nat \ {0}

VARIABLES
  pc,          \* where the handler of an operator is
  writer,      \* its writer: "idle", "run", "stop" (it has left its loop), "done"
  browser,     \* the operators whose browser is there
  open,        \* those whose socket the server has not closed
  subs,        \* Broker.subs: the operators with a subscription
  closed,      \* those whose subscription was closed
  frames,      \* frames[v]: how many frames the subscription of v holds
  session,     \* the agent's session: "none", "serve", or "ending" (its context is done)
  link,        \* the server's end of the connection of that session: "none", "accepted"
               \* (the agent has its answer), "added" (to the hub), or "closed"
  entry,       \* whose connection the hub has for the device: "none", that of the
               \* "session", or an "other", which the agent has left
  late,        \* the handler of such an other connection has not added it yet
  commands,    \* commands on their way over the connection of the session
  streaming,   \* screenLoop runs in the session
  sent         \* a frame is on its way to the broker

brokerVars == <<subs, closed, frames>>
hubVars == <<link, entry, late>>
agentVars == <<session, hubVars, commands, streaming, sent>>
relayVars == <<pc, writer, browser, open, brokerVars, agentVars>>

Init ==
  /\ pc = [v \in Operators |-> "idle"]
  /\ writer = [v \in Operators |-> "idle"]
  /\ browser = Operators
  /\ open = {}
  /\ subs = {}
  /\ closed = {}
  /\ frames = [v \in Operators |-> 0]
  /\ session = "none"
  /\ link = "none"
  /\ entry = "none"
  /\ late = FALSE
  /\ commands = <<>>
  /\ streaming = FALSE
  /\ sent = FALSE

Goto(v, l) == pc' = [pc EXCEPT ![v] = l]

\* What the hub sends to the device reaches the session.
Connected == entry = "session" /\ link = "added"

\* Hub.Notify: without an entry nothing is sent, and what is sent over another
\* connection or a closed one is lost.  (A send that finds the queue full closes the
\* connection, which CloseSocket does at any time.)
Notify(command) ==
  /\ commands' = IF Connected THEN Append(commands, command) ELSE commands
  /\ UNCHANGED <<session, hubVars, streaming, sent>>

\* The bound on commands in flight; the hub's own limit is in Hub.
Room == Len(commands) < MaxCommands

----------------------------------------------------------------------------
(* The handler of operator v                                               *)

\* IsOnline, then the upgrade of the connection.
Admit(v) ==
  /\ pc[v] = "idle"
  /\ entry # "none"
  /\ open' = open \cup {v}
  /\ Goto(v, "subscribe")
  /\ UNCHANGED <<writer, browser, brokerVars, agentVars>>

Refuse(v) ==
  /\ pc[v] = "idle"
  /\ entry = "none"
  /\ Goto(v, "done")
  /\ UNCHANGED <<writer, browser, open, brokerVars, agentVars>>

Subscribe(v) ==
  /\ pc[v] = "subscribe"
  /\ subs' = subs \cup {v}
  /\ Goto(v, "start")
  /\ UNCHANGED <<writer, browser, open, closed, frames, agentVars>>

Start(v) ==
  /\ pc[v] = "start"
  /\ Room
  /\ Notify("start")
  /\ writer' = [writer EXCEPT ![v] = "run"]
  /\ Goto(v, "read")
  /\ UNCHANGED <<browser, open, brokerVars>>

\* ReadMessage fails: the browser is gone, or the writer closed the socket.
ReadError(v) ==
  /\ pc[v] = "read"
  /\ v \notin browser \/ v \notin open
  /\ Goto(v, "unsubscribe")
  /\ UNCHANGED <<writer, browser, open, brokerVars, agentVars>>

\* Fault: the channel is closed and stays subscribed.
UnsubscribeStays(v) ==
  /\ pc[v] = "unsubscribe"
  /\ closed' = closed \cup {v}
  /\ Goto(v, "wait")
  /\ UNCHANGED <<writer, browser, open, subs, frames, agentVars>>

Unsubscribe(v) ==
  /\ pc[v] = "unsubscribe"
  /\ subs' = subs \ {v}
  /\ closed' = closed \cup {v}
  /\ Goto(v, "wait")
  /\ UNCHANGED <<writer, browser, open, frames, agentVars>>

\* Fault: the agent is not told.
StopSilent(v) ==
  /\ pc[v] = "wait"
  /\ writer[v] = "done"
  /\ Goto(v, "done")
  /\ UNCHANGED <<writer, browser, open, brokerVars, agentVars>>

\* "<-done", then the agent is told to stop the stream.
Stop(v) ==
  /\ pc[v] = "wait"
  /\ writer[v] = "done"
  /\ Room
  /\ Notify("stop")
  /\ Goto(v, "done")
  /\ UNCHANGED <<writer, browser, open, brokerVars>>

----------------------------------------------------------------------------
(* The writer of operator v                                                *)

\* A frame is taken and written; writing to a browser that has just gone can
\* still succeed.
WriteFrame(v) ==
  /\ writer[v] = "run"
  /\ frames[v] > 0
  /\ frames' = [frames EXCEPT ![v] = @ - 1]
  /\ UNCHANGED <<pc, writer, browser, open, subs, closed, agentVars>>

\* The write of a frame fails, or misses its deadline.
WriteError(v) ==
  /\ writer[v] = "run"
  /\ frames[v] > 0
  /\ frames' = [frames EXCEPT ![v] = @ - 1]
  /\ writer' = [writer EXCEPT ![v] = "stop"]
  /\ UNCHANGED <<pc, browser, open, subs, closed, agentVars>>

\* The channel is closed and empty: the range loop ends.
Drained(v) ==
  /\ writer[v] = "run"
  /\ frames[v] = 0
  /\ v \in closed
  /\ writer' = [writer EXCEPT ![v] = "stop"]
  /\ UNCHANGED <<pc, browser, open, brokerVars, agentVars>>

\* Fault: the socket is left to the handler, which is reading from it.
WriterEndKeepsSocket(v) ==
  /\ writer[v] = "stop"
  /\ writer' = [writer EXCEPT ![v] = "done"]
  /\ UNCHANGED <<pc, browser, open, brokerVars, agentVars>>

\* wsConn.Close() and close(done)
WriterEnd(v) ==
  /\ writer[v] = "stop"
  /\ writer' = [writer EXCEPT ![v] = "done"]
  /\ open' = open \ {v}
  /\ UNCHANGED <<pc, browser, brokerVars, agentVars>>

----------------------------------------------------------------------------
(* The agent and the network                                               *)

\* screenLoop captures a frame and sends it.
SendFrame ==
  /\ streaming
  /\ ~sent
  /\ sent' = TRUE
  /\ UNCHANGED <<pc, writer, browser, open, brokerVars, session, hubVars, commands,
                 streaming>>

\* The reader of a connection has the frame, perhaps after the stream was stopped or
\* the connection lost, and the broker gives it to every subscription that has room;
\* the others miss it.
Publish ==
  /\ sent
  /\ sent' = FALSE
  /\ frames' = [v \in Operators |->
                  IF v \in subs /\ frames[v] < Buffer THEN frames[v] + 1
                  ELSE frames[v]]
  /\ UNCHANGED <<pc, writer, browser, open, subs, closed, session, hubVars, commands,
                 streaming>>

\* dispatch: startScreen does nothing when the loop runs, stopScreen nothing
\* when it does not.  The reader of a session that ends can still do it.
Obey ==
  /\ commands # <<>>
  /\ streaming' = (Head(commands) = "start")
  /\ commands' = Tail(commands)
  /\ UNCHANGED <<pc, writer, browser, open, brokerVars, session, hubVars, sent>>

\* register has succeeded: the agent has its answer, the hub not yet the connection.
AgentConnects ==
  /\ session = "none"
  /\ session' = "serve"
  /\ link' = "accepted"
  /\ UNCHANGED <<pc, writer, browser, open, brokerVars, entry, late, commands, streaming,
                 sent>>

\* The context of the session is cancelled: its reader or its writer has failed.
SessionFails ==
  /\ session = "serve"
  /\ session' = "ending"
  /\ UNCHANGED <<pc, writer, browser, open, brokerVars, hubVars, commands, streaming, sent>>

\* screenLoop sees the context, or cleanup stops it.
StreamEnds ==
  /\ session = "ending"
  /\ streaming
  /\ streaming' = FALSE
  /\ UNCHANGED <<pc, writer, browser, open, brokerVars, session, hubVars, commands, sent>>

\* Fault: the stream belongs to the agent and not to the session.
AgentLeavesStreaming ==
  /\ session = "ending"
  /\ session' = "none"
  /\ link' = "none"
  /\ entry' = IF entry = "session" THEN "other" ELSE entry
  /\ late' = (late \/ link = "accepted")
  /\ commands' = <<>>
  /\ UNCHANGED <<pc, writer, browser, open, brokerVars, streaming, sent>>

\* The socket is closed and connectAndServe returns.  What was on its way is lost, and
\* what is left of screenLoop ends without sending.  The server need not know: of
\* several handlers that are late the model keeps one.
AgentLeaves ==
  /\ session = "ending"
  /\ session' = "none"
  /\ link' = "none"
  /\ entry' = IF entry = "session" THEN "other" ELSE entry
  /\ late' = (late \/ link = "accepted")
  /\ commands' = <<>>
  /\ streaming' = FALSE
  /\ UNCHANGED <<pc, writer, browser, open, brokerVars, sent>>

----------------------------------------------------------------------------
(* The hub                                                                 *)

HubUnchanged ==
  UNCHANGED <<pc, writer, browser, open, brokerVars, session, streaming, sent>>

\* Hub.add, for the connection of the session or, late, for one that the agent has
\* left; the connection that was there before is then closed.
Add ==
  /\ \/ link = "accepted" /\ link' = "added" /\ entry' = "session" /\ UNCHANGED late
     \/ late /\ late' = FALSE /\ entry' = "other" /\ UNCHANGED link
  /\ UNCHANGED commands
  /\ HubUnchanged

\* The connection of the session is no longer the one in the hub.
Replaced == link = "added" /\ entry # "session"

\* conn.close: whoever calls it closes the socket.  What the queue holds is lost,
\* what was written can still arrive.
CloseSocket ==
  /\ link = "added"
  /\ link' = "closed"
  /\ \E n \in 0 .. Len(commands) : commands' = SubSeq(commands, 1, n)
  /\ UNCHANGED <<entry, late>>
  /\ HubUnchanged

\* Hub.remove, the last step of close.
Remove ==
  /\ entry = "other" \/ (entry = "session" /\ link = "closed")
  /\ entry' = "none"
  /\ UNCHANGED <<link, late, commands>>
  /\ HubUnchanged

BrowserGone(v) ==
  /\ pc[v] \notin {"idle", "done"}
  /\ v \in browser
  /\ browser' = browser \ {v}
  /\ UNCHANGED <<pc, writer, open, brokerVars, agentVars>>

\* Every operator has left.
Finished == (\A v \in Operators : pc[v] = "done") /\ UNCHANGED relayVars

----------------------------------------------------------------------------

Handler(v) ==
  Subscribe(v) \/ Start(v) \/ ReadError(v) \/ Unsubscribe(v) \/ Stop(v)
Writer(v) == WriteFrame(v) \/ Drained(v) \/ WriterEnd(v)

Next ==
  \/ \E v \in Operators :
       \/ Admit(v) \/ Refuse(v) \/ BrowserGone(v)
       \/ Handler(v)
       \/ Writer(v) \/ WriteError(v)
  \/ SendFrame \/ Publish \/ Obey
  \/ AgentConnects \/ SessionFails \/ StreamEnds \/ AgentLeaves
  \/ Add \/ CloseSocket \/ Remove
  \/ Finished

Spec == Init /\ [][Next]_relayVars

\* The goroutines of the server run, the agent carries out the commands it receives,
\* and notices a socket that was closed.  Browsers and agents come and go as they like.
Fairness ==
  /\ \A v \in Operators : WF_relayVars(Handler(v)) /\ WF_relayVars(Writer(v))
  /\ WF_relayVars(Replaced /\ CloseSocket)
  /\ WF_relayVars(Obey)
  /\ WF_relayVars(link = "closed" /\ SessionFails)
  /\ WF_relayVars(StreamEnds)

FairSpec == Spec /\ Fairness

----------------------------------------------------------------------------
(* Properties                                                              *)

RelayTypeOK ==
  /\ pc \in [Operators -> {"idle", "subscribe", "start", "read", "unsubscribe",
                           "wait", "done"}]
  /\ writer \in [Operators -> {"idle", "run", "stop", "done"}]
  /\ browser \subseteq Operators
  /\ open \subseteq Operators
  /\ subs \subseteq Operators
  /\ closed \subseteq Operators
  /\ frames \in [Operators -> 0 .. Buffer]
  /\ session \in {"none", "serve", "ending"}
  /\ link \in {"none", "accepted", "added", "closed"}
  /\ entry \in {"none", "session", "other"}
  /\ late \in BOOLEAN
  /\ commands \in Seq({"start", "stop"})
  /\ Len(commands) <= MaxCommands
  /\ streaming \in BOOLEAN
  /\ sent \in BOOLEAN

\* Publish never sends on a closed channel, which would end the server with a
\* panic, and an operator who has left has no subscription.
NoSendOnClosed ==
  /\ subs \cap closed = {}
  /\ \A v \in subs : pc[v] \in {"start", "read", "unsubscribe"}

\* Somebody has asked for the stream and not yet for its end.
Watched == \E v \in Operators : pc[v] \in {"read", "unsubscribe", "wait"}

\* What the agent does once it has obeyed all that is on its way.
WillStream ==
  IF commands = <<>> THEN streaming ELSE commands[Len(commands)] = "start"

\* A stream that nobody watches ends: its stop is the last command on its way, or the
\* connection that could bring one is closed or replaced by the hub and the session
\* ends with it.  This holds however starts and stops of several operators, the loss
\* of the connection on either side and a new session overlap (operator.go:37-38 and
\* 67-73, hub.go:33-50, session.go:33-41).
StreamIsWatched == WillStream => Watched \/ Replaced \/ link = "closed"

\* An operator whose browser is gone, or to whom a write failed, is taken down:
\* neither goroutine waits for the other for ever.
TeardownEnds ==
  \A v \in Operators :
    (v \in open /\ v \notin browser) \/ writer[v] = "stop" ~> pc[v] = "done"

\* When the last operator has left, the agent stops to stream: no start is
\* carried out after all the stops.
StreamStops ==
  (\A v \in Operators : pc[v] = "done") ~> ~streaming

\* "Broker menyalurkan aliran data ... ke operator (browser) yang berlangganan"
\* (broker.go:5): an operator who keeps watching, and whose device stays
\* connected all the while, is not left without the stream for ever.
WatcherIsServed ==
  \A v \in Operators :
    [](pc[v] \in {"start", "read"} => session = "serve" /\ Connected) /\ <>[](pc[v] = "read")
      => []<>streaming
============================================================================
