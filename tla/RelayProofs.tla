---------------------------- MODULE RelayProofs ----------------------------
(***************************************************************************)
(* Proofs about OperatorRelay: the types, that nothing is ever sent on a   *)
(* closed subscription, that a stream nobody watches is on its way to its  *)
(* end, and that of the two goroutines of an operator neither can wait for *)
(* the other in vain (that both do end, under fairness, TLC checks).       *)
(***************************************************************************)
EXTENDS OperatorRelay, TLAPS

\* A subscription is closed only by the teardown of its operator, who has then
\* nothing left to do with the broker.
ClosedIsLeaving == \A v \in closed : pc[v] \in {"wait", "done"}

\* The writer runs from the first command to the end of the teardown, the socket is
\* open from the upgrade to the end of the writer.
HandlerAndWriter ==
  \A v \in Operators :
    /\ pc[v] \in {"idle", "subscribe", "start"} => writer[v] = "idle"
    /\ pc[v] \in {"read", "unsubscribe", "wait"} => writer[v] # "idle"
    /\ pc[v] = "wait" => v \in closed
    /\ pc[v] = "done" => writer[v] \in {"idle", "done"}
    /\ v \in open => pc[v] \notin {"idle", "done"} /\ writer[v] # "done"

\* Whoever waits for the other is woken: of a handler that waits for its writer the
\* channel is closed and nothing fills it any more, and of a handler that still reads
\* when its writer has ended the socket is closed.  A handler that has returned leaves
\* neither a goroutine nor a socket nor a subscription (operator.go:44-74).
NeitherWaits ==
  \A v \in Operators :
    /\ pc[v] = "wait" /\ writer[v] # "done" => v \in closed \ subs
    /\ pc[v] = "read" /\ writer[v] = "done" => v \notin open
    /\ pc[v] = "done" => writer[v] \in {"idle", "done"} /\ v \notin open \cup subs

\* The hub has the connection of a session only after it was added, and before that
\* no command can reach the session.
LinkInv ==
  /\ session = "none" <=> link = "none"
  /\ entry = "session" => link \in {"added", "closed"}
  /\ link \in {"none", "accepted"} => commands = <<>> /\ ~streaming

RelayInv ==
  /\ RelayTypeOK /\ NoSendOnClosed /\ ClosedIsLeaving /\ HandlerAndWriter
  /\ LinkInv /\ StreamIsWatched

----------------------------------------------------------------------------

\* When nothing is on its way, the bound on commands is kept.
LEMMA NoCommands == <<>> \in Seq({"start", "stop"}) /\ Len(<<>>) <= MaxCommands
<1>1. <<>> \in Seq({"start", "stop"}) /\ Len(<<>>) = 0
  OBVIOUS
<1> QED
  BY <1>1, RelayAssumption

\* Before the first operator comes, the broker is empty and nothing streams.
LEMMA InitRelayInv == Init => RelayInv
<1> SUFFICES ASSUME Init PROVE RelayInv
  OBVIOUS
<1>1. commands \in Seq({"start", "stop"}) /\ Len(commands) <= MaxCommands
  BY NoCommands DEF Init
<1>2. 0 \in 0 .. Buffer
  BY RelayAssumption
<1>3. frames \in [Operators -> 0 .. Buffer]
  BY <1>2 DEF Init
<1>4. /\ pc \in [Operators -> {"idle", "subscribe", "start", "read", "unsubscribe",
                              "wait", "done"}]
      /\ writer \in [Operators -> {"idle", "run", "stop", "done"}]
  BY DEF Init
<1>5. RelayTypeOK
  BY <1>1, <1>3, <1>4 DEF Init, RelayTypeOK
<1> QED
  BY <1>5 DEF Init, RelayInv, NoSendOnClosed, ClosedIsLeaving, HandlerAndWriter, LinkInv,
              StreamIsWatched, WillStream

\* Telling the agent something appends a command to a connection that is whole, and
\* changes nothing otherwise (Hub.Notify).
LEMMA NotifySound ==
  ASSUME RelayInv, Room, NEW command \in {"start", "stop"}, Notify(command)
  PROVE  /\ UNCHANGED <<session, link, entry, late, streaming, sent>>
         /\ commands' \in Seq({"start", "stop"})
         /\ Len(commands') <= MaxCommands
         /\ Connected => (WillStream' <=> command = "start")
         /\ ~Connected => commands' = commands
<1>1. commands \in Seq({"start", "stop"}) /\ Len(commands) \in Nat
  BY DEF RelayInv, RelayTypeOK
<1>2. CASE Connected
  <2>1. commands' = Append(commands, command)
    BY <1>2 DEF Notify
  <2>2. /\ commands' \in Seq({"start", "stop"})
        /\ Len(commands') = Len(commands) + 1
        /\ commands'[Len(commands')] = command
    BY <1>1, <2>1
  <2>3. commands' # <<>>
    BY <1>1, <2>2
  <2> QED
    BY <1>1, <1>2, <2>2, <2>3, RelayAssumption DEF Notify, Room, hubVars, WillStream
<1>3. CASE ~Connected
  BY <1>1, <1>3 DEF Notify, hubVars, RelayInv, RelayTypeOK
<1> QED
  BY <1>2, <1>3

\* Whoever watches goes on to do so, or tells the agent to stop.
LEMMA StillWatched ==
  ASSUME RelayInv, NEW v \in Operators, NEW l, Goto(v, l),
         pc[v] \in {"read", "unsubscribe", "wait"} => l \in {"read", "unsubscribe", "wait"}
  PROVE  Watched => Watched'
  BY DEF RelayInv, RelayTypeOK, Goto, Watched

\* The steps of the handler of an operator, who comes, watches and leaves.
LEMMA HandlerKeeps ==
  ASSUME RelayInv, NEW v \in Operators, Admit(v) \/ Refuse(v) \/ Handler(v)
  PROVE  RelayInv'
<1> USE DEF RelayInv, RelayTypeOK, NoSendOnClosed, ClosedIsLeaving, HandlerAndWriter
<1>1. CASE Admit(v) \/ Refuse(v) \/ Subscribe(v) \/ ReadError(v) \/ Unsubscribe(v)
  <2>1. UNCHANGED <<session, link, entry, late, commands, streaming, sent>>
    BY <1>1 DEF Admit, Refuse, Subscribe, ReadError, Unsubscribe, agentVars, hubVars
  <2>2. Watched => Watched'
    BY <1>1, StillWatched DEF Admit, Refuse, Subscribe, ReadError, Unsubscribe
  <2>3. LinkInv' /\ StreamIsWatched'
    BY <2>1, <2>2 DEF LinkInv, StreamIsWatched, WillStream, Replaced
  <2>4. CASE Admit(v)
    BY <2>1, <2>3, <2>4 DEF Admit, Goto, brokerVars
  <2>5. CASE Refuse(v)
    BY <2>1, <2>3, <2>5 DEF Refuse, Goto, brokerVars
  <2>6. CASE Subscribe(v)
    BY <2>1, <2>3, <2>6 DEF Subscribe, Goto
  <2>7. CASE ReadError(v)
    BY <2>1, <2>3, <2>7 DEF ReadError, Goto, brokerVars
  <2>8. CASE Unsubscribe(v)
    BY <2>1, <2>3, <2>8 DEF Unsubscribe, Goto
  <2> QED
    BY <1>1, <2>4, <2>5, <2>6, <2>7, <2>8
<1>2. CASE Start(v)
  <2>1. /\ UNCHANGED <<session, link, entry, late, streaming, sent>>
        /\ commands' \in Seq({"start", "stop"}) /\ Len(commands') <= MaxCommands
        /\ ~Connected => commands' = commands
    BY <1>2, NotifySound DEF Start
  <2>2. Watched'
    BY <1>2 DEF Start, Goto, Watched
  <2>3. LinkInv' /\ StreamIsWatched'
    BY <2>1, <2>2 DEF LinkInv, StreamIsWatched, Connected
  <2> QED
    BY <1>2, <2>1, <2>3 DEF Start, Goto, brokerVars
<1>3. CASE Stop(v)
  <2>1. /\ UNCHANGED <<session, link, entry, late, streaming, sent>>
        /\ commands' \in Seq({"start", "stop"}) /\ Len(commands') <= MaxCommands
        /\ Connected => ~WillStream'
        /\ ~Connected => commands' = commands
    BY <1>3, NotifySound DEF Stop
  <2>2. LinkInv'
    BY <2>1 DEF LinkInv, Connected
  <2>3. StreamIsWatched'
    BY <2>1 DEF LinkInv, StreamIsWatched, WillStream, Connected, Replaced
  <2> QED
    BY <1>3, <2>1, <2>2, <2>3 DEF Stop, Goto, brokerVars
<1> QED
  BY <1>1, <1>2, <1>3 DEF Handler

\* The writer and the browser of an operator, and the frames.
LEMMA FramesKeep ==
  ASSUME RelayInv,
         \/ \E v \in Operators : Writer(v) \/ WriteError(v) \/ BrowserGone(v)
         \/ SendFrame \/ Publish
  PROVE  RelayInv'
<1> USE RelayAssumption
    DEF RelayInv, RelayTypeOK, NoSendOnClosed, ClosedIsLeaving, HandlerAndWriter
<1>1. UNCHANGED <<pc, session, link, entry, late, commands, streaming>> /\ sent' \in BOOLEAN
  BY DEF Writer, WriteFrame, Drained, WriterEnd, WriteError, BrowserGone, SendFrame, Publish,
         agentVars, hubVars
<1>2. LinkInv' /\ StreamIsWatched'
  BY <1>1 DEF LinkInv, StreamIsWatched, WillStream, Watched, Replaced
<1>3. ASSUME NEW v \in Operators, Writer(v) \/ WriteError(v)
      PROVE  RelayInv'
  <2>1. frames' \in [Operators -> 0 .. Buffer]
    BY <1>3 DEF Writer, WriteFrame, Drained, WriterEnd, WriteError, brokerVars
  <2>2. writer' \in [Operators -> {"idle", "run", "stop", "done"}]
    BY <1>3 DEF Writer, WriteFrame, Drained, WriterEnd, WriteError
  <2> QED
    BY <1>1, <1>2, <1>3, <2>1, <2>2
    DEF Writer, WriteFrame, Drained, WriterEnd, WriteError, brokerVars
<1>4. ASSUME NEW v \in Operators, BrowserGone(v)
      PROVE  RelayInv'
  BY <1>1, <1>2, <1>4 DEF BrowserGone, brokerVars
<1>5. CASE SendFrame
  BY <1>1, <1>2, <1>5 DEF SendFrame, brokerVars
<1>6. CASE Publish
  BY <1>1, <1>2, <1>6 DEF Publish
<1> QED
  BY <1>3, <1>4, <1>5, <1>6

\* Obeying a command leaves what the agent will do at the end, and less to obey.
LEMMA ObeyKeepsWill ==
  ASSUME RelayInv, Obey
  PROVE  /\ commands' \in Seq({"start", "stop"}) /\ Len(commands') <= MaxCommands
         /\ streaming' \in BOOLEAN
         /\ WillStream' <=> WillStream
<1>1. /\ commands \in Seq({"start", "stop"}) /\ commands # <<>>
      /\ Len(commands) \in Nat \ {0} /\ Len(commands) <= MaxCommands
      /\ commands' = Tail(commands)
  BY DEF RelayInv, RelayTypeOK, Obey
<1>0. streaming' = (Head(commands) = "start")
  BY DEF Obey
<1>2. /\ Tail(commands) \in Seq({"start", "stop"})
      /\ Len(Tail(commands)) = Len(commands) - 1
      /\ \A i \in 1 .. Len(commands) - 1 : Tail(commands)[i] = commands[i + 1]
      /\ Head(commands) = commands[1]
  BY <1>1
<1>3. ASSUME Len(commands) = 1 PROVE WillStream' <=> WillStream
  <2>1. commands' = <<>> /\ commands[Len(commands)] = Head(commands)
    BY <1>1, <1>2, <1>3
  <2>2. WillStream <=> Head(commands) = "start"
    BY <1>1, <2>1, Zenon DEF WillStream
  <2>3. WillStream' <=> streaming'
    BY <2>1, Zenon DEF WillStream
  <2> QED
    BY <1>0, <2>2, <2>3, Zenon
<1>4. ASSUME Len(commands) > 1 PROVE WillStream' <=> WillStream
  <2>1. /\ commands' # <<>>
        /\ Len(commands') = Len(commands) - 1
        /\ commands'[Len(commands) - 1] = commands[Len(commands)]
    BY <1>1, <1>2, <1>4
  <2>2. WillStream <=> commands[Len(commands)] = "start"
    BY <1>1, Zenon DEF WillStream
  <2>3. WillStream' <=> commands'[Len(commands')] = "start"
    BY <2>1, Zenon DEF WillStream
  <2> QED
    BY <2>1, <2>2, <2>3, Zenon
<1>5. commands' \in Seq({"start", "stop"}) /\ Len(commands') <= MaxCommands
  BY <1>1, <1>2, RelayAssumption
<1>6. streaming' \in BOOLEAN
  BY <1>0, Zenon
<1>7. Len(commands) = 1 \/ Len(commands) > 1
  <2>1. \A n \in Nat \ {0} : n = 1 \/ n > 1
    OBVIOUS
  <2> QED
    BY <1>1, <2>1
<1> QED
  BY <1>3, <1>4, <1>5, <1>6, <1>7, Zenon

\* A part of what was on its way is well-formed.
LEMMA PrefixTyped ==
  ASSUME commands \in Seq({"start", "stop"}), Len(commands) <= MaxCommands,
         NEW n \in 0 .. Len(commands)
  PROVE  SubSeq(commands, 1, n) \in Seq({"start", "stop"})
         /\ Len(SubSeq(commands, 1, n)) <= MaxCommands
<1>1. /\ \A i \in 1 .. n : commands[i] \in {"start", "stop"}
      /\ Len(SubSeq(commands, 1, n)) = n
  OBVIOUS
<1>2. SubSeq(commands, 1, n) \in Seq({"start", "stop"})
  BY <1>1
<1> QED
  BY <1>1, <1>2, RelayAssumption

\* The agent's session and the server's view of its connection.
LEMMA AgentKeeps ==
  ASSUME RelayInv,
         \/ Obey \/ AgentConnects \/ SessionFails \/ StreamEnds \/ AgentLeaves
         \/ Add \/ CloseSocket \/ Remove
  PROVE  RelayInv'
<1> USE DEF RelayInv
<1>1. UNCHANGED <<pc, writer, browser, open, subs, closed, frames, sent>>
  BY DEF Obey, AgentConnects, SessionFails, StreamEnds, AgentLeaves, Add, CloseSocket, Remove,
         HubUnchanged, brokerVars
<1>2. NoSendOnClosed' /\ ClosedIsLeaving' /\ HandlerAndWriter' /\ (Watched => Watched')
  BY <1>1 DEF NoSendOnClosed, ClosedIsLeaving, HandlerAndWriter, Watched
<1>3. CASE Obey
  BY <1>1, <1>2, <1>3, ObeyKeepsWill
     DEF Obey, hubVars, RelayTypeOK, LinkInv, StreamIsWatched, Replaced
<1>4. CASE AgentConnects
  BY <1>1, <1>2, <1>4
     DEF AgentConnects, RelayTypeOK, LinkInv, StreamIsWatched, WillStream, Replaced
<1>5. CASE SessionFails
  BY <1>1, <1>2, <1>5
     DEF SessionFails, hubVars, RelayTypeOK, LinkInv, StreamIsWatched, WillStream, Replaced
<1>6. CASE StreamEnds
  BY <1>1, <1>2, <1>6
     DEF StreamEnds, hubVars, RelayTypeOK, LinkInv, StreamIsWatched, WillStream, Replaced
<1>7. CASE AgentLeaves
  BY <1>1, <1>2, <1>7, NoCommands
     DEF AgentLeaves, RelayTypeOK, LinkInv, StreamIsWatched, WillStream
<1>8. CASE Add
  BY <1>1, <1>2, <1>8
     DEF Add, HubUnchanged, RelayTypeOK, LinkInv, StreamIsWatched, WillStream, Replaced
<1>9. CASE CloseSocket
  <2>1. commands' \in Seq({"start", "stop"}) /\ Len(commands') <= MaxCommands
    BY <1>9, PrefixTyped DEF CloseSocket, RelayTypeOK
  <2> QED
    BY <1>1, <1>2, <1>9, <2>1
       DEF CloseSocket, HubUnchanged, RelayTypeOK, LinkInv, StreamIsWatched
<1>10. CASE Remove
  BY <1>1, <1>2, <1>10
     DEF Remove, HubUnchanged, RelayTypeOK, LinkInv, StreamIsWatched, WillStream, Replaced
<1> QED
  BY <1>3, <1>4, <1>5, <1>6, <1>7, <1>8, <1>9, <1>10

\* Every step of an operator, the agent or the hub keeps the invariant.
LEMMA NextRelayInv == RelayInv /\ [Next]_relayVars => RelayInv'
<1> SUFFICES ASSUME RelayInv, [Next]_relayVars
             PROVE  RelayInv'
  OBVIOUS
<1>1. CASE Finished \/ UNCHANGED relayVars
  BY <1>1 DEF Finished, relayVars, brokerVars, agentVars, hubVars, RelayInv, RelayTypeOK,
              NoSendOnClosed, ClosedIsLeaving, HandlerAndWriter, LinkInv, StreamIsWatched,
              WillStream, Watched, Replaced
<1> QED
  BY <1>1, HandlerKeeps, FramesKeep, AgentKeeps DEF Next

----------------------------------------------------------------------------

\* The invariant holds in every state of every execution.
THEOREM RelayInvariant == Spec => []RelayInv
  BY InitRelayInv, NextRelayInv, PTL DEF Spec

\* The relay's variables keep their types, and no subscription holds more frames
\* than its channel has room for.
THEOREM RelayTypeCorrect == Spec => []RelayTypeOK
<1>1. RelayInv => RelayTypeOK
  BY DEF RelayInv
<1> QED
  BY <1>1, RelayInvariant, PTL

\* Publish never meets a closed channel (broker.go:40-41 and 56-58).
THEOREM RelayNoSendOnClosed == Spec => []NoSendOnClosed
<1>1. RelayInv => NoSendOnClosed
  BY DEF RelayInv
<1> QED
  BY <1>1, RelayInvariant, PTL

\* A stream that nobody watches any more has a stop as its last command, or is one of
\* a session whose connection the hub has closed or replaced: starts and stops of any
\* number of operators, losses on either side and new sessions leave none running on
\* (operator.go:37-38 and 67-73, hub.go:33-50).
THEOREM RelayStreamIsWatched == Spec => []StreamIsWatched
<1>1. RelayInv => StreamIsWatched
  BY DEF RelayInv
<1> QED
  BY <1>1, RelayInvariant, PTL

\* The handler and the writer of an operator end each other, whichever fails first
\* (operator.go:44-74).
THEOREM RelayNeitherWaits == Spec => []NeitherWaits
<1>1. RelayInv => NeitherWaits
  BY DEF RelayInv, NoSendOnClosed, ClosedIsLeaving, HandlerAndWriter, NeitherWaits
<1> QED
  BY <1>1, RelayInvariant, PTL
============================================================================
