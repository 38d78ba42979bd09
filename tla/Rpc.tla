-------------------------------- MODULE Rpc --------------------------------
(***************************************************************************)
(* Request and response over the hub: server/ws/rpc.go, the part of        *)
(* server/ws/handler.go that hands responses to it, and the agent's side   *)
(* of an exchange (agent/dispatch.go).                                     *)
(*                                                                         *)
(* The module composes the hub with a request table: a sender of Hub is a  *)
(* call of Hub.Request, its UUID is the sender itself, and the message it  *)
(* enqueues is the command.  Responses are read by the same goroutine      *)
(* Serve(c) that Hub models, so a reader that blocked while delivering a   *)
(* response would also never notice that its connection is gone.           *)
(*                                                                         *)
(* The server does not shut down here: CloseAll is not part of Next.       *)
(***************************************************************************)
EXTENDS Hub

VARIABLES
  rq,         \* where a call of Request is
  pending,    \* pendingRegistry.byID: the requests that have an entry
  chan,       \* the reply channel of each request
  outcome,    \* what Request returns
  inbox,      \* inbox[c]: commands written to c, on the wire or at the agent
  executed,   \* the commands an agent has executed
  answers,    \* answers[c]: responses the agent has sent over c, not read yet
  hold        \* hold[c]: the response that Serve(c) took an entry for and has
              \* not put into its channel yet; a set of at most one

rpcVars == <<rq, pending, chan, outcome, inbox, executed, answers, hold>>
vars == <<hubVars, rpcVars>>

Answers == Senders \X {"response", "error"}

\* Fault: an unbuffered reply channel.
ReplyUnbuffered == 0

\* The capacity of a reply channel.
ReplyBuffer == 1

RpcInit ==
  /\ Init
  /\ rq = [r \in Senders |-> "idle"]
  /\ pending = {}
  /\ chan = [r \in Senders |-> <<>>]
  /\ outcome = [r \in Senders |-> "none"]
  /\ inbox = [c \in Conns |-> {}]
  /\ executed = {}
  /\ answers = [c \in Conns |-> {}]
  /\ hold = [c \in Conns |-> {}]

----------------------------------------------------------------------------
(* Request                                                                 *)

\* The entry is added before the command is sent: a response cannot be earlier.
AddPending(r) ==
  /\ rq[r] = "idle"
  /\ rq' = [rq EXCEPT ![r] = "sending"]
  /\ pending' = pending \cup {r}
  /\ UNCHANGED <<hubVars, chan, outcome, inbox, executed, answers, hold>>

SendCommand(r) ==
  /\ rq[r] = "sending"
  /\ SendStep(r) \/ \E d \in Devices : Lookup(r, d)
  /\ UNCHANGED rpcVars

\* Send returned true: Request is in its select.
Waiting(r) == rq[r] = "sending" /\ result[r] = "sent"

\* Send returned false: ErrAgentOffline.
NotSent(r) ==
  /\ rq[r] = "sending"
  /\ result[r] \in {"offline", "refused"}
  /\ rq' = [rq EXCEPT ![r] = "return"]
  /\ outcome' = [outcome EXCEPT ![r] = "offline"]
  /\ UNCHANGED <<hubVars, pending, chan, inbox, executed, answers, hold>>

\* Faults: a timeout is reported as an agent that is not connected; no timeout.
TimeoutAsOffline(r) ==
  /\ Waiting(r)
  /\ rq' = [rq EXCEPT ![r] = "return"]
  /\ outcome' = [outcome EXCEPT ![r] = "offline"]
  /\ UNCHANGED <<hubVars, pending, chan, inbox, executed, answers, hold>>
TimeoutMissing(r) == FALSE

\* ctx.Done: the command timeout, or the browser is gone.
Timeout(r) ==
  /\ Waiting(r)
  /\ rq' = [rq EXCEPT ![r] = "return"]
  /\ outcome' = [outcome EXCEPT ![r] = "timeout"]
  /\ UNCHANGED <<hubVars, pending, chan, inbox, executed, answers, hold>>

TakeReply(r) ==
  /\ Waiting(r)
  /\ chan[r] # <<>>
  /\ rq' = [rq EXCEPT ![r] = "return"]
  /\ outcome' = [outcome EXCEPT ![r] = Head(chan[r])]
  /\ chan' = [chan EXCEPT ![r] = Tail(@)]
  /\ UNCHANGED <<hubVars, pending, inbox, executed, answers, hold>>

\* Fault: no deferred remove.
RemoveForgotten(r) ==
  /\ rq[r] = "return"
  /\ rq' = [rq EXCEPT ![r] = "done"]
  /\ UNCHANGED <<hubVars, pending, chan, outcome, inbox, executed, answers, hold>>

\* The deferred remove.
RemovePending(r) ==
  /\ rq[r] = "return"
  /\ rq' = [rq EXCEPT ![r] = "done"]
  /\ pending' = pending \ {r}
  /\ UNCHANGED <<hubVars, chan, outcome, inbox, executed, answers, hold>>

----------------------------------------------------------------------------
(* The agent                                                               *)

\* The pump writes a command.  If the peer is gone the command is lost.
Transmit(c) ==
  /\ PumpWrite(c)
  /\ inbox' = IF sock[c] = "up"
              THEN [inbox EXCEPT ![c] = @ \cup {Head(queue[c])}]
              ELSE inbox
  /\ UNCHANGED <<rq, pending, chan, outcome, executed, answers, hold>>

\* Every command runs in a goroutine of its own, so they finish in any order
\* and can outlive the connection.
AgentRespond(c, a) ==
  /\ a[1] \in inbox[c]
  /\ inbox' = [inbox EXCEPT ![c] = @ \ {a[1]}]
  /\ executed' = executed \cup {a[1]}
  /\ answers' = [answers EXCEPT ![c] = @ \cup {a}]
  /\ UNCHANGED <<hubVars, rq, pending, chan, outcome, hold>>

----------------------------------------------------------------------------
(* Serve(c) reads a response: handleMessage and pendingRegistry.deliver    *)

\* Under pending.mu: the entry is looked up and deleted.  Without an entry the
\* response is dropped.  What the reader had received before the socket was
\* shut can still be read after it.
Claim(c, a) ==
  /\ At(Serve(c), "read")
  /\ hold[c] = {}
  /\ a \in answers[c]
  /\ answers' = [answers EXCEPT ![c] = @ \ {a}]
  /\ IF a[1] \in pending
     THEN hold' = [hold EXCEPT ![c] = {a}] /\ pending' = pending \ {a[1]}
     ELSE UNCHANGED <<hold, pending>>
  /\ UNCHANGED <<hubVars, rq, chan, outcome, inbox, executed>>

\* Outside the lock: ch <- env, which blocks while the channel is full.
Deliver(c, a) ==
  /\ a \in hold[c]
  /\ Len(chan[a[1]]) < ReplyBuffer
  /\ chan' = [chan EXCEPT ![a[1]] = Append(@, a[2])]
  /\ hold' = [hold EXCEPT ![c] = {}]
  /\ UNCHANGED <<hubVars, rq, pending, outcome, inbox, executed, answers>>

----------------------------------------------------------------------------

\* Serve(c) goes on with its own steps when it is not delivering.
ServeRun(c) == hold[c] = {} /\ ServeStep(c) /\ UNCHANGED rpcVars
PumpRest(c) == PumpClosed(c) /\ UNCHANGED rpcVars
Close(c) == CloseBody(c) /\ UNCHANGED rpcVars

Connect(c) == (\E d \in Devices : Accept(c, d)) /\ UNCHANGED rpcVars
Fail(c) == (SocketLost(c) \/ PumpFail(c)) /\ UNCHANGED rpcVars

RequestStep(r) ==
  SendCommand(r) \/ NotSent(r) \/ Timeout(r) \/ TakeReply(r)
  \/ RemovePending(r)

\* Every request has returned and every connection is gone.
RpcFinished ==
  /\ \A r \in Senders : rq[r] \in {"idle", "done"}
  /\ \A c \in Conns : device[c] = None \/ (HandlerEnded(c) /\ PumpEnded(c))
  /\ UNCHANGED vars

RpcNext ==
  \/ \E c \in Conns :
       \/ Connect(c) \/ Fail(c) \/ ServeRun(c) \/ PumpRest(c) \/ Close(c)
       \/ Transmit(c)
       \/ \E a \in Answers : AgentRespond(c, a) \/ Claim(c, a) \/ Deliver(c, a)
  \/ \E r \in Senders : AddPending(r) \/ RequestStep(r)
  \/ RpcFinished

RpcSpec == RpcInit /\ [][RpcNext]_vars

\* The Go scheduler runs every goroutine that can run, and a context with a
\* timeout ends.  Agents need not connect or answer, nor failures happen.
RpcFairness ==
  /\ \A c \in Conns :
       /\ WF_vars(ServeRun(c))
       /\ WF_vars(PumpRest(c) \/ Transmit(c))
       /\ WF_vars(Close(c))
       /\ WF_vars(\E a \in Answers : Deliver(c, a))
  /\ \A r \in Senders : WF_vars(RequestStep(r))

RpcFairSpec == RpcSpec /\ RpcFairness

----------------------------------------------------------------------------
(* Properties                                                              *)

RpcTypeOK ==
  /\ TypeOK
  /\ rq \in [Senders -> {"idle", "sending", "return", "done"}]
  /\ pending \in SUBSET Senders
  /\ chan \in [Senders -> Seq({"response", "error"})]
  /\ outcome \in [Senders -> {"none", "offline", "timeout", "response", "error"}]
  /\ inbox \in [Conns -> SUBSET Senders]
  /\ executed \in SUBSET Senders
  /\ answers \in [Conns -> SUBSET Answers]
  /\ hold \in [Conns -> SUBSET Answers]

\* The table has entries only for calls of Request that have not returned, and
\* a call that still waits has an entry, a response being delivered to it or a
\* response in its channel: no entry outlives its call, none is lost.
PendingExact ==
  \A r \in Senders :
    /\ r \in pending => rq[r] \in {"sending", "return"}
    /\ rq[r] = "sending" =>
         \/ r \in pending
         \/ chan[r] # <<>>
         \/ \E c \in Conns, k \in {"response", "error"} : <<r, k>> \in hold[c]

\* "ch <- env" (rpc.go:51) finds room, also when the caller has timed out and
\* will never receive: the goroutine that reads from an agent does not block,
\* and two responses never meet in one channel.
ReaderNeverBlocks ==
  \A c \in Conns : \A a \in hold[c] : Len(chan[a[1]]) < ReplyBuffer

\* Request is a remote call executed at most once; "agent tidak terhubung" is
\* reported only of a command that no agent has executed or will execute.
RemoteCalls == INSTANCE RemoteCall WITH
  call <- [r \in Senders |->
             IF rq[r] = "idle" THEN "new"
             ELSE IF outcome[r] = "none" THEN "open" ELSE outcome[r]]

ImplementsRemoteCall == RemoteCalls!Spec

\* Every call of Request returns, whatever the agent and the network do.
RequestReturns ==
  \A r \in Senders : rq[r] = "sending" ~> rq[r] = "done"
============================================================================
