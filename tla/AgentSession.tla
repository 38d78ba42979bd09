---------------------------- MODULE AgentSession ----------------------------
(***************************************************************************)
(* One connection of the agent, from the end of its registration until     *)
(* connectAndServe has returned: the goroutines of session.go, stream.go,  *)
(* heartbeat.go and dispatch.go, and the shells of package terminal.       *)
(*                                                                         *)
(* Goroutines: main (heartbeatLoop, then the deferred calls), reader       *)
(* (ReadJSON and dispatch), writer, one per command that is answered       *)
(* (respond), one per screen stream, and two per shell (readLoop, Wait).   *)
(* They meet in the channel send, of which the model keeps the number of   *)
(* envelopes, in the context of the session, and under the mutex mu, which *)
(* is held across a blocking call in one place only: startTerminal sends   *)
(* its error message under it.  The network is free: a read or a write can *)
(* fail at any time, and any command can come next.                        *)
(***************************************************************************)
EXTENDS Naturals, FiniteSets

CONSTANTS Streams,   \* identities of screenLoop goroutines
          Shells,    \* identities of the shells of package terminal
          Requests,  \* identities of the goroutines of respond
          SendCap,   \* capacity of send (32 in the code)
          None

ASSUME SendCapAssumption == SendCap \in Nat \ {0}
ASSUME NoneAssumption == None \notin Streams \cup Shells

VARIABLES
  main,        \* where connectAndServe is
  ctxDone,     \* the context of the session is cancelled
  reader,      \* <<what the reader does, the shell whose stdin it writes>>
  writer,      \* "run" or "gone"
  queued,      \* number of envelopes in send
  screenStop,  \* the stream that screenStop cancels, or None
  stream,      \* state of each screenLoop
  stopped,     \* streams whose own context is cancelled
  term,        \* the shell the session refers to, or None
  shell,       \* state of each shell and of its two goroutines
  request      \* state of each goroutine of respond

vars == <<main, ctxDone, reader, writer, queued, screenStop, stream, stopped,
          term, shell, request>>

streamVars == <<screenStop, stream, stopped>>
shellVars  == <<term, shell>>

Reading == <<"read", None>>

\* A shell that was never started, or of which nothing is left.  pending: an
\* output that readLoop has not taken yet; noticed: the message that the shell
\* has ended is in send; late: outputs put into send after that message.
NoShell == [proc |-> "none", pending |-> FALSE, loop |-> "gone",
            wait |-> "gone", noticed |-> FALSE, late |-> 0]

Started == [NoShell EXCEPT !.proc = "running", !.loop = "read", !.wait = "wait"]

Over(s) == shell[s].proc # "running" /\ shell[s].loop = "gone" /\ shell[s].wait = "gone"

SessionInit ==
  /\ main = "serve"
  /\ ctxDone = FALSE
  /\ reader = Reading
  /\ writer = "run"
  /\ queued = 0
  /\ screenStop = None
  /\ stream = [i \in Streams |-> "gone"]
  /\ stopped = {}
  /\ term = None
  /\ shell = [s \in Shells |-> NoShell]
  /\ request = [r \in Requests |-> "none"]

-----------------------------------------------------------------------------
(* The channel send and the context.                                       *)

\* Fault: a channel without capacity.
PutUnbounded == queued' = queued + 1

\* enqueue: the envelope goes into the channel ...
Put == queued < SendCap /\ queued' = queued + 1

\* Fault: a send that does not look at the context.
DropNever == FALSE /\ UNCHANGED queued

\* ... or the session is over and it is dropped.  When both are possible the
\* select takes either.
Drop == ctxDone /\ UNCHANGED queued

\* The mutex is free: the reader is not sending the error of a failed start.
MuFree == reader[1] # "notice"

-----------------------------------------------------------------------------
(* main: heartbeats, then cleanup, cancel and Close in the order in which  *)
(* the deferred calls of connectAndServe run.                              *)

Heartbeat ==
  /\ main = "serve"
  /\ Put
  /\ UNCHANGED <<main, ctxDone, reader, writer, streamVars, shellVars, request>>

HeartbeatEnd ==
  /\ main = "serve"
  /\ ctxDone
  /\ main' = "stop screen"
  /\ UNCHANGED <<ctxDone, reader, writer, queued, streamVars, shellVars, request>>

\* Fault: the stream is forgotten without being cancelled.
CancelForgets == screenStop' = None /\ UNCHANGED <<stream, stopped>>

\* stopScreen.
CancelStream ==
  /\ stopped' = IF screenStop = None THEN stopped ELSE stopped \cup {screenStop}
  /\ screenStop' = None
  /\ UNCHANGED stream

\* Close: closing stdin and killing the process ends a shell that runs.
Killed(s) == [shell EXCEPT ![s].proc = IF @ = "running" THEN "exited" ELSE @]

CleanupScreen ==
  /\ main = "stop screen"
  /\ MuFree
  /\ CancelStream
  /\ main' = "close terminal"
  /\ UNCHANGED <<ctxDone, reader, writer, queued, shellVars, request>>

CleanupTerminal ==
  /\ main = "close terminal"
  /\ MuFree
  /\ shell' = IF term = None THEN shell ELSE Killed(term)
  /\ term' = None
  /\ main' = "close socket"
  /\ UNCHANGED <<ctxDone, reader, writer, queued, streamVars, request>>

\* cancel() and wsConn.Close(); connectAndServe returns.
CloseSocket ==
  /\ main = "close socket"
  /\ ctxDone' = TRUE
  /\ main' = "gone"
  /\ UNCHANGED <<reader, writer, queued, streamVars, shellVars, request>>

\* The agent is told to end: the context of the session hangs from that of Run.
AgentStops ==
  /\ main = "serve"
  /\ ~ctxDone
  /\ ctxDone' = TRUE
  /\ UNCHANGED <<main, reader, writer, queued, streamVars, shellVars, request>>

-----------------------------------------------------------------------------
(* writer.                                                                 *)

Write ==
  /\ writer = "run"
  /\ queued > 0
  /\ main # "gone"
  /\ queued' = queued - 1
  /\ UNCHANGED <<main, ctxDone, reader, writer, streamVars, shellVars, request>>

\* The connection is lost or the deadline of ten seconds is over.
WriteFail ==
  /\ writer = "run"
  /\ queued > 0
  /\ queued' = queued - 1
  /\ writer' = "gone"
  /\ ctxDone' = TRUE
  /\ UNCHANGED <<main, reader, streamVars, shellVars, request>>

WriterEnd ==
  /\ writer = "run"
  /\ ctxDone
  /\ writer' = "gone"
  /\ UNCHANGED <<main, ctxDone, reader, queued, streamVars, shellVars, request>>

-----------------------------------------------------------------------------
(* reader and dispatch.  A command is read as long as the socket is open.  *)

Receives == reader = Reading /\ main # "gone"

ReadError ==
  /\ reader = Reading
  /\ reader' = <<"gone", None>>
  /\ ctxDone' = TRUE
  /\ UNCHANGED <<main, writer, queued, streamVars, shellVars, request>>

Ping ==
  /\ Receives
  /\ reader' = <<"pong", None>>
  /\ UNCHANGED <<main, ctxDone, writer, queued, streamVars, shellVars, request>>

Pong ==
  /\ reader[1] = "pong"
  /\ Put \/ Drop
  /\ reader' = Reading
  /\ UNCHANGED <<main, ctxDone, writer, streamVars, shellVars, request>>

StartScreen ==
  /\ Receives
  /\ screenStop = None
  /\ \E i \in Streams :
       /\ stream[i] = "gone"
       /\ screenStop' = i
       /\ stream' = [stream EXCEPT ![i] = "wait"]
       /\ stopped' = stopped \ {i}
  /\ UNCHANGED <<main, ctxDone, reader, writer, queued, shellVars, request>>

StopScreen ==
  /\ Receives
  /\ CancelStream
  /\ UNCHANGED <<main, ctxDone, reader, writer, queued, shellVars, request>>

\* startTerminal returns at once when the session has a shell, even an ended one.
StartTerminal ==
  /\ Receives
  /\ term = None
  /\ \/ \E s \in Shells :
          /\ Over(s)
          /\ term' = s
          /\ shell' = [shell EXCEPT ![s] = Started]
          /\ UNCHANGED reader
     \/ /\ reader' = <<"notice", None>>
        /\ UNCHANGED shellVars
  /\ UNCHANGED <<main, ctxDone, writer, queued, streamVars, request>>

\* The message that the shell could not be opened, sent with the mutex held.
StartNotice ==
  /\ reader[1] = "notice"
  /\ Put \/ Drop
  /\ reader' = Reading
  /\ UNCHANGED <<main, ctxDone, writer, streamVars, shellVars, request>>

TermInput ==
  /\ Receives
  /\ term # None
  /\ reader' = <<"stdin", term>>
  /\ UNCHANGED <<main, ctxDone, writer, queued, streamVars, shellVars, request>>

\* The write to the stdin of a shell returns when the shell takes the input, or
\* with an error when the shell has ended; the shell need not take it.
StdinTaken ==
  /\ reader[1] = "stdin"
  /\ shell[reader[2]].proc = "running"
  /\ reader' = Reading
  /\ UNCHANGED <<main, ctxDone, writer, queued, streamVars, shellVars, request>>

StdinFails ==
  /\ reader[1] = "stdin"
  /\ shell[reader[2]].proc # "running"
  /\ reader' = Reading
  /\ UNCHANGED <<main, ctxDone, writer, queued, streamVars, shellVars, request>>

StopTerminal ==
  /\ Receives
  /\ term # None
  /\ term' = None
  /\ shell' = Killed(term)
  /\ UNCHANGED <<main, ctxDone, reader, writer, queued, streamVars, request>>

\* respond: the command runs in a goroutine of its own ...
Dispatch(r) ==
  /\ Receives
  /\ request[r] = "none"
  /\ request' = [request EXCEPT ![r] = "run"]
  /\ UNCHANGED <<main, ctxDone, reader, writer, queued, streamVars, shellVars>>

Finish(r) ==
  /\ request[r] = "run"
  /\ request' = [request EXCEPT ![r] = "reply"]
  /\ UNCHANGED <<main, ctxDone, reader, writer, queued, streamVars, shellVars>>

\* ... which ends when its response or its error is in send or the session over.
Reply(r) ==
  /\ request[r] = "reply"
  /\ Put \/ Drop
  /\ request' = [request EXCEPT ![r] = "none"]
  /\ UNCHANGED <<main, ctxDone, reader, writer, streamVars, shellVars>>

-----------------------------------------------------------------------------
(* screenLoop.                                                             *)

\* getScreenQuality takes the mutex before the frame is captured.
Capture(i) ==
  /\ stream[i] = "wait"
  /\ MuFree
  /\ stream' = [stream EXCEPT ![i] = "frame"]
  /\ UNCHANGED <<main, ctxDone, reader, writer, queued, screenStop, stopped,
                 shellVars, request>>

SendFrame(i) ==
  /\ stream[i] = "frame"
  /\ Put
  /\ stream' = [stream EXCEPT ![i] = "wait"]
  /\ UNCHANGED <<main, ctxDone, reader, writer, screenStop, stopped, shellVars, request>>

StreamEnd(i) ==
  /\ stream[i] # "gone"
  /\ ctxDone \/ i \in stopped
  /\ stream' = [stream EXCEPT ![i] = "gone"]
  /\ UNCHANGED <<main, ctxDone, reader, writer, queued, screenStop, stopped,
                 shellVars, request>>

-----------------------------------------------------------------------------
(* A shell: the process, readLoop and the goroutine of Wait.               *)

ShellUnchanged == UNCHANGED <<main, ctxDone, reader, writer, streamVars, term, request>>

Output(s) ==
  /\ shell[s].proc = "running"
  /\ ~shell[s].pending
  /\ shell' = [shell EXCEPT ![s].pending = TRUE]
  /\ ShellUnchanged /\ UNCHANGED queued

ShellExits(s) ==
  /\ shell[s].proc = "running"
  /\ shell' = [shell EXCEPT ![s].proc = "exited"]
  /\ ShellUnchanged /\ UNCHANGED queued

TakeOutput(s) ==
  /\ shell[s].loop = "read"
  /\ shell[s].pending
  /\ shell' = [shell EXCEPT ![s].pending = FALSE, ![s].loop = "send"]
  /\ ShellUnchanged /\ UNCHANGED queued

SendOutput(s) ==
  /\ shell[s].loop = "send"
  /\ \/ /\ Put
        /\ shell' = [shell EXCEPT ![s].loop = "read",
                       ![s].late = IF shell[s].noticed THEN @ + 1 ELSE @]
     \/ /\ Drop
        /\ shell' = [shell EXCEPT ![s].loop = "read"]
  /\ ShellUnchanged

\* Fault: Wait does not wait for the output.
WaitReturnsEarly(s) ==
  /\ shell[s].wait = "wait"
  /\ shell[s].proc = "exited"
  /\ shell' = [shell EXCEPT ![s].wait = "notice"]
  /\ ShellUnchanged /\ UNCHANGED queued

\* Wait returns when the process has ended and its output has been taken; the
\* pipe is closed, and readLoop ends the next time it reads.
WaitReturns(s) ==
  /\ shell[s].wait = "wait"
  /\ shell[s].proc = "exited"
  /\ ~shell[s].pending
  /\ shell' = [shell EXCEPT ![s].wait = "notice"]
  /\ ShellUnchanged /\ UNCHANGED queued

EndNotice(s) ==
  /\ shell[s].wait = "notice"
  /\ \/ /\ Put
        /\ shell' = [shell EXCEPT ![s].wait = "gone", ![s].noticed = TRUE]
     \/ /\ Drop
        /\ shell' = [shell EXCEPT ![s].wait = "gone"]
  /\ ShellUnchanged

ReadLoopEnd(s) ==
  /\ shell[s].loop = "read"
  /\ shell[s].wait \in {"notice", "gone"}
  /\ ~shell[s].pending
  /\ shell' = [shell EXCEPT ![s].loop = "gone"]
  /\ ShellUnchanged /\ UNCHANGED queued

-----------------------------------------------------------------------------
Main == Heartbeat \/ HeartbeatEnd \/ CleanupScreen \/ CleanupTerminal \/ CloseSocket
Writer == Write \/ WriteFail \/ WriterEnd
Dispatched ==
  \/ Ping \/ StartScreen \/ StopScreen \/ StartTerminal \/ TermInput \/ StopTerminal
  \/ \E r \in Requests : Dispatch(r)
Reader == ReadError \/ Pong \/ StartNotice \/ StdinTaken \/ StdinFails \/ Dispatched
Responder(r) == Finish(r) \/ Reply(r)
ScreenLoop(i) == Capture(i) \/ SendFrame(i) \/ StreamEnd(i)
Shell(s) == \/ Output(s) \/ ShellExits(s) \/ TakeOutput(s) \/ SendOutput(s)
            \/ WaitReturns(s) \/ EndNotice(s) \/ ReadLoopEnd(s)

SessionNext ==
  \/ AgentStops
  \/ Main
  \/ Writer
  \/ Reader
  \/ \E r \in Requests : Responder(r)
  \/ \E i \in Streams : ScreenLoop(i)
  \/ \E s \in Shells : Shell(s)

SessionSpec == SessionInit /\ [][SessionNext]_vars

(***************************************************************************)
(* Fairness: a goroutine that can go on does, and one that waits for the   *)
(* mutex gets it in the end (Go hands a mutex to a waiter that starves).   *)
(* Nothing obliges a shell to read, to write or to end, nor the server to  *)
(* send a command; the read fails once the socket is closed.  Wait need    *)
(* not return, not even of a shell that was killed: a program that it has  *)
(* started can keep its output open.                                       *)
(***************************************************************************)
SessionFairness ==
  /\ WF_vars(HeartbeatEnd \/ CloseSocket)
  /\ SF_vars(CleanupScreen \/ CleanupTerminal)
  /\ WF_vars(Write \/ WriterEnd)
  /\ WF_vars(Pong \/ StartNotice \/ StdinFails \/ (main = "gone" /\ ReadError))
  /\ \A r \in Requests : WF_vars(Responder(r))
  /\ \A i \in Streams : WF_vars(StreamEnd(i))
  /\ \A s \in Shells :
       /\ WF_vars(TakeOutput(s) \/ SendOutput(s) \/ ReadLoopEnd(s))
       /\ WF_vars(EndNotice(s))

SessionFairSpec == SessionSpec /\ SessionFairness
-----------------------------------------------------------------------------
(* Properties.                                                             *)

ShellRecord == [proc : {"none", "running", "exited"}, pending : BOOLEAN,
                loop : {"read", "send", "gone"}, wait : {"wait", "notice", "gone"},
                noticed : BOOLEAN, late : Nat]

\* A reader has a shell only while it writes to its stdin.
ReaderStates ==
  ({"read", "pong", "notice", "gone"} \X {None}) \cup ({"stdin"} \X Shells)

SessionTypeOK ==
  /\ main \in {"serve", "stop screen", "close terminal", "close socket", "gone"}
  /\ ctxDone \in BOOLEAN
  /\ reader \in ReaderStates
  /\ writer \in {"run", "gone"}
  /\ queued \in 0 .. SendCap
  /\ screenStop \in Streams \cup {None}
  /\ stream \in [Streams -> {"wait", "frame", "gone"}]
  /\ stopped \subseteq Streams
  /\ term \in Shells \cup {None}
  /\ shell \in [Shells -> ShellRecord]
  /\ request \in [Requests -> {"none", "run", "reply"}]

\* Whatever still runs can be stopped: the only stream that nobody has cancelled
\* is the one behind screenStop, and the only shell that runs is the session's
\* (startScreen and startTerminal against stopScreen, stopTerminal and cleanup).
OneOwner ==
  /\ \A i \in Streams : stream[i] # "gone" /\ i \notin stopped => screenStop = i
  /\ \A s \in Shells : shell[s].proc = "running" => term = s

\* readLoop and the goroutine of Wait send side by side, so the message that the
\* shell has ended may overtake output, but no more than the one piece that
\* readLoop had in its hands.
NoticeOrder == \A s \in Shells : shell[s].late <= 1

\* When the session is over, every goroutine of it ends: main has returned, the
\* writer, the streams and the answers to requests are gone, the two goroutines of a
\* shell too, unless its Wait has not returned, and the reader, unless it writes to a
\* shell that was started when cleanup had already run: that shell is in nobody's
\* hands, and nothing will close it (session.go:33-41, terminal_windows.go:49-53).
SessionEnds ==
  ctxDone ~> /\ main = "gone"
             /\ writer = "gone"
             /\ \A i \in Streams : stream[i] = "gone"
             /\ \A r \in Requests : request[r] = "none"
             /\ \A s \in Shells : Over(s) \/ shell[s].wait = "wait"
             /\ \/ reader[1] = "gone"
                \/ reader[1] = "stdin" /\ shell[reader[2]].proc = "running"
=============================================================================
