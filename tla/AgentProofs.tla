---------------------------- MODULE AgentProofs ----------------------------
(***************************************************************************)
(* Proofs about a connected agent: about AgentSession, for any number of   *)
(* streams, shells and requests and any capacity of the channel, and about *)
(* FileOps, for any folders, names and contents, any number of goroutines  *)
(* and any commands that are OneWay.  That the goroutines of a session end *)
(* is a liveness property: TLC checks it.                                  *)
(***************************************************************************)
EXTENDS AgentSession, FileOps, TLAPS

-----------------------------------------------------------------------------
(* The session: the types, that whatever runs can be stopped, and how late *)
(* an output can be.                                                       *)

\* Once Wait has returned the shell has ended and its output is taken; what readLoop
\* then still has in its hands is the first output that can be late.
NoticeInv ==
  \A s \in Shells :
    /\ shell[s].wait = "notice" \/ shell[s].noticed =>
         shell[s].proc # "running" /\ ~shell[s].pending
    /\ shell[s].loop = "send" \/ ~shell[s].noticed => shell[s].late = 0
    /\ shell[s].late \in {0, 1}

SessionInv == SessionTypeOK /\ OneOwner /\ NoticeInv

-----------------------------------------------------------------------------

\* What the reader can be doing.
LEMMA ReaderTyped ==
  /\ \A x \in {"read", "pong", "notice", "gone"} : <<x, None>> \in ReaderStates
  /\ \A t \in Shells : <<"stdin", t>> \in ReaderStates
  BY DEF ReaderStates

\* Killing a shell that runs, if there is one, keeps all that is said of shells.
LEMMA KilledKeeps ==
  ASSUME shell \in [Shells -> ShellRecord], NoticeInv, NEW t \in Shells,
         shell' = Killed(t)
  PROVE  /\ shell' \in [Shells -> ShellRecord] /\ NoticeInv'
         /\ shell'[t].proc # "running"
         /\ \A u \in Shells \ {t} : shell'[u] = shell[u]
<1> DEFINE one == [shell[t] EXCEPT !.proc = IF @ = "running" THEN "exited" ELSE @]
<1>1. one \in ShellRecord /\ one.proc # "running"
  BY DEF ShellRecord
<1>2. shell' = [shell EXCEPT ![t] = one]
  BY DEF Killed
<1> QED
  BY <1>1, <1>2 DEF NoticeInv, ShellRecord

\* A session begins without streams, shells and requests.
LEMMA InitSessionInv == SessionInit => SessionInv
<1> SUFFICES ASSUME SessionInit PROVE SessionInv
  OBVIOUS
<1> USE DEF SessionInit
<1>1. NoShell \in ShellRecord
  BY DEF NoShell, ShellRecord
<1>2. SessionTypeOK
  <2>1. reader \in ReaderStates
    BY ReaderTyped DEF Reading
  <2>2. 0 \in 0 .. SendCap
    BY SendCapAssumption
  <2>3. /\ shell \in [Shells -> ShellRecord]
        /\ stream \in [Streams -> {"wait", "frame", "gone"}]
        /\ request \in [Requests -> {"none", "run", "reply"}]
    BY <1>1
  <2> QED
    BY <2>1, <2>2, <2>3 DEF SessionTypeOK
<1>3. OneOwner /\ NoticeInv
  BY DEF OneOwner, NoticeInv, NoShell
<1> QED
  BY <1>2, <1>3 DEF SessionInv

-----------------------------------------------------------------------------

\* An envelope is put into the channel only when there is room.
LEMMA PutTyped ==
  ASSUME queued \in 0 .. SendCap, Put \/ Drop
  PROVE  queued' \in 0 .. SendCap
  BY SendCapAssumption DEF Put, Drop

\* main: only cleanup touches the stream and the shell, and it stops both.
LEMMA MainKeeps == ASSUME SessionInv, Main PROVE SessionInv'
<1> USE DEF SessionInv, SessionTypeOK, OneOwner, NoticeInv,
            streamVars, shellVars
<1>1. CASE Heartbeat
  BY <1>1, PutTyped DEF Heartbeat
<1>2. CASE HeartbeatEnd
  BY <1>2 DEF HeartbeatEnd
<1>3. CASE CleanupScreen
  BY <1>3 DEF CleanupScreen, CancelStream
<1>4. CASE CleanupTerminal
  <2>1. CASE term = None
    BY <1>4, <2>1, NoneAssumption DEF CleanupTerminal
  <2>2. CASE term \in Shells
    <3>1. shell' = Killed(term)
      BY <1>4, <2>2, NoneAssumption DEF CleanupTerminal
    <3> QED
      BY <1>4, <2>2, <3>1, KilledKeeps DEF CleanupTerminal
  <2> QED
    BY <2>1, <2>2
<1>5. CASE CloseSocket
  BY <1>5 DEF CloseSocket
<1> QED
  BY <1>1, <1>2, <1>3, <1>4, <1>5 DEF Main

\* writer: it only takes from the channel.
LEMMA WriterKeeps == ASSUME SessionInv, Writer PROVE SessionInv'
<1>1. queued' \in 0 .. SendCap /\ writer' \in {"run", "gone"} /\ ctxDone' \in BOOLEAN
  <2>1. ASSUME queued > 0, queued' = queued - 1 PROVE queued' \in 0 .. SendCap
    <3>1. queued \in 0 .. SendCap
      BY DEF SessionInv, SessionTypeOK
    <3> QED
      BY <2>1, <3>1, SendCapAssumption
  <2> QED
    BY <2>1 DEF SessionInv, SessionTypeOK, Writer, Write, WriteFail, WriterEnd
<1>2. UNCHANGED <<main, reader, streamVars, shellVars, request>>
  BY DEF Writer, Write, WriteFail, WriterEnd
<1> QED
  BY <1>1, <1>2
     DEF SessionInv, SessionTypeOK, OneOwner, NoticeInv, streamVars, shellVars

\* reader: startScreen and startTerminal begin only what nothing else refers to.
LEMMA ReaderKeeps == ASSUME SessionInv, Reader PROVE SessionInv'
<1> USE DEF SessionInv, SessionTypeOK, OneOwner, NoticeInv,
            streamVars, shellVars, Receives, Reading
<1>1. CASE ReadError \/ Ping \/ StdinTaken \/ StdinFails
  BY <1>1, ReaderTyped DEF ReadError, Ping, StdinTaken, StdinFails
<1>2. CASE Pong \/ StartNotice
  BY <1>2, PutTyped, ReaderTyped DEF Pong, StartNotice
<1>3. CASE StartScreen
  <2>1. PICK i \in Streams :
          /\ screenStop' = i
          /\ stream' = [stream EXCEPT ![i] = "wait"]
          /\ stopped' = stopped \ {i}
    BY <1>3 DEF StartScreen
  <2> QED
    BY <1>3, <2>1, NoneAssumption DEF StartScreen
<1>4. CASE StopScreen
  BY <1>4 DEF StopScreen, CancelStream
<1>5. CASE StartTerminal
  <2>1. Started \in ShellRecord
    BY DEF Started, NoShell, ShellRecord
  <2> QED
    <3>1. CASE UNCHANGED shellVars /\ reader' = <<"notice", None>>
      BY <1>5, <3>1, ReaderTyped DEF StartTerminal
    <3>2. ASSUME NEW t \in Shells, term' = t, shell' = [shell EXCEPT ![t] = Started],
                 UNCHANGED reader
          PROVE  SessionInv'
      <4>1. /\ Started.proc = "running" /\ Started.wait = "wait"
            /\ Started.noticed = FALSE /\ Started.late = 0
        BY DEF Started, NoShell
      <4>2. \A u \in Shells \ {t} : shell[u].proc # "running" /\ shell'[u] = shell[u]
        BY <1>5, <3>2, NoneAssumption DEF StartTerminal
      <4>3. shell' \in [Shells -> ShellRecord]
        BY <2>1, <3>2
      <4>4. SessionTypeOK'
        BY <1>5, <3>2, <4>3 DEF StartTerminal
      <4>5. OneOwner'
        BY <1>5, <3>2, <4>1, <4>2 DEF StartTerminal
      <4>6. shell'[t] = Started
        BY <3>2
      <4>7. NoticeInv'
        BY <4>1, <4>2, <4>6
      <4> QED
        BY <4>4, <4>5, <4>7
    <3> QED
      BY <1>5, <3>1, <3>2 DEF StartTerminal
<1>6. CASE TermInput
  BY <1>6, ReaderTyped DEF TermInput
<1>7. CASE StopTerminal
  <2>1. term \in Shells /\ shell' = Killed(term)
    BY <1>7 DEF StopTerminal
  <2> QED
    BY <1>7, <2>1, KilledKeeps DEF StopTerminal
<1>8. ASSUME NEW r \in Requests, Dispatch(r) PROVE SessionInv'
  BY <1>8 DEF Dispatch
<1> QED
  BY <1>1, <1>2, <1>3, <1>4, <1>5, <1>6, <1>7, <1>8 DEF Reader, Dispatched

\* respond and screenLoop: a stream ends, but begins only in the reader.
LEMMA WorkersKeep ==
  ASSUME SessionInv,
         \/ \E r \in Requests : Responder(r)
         \/ \E i \in Streams : ScreenLoop(i)
  PROVE  SessionInv'
<1> USE DEF SessionInv, SessionTypeOK, OneOwner, NoticeInv,
            streamVars, shellVars
<1>1. ASSUME NEW r \in Requests, Responder(r) PROVE SessionInv'
  BY <1>1, PutTyped DEF Responder, Finish, Reply
<1>2. ASSUME NEW i \in Streams, ScreenLoop(i) PROVE SessionInv'
  BY <1>2, PutTyped DEF ScreenLoop, Capture, SendFrame, StreamEnd
<1> QED
  BY <1>1, <1>2

\* What a step of one shell has to keep of that shell.
ShellOK(x) ==
  /\ x \in ShellRecord
  /\ x.wait = "notice" \/ x.noticed => x.proc # "running" /\ ~x.pending
  /\ x.loop = "send" \/ ~x.noticed => x.late = 0
  /\ x.late \in {0, 1}

LEMMA OneShellKeeps ==
  ASSUME SessionInv, NEW s \in Shells, NEW one, ShellOK(one),
         one.proc = "running" => shell[s].proc = "running",
         shell' = [shell EXCEPT ![s] = one],
         queued' \in 0 .. SendCap, ShellUnchanged
  PROVE  SessionInv'
<1> USE DEF SessionInv, ShellUnchanged, streamVars
<1>1. shell'[s] = one /\ \A u \in Shells \ {s} : shell'[u] = shell[u]
  BY DEF SessionTypeOK
<1>2. SessionTypeOK'
  BY DEF SessionTypeOK, ShellOK
<1>3. OneOwner'
  BY <1>1 DEF OneOwner
<1>4. NoticeInv'
  BY <1>1 DEF NoticeInv, ShellOK
<1> QED
  BY <1>2, <1>3, <1>4

\* The two goroutines of a shell: after the message of the end, readLoop has at most
\* one output to send.
LEMMA ShellKeeps ==
  ASSUME SessionInv, NEW s \in Shells, Shell(s)
  PROVE  SessionInv'
<1>1. /\ ShellOK(shell[s]) /\ shell[s] \in ShellRecord /\ DOMAIN shell = Shells
      /\ queued \in 0 .. SendCap
  BY DEF SessionInv, SessionTypeOK, NoticeInv, ShellOK, ShellRecord
<1>2. ShellUnchanged
  BY DEF Shell, Output, ShellExits, TakeOutput, SendOutput, WaitReturns, EndNotice, ReadLoopEnd
<1>3. queued' \in 0 .. SendCap
  BY <1>1, PutTyped
     DEF Shell, Output, ShellExits, TakeOutput, SendOutput, WaitReturns, EndNotice, ReadLoopEnd
<1> USE <1>1 DEF ShellOK, ShellRecord
<1>4. CASE Output(s)
  <2> DEFINE one == [shell[s] EXCEPT !.pending = TRUE]
  <2>1. ShellOK(one) /\ (one.proc = "running" => shell[s].proc = "running")
    BY <1>4 DEF Output
  <2> QED
    BY <1>2, <1>3, <1>4, <2>1, OneShellKeeps DEF Output
<1>5. CASE ShellExits(s)
  <2> DEFINE one == [shell[s] EXCEPT !.proc = "exited"]
  <2>1. ShellOK(one) /\ (one.proc = "running" => shell[s].proc = "running")
    BY <1>5 DEF ShellExits
  <2> QED
    BY <1>2, <1>3, <1>5, <2>1, OneShellKeeps DEF ShellExits
<1>6. CASE TakeOutput(s)
  <2> DEFINE one == [shell[s] EXCEPT !.pending = FALSE, !.loop = "send"]
  <2>1. ShellOK(one) /\ (one.proc = "running" => shell[s].proc = "running")
    BY <1>6 DEF TakeOutput
  <2>2. shell' = [shell EXCEPT ![s] = one]
    BY <1>6 DEF TakeOutput
  <2> QED
    BY <1>2, <1>3, <2>1, <2>2, OneShellKeeps
<1>7. CASE SendOutput(s)
  <2> DEFINE one == [shell[s] EXCEPT !.loop = "read",
                       !.late = IF shell[s].noticed THEN 1 ELSE 0]
             drop == [shell[s] EXCEPT !.loop = "read"]
  <2>1. shell[s].loop = "send" /\ shell[s].late = 0
    BY <1>7 DEF SendOutput
  <2>2. ShellOK(one) /\ (one.proc = "running" => shell[s].proc = "running")
    <3>1. CASE shell[s].noticed
      BY <2>1, <3>1
    <3>2. CASE ~shell[s].noticed
      BY <2>1, <3>2
    <3> QED
      BY <3>1, <3>2
  <2>3. ShellOK(drop) /\ (drop.proc = "running" => shell[s].proc = "running")
    BY <2>1
  <2>4. shell' = [shell EXCEPT ![s] = one] \/ shell' = [shell EXCEPT ![s] = drop]
    BY <1>7, <2>1 DEF SendOutput
  <2> QED
    BY <1>2, <1>3, <2>2, <2>3, <2>4, OneShellKeeps
<1>8. CASE WaitReturns(s)
  <2> DEFINE one == [shell[s] EXCEPT !.wait = "notice"]
  <2>1. ShellOK(one) /\ (one.proc = "running" => shell[s].proc = "running")
    BY <1>8 DEF WaitReturns
  <2> QED
    BY <1>2, <1>3, <1>8, <2>1, OneShellKeeps DEF WaitReturns
<1>9. CASE EndNotice(s)
  <2> DEFINE one == [shell[s] EXCEPT !.wait = "gone", !.noticed = TRUE]
             drop == [shell[s] EXCEPT !.wait = "gone"]
  <2>1. ShellOK(one) /\ (one.proc = "running" => shell[s].proc = "running")
    BY <1>9 DEF EndNotice
  <2>2. ShellOK(drop) /\ (drop.proc = "running" => shell[s].proc = "running")
    BY <1>9 DEF EndNotice
  <2> QED
    BY <1>2, <1>3, <1>9, <2>1, <2>2, OneShellKeeps DEF EndNotice
<1>10. CASE ReadLoopEnd(s)
  <2> DEFINE one == [shell[s] EXCEPT !.loop = "gone"]
  <2>1. ShellOK(one) /\ (one.proc = "running" => shell[s].proc = "running")
    BY <1>10 DEF ReadLoopEnd
  <2> QED
    BY <1>2, <1>3, <1>10, <2>1, OneShellKeeps DEF ReadLoopEnd
<1> QED
  BY <1>4, <1>5, <1>6, <1>7, <1>8, <1>9, <1>10 DEF Shell

\* Every step of every goroutine keeps the invariant.
LEMMA NextSessionInv == SessionInv /\ [SessionNext]_vars => SessionInv'
<1> SUFFICES ASSUME SessionInv, [SessionNext]_vars PROVE SessionInv'
  OBVIOUS
<1>1. CASE AgentStops \/ UNCHANGED vars
  BY <1>1 DEF AgentStops, vars, SessionInv, SessionTypeOK, OneOwner, NoticeInv,
              streamVars, shellVars
<1> QED
  BY <1>1, MainKeeps, WriterKeeps, ReaderKeeps, WorkersKeep, ShellKeeps DEF SessionNext

-----------------------------------------------------------------------------

\* The invariant holds in every state of every execution.
THEOREM SessionInvariant == SessionSpec => []SessionInv
  BY InitSessionInv, NextSessionInv, PTL DEF SessionSpec

\* Every variable keeps its type: the channel never holds more than its capacity.
THEOREM SessionTypeCorrect == SessionSpec => []SessionTypeOK
<1>1. SessionInv => SessionTypeOK
  BY DEF SessionInv
<1> QED
  BY <1>1, SessionInvariant, PTL

\* A stream that nobody cancelled and a shell that runs are those the session
\* refers to: stop_screen, stop_terminal and cleanup reach whatever runs
\* (startScreen, stopScreen, startTerminal, stopTerminal).
THEOREM SessionOneOwner == SessionSpec => []OneOwner
<1>1. SessionInv => OneOwner
  BY DEF SessionInv
<1> QED
  BY <1>1, SessionInvariant, PTL

\* The message that a shell has ended overtakes at most one piece of its output
\* (terminal_windows.go:50-73).
THEOREM SessionNoticeOrder == SessionSpec => []NoticeOrder
<1>1. \A n \in {0, 1} : n <= 1
  OBVIOUS
<1>2. SessionInv => NoticeOrder
  BY <1>1 DEF SessionInv, NoticeInv, NoticeOrder
<1> QED
  BY <1>2, SessionInvariant, PTL

\* While the session is not over all three of its goroutines are there.
QueueIsServed == ~ctxDone => main = "serve" /\ writer = "run" /\ reader[1] # "gone"

\* Each of the three gives up only after the context is cancelled, or cancels it.
LEMMA NextQueueIsServed ==
  ASSUME QueueIsServed, [SessionNext]_vars PROVE QueueIsServed'
<1>1. CASE Main
  BY <1>1 DEF Main, Heartbeat, HeartbeatEnd, CleanupScreen, CleanupTerminal, CloseSocket,
              QueueIsServed
<1>2. CASE Writer
  BY <1>2 DEF Writer, Write, WriteFail, WriterEnd, QueueIsServed
<1>3. CASE Reader
  <2>1. CASE ReadError \/ Pong \/ StartNotice \/ StdinTaken \/ StdinFails
    BY <2>1 DEF ReadError, Pong, StartNotice, StdinTaken, StdinFails, Reading, QueueIsServed
  <2>2. CASE Dispatched
    BY <2>2 DEF Dispatched, Ping, StartScreen, StopScreen, StartTerminal, TermInput,
                StopTerminal, Dispatch, Reading, QueueIsServed
  <2> QED
    BY <1>3, <2>1, <2>2 DEF Reader
<1>4. CASE \E r \in Requests : Responder(r)
  BY <1>4 DEF Responder, Finish, Reply, QueueIsServed
<1>5. CASE \E i \in Streams : ScreenLoop(i)
  BY <1>5 DEF ScreenLoop, Capture, SendFrame, StreamEnd, QueueIsServed
<1>6. CASE \E s \in Shells : Shell(s)
  BY <1>6 DEF Shell, ShellUnchanged, Output, ShellExits, TakeOutput, SendOutput,
              WaitReturns, EndNotice, ReadLoopEnd, QueueIsServed
<1>7. CASE AgentStops \/ UNCHANGED vars
  BY <1>7 DEF AgentStops, vars, QueueIsServed
<1> QED
  BY <1>1, <1>2, <1>3, <1>4, <1>5, <1>6, <1>7 DEF SessionNext

\* Whoever waits for room in the queue, with the mutex of the session in hand or
\* without (stream.go:118), waits for a writer that is there and empties it, or may
\* give up because the context is cancelled.
THEOREM SessionQueueIsServed == SessionSpec => []QueueIsServed
<1>1. SessionInit => QueueIsServed
  BY DEF SessionInit, Reading, QueueIsServed
<1>2. QueueIsServed /\ [SessionNext]_vars => QueueIsServed'
  BY NextQueueIsServed
<1> QED
  BY <1>1, <1>2, PTL DEF SessionSpec

-----------------------------------------------------------------------------
(* File operations: types.                                                 *)

\* The command that a goroutine executes, and the file that it writes.
CommandOf(o) == [kind |-> o.kind, src |-> o.src, dst |-> o.dst]
Target(o) == IF o.at = "writing" THEN o.dst ELSE Image(o.src, o.dst, o.cur)

\* What a goroutine is about fits to where it is.
Shape(o) ==
  /\ o.at # "idle" => CommandOf(o) \in Commands
  /\ o.at = "stat" => o.kind = "move"
  /\ o.at \in {"copy", "copying"} => o.kind \in {"copy", "move"}
  /\ o.at = "remove" => o.kind \in {"delete", "move"}
  /\ o.at \in {"copy", "copying", "remove"} => o.todo \subseteq FilesIn(o.src)
  /\ o.at = "copying" => o.cur \in o.todo
  /\ o.at = "writing" => o.kind = "write"
  /\ o.at = "reading" => o.cur \in Files
  /\ o.at \in {"copying", "writing"} => Target(o) \in Files

Shapely == {o \in OpRecord : Shape(o)}

Types ==
  /\ folders \subseteq Folders
  /\ file \in [Files -> Data \cup {Upload, Nothing, Torn}]
  /\ op \in [Ops -> Shapely]
  /\ asked \subseteq Data
  /\ spoiled \in BOOLEAN

\* Commands name paths, each of its kind.
LEMMA CommandTypes ==
  ASSUME NEW c \in Commands
  PROVE  /\ c.kind \in Kinds /\ c.src \in Paths \cup {Nothing} /\ c.dst \in Paths \cup {Nothing}
         /\ c.kind # "write" => c.src \in Paths
         /\ c.kind \in {"write", "copy", "move", "rename"} => c.dst \in Paths
         /\ c = [kind |-> c.kind, src |-> c.src, dst |-> c.dst]
<1>1. c \in PathRequests \cup Uploads \cup TwoPathRequests
  BY CommandsAssumption
<1>2. CASE c \in PathRequests
  BY <1>2 DEF PathRequests, Kinds
<1>3. CASE c \in Uploads
  BY <1>3 DEF Uploads, Kinds
<1>4. CASE c \in TwoPathRequests
  BY <1>4 DEF TwoPathRequests, Kinds
<1> QED
  BY <1>1, <1>2, <1>3, <1>4

LEMMA PathFiles ==
  ASSUME NEW p \in Paths
  PROVE  FilesIn(p) \subseteq Files /\ FolderOf(p) \in Folders
  BY DEF Paths, FilesIn, FolderOf, Files

LEMMA OpPaths ==
  ASSUME NEW o \in Shapely, o.at # "idle"
  PROVE  /\ o.kind # "write" => o.src \in Paths /\ FilesIn(o.src) \subseteq Files
         /\ o.kind \in {"write", "copy", "move", "rename"} => o.dst \in Paths
<1>1. CommandOf(o) \in Commands
  BY DEF Shapely, Shape
<1> QED
  BY <1>1, CommandTypes, PathFiles DEF CommandOf

LEMMA IdleIs == Idle \in Shapely /\ Idle.at = "idle"
  BY DEF Idle, OpRecord, Shapely, Shape

\* A goroutine that is where it was, or elsewhere.
LEMMA Mixing ==
  ASSUME NEW o \in Shapely, NEW b \in BOOLEAN
  PROVE  [o EXCEPT !.mixed = b] \in Shapely
<1> DEFINE n == [o EXCEPT !.mixed = b]
<1>1. /\ n \in OpRecord
      /\ n.kind = o.kind /\ n.src = o.src /\ n.dst = o.dst /\ n.at = o.at
      /\ n.todo = o.todo /\ n.cur = o.cur
  BY DEF Shapely, OpRecord
<1> HIDE DEF n
<1>2. Shape(n)
  BY <1>1 DEF Shapely, Shape, CommandOf, Target
<1> QED
  BY <1>1, <1>2 DEF Shapely, n

LEMMA Going ==
  ASSUME NEW o \in Shapely, o.at # "idle",
         NEW at \in {"stat", "copy", "remove", "listing"},
         NEW todo \in SUBSET FilesIn(o.src), o.kind # "write",
         at = "stat" => o.kind = "move",
         at = "copy" => o.kind \in {"copy", "move"},
         at = "remove" => o.kind \in {"delete", "move"},
         NEW new, new = [o EXCEPT !.at = at, !.todo = todo]
  PROVE  new \in Shapely
<1>1. todo \in SUBSET Files
  BY OpPaths
<1>2. /\ new \in OpRecord
      /\ new.kind = o.kind /\ new.src = o.src /\ new.dst = o.dst /\ new.at = at
      /\ new.todo = todo
  BY <1>1 DEF Shapely, OpRecord
<1>3. Shape(new)
  BY <1>2 DEF Shapely, Shape, CommandOf
<1> QED
  BY <1>2, <1>3 DEF Shapely

LEMMA DoneKeeps ==
  ASSUME Types, NEW r \in Ops, Done(r)
  PROVE  op' \in [Ops -> Shapely]
  BY IdleIs DEF Done, Types

LEMMA InitTypes == FilesInit => Types
<1> SUFFICES ASSUME FilesInit PROVE Types
  OBVIOUS
<1>1. PICK place \in [Data -> Files] :
        file = [f \in Files |-> IF \E v \in Data : place[v] = f
                                THEN CHOOSE v \in Data : place[v] = f ELSE Nothing]
  BY DEF FilesInit
<1>2. file \in [Files -> Data \cup {Upload, Nothing, Torn}]
  BY <1>1
<1> QED
  BY <1>2, IdleIs DEF FilesInit, Types

\* The steps that open a file, and those that close one.
LEMMA CreateKeeps ==
  ASSUME Types, NEW r \in Ops, NEW g, NEW content, NEW opened \in Shapely,
         Create(r, g, content, opened), UNCHANGED <<folders, spoiled>>
  PROVE  Types'
<1> DEFINE clash == Clash(r, g, content)
<1>1. file' \in [Files -> Data \cup {Upload, Nothing, Torn}]
  BY DEF Create, Types
<1>2. asked' \subseteq Data
  BY DEF Create, Asked, Types
<1>3. \A q \in Ops : op'[q] = IF q = r THEN [opened EXCEPT !.mixed = clash # {}]
                             ELSE IF q \in clash THEN [op[q] EXCEPT !.mixed = TRUE]
                             ELSE op[q]
  BY DEF Create
<1> HIDE DEF clash
<1>4. op' \in [Ops -> Shapely]
  <2>1. \A q \in Ops : op'[q] \in Shapely
    BY <1>3, Mixing DEF Types
  <2> QED
    BY <2>1 DEF Create
<1> QED
  BY <1>1, <1>2, <1>4 DEF Types

\* What r is about once it has opened a file, to copy another into it or to upload.
LEMMA OpenedIs ==
  ASSUME Types, NEW r \in Ops, NEW f \in Files, OpenFile(r, f),
         NEW new, new = [op[r] EXCEPT !.at = "copying", !.cur = f]
  PROVE  /\ new \in Shapely /\ Create(r, Target(new), file[f], new)
         /\ new.kind = op[r].kind /\ new.src = op[r].src /\ new.at = "copying"
         /\ new.todo = op[r].todo /\ new.cur = f
<1>1. op[r] \in Shapely
  BY DEF Types
<1>2. /\ new \in OpRecord
      /\ new.kind = op[r].kind /\ new.src = op[r].src /\ new.dst = op[r].dst
      /\ new.at = "copying" /\ new.todo = op[r].todo /\ new.cur = f
  BY <1>1 DEF Shapely, OpRecord
<1>3. /\ op[r].at = "copy" /\ f \in op[r].todo /\ Target(new) \in Files
      /\ Create(r, Target(new), file[f], new)
  BY <1>2 DEF OpenFile, Target
<1>4. Shape(new)
  BY <1>1, <1>2, <1>3 DEF Shapely, Shape, CommandOf
<1> QED
  BY <1>2, <1>3, <1>4 DEF Shapely

LEMMA UploadIs ==
  ASSUME Types, NEW r \in Ops, WriteBegins(r),
         NEW new, new = [op[r] EXCEPT !.at = "writing"]
  PROVE  /\ new \in Shapely /\ Create(r, Target(new), Upload, new)
         /\ new.kind = "write" /\ new.at = "writing"
<1>1. op[r] \in Shapely
  BY DEF Types
<1>2. /\ new \in OpRecord
      /\ new.kind = op[r].kind /\ new.src = op[r].src /\ new.dst = op[r].dst
      /\ new.at = "writing"
  BY <1>1 DEF Shapely, OpRecord
<1>3. /\ op[r].at = "start" /\ op[r].kind = "write" /\ Target(new) \in Files
      /\ Create(r, Target(new), Upload, new)
  BY <1>2 DEF WriteBegins, Target
<1>4. Shape(new)
  BY <1>1, <1>2, <1>3 DEF Shapely, Shape, CommandOf
<1> QED
  BY <1>2, <1>3, <1>4 DEF Shapely

LEMMA OpenTypes ==
  ASSUME Types, NEW r \in Ops, WriteBegins(r) \/ \E f \in Files : OpenFile(r, f)
  PROVE  Types'
<1>1. CASE WriteBegins(r)
  <2> DEFINE new == [op[r] EXCEPT !.at = "writing"]
  <2>1. new \in Shapely /\ Create(r, Target(new), Upload, new)
    BY <1>1, UploadIs
  <2> HIDE DEF new
  <2> QED
    BY <1>1, <2>1, CreateKeeps DEF WriteBegins
<1>2. ASSUME NEW f \in Files, OpenFile(r, f) PROVE Types'
  <2> DEFINE new == [op[r] EXCEPT !.at = "copying", !.cur = f]
  <2>1. new \in Shapely /\ Create(r, Target(new), file[f], new)
    BY <1>2, OpenedIs
  <2> HIDE DEF new
  <2> QED
    BY <1>2, <2>1, CreateKeeps DEF OpenFile
<1> QED
  BY <1>1, <1>2

LEMMA CloseTypes ==
  ASSUME Types, NEW r \in Ops, CopyFile(r) \/ WriteFile(r)
  PROVE  Types'
<1>1. op[r] \in Shapely /\ op[r].at # "idle"
  BY DEF Types, CopyFile, WriteFile
<1>2. CASE CopyFile(r)
  <2>1. op[r].at = "copying" /\ op[r].cur \in Files /\ op[r].kind \in {"copy", "move"}
    BY <1>1, <1>2, OpPaths DEF CopyFile, Shapely, Shape
  <2>2. file[op[r].cur] \in Data \cup {Upload, Nothing, Torn}
    BY <2>1 DEF Types
  <2>3. file' \in [Files -> Data \cup {Upload, Nothing, Torn}]
    BY <1>2, <2>2 DEF CopyFile, Closed, Types
  <2> DEFINE new == [op[r] EXCEPT !.at = "copy", !.cur = Nothing, !.mixed = FALSE,
                                  !.todo = @ \ {op[r].cur}]
  <2>4. op' = [op EXCEPT ![r] = new]
    BY <1>2 DEF CopyFile
  <2>5. /\ new \in OpRecord
        /\ new.kind = op[r].kind /\ new.src = op[r].src /\ new.dst = op[r].dst
        /\ new.at = "copy" /\ new.todo \subseteq op[r].todo
    BY <1>1 DEF Shapely, OpRecord
  <2> HIDE DEF new
  <2>6. Shape(new)
    BY <1>1, <2>1, <2>5 DEF Shapely, Shape, CommandOf
  <2>7. op' \in [Ops -> Shapely]
    BY <2>4, <2>5, <2>6 DEF Types, Shapely
  <2> QED
    BY <1>2, <2>3, <2>7 DEF CopyFile, Types
<1>3. CASE WriteFile(r)
  <2>1. file' \in [Files -> Data \cup {Upload, Nothing, Torn}]
    BY <1>3 DEF WriteFile, Closed, Types
  <2> QED
    BY <1>3, <2>1, DoneKeeps DEF WriteFile, Types
<1> QED
  BY <1>2, <1>3

LEMMA RenameTypes ==
  ASSUME Types, NEW r \in Ops, Rename(r)
  PROVE  Types'
<1> DEFINE p == op[r].src
           q == op[r].dst
           image == [f \in Present(p) |-> Image(p, q, f)]
<1>1. op[r] \in Shapely /\ op[r].at = "start" /\ op[r].kind \in {"move", "rename"}
  BY DEF Types, Rename
<1>2. p \in Paths /\ q \in Paths /\ FilesIn(p) \subseteq Files
  BY <1>1, OpPaths
<1>3. file' = [g \in Files |->
          IF \E f \in Present(p) : image[f] = g
          THEN file[CHOOSE f \in Present(p) : image[f] = g]
          ELSE IF g \in Present(p) THEN Nothing ELSE file[g]]
  BY DEF Rename
<1>4. Present(p) \subseteq Files
  BY <1>2 DEF Present
<1>5. /\ folders' = IF p \in Folders THEN (folders \ {p}) \cup {q} ELSE folders
      /\ CanRename(r) /\ Done(r) /\ UNCHANGED spoiled
      /\ \E contents : Asked(contents)
  BY DEF Rename
<1>6. p \in Folders => q \in Folders
  BY <1>5 DEF CanRename
<1> HIDE DEF p, q
<1>7. file' \in [Files -> Data \cup {Upload, Nothing, Torn}]
  <2> HIDE DEF image
  <2>1. \A g \in Files : (\E f \in Present(p) : image[f] = g) =>
           file[CHOOSE f \in Present(p) : image[f] = g] \in Data \cup {Upload, Nothing, Torn}
    BY <1>4 DEF Types
  <2> QED
    BY <1>3, <2>1 DEF Types
<1> QED
  BY <1>5, <1>6, <1>7, DoneKeeps DEF Types, Asked

LEMMA GoesOn ==
  ASSUME Types, NEW r \in Ops,
         \/ RenameFails(r) \/ CopyBegins(r) \/ OpenFails(r) \/ CopyFails(r) \/ Copied(r)
         \/ DeleteBegins(r) \/ RemoveEnds(r) \/ \E f \in Files : Remove(r, f)
  PROVE  Types'
<1>1. op[r] \in Shapely
  BY DEF Types
<1>2. op[r] \in OpRecord /\ op[r] = [op[r] EXCEPT !.todo = op[r].todo]
  BY <1>1 DEF Shapely, OpRecord
<1>3. \A new \in Shapely : op' = [op EXCEPT ![r] = new] => op' \in [Ops -> Shapely]
  BY DEF Types
<1>4. \A p : Present(p) \subseteq FilesIn(p)
  BY DEF Present
<1>5. CASE RenameFails(r)
  <2>1. CASE op[r].kind = "move" /\ Goto(r, "stat")
    <3> DEFINE new == [op[r] EXCEPT !.at = "stat"]
    <3>1. /\ new \in OpRecord
          /\ new.kind = op[r].kind /\ new.src = op[r].src /\ new.dst = op[r].dst
          /\ new.at = "stat"
      BY <1>1 DEF Shapely, OpRecord
    <3> HIDE DEF new
    <3>2. Shape(new)
      BY <1>1, <1>5, <2>1, <3>1 DEF RenameFails, Shapely, Shape, CommandOf
    <3>3. op' = [op EXCEPT ![r] = new]
      BY <2>1 DEF Goto, new
    <3> QED
      BY <1>3, <1>5, <3>1, <3>2, <3>3 DEF RenameFails, Types, Shapely
  <2> QED
    BY <1>5, <2>1, DoneKeeps DEF RenameFails, Types
<1>6. CASE CopyBegins(r)
  <2> DEFINE p == op[r].src
             new == [op[r] EXCEPT !.at = "copy", !.todo = Present(p)]
  <2>1. op[r].at # "idle" /\ op[r].kind \in {"copy", "move"}
    BY <1>1, <1>6 DEF CopyBegins, Shapely, Shape
  <2>2. new \in Shapely
    BY <1>1, <1>4, <2>1, Going
  <2>3. CASE op' = [op EXCEPT ![r] = new]
    <3>1. folders' \subseteq Folders
      BY <1>6 DEF CopyBegins, Types
    <3> QED
      BY <1>3, <1>6, <2>2, <2>3, <3>1 DEF CopyBegins, Types
  <2>4. CASE Done(r) /\ UNCHANGED folders
    BY <1>6, <2>4, DoneKeeps DEF CopyBegins, Types
  <2> QED
    BY <1>6, <2>3, <2>4 DEF CopyBegins
<1>7. CASE OpenFails(r) \/ CopyFails(r)
  BY <1>7, DoneKeeps DEF OpenFails, CopyFails, Types
<1>8. CASE Copied(r)
  <2> DEFINE new == [op[r] EXCEPT !.at = "remove", !.todo = Present(op[r].src)]
  <2>1. CASE op[r].kind = "move" /\ op' = [op EXCEPT ![r] = new]
    <3>1. new \in Shapely
      BY <1>1, <1>4, <1>8, <2>1, Going DEF Copied
    <3> QED
      BY <1>3, <1>8, <2>1, <3>1 DEF Copied, Types
  <2> QED
    BY <1>8, <2>1, DoneKeeps DEF Copied, Types
<1>9. CASE DeleteBegins(r)
  <2> DEFINE new == [op[r] EXCEPT !.at = "remove", !.todo = Present(op[r].src)]
  <2>1. new \in Shapely
    BY <1>1, <1>4, <1>9, Going DEF DeleteBegins
  <2> QED
    BY <1>3, <1>9, <2>1 DEF DeleteBegins, Types
<1>10. CASE RemoveEnds(r)
  BY <1>10, DoneKeeps DEF RemoveEnds, Types
<1>11. ASSUME NEW f \in Files, Remove(r, f) PROVE Types'
  <2> DEFINE new == [op[r] EXCEPT !.todo = @ \ {f}]
  <2>1. op' = [op EXCEPT ![r] = new]
    BY <1>11 DEF Remove
  <2>2. /\ new \in OpRecord
        /\ new.kind = op[r].kind /\ new.src = op[r].src /\ new.dst = op[r].dst
        /\ new.at = "remove" /\ new.todo \subseteq op[r].todo
    BY <1>1, <1>11 DEF Remove, Shapely, OpRecord
  <2> HIDE DEF new
  <2>3. Shape(new)
    BY <1>1, <1>11, <2>2 DEF Remove, Shapely, Shape, CommandOf
  <2>4. file' \in [Files -> Data \cup {Upload, Nothing, Torn}]
    BY <1>11 DEF Remove, Types
  <2>5. asked' \subseteq Data
    BY <1>11 DEF Remove, Asked, Types
  <2> QED
    BY <1>3, <1>11, <2>1, <2>2, <2>3, <2>4, <2>5 DEF Remove, Types, Shapely
<1> QED
  BY <1>5, <1>6, <1>7, <1>8, <1>9, <1>10, <1>11

LEMMA OtherTypes ==
  ASSUME Types, NEW r \in Ops,
         \/ Mkdir(r) \/ WriteFails(r) \/ ReadBegins(r) \/ ReadFile(r) \/ ListBegins(r)
         \/ List(r) \/ Refused(r) \/ \E c \in Commands : Execute(r, c)
  PROVE  Types'
<1>1. op[r] \in Shapely
  BY DEF Types
<1>2. CASE Mkdir(r)
  BY <1>2, DoneKeeps DEF Mkdir, Types
<1>3. CASE WriteFails(r) \/ ReadFile(r) \/ List(r) \/ Refused(r)
  BY <1>3, DoneKeeps DEF WriteFails, ReadFile, List, Refused, Types
<1>4. CASE ReadBegins(r)
  <2> DEFINE new == [op[r] EXCEPT !.at = "reading", !.cur = op[r].src]
  <2>1. /\ new \in OpRecord
        /\ new.kind = op[r].kind /\ new.src = op[r].src /\ new.dst = op[r].dst
        /\ new.at = "reading" /\ new.cur \in Files
    BY <1>1, <1>4 DEF ReadBegins, Shapely, OpRecord
  <2>2. op' = [op EXCEPT ![r] = new]
    BY <1>4 DEF ReadBegins
  <2> HIDE DEF new
  <2>3. Shape(new)
    BY <1>1, <1>4, <2>1 DEF ReadBegins, Shapely, Shape, CommandOf
  <2> QED
    BY <1>4, <2>1, <2>2, <2>3 DEF ReadBegins, Types, Shapely
<1>5. CASE ListBegins(r)
  <2> DEFINE new == [op[r] EXCEPT !.at = "listing"]
  <2>1. /\ new \in OpRecord
        /\ new.kind = op[r].kind /\ new.src = op[r].src /\ new.dst = op[r].dst
        /\ new.at = "listing"
    BY <1>1 DEF Shapely, OpRecord
  <2>2. op' = [op EXCEPT ![r] = new]
    BY <1>5 DEF ListBegins, Goto
  <2> HIDE DEF new
  <2>3. Shape(new)
    BY <1>1, <1>5, <2>1 DEF ListBegins, Shapely, Shape, CommandOf
  <2> QED
    BY <1>5, <2>1, <2>2, <2>3 DEF ListBegins, Types, Shapely
<1>6. ASSUME NEW c \in Commands, Execute(r, c) PROVE Types'
  <2> DEFINE new == [Idle EXCEPT !.kind = c.kind, !.src = c.src, !.dst = c.dst, !.at = "start"]
  <2>1. /\ new \in OpRecord
        /\ new.kind = c.kind /\ new.src = c.src /\ new.dst = c.dst /\ new.at = "start"
    BY CommandTypes DEF Idle, OpRecord
  <2>2. op' = [op EXCEPT ![r] = new]
    BY <1>6 DEF Execute
  <2> HIDE DEF new
  <2>3. CommandOf(new) = c
    BY <2>1, CommandTypes DEF CommandOf
  <2>4. Shape(new)
    BY <2>1, <2>3 DEF Shape
  <2> QED
    BY <1>6, <2>1, <2>2, <2>4 DEF Execute, Types, Shapely
<1> QED
  BY <1>2, <1>3, <1>4, <1>5, <1>6

LEMMA NextTypes == Types /\ [FilesNext]_fileVars => Types'
<1>1. ASSUME Types, AgentDies PROVE Types'
  BY <1>1, IdleIs DEF AgentDies, Types
<1>2. ASSUME Types, UNCHANGED fileVars PROVE Types'
  BY <1>2 DEF Types, fileVars
<1>3. ASSUME Types, NEW r \in Ops, OpStep(r) PROVE Types'
  BY <1>3, OpenTypes, CloseTypes, RenameTypes, GoesOn, OtherTypes DEF OpStep
<1> QED
  BY <1>1, <1>2, <1>3, OtherTypes DEF FilesNext

\* The file system, and every goroutine that executes a command, have their type; a
\* goroutine is only where its command leads it (fsops.go).
THEOREM FilesTypeCorrect == FilesSpec => []FilesTypeOK
<1>1. Types => FilesTypeOK
  BY DEF Types, FilesTypeOK, Shapely
<1> QED
  BY <1>1, InitTypes, NextTypes, PTL DEF FilesSpec

-----------------------------------------------------------------------------
(* Nothing is lost.  S holds the folders that the commands empty.          *)

Inside(S) == {f \in Files : f[1] \in S}

\* The files that a rename may take out of their place within S: nothing comes there.
Leaves(S) ==
  {f \in Inside(S) :
     \E c \in Commands : c.kind = "rename" /\ c.src = f /\ FolderOf(c.dst) \in S}

Writing(r) == op[r].at \in {"copying", "writing"}

\* A file that is being written holds nothing whole, and one that is being copied is
\* there; two who write different contents into one file know it of each other, and
\* these contents were asked for.
WritingInv ==
  /\ \A r \in Ops : Writing(r) => file[Target(op[r])] = Torn
  /\ \A r \in Ops : op[r].at = "copying" => file[op[r].cur] # Nothing
  /\ \A r \in Ops : Writing(r) /\ op[r].mixed => Written(r) \notin Data \ asked
  /\ \A q, r \in Ops : Writing(q) /\ Writing(r) /\ Target(op[q]) = Target(op[r])
                       /\ Written(q) # Written(r) => op[q].mixed

Whole(v) == \E f \in Files : file[f] = v

\* Content v has arrived outside S, or is on its way from a file that is open.
Landed(S, v) ==
  \/ \E g \in Files \ Inside(S) : file[g] = v
  \/ \E q \in Ops : op[q].at = "copying" /\ file[op[q].cur] = v

\* What a move that copies will do for content v of file f in its source: it will be
\* copied, or has landed, or the move will fail for want of another file.
Cared(S, r, f, v) ==
  \/ op[r].at # "remove" /\ f \in op[r].todo
  \/ Landed(S, v)
  \/ op[r].at # "remove" /\ \E h \in op[r].todo \cap Leaves(S) : file[h] = Nothing

Moving(r) == op[r].kind = "move" /\ op[r].at \in {"copy", "copying", "remove"}

MoveInv(S, r) ==
  Moving(r) =>
    \A f \in FilesIn(op[r].src) : file[f] \in Data \ asked => Cared(S, r, f, file[f])

LossInv(S) ==
  ~spoiled => (\A v \in Data \ asked : Whole(v)) /\ \A r \in Ops : MoveInv(S, r)

FilesInv(S) == Types /\ WritingInv /\ LossInv(S)

\* What is copied is in S, and what is written is not.
LEMMA Sides ==
  ASSUME NEW S, OneWay(S), NEW o \in Shapely
  PROVE  /\ o.at = "copying" => o.cur \in Inside(S)
         /\ o.at \in {"copying", "writing"} => Target(o) \in Files \ Inside(S)
         /\ o.at \in {"copy", "copying", "remove"} /\ o.kind \in {"copy", "move"}
              => FilesIn(o.src) \subseteq Inside(S)
<1>1. Shape(o) /\ o \in OpRecord
  BY DEF Shapely
<1>2. CASE o.at \in {"copy", "copying", "remove"} /\ o.kind \in {"copy", "move"}
  <2>1. CommandOf(o) \in Commands
    BY <1>1, <1>2 DEF Shape
  <2>2. FolderOf(o.src) \in S /\ FolderOf(o.dst) \notin S
    BY <1>2, <2>1 DEF OneWay, CommandOf
  <2>3. o.src \in Paths /\ o.dst \in Paths
    BY <1>2, OpPaths
  <2>4. FilesIn(o.src) \subseteq Inside(S)
    BY <2>2, <2>3 DEF FilesIn, FolderOf, Inside, Paths, Files
  <2>5. CASE o.at = "copying"
    <3>1. o.cur \in FilesIn(o.src) /\ Target(o) \in Files /\ Target(o) = Image(o.src, o.dst, o.cur)
      BY <1>1, <2>5 DEF Shape, Target
    <3>2. Target(o)[1] \notin S
      <4>1. CASE o.src \in Folders
        <5>1. Target(o) = <<o.dst, o.cur[2]>>
          BY <3>1, <4>1 DEF Image
        <5>2. o.dst \in Folders
          BY <3>1, <5>1 DEF Files
        <5> QED
          BY <2>2, <5>1, <5>2 DEF FolderOf
      <4>2. CASE o.src \notin Folders
        <5>1. Target(o) = o.dst /\ o.dst \notin Folders
          BY <3>1, <4>2, PathAssumption DEF Image, Files
        <5> QED
          BY <2>2, <5>1 DEF FolderOf
      <4> QED
        BY <4>1, <4>2
    <3> QED
      BY <2>4, <2>5, <3>1, <3>2 DEF Inside
  <2> QED
    BY <1>2, <2>4, <2>5
<1>3. CASE o.at = "writing"
  <2>1. CommandOf(o) \in Commands /\ o.kind = "write" /\ o.dst \in Files /\ Target(o) = o.dst
    BY <1>1, <1>3 DEF Shape, Target
  <2>2. FolderOf(o.dst) \notin S
    BY <2>1 DEF OneWay, CommandOf
  <2>3. o.dst \notin Folders
    BY <2>1, PathAssumption DEF Files
  <2> QED
    BY <1>3, <2>1, <2>2, <2>3 DEF FolderOf, Inside
<1> QED
  BY <1>1, <1>2, <1>3 DEF Shape

\* Goroutines that go on copying or writing.
LEMMA WritersAre ==
  ASSUME NEW r \in Ops, NEW g
  PROVE  Writes(r, g) <=> Writing(r) /\ g = Target(op[r])
  BY DEF Writes, Writing, Target

\* A step that changes no file and begins no writing.
LEMMA QuietWriting ==
  ASSUME WritingInv, UNCHANGED <<file, asked>>,
         \A q \in Ops : op'[q] = op[q] \/ op'[q].at \notin {"copying", "writing"}
  PROVE  WritingInv'
<1>1. \A q \in Ops : Writing(q)' => op'[q] = op[q] /\ Writing(q)
  BY DEF Writing
<1>2. \A q \in Ops : op'[q] = op[q] => Written(q)' = Written(q)
  BY DEF Written
<1>3. \A q \in Ops : op'[q].at = "copying" => op'[q] = op[q]
  OBVIOUS
<1> QED
  BY <1>1, <1>2, <1>3 DEF WritingInv

\* ... and ends no copying: what a move has cared for, it has.
LEMMA QuietLoss ==
  ASSUME NEW S, LossInv(S), UNCHANGED <<file, asked, spoiled>>, NEW r \in Ops,
         op[r].at # "copying", \A q \in Ops \ {r} : op'[q] = op[q], MoveInv(S, r)'
  PROVE  LossInv(S)'
<1>1. \A v : Landed(S, v) => Landed(S, v)'
  BY DEF Landed
<1>2. \A v : Whole(v)' <=> Whole(v)
  BY DEF Whole
<1>3. ASSUME NEW q \in Ops \ {r}, MoveInv(S, q) PROVE MoveInv(S, q)'
  BY <1>1, <1>3 DEF MoveInv, Moving, Cared
<1> QED
  BY <1>2, <1>3 DEF LossInv

\* What a step leaves of the goroutines other than r: at most they learn that they mix.
Alike(q) ==
  /\ op'[q].kind = op[q].kind /\ op'[q].src = op[q].src /\ op'[q].dst = op[q].dst
  /\ op'[q].at = op[q].at /\ op'[q].todo = op[q].todo /\ op'[q].cur = op[q].cur
  /\ op[q].mixed => op'[q].mixed

LEMMA AlikeIs ==
  ASSUME NEW q \in Ops, Alike(q), op[q].at = "copying" => file'[op[q].cur] = file[op[q].cur]
  PROVE  /\ Writing(q)' <=> Writing(q)
         /\ Target(op'[q]) = Target(op[q])
         /\ Writing(q) => Written(q)' = Written(q)
  BY DEF Alike, Writing, Target, Written

\* r opens g for content, which is that of file f in S or an upload.
LEMMA CreateInv ==
  ASSUME NEW S, OneWay(S), FilesInv(S), NEW r \in Ops, NEW opened \in Shapely,
         opened.at \in {"copying", "writing"}, ~Writing(r),
         NEW content, content = IF opened.at = "writing" THEN Upload ELSE file[opened.cur],
         opened.at = "copying" => content # Nothing,
         Create(r, Target(opened), content, opened), UNCHANGED <<folders, spoiled>>,
         Moving(r)' => /\ Moving(r) /\ op[r].at # "remove"
                       /\ opened.todo = op[r].todo /\ opened.src = op[r].src
  PROVE  WritingInv' /\ LossInv(S)'
<1> DEFINE g == Target(opened)
           clash == Clash(r, g, content)
<1> USE DEF FilesInv
<1>1. /\ file' = [file EXCEPT ![g] = Torn]
      /\ asked' = asked \cup ((({file[g]} \ {content}) \cup {Written(q) : q \in clash}
                               \cup {v \in {content} : clash # {}}) \cap Data)
      /\ \A q \in Ops : op'[q] = IF q = r THEN [opened EXCEPT !.mixed = clash # {}]
                                 ELSE IF q \in clash THEN [op[q] EXCEPT !.mixed = TRUE]
                                 ELSE op[q]
  BY DEF Create, Asked
<1>2. g \in Files \ Inside(S) /\ (opened.at = "copying" => opened.cur \in Inside(S))
  BY Sides
<1>3. \A q \in Ops : op[q] \in Shapely /\ op[q] \in OpRecord
  BY DEF Types, Shapely
<1>4. \A q \in clash : q \in Ops \ {r} /\ Writing(q) /\ Target(op[q]) = g /\ Written(q) # content
  BY WritersAre DEF Clash
<1>5. \A q \in Ops \ {r} : Writing(q) /\ Target(op[q]) = g /\ Written(q) # content => q \in clash
  BY WritersAre DEF Clash
<1> HIDE DEF clash
<1>6. ASSUME NEW q \in Ops \ {r}
      PROVE  Alike(q) /\ (q \in clash => op'[q].mixed) /\ (q \notin clash => op'[q] = op[q])
  <2>1. op'[q] = IF q \in clash THEN [op[q] EXCEPT !.mixed = TRUE] ELSE op[q]
    BY <1>1
  <2> QED
    BY <1>3, <2>1 DEF Alike, OpRecord
<1>7. /\ op'[r].kind = opened.kind /\ op'[r].src = opened.src /\ op'[r].dst = opened.dst
      /\ op'[r].at = opened.at /\ op'[r].todo = opened.todo /\ op'[r].cur = opened.cur
      /\ op'[r].mixed = (clash # {})
  <2>1. op'[r] = [opened EXCEPT !.mixed = clash # {}] /\ opened \in OpRecord
    BY <1>1 DEF Shapely
  <2> QED
    BY <2>1 DEF OpRecord
<1> HIDE DEF g
<1>8. \A f \in Inside(S) : f \in Files /\ file'[f] = file[f]
  BY <1>1, <1>2 DEF Types, Inside
<1>9. file'[g] = Torn /\ \A f \in Files \ {g} : file'[f] = file[f]
  BY <1>1, <1>2 DEF Types
<1>10. \A q \in Ops : op[q].at = "copying" => op[q].cur \in Inside(S)
  BY <1>3, Sides
<1>11. \A q \in Ops \ {r} : /\ Writing(q)' <=> Writing(q)
                            /\ Target(op'[q]) = Target(op[q])
                            /\ Writing(q) => Written(q)' = Written(q)
  BY <1>6, <1>8, <1>10, AlikeIs
<1>12. Writing(r)' /\ Target(op'[r]) = g /\ Written(r)' = content
  BY <1>2, <1>7, <1>8 DEF Writing, Target, Written, g
<1>13. WritingInv'
  <2>1. ASSUME NEW q \in Ops, Writing(q)' PROVE file'[Target(op'[q])] = Torn
    <3>1. CASE q = r
      BY <1>9, <1>12, <3>1
    <3>2. CASE q # r
      <4>1. Writing(q) /\ Target(op'[q]) = Target(op[q]) /\ file[Target(op[q])] = Torn
        BY <1>11, <2>1, <3>2 DEF WritingInv
      <4>2. Target(op[q]) \in Files
        BY <1>3, <4>1, Sides DEF Writing
      <4> QED
        BY <1>9, <4>1, <4>2
    <3> QED
      BY <3>1, <3>2
  <2>2. ASSUME NEW q \in Ops, op'[q].at = "copying" PROVE file'[op'[q].cur] # Nothing
    <3>1. CASE q = r
      BY <1>2, <1>7, <1>8, <2>2, <3>1
    <3>2. CASE q # r
      BY <1>6, <1>8, <1>10, <2>2, <3>2 DEF WritingInv, Alike
    <3> QED
      BY <3>1, <3>2
  <2>3. ASSUME NEW q \in Ops, Writing(q)', op'[q].mixed PROVE Written(q)' \notin Data \ asked'
    <3>1. CASE q = r
      BY <1>1, <1>7, <1>12, <2>3, <3>1
    <3>2. CASE q \in clash
      BY <1>1, <1>4, <1>11, <3>2
    <3>3. CASE q \in Ops \ {r} /\ q \notin clash
      BY <1>1, <1>6, <1>11, <2>3, <3>3 DEF WritingInv
    <3> QED
      BY <3>1, <3>2, <3>3
  <2>4. ASSUME NEW q \in Ops, NEW p \in Ops, Writing(q)', Writing(p)',
               Target(op'[q]) = Target(op'[p]), Written(q)' # Written(p)'
        PROVE  op'[q].mixed
    <3>1. CASE q = r
      BY <1>5, <1>7, <1>11, <1>12, <2>4, <3>1
    <3>2. CASE p = r /\ q # r
      BY <1>5, <1>6, <1>11, <1>12, <2>4, <3>2
    <3>3. CASE p # r /\ q # r
      BY <1>6, <1>11, <2>4, <3>3 DEF WritingInv, Alike
    <3> QED
      BY <3>1, <3>2, <3>3
  <2> QED
    BY <2>1, <2>2, <2>3, <2>4 DEF WritingInv
<1>14. ASSUME NEW v \in Data \ asked', NEW f \in Files, file[f] = v
       PROVE  file'[f] = v \/ (f = g /\ content = v /\ Landed(S, v)')
  <2>1. CASE f = g
    <3>1. content = v
      BY <1>1, <1>14, <2>1
    <3>2. opened.at = "copying" /\ file[opened.cur] = v
      BY <3>1, ContentAssumption
    <3>3. op'[r].at = "copying" /\ file'[op'[r].cur] = v
      BY <1>2, <1>7, <1>8, <3>2
    <3> QED
      BY <2>1, <3>1, <3>3 DEF Landed
  <2>2. CASE f # g
    BY <1>9, <1>14, <2>2
  <2> QED
    BY <2>1, <2>2
<1>15. ASSUME NEW v \in Data \ asked', Landed(S, v) PROVE Landed(S, v)'
  <2>1. ASSUME NEW h \in Files \ Inside(S), file[h] = v PROVE Landed(S, v)'
    BY <1>14, <2>1 DEF Landed
  <2>2. ASSUME NEW q \in Ops, op[q].at = "copying", file[op[q].cur] = v PROVE Landed(S, v)'
    <3>1. q # r
      BY <2>2 DEF Writing
    <3>2. op'[q].at = "copying" /\ file'[op'[q].cur] = v
      BY <1>6, <1>8, <1>10, <2>2, <3>1 DEF Alike
    <3> QED
      BY <3>2 DEF Landed
  <2> QED
    BY <1>15, <2>1, <2>2 DEF Landed
<1>16. \A v : Landed(S, v)' => Whole(v)'
  <2>1. \A q \in Ops : op'[q].at = "copying" => op'[q].cur \in Files
    BY <1>2, <1>6, <1>7, <1>8, <1>10 DEF Alike
  <2> QED
    BY <2>1 DEF Landed, Whole
<1>17. ASSUME ~spoiled, NEW v \in Data \ asked' PROVE Whole(v)'
  <2>1. v \in Data \ asked
    BY <1>1, <1>17
  <2>2. PICK f \in Files : file[f] = v
    BY <1>17, <2>1 DEF LossInv, Whole
  <2>3. CASE file'[f] = v
    BY <2>3 DEF Whole
  <2>4. CASE Landed(S, v)'
    BY <1>16, <2>4
  <2> QED
    BY <1>14, <1>17, <2>2, <2>3, <2>4
<1>18. ASSUME ~spoiled, NEW q \in Ops PROVE MoveInv(S, q)'
  <2>1. SUFFICES ASSUME Moving(q)', NEW f \in FilesIn(op'[q].src), file'[f] \in Data \ asked'
                 PROVE  Cared(S, q, f, file[f])' /\ file'[f] = file[f]
    BY DEF MoveInv, Moving, Cared
  <2>2. /\ Moving(q) /\ op'[q].src = op[q].src /\ op'[q].todo = op[q].todo
        /\ op'[q].at # "remove" <=> op[q].at # "remove"
    <3>1. CASE q = r
      BY <1>7, <2>1, <3>1
    <3>2. CASE q # r
      BY <1>6, <2>1, <3>2 DEF Alike, Moving
    <3> QED
      BY <3>1, <3>2
  <2>3. FilesIn(op[q].src) \subseteq Inside(S)
    BY <1>3, <2>2, Sides DEF Moving
  <2>4. file'[f] = file[f] /\ file[f] \in Data \ asked
    BY <1>1, <1>8, <2>1, <2>2, <2>3
  <2>5. Cared(S, q, f, file[f])
    BY <1>18, <2>1, <2>2, <2>4 DEF LossInv, MoveInv
  <2>6. \A h \in Leaves(S) : file'[h] = file[h]
    BY <1>8 DEF Leaves
  <2>7. Landed(S, file[f]) => Landed(S, file[f])'
    BY <1>15, <2>1, <2>4
  <2> QED
    BY <2>2, <2>4, <2>5, <2>6, <2>7 DEF Cared
<1> QED
  BY <1>13, <1>17, <1>18 DEF LossInv

\* r closes the file that it has written.
LEMMA CloseInv ==
  ASSUME NEW S, OneWay(S), FilesInv(S), NEW r \in Ops, Writing(r),
         NEW held \in Closed(r, Target(op[r]), Written(r)),
         file' = [file EXCEPT ![Target(op[r])] = held],
         UNCHANGED <<asked, spoiled>>,
         \A q \in Ops \ {r} : op'[q] = op[q],
         ~Writing(r)',
         Moving(r)' => /\ Moving(r) /\ op'[r].at = "copy" /\ op[r].at = "copying"
                       /\ op'[r].src = op[r].src /\ op'[r].todo = op[r].todo \ {op[r].cur}
  PROVE  WritingInv' /\ LossInv(S)'
<1> DEFINE g == Target(op[r])
<1> USE DEF FilesInv
<1>1. \A q \in Ops : op[q] \in Shapely
  BY DEF Types
<1>2. g \in Files \ Inside(S) /\ file[g] = Torn
  BY <1>1, Sides DEF Writing, WritingInv
<1>3. \A q \in Ops : op[q].at = "copying" => op[q].cur \in Inside(S)
  BY <1>1, Sides
<1>4. held \in {Written(r), Torn}
  BY DEF Closed
<1>5. ASSUME NEW q \in Ops \ {r}, Writing(q), Target(op[q]) = g PROVE held = Torn
  <2>1. Writes(q, g)
    BY <1>5, WritersAre
  <2> QED
    BY <2>1 DEF Closed
<1>6. (\A q \in Ops \ {r} : ~(Writing(q) /\ Target(op[q]) = g)) /\ ~op[r].mixed
        => held = Written(r)
  BY WritersAre DEF Closed
<1> HIDE DEF g
<1>7. file'[g] = held /\ \A f \in Files \ {g} : file'[f] = file[f]
  BY <1>2 DEF Types, g
<1>8. \A f \in Inside(S) : f \in Files /\ file'[f] = file[f]
  BY <1>2, <1>7 DEF Inside
<1>9. \A q \in Ops \ {r} : op'[q] = op[q] /\ (Writing(q)' <=> Writing(q))
                           /\ (Writing(q) => Written(q)' = Written(q))
  BY <1>3, <1>8 DEF Writing, Written
<1>10. WritingInv'
  <2>1. ASSUME NEW q \in Ops, Writing(q)' PROVE file'[Target(op'[q])] = Torn
    <3>1. q # r /\ Writing(q) /\ file[Target(op[q])] = Torn
      BY <1>9, <2>1 DEF WritingInv
    <3>2. Target(op[q]) \in Files
      BY <1>1, <3>1, Sides DEF Writing
    <3> QED
      BY <1>5, <1>7, <1>9, <3>1, <3>2
  <2>2. ASSUME NEW q \in Ops, op'[q].at = "copying" PROVE file'[op'[q].cur] # Nothing
    <3>1. q # r
      BY <2>2 DEF Writing
    <3> QED
      BY <1>3, <1>8, <1>9, <2>2, <3>1 DEF WritingInv
  <2>3. ASSUME NEW q \in Ops, Writing(q)', op'[q].mixed PROVE Written(q)' \notin Data \ asked'
    BY <1>9, <2>3 DEF WritingInv
  <2>4. ASSUME NEW q \in Ops, NEW p \in Ops, Writing(q)', Writing(p)',
               Target(op'[q]) = Target(op'[p]), Written(q)' # Written(p)'
        PROVE  op'[q].mixed
    BY <1>9, <2>4 DEF WritingInv
  <2> QED
    BY <2>1, <2>2, <2>3, <2>4 DEF WritingInv
<1>11. ASSUME NEW v \in Data \ asked, Landed(S, v) PROVE Landed(S, v)'
  <2>1. v # Torn /\ v # Upload
    BY ContentAssumption
  <2>2. ASSUME NEW h \in Files \ Inside(S), file[h] = v PROVE Landed(S, v)'
    BY <1>2, <1>7, <2>1, <2>2 DEF Landed
  <2>3. ASSUME NEW q \in Ops \ {r}, op[q].at = "copying", file[op[q].cur] = v
        PROVE  Landed(S, v)'
    BY <1>3, <1>8, <1>9, <2>3 DEF Landed
  <2>4. CASE op[r].at = "copying" /\ file[op[r].cur] = v
    <3>1. Written(r) = v
      BY <2>4 DEF Written
    <3>2. ~op[r].mixed
      BY <3>1 DEF WritingInv
    <3>3. CASE \E q \in Ops \ {r} : Writing(q) /\ Target(op[q]) = g
      <4>1. PICK q \in Ops \ {r} : Writing(q) /\ Target(op[q]) = g
        BY <3>3
      <4>2. Written(q) = v
        BY <3>1, <3>2, <4>1 DEF WritingInv, g
      <4>3. op[q].at = "copying" /\ file[op[q].cur] = v
        BY <2>1, <4>1, <4>2 DEF Written, Writing
      <4> QED
        BY <2>3, <4>3
    <3>4. CASE \A q \in Ops \ {r} : ~(Writing(q) /\ Target(op[q]) = g)
      BY <1>2, <1>6, <1>7, <3>1, <3>2, <3>4 DEF Landed
    <3> QED
      BY <3>3, <3>4
  <2> QED
    BY <1>11, <2>2, <2>3, <2>4 DEF Landed
<1>12. ASSUME ~spoiled, NEW v \in Data \ asked PROVE Whole(v)'
  <2>1. PICK f \in Files : file[f] = v
    BY <1>12 DEF LossInv, Whole
  <2>2. f # g
    BY <1>2, <2>1, ContentAssumption
  <2> QED
    BY <1>7, <2>1, <2>2 DEF Whole
<1>13. ASSUME ~spoiled, NEW q \in Ops PROVE MoveInv(S, q)'
  <2>1. SUFFICES ASSUME Moving(q)', NEW f \in FilesIn(op'[q].src), file'[f] \in Data \ asked'
                 PROVE  Cared(S, q, f, file[f])' /\ file'[f] = file[f]
    BY DEF MoveInv, Moving, Cared
  <2>2. /\ Moving(q) /\ op'[q].src = op[q].src
        /\ op'[q].at # "remove" <=> op[q].at # "remove"
        /\ op'[q].todo = IF q = r THEN op[r].todo \ {op[r].cur} ELSE op[q].todo
    <3>1. CASE q = r
      BY <2>1, <3>1
    <3>2. CASE q # r
      BY <1>9, <2>1, <3>2 DEF Moving
    <3> QED
      BY <3>1, <3>2
  <2>3. FilesIn(op[q].src) \subseteq Inside(S)
    BY <1>1, <2>2, Sides DEF Moving
  <2>4. file'[f] = file[f] /\ file[f] \in Data \ asked
    BY <1>8, <2>1, <2>2, <2>3
  <2>5. Cared(S, q, f, file[f])
    BY <1>13, <2>1, <2>2, <2>4 DEF LossInv, MoveInv
  <2>6. \A h \in Leaves(S) : file'[h] = file[h]
    BY <1>8 DEF Leaves
  <2>7. Landed(S, file[f]) => Landed(S, file[f])'
    BY <1>11, <2>4
  <2>8. CASE q = r
    <3>1. op[r].at = "copying" /\ file[op[r].cur] # Nothing
      BY <2>1, <2>8 DEF WritingInv
    <3>2. f = op[r].cur => Landed(S, file[f])
      BY <3>1 DEF Landed
    <3> QED
      BY <2>2, <2>4, <2>5, <2>6, <2>7, <2>8, <3>1, <3>2 DEF Cared
  <2>9. CASE q # r
    BY <2>2, <2>4, <2>5, <2>6, <2>7, <2>9 DEF Cared
  <2> QED
    BY <2>8, <2>9
<1> QED
  BY <1>10, <1>12, <1>13 DEF LossInv

\* r removes a file that nobody has open.
LEMMA RemoveInv ==
  ASSUME NEW S, OneWay(S), FilesInv(S), NEW r \in Ops, NEW f \in Files, Remove(r, f)
  PROVE  WritingInv' /\ LossInv(S)'
<1> USE DEF FilesInv
<1>1. \A q \in Ops : op[q] \in Shapely
  BY DEF Types
<1>2. /\ op[r].at = "remove" /\ f \in op[r].todo /\ UNCHANGED spoiled
      /\ op' = [op EXCEPT ![r].todo = @ \ {f}]
  BY DEF Remove
<1>3. \A q \in Ops \ {r} : op'[q] = op[q]
  BY <1>2 DEF Types
<1>4. op'[r].at = "remove" /\ op'[r].kind = op[r].kind /\ op'[r].src = op[r].src
  <2>1. op'[r] = [op[r] EXCEPT !.todo = @ \ {f}] /\ op[r] \in OpRecord
    BY <1>1, <1>2 DEF Types, Shapely
  <2> QED
    BY <1>2, <2>1 DEF OpRecord
<1>5. CASE UNCHANGED <<file, asked>>
  <2>1. WritingInv'
    <3>1. \A q \in Ops : op'[q] = op[q] \/ op'[q].at \notin {"copying", "writing"}
      BY <1>3, <1>4
    <3>2. WritingInv
      OBVIOUS
    <3> QED
      BY <1>5, <3>1, <3>2, QuietWriting
  <2>2. CASE spoiled
    BY <1>2, <2>1, <2>2 DEF LossInv
  <2>3. CASE ~spoiled
    <3>1. \A v : Landed(S, v) => Landed(S, v)'
      BY <1>2, <1>3, <1>5 DEF Landed
    <3>2. MoveInv(S, r)
      BY <2>3 DEF LossInv
    <3>3. MoveInv(S, r)'
      BY <1>2, <1>4, <1>5, <3>1, <3>2 DEF MoveInv, Moving, Cared
    <3>4. LossInv(S) /\ UNCHANGED <<file, asked, spoiled>> /\ op[r].at # "copying"
      BY <1>2, <1>5
    <3> QED
      BY <1>3, <2>1, <3>3, <3>4, QuietLoss
  <2> QED
    BY <2>1, <2>2, <2>3
<1>6. CASE /\ ~OpenByOther(r, f)
           /\ file' = [file EXCEPT ![f] = Nothing]
           /\ Asked({v \in {file[f]} : op[r].kind = "delete"})
  <2>1. asked' = asked \cup {v \in {file[f]} : op[r].kind = "delete" /\ v \in Data}
    BY <1>6 DEF Asked
  <2>2. file'[f] = Nothing /\ \A h \in Files \ {f} : file'[h] = file[h]
    BY <1>6 DEF Types
  <2>3. ~Writing(r) /\ ~Writing(r)'
    BY <1>2, <1>4 DEF Writing
  <2>4. \A q \in Ops : Writing(q) => q # r /\ Target(op[q]) \in Files \ {f}
                                     /\ file'[Target(op[q])] = file[Target(op[q])]
    BY <1>1, <1>6, <2>2, <2>3, WritersAre, Sides DEF OpenByOther, Writing
  <2>5. \A q \in Ops : op[q].at = "copying" => q # r /\ op[q].cur \in Inside(S) \ {f}
                                               /\ file'[op[q].cur] = file[op[q].cur]
    BY <1>1, <1>2, <1>6, <2>2, Sides DEF OpenByOther, Reads, Inside
  <2>6. \A q \in Ops : Writing(q)' => op'[q] = op[q] /\ Writing(q) /\ Written(q)' = Written(q)
    BY <1>3, <2>3, <2>5 DEF Writing, Written
  <2>7. \A q \in Ops : op'[q].at = "copying" => op'[q] = op[q]
    BY <1>3, <1>4
  <2>8. WritingInv'
    BY <2>1, <2>4, <2>5, <2>6, <2>7 DEF WritingInv
  <2>9. ASSUME NEW v \in Data \ asked', Landed(S, v), ~spoiled PROVE Landed(S, v)'
    <3>1. ASSUME NEW g \in Files \ Inside(S), file[g] = v PROVE Landed(S, v)'
      <4>1. op[r].kind \in {"delete", "move"}
        BY <1>1, <1>2 DEF Shapely, Shape
      <4>2. f # g
        <5>1. CASE op[r].kind = "delete"
          BY <2>1, <2>9, <3>1, <5>1
        <5>2. CASE op[r].kind = "move"
          <6>1. f \in Inside(S)
            BY <1>1, <1>2, <5>2, Sides DEF Shapely, Shape
          <6> QED
            BY <3>1, <6>1
        <5> QED
          BY <4>1, <5>1, <5>2
      <4> QED
        BY <2>2, <3>1, <4>2 DEF Landed
    <3>2. ASSUME NEW q \in Ops, op[q].at = "copying", file[op[q].cur] = v PROVE Landed(S, v)'
      BY <1>3, <2>5, <3>2 DEF Landed
    <3> QED
      BY <2>9, <3>1, <3>2 DEF Landed
  <2>10. \A v : Landed(S, v)' => Whole(v)'
    BY <2>5, <2>7 DEF Landed, Whole, Inside
  <2>11. ASSUME ~spoiled, NEW v \in Data \ asked' PROVE Whole(v)'
    <3>1. v \in Data \ asked
      BY <2>1, <2>11
    <3>2. PICK h \in Files : file[h] = v
      BY <2>11, <3>1 DEF LossInv, Whole
    <3>3. CASE h # f
      BY <2>2, <3>2, <3>3 DEF Whole
    <3>4. CASE h = f
      <4>1. op[r].kind = "move"
        BY <1>1, <1>2, <2>1, <2>11, <3>2, <3>4 DEF Shapely, Shape
      <4>2. Moving(r) /\ f \in FilesIn(op[r].src)
        BY <1>1, <1>2, <4>1 DEF Moving, Shapely, Shape
      <4>3. Landed(S, v)
        BY <1>2, <2>11, <3>1, <3>2, <3>4, <4>2 DEF LossInv, MoveInv, Cared
      <4> QED
        BY <2>9, <2>10, <2>11, <4>3
    <3> QED
      BY <3>3, <3>4
  <2>12. ASSUME ~spoiled, NEW q \in Ops PROVE MoveInv(S, q)'
    <3>1. SUFFICES ASSUME Moving(q)', NEW h \in FilesIn(op'[q].src), file'[h] \in Data \ asked'
                   PROVE  Cared(S, q, h, file[h])' /\ file'[h] = file[h]
      BY DEF MoveInv, Moving, Cared
    <3>2. /\ Moving(q) /\ op'[q].src = op[q].src /\ op'[q].at = op[q].at
          /\ q # r => op'[q].todo = op[q].todo
      BY <1>2, <1>3, <1>4, <3>1 DEF Moving
    <3>3. FilesIn(op[q].src) \subseteq Inside(S)
      BY <1>1, <3>2, Sides DEF Moving
    <3>4. file'[h] = file[h] /\ file[h] \in Data \ asked
      BY <2>1, <2>2, <3>1, <3>2, <3>3, ContentAssumption DEF Inside
    <3>5. Cared(S, q, h, file[h])
      BY <2>12, <3>1, <3>2, <3>4 DEF LossInv, MoveInv
    <3>6. \A g \in Leaves(S) : file[g] = Nothing => file'[g] = Nothing
      BY <2>2 DEF Leaves, Inside
    <3>7. Landed(S, file[h]) => Landed(S, file[h])'
      BY <2>9, <2>12, <3>1, <3>4
    <3> QED
      BY <1>2, <3>2, <3>4, <3>5, <3>6, <3>7 DEF Cared
  <2> QED
    BY <1>2, <2>8, <2>11, <2>12 DEF LossInv
<1> QED
  BY <1>5, <1>6 DEF Remove

\* What a rename does: each file present takes its new place, which was asked for.
LEMMA RenameIs ==
  ASSUME Types, NEW r \in Ops, Rename(r),
         NEW p, p = op[r].src, NEW q, q = op[r].dst
  PROVE  /\ p \in Paths /\ q \in Paths /\ (p \in Folders <=> q \in Folders)
         /\ \A f \in Present(p) : /\ f \in FilesIn(p) /\ f \in Files /\ f[1] = FolderOf(p)
                                  /\ Image(p, q, f) \in Files
                                  /\ Image(p, q, f)[1] = FolderOf(q)
                                  /\ file'[Image(p, q, f)] = file[f]
                                  /\ ~OpenByOther(r, f) /\ ~OpenByOther(r, Image(p, q, f))
         /\ \A g \in Files : (\A f \in Present(p) : Image(p, q, f) # g) =>
                               file'[g] = IF g \in Present(p) THEN Nothing ELSE file[g]
         /\ p # q => \A f \in Present(p) : file[Image(p, q, f)] \in Data =>
                                             file[Image(p, q, f)] \in asked'
         /\ asked \subseteq asked' /\ UNCHANGED spoiled
         /\ p = q => file' = file /\ asked' = asked
         /\ op'[r] = Idle /\ \A s \in Ops \ {r} : op'[s] = op[s]
<1> DEFINE image == [f \in Present(p) |-> Image(p, q, f)]
<1>1. op[r] \in Shapely /\ op[r].at = "start" /\ op[r].kind \in {"move", "rename"}
  BY DEF Types, Rename
<1>2. p \in Paths /\ q \in Paths /\ FilesIn(p) \subseteq Files
  BY <1>1, OpPaths
<1>3. /\ file' = [g \in Files |->
          IF \E f \in Present(p) : image[f] = g
          THEN file[CHOOSE f \in Present(p) : image[f] = g]
          ELSE IF g \in Present(p) THEN Nothing ELSE file[g]]
      /\ Asked(IF p = q THEN {} ELSE {file[image[f]] : f \in Present(p)})
      /\ CanRename(r) /\ Done(r) /\ UNCHANGED spoiled
  BY DEF Rename
<1>4. /\ p \in Folders <=> q \in Folders
      /\ \A f \in Present(p) : ~OpenByOther(r, f) /\ ~OpenByOther(r, Image(p, q, f))
  BY <1>3 DEF CanRename
<1>5. ASSUME NEW f \in Present(p)
      PROVE  /\ f \in FilesIn(p) /\ f \in Files /\ f[1] = FolderOf(p)
             /\ Image(p, q, f) \in Files /\ Image(p, q, f)[1] = FolderOf(q)
             /\ p = q => Image(p, q, f) = f
             /\ \A h \in Present(p) : Image(p, q, h) = Image(p, q, f) => h = f
  <2>1. f \in FilesIn(p) /\ \A h \in Present(p) : h \in FilesIn(p)
    BY DEF Present
  <2>2. CASE p \in Folders
    BY <1>2, <1>4, <2>1, <2>2 DEF FilesIn, FolderOf, Image, Files
  <2>3. CASE p \notin Folders
    BY <1>2, <1>4, <2>1, <2>3 DEF FilesIn, FolderOf, Image, Files, Paths
  <2> QED
    BY <2>2, <2>3
<1>6. ASSUME NEW f \in Present(p) PROVE file'[Image(p, q, f)] = file[f]
  <2>1. image[f] = Image(p, q, f) /\ \A h \in Present(p) : image[h] = Image(p, q, f) => h = f
    BY <1>5
  <2> HIDE DEF image
  <2>2. (CHOOSE h \in Present(p) : image[h] = Image(p, q, f)) = f
    BY <2>1
  <2> QED
    BY <1>3, <1>5, <2>1, <2>2
<1>7. ASSUME NEW g \in Files, \A f \in Present(p) : Image(p, q, f) # g
      PROVE  file'[g] = IF g \in Present(p) THEN Nothing ELSE file[g]
  BY <1>3, <1>7
<1>8. p = q => file' = file
  <2> SUFFICES ASSUME p = q PROVE file' = file
    OBVIOUS
  <2>1. \A g \in Files : file'[g] = file[g]
    BY <1>5, <1>6, <1>7
  <2>2. DOMAIN file' = Files /\ file' = [g \in Files |-> file'[g]]
    BY <1>3
  <2> QED
    BY <2>1, <2>2 DEF Types
<1>9. /\ p # q => \A f \in Present(p) : file[Image(p, q, f)] \in Data =>
                                          file[Image(p, q, f)] \in asked'
      /\ asked \subseteq asked' /\ (p = q => asked' = asked)
  BY <1>3 DEF Asked
<1>10. op'[r] = Idle /\ \A s \in Ops \ {r} : op'[s] = op[s]
  BY <1>3 DEF Done, Types
<1> QED
  BY <1>2, <1>3, <1>4, <1>5, <1>6, <1>7, <1>8, <1>9, <1>10

LEMMA RenameInv ==
  ASSUME NEW S, OneWay(S), FilesInv(S), NEW r \in Ops, Rename(r)
  PROVE  WritingInv' /\ LossInv(S)'
<1> DEFINE p == op[r].src
           q == op[r].dst
           Taken(g) == \E f \in Present(p) : Image(p, q, f) = g
<1> USE DEF FilesInv
<1>1. /\ p \in Paths /\ q \in Paths /\ (p \in Folders <=> q \in Folders)
      /\ \A f \in Present(p) : /\ f \in FilesIn(p) /\ f \in Files /\ f[1] = FolderOf(p)
                               /\ Image(p, q, f) \in Files
                               /\ Image(p, q, f)[1] = FolderOf(q)
                               /\ file'[Image(p, q, f)] = file[f]
                               /\ ~OpenByOther(r, f) /\ ~OpenByOther(r, Image(p, q, f))
      /\ \A g \in Files : ~Taken(g) =>
                            file'[g] = IF g \in Present(p) THEN Nothing ELSE file[g]
      /\ p # q => \A g \in Files : Taken(g) /\ file[g] \in Data => file[g] \in asked'
      /\ asked \subseteq asked' /\ UNCHANGED spoiled
      /\ p = q => file' = file /\ asked' = asked
      /\ op'[r] = Idle /\ \A s \in Ops \ {r} : op'[s] = op[s]
  BY RenameIs
<1>2. /\ op[r].at = "start" /\ op[r].kind \in {"move", "rename"}
      /\ CommandOf(op[r]) \in Commands /\ \A s \in Ops : op[s] \in Shapely
  BY DEF Types, Rename, Shapely, Shape
<1>3. ~Writing(r) /\ ~Writing(r)' /\ ~Moving(r)'
  BY <1>1, <1>2 DEF Writing, Moving, Idle
<1>4. CASE p = q
  <2>1. \A s \in Ops : op'[s] = op[s] \/ op'[s].at \notin {"copying", "writing"}
    BY <1>1, <1>3 DEF Writing
  <2>2. WritingInv /\ LossInv(S) /\ UNCHANGED <<file, asked, spoiled>>
    BY <1>1, <1>4
  <2>3. WritingInv'
    BY <2>1, <2>2, QuietWriting
  <2>4. MoveInv(S, r)'
    BY <1>3 DEF MoveInv
  <2> QED
    BY <1>1, <1>2, <2>2, <2>3, <2>4, QuietLoss
<1>5. CASE p # q
  <2>1. /\ op[r].kind = "move" => FolderOf(p) \in S /\ FolderOf(q) \notin S
        /\ op[r].kind = "rename" /\ FolderOf(q) \in S =>
             /\ {p, q} \subseteq Files /\ p[1] = q[1]
             /\ \A d \in Commands : /\ d.kind = "rename" => d.dst # p
                                    /\ d.kind = "move" => d.src # q
    BY <1>2 DEF OneWay, CommandOf
  <2>2. ASSUME NEW g \in Inside(S), Taken(g)
        PROVE  /\ op[r].kind = "rename" /\ FolderOf(q) \in S /\ {p, q} \subseteq Files
               /\ g = q /\ p \in Present(p) /\ Present(p) \subseteq {p}
    <3>1. FolderOf(q) \in S /\ op[r].kind = "rename" /\ {p, q} \subseteq Files
      BY <1>1, <1>2, <2>1, <2>2 DEF Inside
    <3>2. p \notin Folders
      BY <3>1, PathAssumption DEF Files
    <3> QED
      BY <1>1, <2>2, <3>1, <3>2 DEF Image, FilesIn
  <2>3. \A g \in Files : OpenByOther(r, g) => ~Taken(g) /\ g \notin Present(p)
    BY <1>1
  <2>4. \A s \in Ops \ {r} : /\ Writing(s) => file'[Target(op[s])] = file[Target(op[s])]
                             /\ op[s].at = "copying" => file'[op[s].cur] = file[op[s].cur]
    <3>1. ASSUME NEW s \in Ops \ {r}, Writing(s)
          PROVE  file'[Target(op[s])] = file[Target(op[s])]
      <4>1. Target(op[s]) \in Files
        BY <1>2, <3>1, Sides DEF Writing
      <4>2. OpenByOther(r, Target(op[s]))
        BY <3>1, WritersAre DEF OpenByOther
      <4> QED
        BY <1>1, <2>3, <4>1, <4>2
    <3>2. ASSUME NEW s \in Ops \ {r}, op[s].at = "copying"
          PROVE  file'[op[s].cur] = file[op[s].cur]
      <4>1. op[s].cur \in Files
        BY <1>2, <3>2, Sides DEF Inside
      <4>2. OpenByOther(r, op[s].cur)
        BY <3>2 DEF OpenByOther, Reads
      <4> QED
        BY <1>1, <2>3, <4>1, <4>2
    <3> QED
      BY <3>1, <3>2
  <2>5. \A s \in Ops : Writing(s)' => s # r /\ op'[s] = op[s] /\ Writing(s)
                                      /\ Written(s)' = Written(s)
    BY <1>1, <1>3, <2>4 DEF Writing, Written
  <2>6. \A s \in Ops : op'[s].at = "copying" => s # r /\ op'[s] = op[s]
    BY <1>1, <1>3 DEF Writing
  <2>7. WritingInv'
    BY <1>1, <2>4, <2>5, <2>6 DEF WritingInv
  <2>8. ASSUME NEW v \in Data \ asked', NEW g \in Files, file[g] = v
        PROVE  IF g \in Present(p) THEN file'[Image(p, q, g)] = v
               ELSE ~Taken(g) /\ file'[g] = v
    BY <1>1, <1>5, <2>8
  <2>9. ASSUME NEW v \in Data \ asked', Landed(S, v) PROVE Landed(S, v)'
    <3>1. ASSUME NEW g \in Files \ Inside(S), file[g] = v PROVE Landed(S, v)'
      <4>1. CASE g \in Present(p)
        <5>1. FolderOf(p) \notin S
          BY <1>1, <3>1, <4>1 DEF Inside
        <5>2. FolderOf(q) \notin S
          <6>1. CASE FolderOf(q) \in S
            <7>1. {p, q} \subseteq Files /\ p[1] = q[1]
              BY <1>2, <2>1, <6>1
            <7>2. FolderOf(p) = FolderOf(q)
              BY <7>1, PathAssumption DEF FolderOf, Files
            <7> QED
              BY <5>1, <6>1, <7>2
          <6> QED
            BY <6>1
        <5>3. Image(p, q, g) \in Files \ Inside(S)
          BY <1>1, <4>1, <5>2 DEF Inside
        <5> QED
          BY <2>8, <2>9, <3>1, <4>1, <5>3 DEF Landed
      <4>2. CASE g \notin Present(p)
        BY <2>8, <2>9, <3>1, <4>2 DEF Landed
      <4> QED
        BY <4>1, <4>2
    <3>2. ASSUME NEW s \in Ops, op[s].at = "copying", file[op[s].cur] = v PROVE Landed(S, v)'
      BY <1>1, <1>2, <2>4, <3>2 DEF Landed
    <3> QED
      BY <2>9, <3>1, <3>2 DEF Landed
  <2>10. ASSUME ~spoiled, NEW v \in Data \ asked' PROVE Whole(v)'
    <3>1. PICK g \in Files : file[g] = v
      BY <1>1, <2>10 DEF LossInv, Whole
    <3> QED
      BY <1>1, <2>8, <2>10, <3>1 DEF Whole
  <2>11. \A h \in Leaves(S) : file[h] = Nothing => file'[h] = Nothing
    <3> SUFFICES ASSUME NEW h \in Leaves(S), file[h] = Nothing PROVE file'[h] = Nothing
      OBVIOUS
    <3>1. PICK c \in Commands : c.kind = "rename" /\ c.src = h /\ FolderOf(c.dst) \in S
      BY DEF Leaves
    <3>2. h \in Inside(S) /\ h \in Files
      BY DEF Leaves, Inside
    <3>3. \A d \in Commands : d.kind = "rename" => d.dst # h
      BY <3>1 DEF OneWay
    <3>4. ~Taken(h)
      <4>1. CASE Taken(h)
        <5>1. h = q /\ op[r].kind = "rename"
          BY <2>2, <3>2, <4>1
        <5> QED
          BY <1>2, <3>3, <5>1 DEF CommandOf
      <4> QED
        BY <4>1
    <3> QED
      BY <1>1, <3>2, <3>4
  <2>12. ASSUME ~spoiled, NEW m \in Ops PROVE MoveInv(S, m)'
    <3>1. SUFFICES ASSUME Moving(m)', NEW f \in FilesIn(op'[m].src), file'[f] \in Data \ asked'
                   PROVE  Cared(S, m, f, file[f])' 
      BY DEF MoveInv
    <3>2. m # r /\ op'[m] = op[m] /\ Moving(m)
      BY <1>1, <1>3, <3>1 DEF Moving
    <3>3. FilesIn(op[m].src) \subseteq Inside(S)
      BY <1>2, <3>2, Sides DEF Moving, Shapely, Shape
    <3>4. f \in Inside(S) /\ f \in Files
      BY <3>1, <3>2, <3>3 DEF Inside
    <3>5. \A g \in FilesIn(op[m].src) : file[g] \in Data \ asked => Cared(S, m, g, file[g])
      BY <1>1, <2>12, <3>2 DEF LossInv, MoveInv
    <3>6. CASE ~Taken(f)
      <4>1. file'[f] = file[f]
        BY <1>1, <3>1, <3>4, <3>6, ContentAssumption
      <4>2. Cared(S, m, f, file[f])
        BY <1>1, <3>1, <3>2, <3>5, <4>1
      <4>3. Landed(S, file[f]) => Landed(S, file[f])'
        BY <2>9, <3>1, <4>1
      <4> QED
        BY <2>11, <3>2, <4>1, <4>2, <4>3 DEF Cared
    <3>7. CASE Taken(f)
      <4>1. /\ op[r].kind = "rename" /\ FolderOf(q) \in S /\ {p, q} \subseteq Files
            /\ f = q /\ p \in Present(p) /\ Present(p) \subseteq {p}
        BY <2>2, <3>4, <3>7
      <4>2. file'[f] = file[p]
        BY <1>1, <4>1, PathAssumption DEF Image, Files
      <4>3. p \in FilesIn(op[m].src)
        <5>1. CommandOf(op[m]) \in Commands /\ op[m].kind = "move"
          BY <1>2, <3>2 DEF Shapely, Shape, Moving
        <5>2. op[m].src # q
          BY <2>1, <4>1, <5>1 DEF CommandOf
        <5>3. op[m].src \in Folders /\ q \in {op[m].src} \X Names
          BY <3>1, <3>2, <4>1, <5>2 DEF FilesIn
        <5> QED
          BY <2>1, <4>1, <5>3 DEF FilesIn, Files
      <4>4. Cared(S, m, p, file[p])
        BY <1>1, <3>1, <3>5, <4>2, <4>3
      <4>5. Landed(S, file[p]) => Landed(S, file[f])'
        BY <2>9, <3>1, <4>2
      <4>6. p \in Leaves(S) /\ file'[p] = Nothing
        <5>1. p \in Inside(S)
          BY <3>3, <4>3
        <5>2. p \in Leaves(S)
          BY <1>2, <4>1, <5>1 DEF Leaves, CommandOf
        <5>3. ~Taken(p)
          BY <1>5, <2>2, <5>1
        <5> QED
          BY <1>1, <4>1, <5>2, <5>3
      <4> QED
        BY <2>11, <3>2, <4>2, <4>4, <4>5, <4>6 DEF Cared
    <3> QED
      BY <3>6, <3>7
  <2> QED
    BY <1>1, <2>7, <2>10, <2>12 DEF LossInv
<1> QED
  BY <1>4, <1>5

\* A file is opened to be written, and closed.
LEMMA OpenInv ==
  ASSUME NEW S, OneWay(S), FilesInv(S), NEW r \in Ops,
         WriteBegins(r) \/ \E f \in Files : OpenFile(r, f)
  PROVE  WritingInv' /\ LossInv(S)'
<1>1. CASE WriteBegins(r)
  <2> DEFINE new == [op[r] EXCEPT !.at = "writing"]
  <2>1. /\ new \in Shapely /\ Create(r, Target(new), Upload, new)
        /\ new.kind = "write" /\ new.at = "writing"
    BY <1>1, UploadIs DEF FilesInv
  <2>2. op[r].at = "start" /\ UNCHANGED <<folders, spoiled>>
    BY <1>1 DEF WriteBegins
  <2> HIDE DEF new
  <2>3. ~Writing(r)
    BY <2>2 DEF Writing
  <2>4. ~Moving(r)'
    <3>1. op'[r] = [new EXCEPT !.mixed = Clash(r, Target(new), Upload) # {}] /\ new \in OpRecord
      BY <2>1 DEF Create, Shapely
    <3>2. op'[r].kind = "write"
      BY <2>1, <3>1 DEF OpRecord
    <3> QED
      BY <3>2 DEF Moving
  <2> QED
    BY <2>1, <2>2, <2>3, <2>4, CreateInv
<1>2. ASSUME NEW f \in Files, OpenFile(r, f) PROVE WritingInv' /\ LossInv(S)'
  <2> DEFINE new == [op[r] EXCEPT !.at = "copying", !.cur = f]
  <2>1. /\ new \in Shapely /\ Create(r, Target(new), file[f], new)
        /\ new.kind = op[r].kind /\ new.src = op[r].src /\ new.at = "copying"
        /\ new.todo = op[r].todo /\ new.cur = f
    BY <1>2, OpenedIs DEF FilesInv
  <2>2. op[r].at = "copy" /\ file[f] # Nothing /\ UNCHANGED <<folders, spoiled>>
    BY <1>2 DEF OpenFile
  <2> HIDE DEF new
  <2>3. ~Writing(r)
    BY <2>2 DEF Writing
  <2>4. Moving(r)' => Moving(r)
    <3>1. op'[r] = [new EXCEPT !.mixed = Clash(r, Target(new), file[f]) # {}] /\ new \in OpRecord
      BY <2>1 DEF Create, Shapely
    <3>2. op'[r].kind = op[r].kind
      BY <2>1, <3>1 DEF OpRecord
    <3> QED
      BY <2>2, <3>2 DEF Moving
  <2> QED
    BY <2>1, <2>2, <2>3, <2>4, CreateInv
<1> QED
  BY <1>1, <1>2

LEMMA WrittenInv ==
  ASSUME NEW S, OneWay(S), FilesInv(S), NEW r \in Ops, CopyFile(r) \/ WriteFile(r)
  PROVE  WritingInv' /\ LossInv(S)'
<1>1. op[r] \in OpRecord
  BY DEF FilesInv, Types, Shapely
<1>2. CASE CopyFile(r)
  <2> DEFINE new == [op[r] EXCEPT !.at = "copy", !.cur = Nothing, !.mixed = FALSE,
                                  !.todo = @ \ {op[r].cur}]
  <2>1. op[r].at = "copying" /\ Writing(r) /\ Written(r) = file[op[r].cur]
    BY <1>2 DEF CopyFile, Writing, Written
  <2>2. Target(op[r]) = Image(op[r].src, op[r].dst, op[r].cur)
    BY <2>1 DEF Target
  <2>3. PICK held \in Closed(r, Target(op[r]), Written(r)) :
          file' = [file EXCEPT ![Target(op[r])] = held]
    BY <1>2, <2>1, <2>2 DEF CopyFile
  <2>4. op' = [op EXCEPT ![r] = new] /\ UNCHANGED <<asked, spoiled>>
    BY <1>2 DEF CopyFile
  <2>5. new.kind = op[r].kind /\ new.src = op[r].src /\ new.at = "copy"
        /\ new.todo = op[r].todo \ {op[r].cur}
    BY <1>1 DEF OpRecord
  <2> HIDE DEF new
  <2>6. op'[r] = new /\ \A q \in Ops \ {r} : op'[q] = op[q]
    BY <2>4 DEF FilesInv, Types
  <2>7. ~Writing(r)' /\ (Moving(r)' => Moving(r))
    BY <2>1, <2>5, <2>6 DEF Writing, Moving
  <2> QED
    BY <2>1, <2>3, <2>4, <2>5, <2>6, <2>7, CloseInv
<1>3. CASE WriteFile(r)
  <2>1. op[r].at = "writing" /\ Writing(r) /\ Written(r) = Upload /\ Target(op[r]) = op[r].dst
    BY <1>3 DEF WriteFile, Writing, Written, Target
  <2>2. PICK held \in Closed(r, Target(op[r]), Written(r)) :
          file' = [file EXCEPT ![Target(op[r])] = held]
    BY <1>3, <2>1 DEF WriteFile
  <2>3. op'[r] = Idle /\ (\A q \in Ops \ {r} : op'[q] = op[q]) /\ UNCHANGED <<asked, spoiled>>
    BY <1>3 DEF WriteFile, Done, FilesInv, Types
  <2>4. ~Writing(r)' /\ ~Moving(r)'
    BY <2>3 DEF Idle, Writing, Moving
  <2> QED
    BY <2>1, <2>2, <2>3, <2>4, CloseInv
<1> QED
  BY <1>2, <1>3

\* A step of r that changes no file and neither begins nor ends a part of a move.
LEMMA QuietInv ==
  ASSUME NEW S, FilesInv(S), NEW r \in Ops, UNCHANGED <<file, asked, spoiled>>,
         op[r].at # "copying", \A q \in Ops \ {r} : op'[q] = op[q],
         ~Writing(r)', MoveInv(S, r)'
  PROVE  WritingInv' /\ LossInv(S)'
<1>1. \A q \in Ops : op'[q] = op[q] \/ op'[q].at \notin {"copying", "writing"}
  BY DEF Writing
<1>2. WritingInv /\ LossInv(S)
  BY DEF FilesInv
<1>3. WritingInv'
  BY <1>1, <1>2, QuietWriting
<1>4. LossInv(S)'
  BY <1>2, QuietLoss
<1> QED
  BY <1>3, <1>4

\* The copying half of a move begins with all that is there, and ends when all of it
\* has landed.
LEMMA MoveSteps ==
  ASSUME NEW S, OneWay(S), FilesInv(S), NEW r \in Ops, CopyBegins(r) \/ Copied(r)
  PROVE  WritingInv' /\ LossInv(S)'
<1>1. op[r] \in OpRecord /\ UNCHANGED <<file, asked, spoiled>> /\ op[r].at # "copying"
  BY DEF FilesInv, Types, Shapely, CopyBegins, Copied
<1>2. CASE Done(r)
  <2>1. op'[r] = Idle /\ \A q \in Ops \ {r} : op'[q] = op[q]
    BY <1>2 DEF Done, FilesInv, Types
  <2>2. ~Writing(r)' /\ MoveInv(S, r)'
    BY <2>1 DEF Idle, Writing, MoveInv, Moving
  <2> QED
    BY <1>1, <2>1, <2>2, QuietInv
<1>3. CASE CopyBegins(r) /\ ~Done(r)
  <2>1. op' = [op EXCEPT ![r].at = "copy", ![r].todo = Present(op[r].src)]
    BY <1>3 DEF CopyBegins
  <2>2. /\ op'[r].at = "copy" /\ op'[r].todo = Present(op[r].src) /\ op'[r].src = op[r].src
        /\ \A q \in Ops \ {r} : op'[q] = op[q]
    BY <1>1, <2>1 DEF FilesInv, Types, OpRecord
  <2>3. ASSUME NEW f \in FilesIn(op[r].src), file[f] \in Data \ asked
        PROVE  f \in Present(op[r].src)
    BY <2>3, ContentAssumption DEF Present
  <2>4. ~Writing(r)' /\ MoveInv(S, r)'
    BY <1>1, <2>2, <2>3 DEF Writing, MoveInv, Cared
  <2> QED
    BY <1>1, <2>2, <2>4, QuietInv
<1>4. CASE Copied(r) /\ ~Done(r)
  <2>1. /\ op[r].at = "copy" /\ op[r].todo = {} /\ op[r].kind = "move"
        /\ op' = [op EXCEPT ![r].at = "remove", ![r].todo = Present(op[r].src)]
    BY <1>4 DEF Copied
  <2>2. /\ op'[r].at = "remove" /\ op'[r].src = op[r].src
        /\ \A q \in Ops \ {r} : op'[q] = op[q]
    BY <1>1, <2>1 DEF FilesInv, Types, OpRecord
  <2>3. \A v : Landed(S, v) => Landed(S, v)'
    BY <1>1, <2>1, <2>2 DEF Landed
  <2>4. WritingInv'
    <3>1. \A q \in Ops : op'[q] = op[q] \/ op'[q].at \notin {"copying", "writing"}
      BY <2>2
    <3> QED
      BY <1>1, <3>1, QuietWriting DEF FilesInv
  <2>5. CASE spoiled
    BY <1>1, <2>4, <2>5 DEF LossInv
  <2>6. CASE ~spoiled
    <3>1. ASSUME NEW f \in FilesIn(op[r].src), file[f] \in Data \ asked
          PROVE  Landed(S, file[f])
      BY <2>1, <2>6, <3>1 DEF FilesInv, LossInv, MoveInv, Moving, Cared
    <3>2. MoveInv(S, r)'
      BY <1>1, <2>2, <2>3, <3>1 DEF MoveInv, Cared
    <3>3. ~Writing(r)'
      BY <2>2 DEF Writing
    <3> QED
      BY <1>1, <2>2, <3>2, <3>3, QuietInv
  <2> QED
    BY <2>5, <2>6
<1> QED
  BY <1>2, <1>3, <1>4

\* A write that fails leaves the file as it is: a loss only if others were running.
LEMMA FailedWrite ==
  ASSUME NEW S, FilesInv(S), NEW r \in Ops, CopyFails(r) \/ WriteFails(r)
  PROVE  WritingInv' /\ LossInv(S)'
<1>1. /\ op'[r] = Idle /\ \A q \in Ops \ {r} : op'[q] = op[q]
      /\ UNCHANGED <<file, asked>>
      /\ spoiled' = (spoiled \/ \E q \in Ops \ {r} : Running(q))
  BY DEF CopyFails, WriteFails, Done, FilesInv, Types
<1>2. WritingInv'
  <2>1. \A q \in Ops : op'[q] = op[q] \/ op'[q].at \notin {"copying", "writing"}
    BY <1>1 DEF Idle
  <2> QED
    BY <1>1, <2>1, QuietWriting DEF FilesInv
<1>3. ASSUME ~spoiled' PROVE ~spoiled /\ \A q \in Ops : MoveInv(S, q)'
  <2>1. ~spoiled /\ \A q \in Ops \ {r} : ~Running(q)
    BY <1>1, <1>3
  <2>2. \A q \in Ops : ~Moving(q)'
    BY <1>1, <2>1 DEF Running, Moving, Idle
  <2> QED
    BY <2>1, <2>2 DEF MoveInv
<1>4. \A v : Whole(v)' <=> Whole(v)
  BY <1>1 DEF Whole
<1> QED
  BY <1>1, <1>2, <1>3, <1>4 DEF FilesInv, LossInv

\* The steps at which a move neither begins nor ends a part of its work.
LEMMA OtherSteps ==
  ASSUME NEW S, FilesInv(S), NEW r \in Ops,
         \/ RenameFails(r) \/ OpenFails(r) \/ DeleteBegins(r) \/ RemoveEnds(r) \/ Mkdir(r)
         \/ ReadBegins(r) \/ ReadFile(r) \/ ListBegins(r) \/ List(r) \/ Refused(r)
         \/ \E c \in Commands : Execute(r, c)
  PROVE  WritingInv' /\ LossInv(S)'
<1>1. op[r] \in OpRecord /\ op[r] \in Shapely
  BY DEF FilesInv, Types, Shapely
<1>2. UNCHANGED <<file, asked, spoiled>> /\ op[r].at # "copying"
  BY DEF RenameFails, OpenFails, DeleteBegins, RemoveEnds, Mkdir, ReadBegins, ReadFile,
         ListBegins, List, Refused, Execute, Running
<1>3. \A q \in Ops \ {r} : op'[q] = op[q]
  BY DEF RenameFails, OpenFails, DeleteBegins, RemoveEnds, Mkdir, ReadBegins, ReadFile,
         ListBegins, List, Refused, Execute, Done, Goto, FilesInv, Types
<1>4. ~Writing(r)' /\ ~Moving(r)'
  <2>1. CASE Done(r)
    BY <2>1 DEF Done, Idle, FilesInv, Types, Writing, Moving
  <2>2. CASE RenameFails(r) /\ Goto(r, "stat")
    BY <1>1, <2>2 DEF Goto, FilesInv, Types, OpRecord, Writing, Moving
  <2>3. CASE DeleteBegins(r)
    BY <1>1, <2>3 DEF DeleteBegins, FilesInv, Types, OpRecord, Writing, Moving
  <2>4. CASE ReadBegins(r)
    BY <1>1, <2>4 DEF ReadBegins, FilesInv, Types, OpRecord, Writing, Moving
  <2>5. CASE ListBegins(r)
    BY <1>1, <2>5 DEF ListBegins, Goto, FilesInv, Types, OpRecord, Writing, Moving
  <2>6. ASSUME NEW c \in Commands, Execute(r, c) PROVE ~Writing(r)' /\ ~Moving(r)'
    BY <2>6 DEF Execute, Idle, FilesInv, Types, Writing, Moving
  <2> QED
    BY <2>1, <2>2, <2>3, <2>4, <2>5, <2>6
    DEF RenameFails, OpenFails, RemoveEnds, Mkdir, ReadFile, List, Refused
<1>5. MoveInv(S, r)'
  BY <1>4 DEF MoveInv
<1> QED
  BY <1>2, <1>3, <1>4, <1>5, QuietInv

LEMMA InitLoss ==
  ASSUME NEW S, FilesInit
  PROVE  FilesInv(S)
<1>1. PICK place \in [Data -> Files] :
        /\ \A v, w \in Data : v # w => place[v] # place[w]
        /\ file = [f \in Files |-> IF \E v \in Data : place[v] = f
                                   THEN CHOOSE v \in Data : place[v] = f ELSE Nothing]
  BY DEF FilesInit
<1>2. ASSUME NEW v \in Data PROVE file[place[v]] = v
  <2>1. \A w \in Data : place[w] = place[v] => w = v
    BY <1>1
  <2>2. (CHOOSE w \in Data : place[w] = place[v]) = v
    BY <2>1
  <2> QED
    BY <1>1, <2>2
<1>3. \A r \in Ops : op[r] = Idle
  BY DEF FilesInit
<1>4. WritingInv
  BY <1>3 DEF WritingInv, Writing, Idle
<1>5. LossInv(S)
  BY <1>2, <1>3 DEF LossInv, Whole, MoveInv, Moving, Idle
<1> QED
  BY <1>4, <1>5, InitTypes DEF FilesInv

LEMMA NextLoss ==
  ASSUME NEW S, OneWay(S), FilesInv(S), [FilesNext]_fileVars
  PROVE  FilesInv(S)'
<1>1. Types'
  BY NextTypes DEF FilesInv
<1>2. ASSUME NEW r \in Ops, OpStep(r) PROVE WritingInv' /\ LossInv(S)'
  BY <1>2, RenameInv, OpenInv, WrittenInv, MoveSteps, RemoveInv, FailedWrite, OtherSteps
  DEF OpStep
<1>3. ASSUME NEW r \in Ops, NEW c \in Commands, Execute(r, c)
      PROVE  WritingInv' /\ LossInv(S)'
  BY <1>3, OtherSteps
<1>4. CASE AgentDies
  <2>1. (\A r \in Ops : op'[r] = Idle) /\ UNCHANGED <<file, asked, spoiled>>
    BY <1>4 DEF AgentDies
  <2>2. WritingInv'
    BY <2>1 DEF WritingInv, Writing, Idle
  <2>3. LossInv(S)'
    <3>1. \A v : Whole(v)' <=> Whole(v)
      BY <2>1 DEF Whole
    <3>2. \A r \in Ops : MoveInv(S, r)'
      BY <2>1 DEF MoveInv, Moving, Idle
    <3> QED
      BY <2>1, <3>1, <3>2 DEF FilesInv, LossInv
  <2> QED
    BY <1>1, <2>2, <2>3 DEF FilesInv
<1>5. CASE UNCHANGED fileVars
  BY <1>1, <1>5 DEF fileVars, FilesInv, WritingInv, LossInv, Writing, Written, Whole, MoveInv, Moving,
              Cared, Landed
<1> QED
  BY <1>1, <1>2, <1>3, <1>4, <1>5 DEF FilesNext, FilesInv

\* No content is lost that nobody asked to delete or to overwrite, whatever the commands
\* that run at once, are repeated, fail half-way or die with their process (Move,
\* fsops.go:110-119), if the commands empty a set S of folders and fill none of it.
THEOREM FilesNoLoss ==
  ASSUME NEW CONSTANT S, OneWay(S)
  PROVE  FilesSpec => []NoLoss
<1>1. FilesInit => FilesInv(S)
  BY InitLoss
<1>2. FilesInv(S) /\ [FilesNext]_fileVars => FilesInv(S)'
  BY NextLoss
<1>3. FilesInv(S) => NoLoss
  BY DEF FilesInv, LossInv, Whole, NoLoss
<1> QED
  BY <1>1, <1>2, <1>3, PTL DEF FilesSpec
=============================================================================
