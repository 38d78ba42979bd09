# Verification of Remote PC

TLA+ models of Remote PC, the configurations that model-check them with TLC, and
theorems about them that the TLA+ proof system (TLAPS) checks. Remote PC lets an
operator control the Windows (and Android) machines of a network: a server, one
agent per machine that keeps a WebSocket open to it, and a web interface that
talks REST and WebSocket to the server.

All references are to files of the repository; `ws/` is `internal/server/ws/`,
`api/` is `internal/server/api/`, `storage/` is `internal/storage/`, `agent/` is
`internal/agent/`.

## 1. The system

### Components, their state and their operations

| component | state | operations | correct when |
|---|---|---|---|
| **Hub** (`ws/hub.go`, `ws/conn.go`, `ServeAgent` of `ws/handler.go`) | `conns`: device to connection; per connection a 64-message send queue, a `closed` channel, a `sync.Once` | `add`, `remove`, `Send`, `CloseAll`, `enqueue`, `close`, `readPump`, `writePump` | one live connection per device; none is lost sight of; every way a connection dies ends both of its goroutines and the registry entry, and never the entry of its successor |
| **Requests** (`ws/rpc.go`, `session.respond`) | `pending`: UUID to a one-place reply channel | `Request`, `deliver`, `Notify` | every call returns; the table is exact; the reader of a connection never blocks; "agent tidak terhubung" is never said of a command that runs |
| **Device repository** (`storage/store.go`, `storage/devices.go`) | the list in memory, `devices.json`, `devices.json.tmp` | `Mutate`, `Save`, `Delete`, `MarkStaleOffline`, `Get`, `List` | what was acknowledged is in the file; the file is always whole |
| **Presence** (`ws/handler.go`, `runOfflineSweeper` of `server/http.go`, `DeleteDevice`, `agent/client.go`) | stored status and LastSeen of a device; the agent's identity | `register`, `resolveDevice`, `handleHeartbeat`, `markOffline`, sweep, delete, reconnect | one computer stays one device; the stored status agrees with the connection in the end |
| **Operator relay** (`ws/broker.go`, `ws/operator.go`, `startScreen`/`stopScreen` of `agent/stream.go`) | subscriptions with 8-frame channels; the agent's stream | `Subscribe`, `Unsubscribe`, `Publish`, `ServeOperator` | no send on a closed channel; teardown ends; a stream runs only for somebody |
| **Agent session** (`agent/session.go`, `stream.go`, `heartbeat.go`, `dispatch.go`, `terminal/`) | a 32-envelope send queue, a context, a mutex, the stream, the shell | reader, writer, heartbeat, dispatch, respond, screenLoop, readLoop, Wait, cleanup | whatever runs can be stopped; every goroutine ends with the session |
| **Agent processes and identity** (`cmd/agent`, `winsvc/`, `autostart/`, `internal/config`) | `agent.yaml` with id and token; the scheduled task, the service, processes started by hand | `ensureConfig`, `Load`, `Save`, registration, enable, disable, install, uninstall | a PC is one device; an agent that runs comes to serve |
| **File operations** (`agent/fsops`, the `fs.*` part of `dispatch.go`, `api/files.go`) | the file system | move, rename, copy, delete, mkdir, upload, download, list | no content disappears that nobody asked to delete or overwrite |
| **Server process** (`cmd/server`, `server/http.go`, `auth/bootstrap.go`) | `config.yaml` with the signing secret, `users.json`, the port | first start, load, first user, listen, shutdown | operators can log in, and stay logged in over restarts |
| **REST API and login** (`api/`, `internal/auth`, `storage/users.go`) | tokens of operators, requests in flight | login, logout, broadcast, request, delete | a broadcast reaches whoever was there all the while |
| **Server discovery** (`internal/discovery`, `cmd/server/setup_windows.go`, `applyDefaults`, `connectAndServe`) | UDP and TCP port, firewall rules, the boot task, `server_host` and `server_url` | probe, answer, dial, enable, disable | a server that was reported open is; an agent follows it when it moves |
| **Machine control** (`winservices/`, `procs/`, `input/`, `power.go`, `wol/`) | the services, processes, keys and power of a computer | start, stop, restart, kill, key, click, shutdown, wake | "ok" is true; keys of two operators do not mix; every command ends |
| screen capture, system information, logging, dialogs, Android agent, Windows 7 agent, web pages | none, that of the operating system, or a copy | | see section 8 |

### How they interact

- An **agent connection** is the centre. `ServeAgent` shakes hands (presence,
  repository), adds the connection to the hub, starts `writePump` and runs
  `readPump`, which hands heartbeats to presence, frames to the broker and
  responses to the request table. When it returns, the device is marked offline.
- **REST handlers** call `Hub.Request` (and wait) or `Hub.Notify`; both end in
  `Hub.Send`, which puts a message into the send queue of the connection that the
  registry holds at that moment. On the agent, `dispatch` gives each command to a
  goroutine of its own (`respond`), so commands overlap; keys, clicks and the
  control of the stream and the terminal are executed by the reader itself.
- **`ServeOperator`** subscribes a browser to the frames of a device, sends
  `screen.start` and `screen.stop` by `Notify`, and forwards the browser's input.
- The **sweeper** and **`DeleteDevice`** work on the repository only, and share it
  with the handlers of connections without any lock around their Get and Save.
- **Files shared by processes**: several server processes share `config.yaml` and
  `users.json`, several agent processes `agent.yaml`; only the server's TCP port
  keeps two of one kind from working at once.
- **Shutdown** calls `CloseAll` and then `http.Server.Shutdown`, which does not
  wait for hijacked connections.

### What is hard here

A connection can be closed by six different goroutines, in any order, while it is
being replaced. Agents reconnect before the server has noticed that the old
connection is dead. Responses arrive after their timeout, and the command that was
given up still runs beside its repetition. A device is read and written back in
two operations while other goroutines delete or save it. Writes fail, and a
process dies between any two of their steps. Operators come and go on one stream
and type on one keyboard. Two processes start at once over one configuration. The
server moves to another address. The hazards, each with its line and the
properties that guard against it, are in `PROJECT.json`.

## 2. Modules

```
 AgentRegistry  <-- implemented by --  Hub  <-- extended by --  Rpc  -- implements -->  RemoteCall
      ^                                                        ^
      | instantiated by                                        | both proved in
   Presence                                                HubProofs
      ^
   PresenceProofs

 DeviceStore  -- implements -->  DeviceMap   (as which Presence uses the repository)
      ^
   StoreProofs

 AgentSession, FileOps <- AgentProofs      Machine, Discovery <- ComputerProofs
 OperatorRelay <- RelayProofs      AgentHost <- HostProofs      ServerLife <- RestApi <- ServerProofs
```

**Hub** has one process per goroutine: `Serve(c)` and `Pump(c)` for a connection
`c`, `Send(s)` for a call of `Hub.Send`, `CloseAll`. `pc` says where each is. A
region under `hub.mu` is one step, a channel operation is one step: none of those
regions calls `close()` or touches a channel, so none can block, and the lock itself
is not modelled. `close()` is modelled as Go runs it: `call[t] = c` says that
goroutine `t` is inside `close()` of `c`; the three statements of its body happen once, as three steps (`CloseMark`,
`CloseSocket`, `CloseRemove`), and no goroutine gets past its call before they are
over (`At`), which is what `sync.Once` guarantees. The three cases of the `select`
in `enqueue` are three actions that can be enabled together. **AgentRegistry** is
what the hub promises: a map from a device to a connection that only the end of
the very connection in it can empty.

**Rpc** composes the hub with the request table. A sender of `Hub` is a call of
`Request`; its UUID is the sender itself, and an answer inherits it (`Answers`).
Responses are read by the same `Serve(c)` that the hub models, so a delivery that
blocked would also keep the connection from ending. `hold[c]` is the time between
the lookup in `deliver`, under the lock, and the send into the reply channel,
outside it. **RemoteCall** is what `Request` promises: a call executed at most
once, and "not connected" only when it is not executed at all.

**DeviceStore** follows `Mutate` and `persist` statement by statement, with a
failure or a crash at every point. The callbacks of Go work inside the array of the
old list, and `Delete` moves entries in it: `left` is what memory shows when the
write fails afterwards. **DeviceMap** is what a repository promises: a
write-through map whose failed writes change nothing in the file and nothing but
their own key in memory.

**Presence** composes the two abstractions: the registry of connections is
`AgentRegistry`, the repository a map with atomic operations. What it adds is that
the handlers use *two* operations, Get and Save, where one was meant, the handshake
and its failure or loss at any point, the agent's identity, the sweeper, deletion
and a crash of the server.

**OperatorRelay** has the two goroutines of every `ServeOperator` and the broker
(each operation is one step, being under its lock), and what both machines make of
the agent's connection, separately: the agent's `session` serves, ends, and is gone;
`link` is where the server is with the connection of that session (accepted, added
to the hub, closed); `entry` says whose connection the hub has, which can be one the
agent has long left; `late` is a handler that has yet to add such a one. So a command
may go to nobody (`Notify`), be lost in the queue of a connection that is closed
(`CloseSocket`), or be obeyed by a session that is ending (`Obey`), and a frame
(`sent`) may reach the broker after its stream was stopped.

**AgentSession** is one connection of an agent, from its registration until
`connectAndServe` has returned: `main` (heartbeats, then the deferred calls in
their order), the reader, the writer, a goroutine per command (`request`), one per
screen stream (`stream`, of which `screenStop` names the one that can be
cancelled and `stopped` those that have been), and two per shell (`shell`: `loop`
is readLoop, `wait` the goroutine of Wait). They meet in `queued`, the number of
envelopes in `send`, in `ctxDone`, and under `mu`, which is held across a blocking
call in one place only (`StartNotice`).

**AgentHost** is the PC: power, logon, the task, the service, and one phase per
agent process from `ensureConfig` to serving. `file` is `agent.yaml` with its id and
whether its token is whole; `Cuts` is what a write leaves that was not finished.
`mishaps` counts, as far as there can be devices, what may cost the PC an identity: an
answer to a first registration that is lost, a save that fails, processes that end
amid saving or leave a cut file where an identity was, a template written over one,
and a process that begins next to another. The last is counted once, when it begins,
however often the two then register.

**FileOps** has the file commands of `fsops` as the goroutines of `respond` run
them: a file is copied by opening the source, truncating the target and writing,
each a step; a file that is open can be read, written and truncated by others but
neither renamed nor removed, as on Windows, and a folder that is being listed
neither. `asked` collects the contents that somebody asked to delete or overwrite.

**ServerLife** is the life of a server process, from `ensureConfig` to its end by
shutdown, failure or kill; **RestApi** adds the sessions of operators and the
handlers of requests. A broadcast looks its targets up one after the other
(`Collect`) and then tells them one after the other (`Tell`, `PassOver`), while
agents come and go (`AgentComes`, `AgentGoes`).

**Machine** is what the other commands do to a computer: `did[c]` is what has
happened on behalf of call `c`, `told[c]` what its caller knows, `held` the keys
that are down, `hand[o]` the strokes that are left of an event. Windows is external
and free: services hang and fail, others control them, processes begin and end.

**Discovery** has the commands enable and disable with their firewall rules, the
two ports and who owns them, the computer of the server with its address, and the
agent that probes or uses its configured address, which it also writes back.

The `MC*` modules hold what only TLC needs. Operators under a comment "Fault" are
not part of any specification: each is a definition with a plausible bug, kept
beside the original, to show that the properties notice it (`PROJECT.json`,
"mutants").

## 3. Runs

| run | module | shows | distinct states |
|---|---|---|---|
| `hub` | MCHub | registry exact, no orphan, no ghost, complete shutdown, `AgentRegistry` implemented; a closed connection is released, an accepted message is sent or the connection is cut | 286 000 |
| `rpc` | MCRpc | table exact, the reader never blocks, `RemoteCall` implemented; every request returns, and a connection that delivers responses still ends | 47 000 |
| `store` | MCDeviceStore | file whole, acknowledged means written, `DeviceMap` implemented | 430 000 |
| `presence` | MCPresence | identity kept, connected devices are stored, the status comes right in the end | 178 000 |
| `relay` | MCOperatorRelay | no send on a closed channel; a stream that nobody watches is on its way to its end, and does end; teardown ends | 607 000 |
| `session` | MCAgentSession | one owner of whatever runs, the notice of a shell's end overtakes one output at most, the goroutines end with the session | 367 000 |
| `files` | MCFileOps | nothing is lost that nobody asked to delete or overwrite | 3 982 000 |
| `agent` | MCAgentHost | a PC is one device, and every further one has been paid for by a mishap; an agent that keeps running serves again | 556 000 |
| `server` | MCRestApi | operators can log in and stay logged in; a broadcast reaches all who were there | 1 286 000 (up to symmetry) |
| `computers` | MCComputers | "ok" is true, keys do not mix, commands end; a port reported open is open, an agent follows its server | 124 000 |
| `relay_watch`, `presence_deleted` | | the disagreements of section 5, each by a counterexample | |

### Bounds, and why they are enough

- `hub`: one device, because nothing in the code relates two devices but the map,
  whose entries are independent. Two connections: a connection and the one that
  replaces it; `add` and `remove` never look at more than two at once. Two sends
  and a buffer of one, so that the second can find the buffer full (64 in the
  code). The proofs of section 6 have no such bounds.
- `rpc`: two calls over one connection, or one call over a connection and its
  replacement (`InOrder`); the connections and the calls are taken in a fixed order,
  since neither matters to the code. Both at once is what HubProofs covers, for
  the safety properties and the refinement.
- `store`: two devices and three list entries (`MaxItems`), so that a failed delete
  can leave an entry twice and later operations work on that list.
- `presence`: one agent, since devices are independent in every handler; two
  connections, so that the old one ends at every point of the life of the new one;
  two identities, so that an agent whose device was deleted can become a second
  one. An agent out of connections stops, which is why deadlock is not checked.
- `relay`: two operators, as the code relates an operator to others only through
  the broker's set and the agent's one stream. Each sends at most a start and a
  stop, so `MaxCommands = 4` is all there can be. `Buffer = 2` stands for 8. One frame
  is on its way at a time, since frames differ in nothing; of several handlers that
  are late for the hub one is kept, since all they do is to replace the entry.
  Sessions and connections come and go without bound.
- `session`: a channel of one place (32 in the code), so that every sender meets it
  full; two streams, so that one can start while the goroutine of its predecessor
  has not ended; one shell, which is started again when it is over; one request. A
  session that is over has no next step, which is why deadlock is not checked.
- `files`: two goroutines, so that every pair of the ten commands overlaps and each
  can be repeated while it runs; two files, so that a folder can be half copied; two
  folders on one volume and one on another, so that a move renames or copies. The
  commands empty `f1` and fill none of it (`OneWay({f1})`, which `MCFileOps` assumes
  and TLC evaluates), since others would destroy what nobody asked them to (section 5
  names them). That is the hypothesis under which `NoLoss` is proved for any commands.
- `agent`: the task, the service and one process by hand, so that three share the
  file, with at most two devices (`FewDevices`); and, in the same run, the task and the
  process by hand alone with at most three (`MaxDevices`), so that one mishap that
  costs two devices can be told from two mishaps. The proof has neither bound.
- `server`: two processes, one after the other or at once; two devices, so that one
  can leave while the other is being told; one operator; two secrets, so that a
  second first start can draw its own. One request, since requests meet only in
  `stored` and `online`, which change without them too. Servers, devices and
  requests are interchangeable; only safety is checked there.
- `computers`: Machine and Discovery have no variable in common, and no property is
  about commands and input at once or about enable while an agent runs. `part` keeps
  a behaviour in one of the four parts (commands, input, setup, then agent), whose
  states add up instead of multiplying: two calls on one service and one process
  number; two operators with the events of `SomeEvents`; a task and a process by hand
  that compete for the ports; after an enable that succeeded, an agent and a server
  that moves between two addresses. The agent part follows the setup part only when
  enable has reported success, which is the case in which an agent could connect.

## 4. Fairness

- Goroutines of the server are weakly fair, one condition per goroutine: the Go
  scheduler runs whatever can run. Nothing else follows: agents need not connect or
  answer, sockets and writes need not fail, callers need not call, the server need
  not shut down.
- `RpcFairness`: a context with a timeout ends (`Timeout` is part of `RequestStep`);
  every caller of `Request` passes one (`api/commands.go:21` and `:55`,
  `api/files.go:29` and `:60`).
- `Presence`: the sweeper ticks, time passes (`Age`), and an agent that keeps its
  connection sends heartbeats. `EndCertain` says that `close()` begins when the
  agent is gone (the read deadline `pongWait` sees to that) and when the connection
  was replaced (`add` does it). `OfflineGet` is strongly fair because heartbeats
  that were received before the socket was shut can only be read finitely often
  after it.
- `OperatorRelay`: a write to a browser ends by its deadline (`writeWait`), and an
  agent carries out the commands that it receives. `add` closes the connection that
  it replaces, an agent notices a socket that was closed, and the loop of a stream
  sees that its session has ended. Nothing obliges an agent to connect, a session to
  fail, or a connection that is not replaced to be closed.
- `SessionFairness`: a goroutine that can go on does. `CleanupScreen` and
  `CleanupTerminal` wait for the mutex and are strongly fair, since Go hands a mutex
  to a waiter that starves. A write ends by its deadline of ten seconds. The
  two goroutines of a shell go on as well, but `Wait` need not return, since a program
  that the shell started can outlive it. Nothing obliges a shell to read, write or
  end, nor the server to send; a read fails once the socket is closed.
- `HostFairness`: the process of the task goes on; registration and answer are
  strongly fair: while the agent keeps trying it meets, some time, a server that can
  be reached and an answer that arrives. A kill, a logoff or a failing write may
  still come at any point.
- `MachineFairness`: the goroutine of a command goes on, and its two deadlines (20
  seconds in `winservices.go`, 30 in `api/commands.go`) pass. Nothing obliges a
  service to stop.
- `DiscoveryFairness`: an agent that goes on trying meets, some time, a probe that is
  not lost and a dial that does not fail, if there is somebody who answers; a
  connection whose heartbeats nobody acknowledges ends.

## 5. Where the code and its words disagree

Shown by a run:

1. `presence_deleted`: a heartbeat that read the device before `DeleteDevice` writes
   it back (`ws/handler.go:182`), although the device was "removed from storage"
   (`api/devices.go:84`).
2. `relay_watch`: the operator who leaves stops the stream of the one who stays
   (`ws/operator.go:70`), whose WebSocket stays open and silent.

Met while modelling, and part of the models:

3. `enqueue` can report success for a connection that is already closed, against its
   comment (`ws/conn.go:50-51`): when two cases of a `select` are ready, Go picks
   either. The request then waits for its whole timeout.
4. After a `Delete` whose write failed, a device can be in the list twice and the
   one to be deleted is gone from memory although an error was returned; the next
   successful write stores that (`storage/devices.go:68`).
5. The handler of a replaced connection marks the device offline although its
   successor serves it (`ws/handler.go:66`), until the next heartbeat; `OnlineAgain`
   shows that the heartbeat repairs it.
6. A terminal that is started after `cleanup` has run, before the socket is closed, is
   in nobody's hands and is never closed (`agent/session.go:70`). `SessionEnds` lists
   what may outlive a session: such a shell and a reader that writes to it, and the two
   goroutines of any shell as long as `Wait` has not returned.
7. Losses that `NoLoss` does not cover, because `OneWay` leaves them out: copying a
   file onto itself empties it (`fsops.go:133-146`); two moves in opposite directions
   at once can each delete what the other has copied; a file that arrives in the source
   of a move between `ReadDir` and `RemoveAll` is deleted with it, and one that is
   renamed onto the source of a move of a single file, after that was copied, too
   (`fsops.go:115-119`; TLC finds the last one with `move b -> f3/b` beside
   `rename a -> b`). A write that fails while its own repetition runs can spoil what
   the repetition has finished (`spoiled`).
8. `disable` of the server says that the port is closed although the error of
   `removeFirewallRule` is not looked at (`cmd/server/setup_windows.go:95-96`).
9. A server process that cannot have the TCP port ends with exit code 0, so that the
   task's RestartOnFailure does not start it again (`cmd/server/main.go:62-65`). A UDP
   port that is taken is not tried again (`discovery.go:41`), as documented.
10. The agent writes the whole of its configuration back when it gets an identity:
    edits made while it runs are lost, and a `server_url` that was resolved from an
    address makes a later `server_host: auto` without effect (`config.go:79` and
    `:225`).
11. `restart` of a service that stops after the deadline of 20 seconds leaves it
    stopped; the caller is told an error (`winservices.go:105`). `procs.Kill` kills
    whatever has the number now.
12. An operator who leaves between a mouse "down" and "up" leaves the button down.

## 6. What is proved

Every theorem holds for all values of the constants that satisfy the named
assumptions of its module; TLC evaluates the same assumptions on every run.

| module | assumptions | what they say |
|---|---|---|
| Hub | `HubAssumption` | the buffer has at least one place; `None` is neither a connection nor a device |
| OperatorRelay | `RelayAssumption` | positive bounds |
| DeviceStore | `StoreAssumption` | `MaxItems` is a number, `None` is no status |
| Presence | `PresenceAssumption`, `NobodyAssumption` | `None` is none of the identities, and no device |
| AgentSession | `SendCapAssumption`, `NoneAssumption` | the channel has at least one place; `None` is no goroutine |
| AgentHost | `DevicesAssumption`, `FileAssumption` | the bound is a number; no file, a broken file and a text are different things |
| ServerLife | `SecretAssumption`, `NobodyAssumption`, `FileAssumption` | the same of secrets, processes and files |
| FileOps | `PathAssumption`, `NearAssumption`, `CommandsAssumption`, `ContentAssumption` | a file is not a folder; the first volume has some of the folders; commands are what the API can ask for; contents worth keeping differ from an upload, from a torn file and from no file |
| Machine | `EventsAssumption` | operators send mouse and key events of the protocol |
| Discovery | `NearAddrsAssumption`, `TextsAssumption`, `NoServerAssumption` | the segment has some of the addresses; what is written into the configuration is an address or "auto"; no server and another program are not servers |

There are no others. A theorem of a module that holds proofs about two components
cites the assumptions of its own component only. `FilesNoLoss` has a hypothesis
besides: some set of folders for which the commands are `OneWay`.

**Types.** The type invariant of every component is proved (`HubTypeCorrect`,
`RpcTypeCorrect`, `StoreTypeCorrect`, `PresenceTypeCorrect`, `RelayTypeCorrect`,
`SessionTypeCorrect`, `FilesTypeCorrect`, `HostTypeCorrect`, `ServerTypeCorrect`,
`MachineTypeCorrect`, `DiscoveryTypeCorrect`); most runs do not check it again.

**HubProofs, the hub.** `HubInv` is the inductive invariant. The properties are not
inductive: that the registry holds no dead connection (`NoGhost`) needs to know
that a connection can only be closed after it was added (`Called`, `Registered`),
otherwise a close that is over would be followed by the `add`; that in turn needs to
know which connection each kind of goroutine can be inside `close()` of
(`ServeShape`, `PumpShape`, `SendShape`, `CloseAllShape`).
`HubImplementsRegistry` takes each step of the hub to a step of `AgentRegistry` or to
a stutter: `Add` to `Connect`, `CloseMark` to `End`, and `CloseRemove`, when the entry
is still the connection's own, to `Disconnect`.

**HubProofs, requests.** Every step of the composition is a step of the hub or leaves the hub
alone (`RpcContainsHub`), so everything above holds in it as well. `OneReply`: a
request is in one place at most, in the table, in the hand of one reader, or answered
in its channel; so the one place of a channel is free when a reader sends
(`ReaderNeverBlocks`). It rests on `deliver` taking the entry out of the table in the
same region in which it looks it up. `QueueSent`, `SentOnly`, `Answered`: a command
that is in a queue, at an agent or executed is one of which `Send` said so; so a call
that ends as "not connected" was never executed, and `RpcImplementsRemoteCall` maps
each step to a step of `RemoteCall` or to a stutter.

**StoreProofs.** `Persisted` says what `persist` has done at each of its steps; from it
follow `FileIsWhole` and `AckedIsInFile`, whatever the callbacks compute.
`StoreImplementsDeviceMap` rests on what they compute. A reader finds of each key the
status of the first entry with it (`Find`), so the proof says for each callback what
it leaves of the first entry of each key: an overwritten or appended entry changes one
key (`OverwrittenIs`, `AppendIs`), an expired one goes from online to offline
(`ExpiredIs`), and the loop of `Delete` keeps the entries of all other keys in their
order (`KeptIs`). Delete moves entries inside the array that memory still shows, so a
delete whose write fails leaves a compacted prefix followed by the old rest
(`CompactedIs`); there the named key may show anything and every other key shows
what it did, which is exactly `Remains` of DeviceMap. `Pending` says that a request
that has no answer yet is the one whose list is being written. The loop is a recursive
function, and what it computes is proved by induction over its index. The library's
rule takes a predicate, which the provers cannot instantiate; `SetInduction` says
the same of a set of numbers, and follows from the well-foundedness of `<`
(`LeastElement`).

**RelayProofs.** `StreamIsWatched` says that no stream is forgotten: what the agent
will do once it has obeyed all that is on its way is to stream only if somebody
watches, or if its connection is replaced or closed and the session ends with it. It
rests on `LinkInv`, what the views of the two machines have to do with each other: a
session that is gone has no connection and no commands, only a connection that was
added can be the hub's entry, and a stream or a command of a session whose connection
was not added yet there is none. A stop that `Notify` loses is then one for a
connection that is replaced or closed, or for a session that has no stream. No stop
can overtake a start, since one operator sends both in order and `Obey` takes them in
order. `RelayInv` adds to the properties that a closed subscription
belongs to an operator in teardown (`ClosedIsLeaving`), without which a new
`Subscribe` could meet a closed channel. `HandlerAndWriter` says where the writer of an
operator can be for each place of its handler, and gives `NeitherWaits`, the safety
half of the teardown: a handler that waits for its writer has closed the channel and
nothing fills it any more, a writer that has ended has closed the socket its handler
reads, and a handler that has returned leaves nothing behind. That both do end is
`TeardownEnds`, under fairness, and stays with TLC.

**PresenceProofs.** That an agent keeps its identity (`IdentityKept`) is a property of
steps; only `Adopt` changes an identity, and `SaysIdentity` says what its one
connection can tell it: the identity it has, unless that was deleted. This needs
`IdsAreIssued` (an id is never handed out twice, and its device is stored or was
deleted, whence `RegisteredIsStored`) and `HandlerKnows` (a handler that is past the
lookup has a device).

**AgentProofs, the session.** `OneOwner` is inductive together with the types. That an output
can be at most one behind the notice (`NoticeOrder`) needs `NoticeInv`: once `Wait` has
returned the shell has ended and its output was taken, and only what `readLoop` then
had in its hands can come late. `QueueIsServed` is inductive alone: as long as the
context is not cancelled main, the reader and the writer are there, so that a sender
that finds the queue full, even one that holds the mutex, is either served or free to
give up. That it gets that far is `SessionEnds`, with TLC.

**AgentProofs, the files.** `NoLoss` says that every content worth keeping is whole in
some file, and is far from inductive: between copying and removal that file is the
one the move is about to remove. `FilesInv(S)`, for the folders `S` that the commands
empty, says why the removal is harmless. `MoveInv`: whatever the source of a move that
copies still holds is yet to be copied, or has `Landed` outside of `S` - or is on its
way there, in a file that is open -, or the move will end before it removes anything,
because a file it has listed was renamed away (`Leaves`). `WritingInv` makes "on its
way" worth something: what is being written is torn, what is being copied is there,
and two goroutines that write different contents into one file both know it (`mixed`)
and nobody minds, since these contents count as asked for. The steps that matter are
`CreateInv` (a file is truncated), `CloseInv` (a copy lands), `RemoveInv` and
`RenameInv`, where `OneWay` is used: a renamed file can neither arrive on a name that
another rename vacates nor on the source of a move. `Sides` says that copying reads in
`S` and writes outside of it. When a write has failed beside others (`spoiled`)
nothing is claimed.

**ComputerProofs, Discovery.** `ReportedOpen` needs `SecondRule`: the second rule is
only added when the first one is there, so the success of the second is that of both.

**ComputerProofs, Machine.** `OkIsTrue` needs `JobsInv`: what each place in a job has
seen (`Known`) - a restart that starts the service has seen it stopped, also when
somebody else stopped it -, and that others' effects only add to `did`. `KeysAreOwn`
needs `KeysInv`: one event at a time is in hand, and every key that is down comes up
in what is left of it (`Owes`), so no other event's modifiers can be down. That holds
because the strokes of every event are `Clean`: each key that goes down comes up later
in the same event. For key combinations and texts of any length this is proved from the
shape of the lists that `KeyStrokes` and `TextStrokes` build (`Mirrors`, `BracketClean`,
`StrokesClean`); that `Filtered`, the loop over the modifiers, returns modifiers only
is again an induction over its index.

**HostProofs.** `DevicesAccounted` bounds the devices of a PC by one and the mishaps.
`HostInv` counts what those devices are: every one the server stores is in the file,
in the hands of a process, or an orphan that nobody has any more, and
`Accounts` says that the orphans, an identity that the file has lost while a process
still has it (`Forgotten`), and the processes that run make no more than one and the
mishaps. A process is counted because it may create a device without any further
mishap; the first to run need not be paid for, since alone it registers only when
the file has no device that the server knows (`Settled`). `IdsIssued` and
`AnswerIsNew` keep the count honest: an answer that is not what the process had is a
device that nobody else has, so that losing it makes one orphan. `MishapStep`,
`BeginKeeps` and `EndCounts` show that a mishap, a beginning and the end of any set of
processes keep the balance, `CalmStep` and `SettledStep` the same of all other
steps.

**ServerProofs.** `OperatorsKept` needs `ReadIsWritten`: what a process has loaded is
what the files say, unless a configuration was `rewritten`. `BroadcastReaches` needs
`StayedIsReached`: whoever stayed connected is still to be looked up, still to be told,
or reached; whoever loses its connection leaves `stayed` in the same step
(`LeavesKeeps`).

**Only model-checked:** the liveness properties (`ClosedIsReleased`,
`AcceptedIsSentOrCut`, `RequestReturns`, `OfflineInTheEnd`, `OnlineAgain`,
`TeardownEnds`, `StreamStops`, `SessionEnds`, `ServesAgain`, `JobEnds`,
`FollowsServer`): the prover handles neither fairness nor ENABLED. Every invariant,
action property and refinement that a passing run checks is also proved.

## 7. Plan

1. Safety parts of the liveness properties as invariants that can be proved: of the
   goroutines of a session that is over, which one can always go on.
2. The terminal channel of the relay, and the input that `ServeOperator` forwards;
   `CloseAll` against an agent that is accepted during `Shutdown`.
3. The life of the Android agent's screen projection.
4. Several servers on one segment in Discovery; saves that fail inside the
   handlers of Presence.

## 8. Not modelled

- Contents, encodings, wording and logging: no property is about them. So are the
  quality of the screen stream, saved screenshots, metrics and the fields of a device
  other than its identity, status and LastSeen.
- Screen capture and system information: calls of the operating system that only
  read; that a stream sends and ends is in AgentSession. A dialog that shows a
  message to the user changes nothing and blocks only its own goroutine.
- A failure of the machine under the server: `persist` renames without flushing, and
  what a power failure leaves depends on the file system. (A power failure of the
  agent's PC is in AgentHost.)
- Saves that fail inside `handleHeartbeat` and `markOffline`: they log and go on; the
  failing save itself is in DeviceStore.
- The deletion of a device is one step in AgentHost; that a heartbeat can undo it
  (`presence_deleted`) is not composed with the files of the PC.
- Machine has one agent process and one reader on a computer. Two of them that press
  keys at once would share a keyboard; what `KeysAreOwn` shows is that no event leaves
  a modifier to the next one.
- Three hazards are in a model but outside of every property: a configuration of the
  server that was cut and parses (`cmd/server/setup.go:67`), a number of a process
  that Windows has given to another (`procs.go:43`), a UDP port that is taken
  (`discovery.go:41`).
- A deadlock with `hub.mu` held: see Hub.
- Cryptography and expiry dates of tokens are a library's: a session may be over at
  any time (`Logout`).
- The elevation of enable and disable, and the choice of a configuration path.
- `win7/` holds a copy of the agent for an older toolchain: the same code but for the
  library's version, an older default heartbeat (5 s / 15 s) and two device fields
  it lacks; AgentSession, FileOps, AgentHost and Machine describe it as well but
  are mapped to the code under `internal/` and `cmd/`.
- The Android agent (see the plan) and the web pages, which render.
