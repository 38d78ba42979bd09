----------------------------- MODULE ServerLife -----------------------------
(***************************************************************************)
(* The life of a server process: cmd/server, the first user, the HTTP      *)
(* server with its shutdown.  Nothing but the port keeps two processes     *)
(* from running at once (the boot task and one started by hand); they      *)
(* share the configuration and the users, which are files.                 *)
(*                                                                         *)
(* Of config.yaml the model keeps whether it makes the server listen on    *)
(* every interface and its jwt_secret: a number, 0 for the one that is     *)
(* compiled in.                                                            *)
(***************************************************************************)
EXTENDS Naturals, FiniteSets

CONSTANTS Servers,     \* processes
          Devices,     \* devices, each with an agent
          MaxSecret,   \* bound: secrets drawn
          None,        \* nobody
          Absent,      \* no file
          Broken       \* a file that cannot be parsed

ASSUME SecretAssumption == MaxSecret \in Nat
ASSUME NobodyAssumption == None \notin Servers

VARIABLES
  config,     \* config.yaml
  drawn,      \* secrets drawn so far
  usersFile,  \* users.json holds a user
  stage,      \* where each process is
  cfg,        \* the configuration it has loaded
  admin,      \* its memory holds a user
  port,       \* the process that listens
  stored,     \* devices in the store
  online,     \* the devices connected to each process: its hub
  rewritten   \* a configuration has been overwritten by that of another first start

files == <<config, drawn, usersFile>>
agents == <<stored, online>>
lifeVars == <<files, stage, cfg, admin, port, agents, rewritten>>

Text == [open : BOOLEAN, secret : 0 .. MaxSecret]
Default == [open |-> FALSE, secret |-> 0]

ASSUME FileAssumption == Absent # Broken /\ Absent \notin Text /\ Broken \notin Text

\* A template that was not written to its end: server.host comes before auth.
Cuts == {Broken, Default, [open |-> TRUE, secret |-> 0]}

\* The hub serves; the listener is still open.
Up(s) == stage[s] \in {"serving", "closing", "draining"}
Listening(s) == port = s

LifeInit ==
  /\ config = Absent
  /\ drawn = 0
  /\ usersFile = FALSE
  /\ stage = [s \in Servers |-> "off"]
  /\ cfg = [s \in Servers |-> Default]
  /\ admin = [s \in Servers |-> FALSE]
  /\ port = None
  /\ stored = {}
  /\ online = [s \in Servers |-> {}]
  /\ rewritten = FALSE

Goto(s, next) == stage' = [stage EXCEPT ![s] = next]

-----------------------------------------------------------------------------
(* main and run.                                                           *)

Start(s) ==
  /\ stage[s] = "off"
  /\ Goto(s, "ensure")
  /\ UNCHANGED <<files, cfg, admin, port, agents, rewritten>>

\* ensureConfig looks for the file.
EnsureConfig(s) ==
  /\ stage[s] = "ensure"
  /\ Goto(s, IF config = Absent THEN "template" ELSE "load")
  /\ UNCHANGED <<files, cfg, admin, port, agents, rewritten>>

\* It writes one with a secret of its own, by now perhaps over that of another
\* process; the server has then to be started again.
WriteTemplate(s) ==
  /\ stage[s] = "template"
  /\ drawn < MaxSecret
  /\ drawn' = drawn + 1
  /\ config' = [open |-> TRUE, secret |-> drawn + 1]
  /\ rewritten' = (rewritten \/ config # Absent)
  /\ Goto(s, "told")
  /\ UNCHANGED <<usersFile, cfg, admin, port, agents>>

\* Fault: the file is taken as it is.
LoadUnchecked(s) ==
  /\ stage[s] = "load"
  /\ cfg' = [cfg EXCEPT ![s] = config]
  /\ Goto(s, "open")
  /\ UNCHANGED <<files, admin, port, agents, rewritten>>

LoadConfig(s) ==
  /\ stage[s] = "load"
  /\ \/ /\ config # Broken
        /\ cfg' = [cfg EXCEPT ![s] = IF config = Absent THEN Default ELSE config]
        /\ Goto(s, "open")
     \/ config = Broken /\ Goto(s, "failed") /\ UNCHANGED cfg
  /\ UNCHANGED <<files, admin, port, agents, rewritten>>

\* storage.Open reads the users (or fails).
OpenStore(s) ==
  /\ stage[s] = "open"
  /\ \/ Goto(s, "admin") /\ admin' = [admin EXCEPT ![s] = usersFile]
     \/ Goto(s, "failed") /\ UNCHANGED admin
  /\ UNCHANGED <<files, cfg, port, agents, rewritten>>

\* Fault: the server goes on when the first user cannot be saved.
EnsureAdminLater(s) ==
  /\ stage[s] = "admin"
  /\ usersFile' \in {usersFile, TRUE}
  /\ admin' = [admin EXCEPT ![s] = usersFile']
  /\ Goto(s, "listen")
  /\ UNCHANGED <<config, drawn, cfg, port, agents, rewritten>>

EnsureDefaultAdmin(s) ==
  /\ stage[s] = "admin"
  /\ \/ admin[s] /\ Goto(s, "listen") /\ UNCHANGED <<usersFile, admin>>
     \/ /\ ~admin[s]
        /\ usersFile' = TRUE
        /\ admin' = [admin EXCEPT ![s] = TRUE]
        /\ Goto(s, "listen")
     \/ ~admin[s] /\ Goto(s, "failed") /\ UNCHANGED <<usersFile, admin>>
  /\ UNCHANGED <<config, drawn, cfg, port, agents, rewritten>>

\* listen fails when another process has the port.
Listen(s) ==
  /\ stage[s] = "listen"
  /\ IF port = None
     THEN port' = s /\ Goto(s, "serving")
     ELSE Goto(s, "failed") /\ UNCHANGED port
  /\ UNCHANGED <<files, cfg, admin, agents, rewritten>>

\* shutdown: first CloseAll, then Shutdown closes the listener and waits.
CloseAll(s) ==
  /\ stage[s] = "serving"
  /\ online' = [online EXCEPT ![s] = {}]
  /\ Goto(s, "closing")
  /\ UNCHANGED <<files, cfg, admin, port, stored, rewritten>>

Shutdown(s) ==
  /\ stage[s] = "closing"
  /\ port' = None
  /\ Goto(s, "draining")
  /\ UNCHANGED <<files, cfg, admin, agents, rewritten>>

\* The process ends: after the drain, from a dialog, or because it is killed, then
\* perhaps in the middle of the template.
End(s) ==
  /\ stage[s] # "off"
  /\ Goto(s, "off")
  /\ cfg' = [cfg EXCEPT ![s] = Default]
  /\ admin' = [admin EXCEPT ![s] = FALSE]
  /\ port' = IF port = s THEN None ELSE port
  /\ online' = [online EXCEPT ![s] = {}]
  /\ IF stage[s] = "template"
     THEN config' \in Cuts \cup {config}
     ELSE UNCHANGED config
  /\ rewritten' = (rewritten \/ (config # Absent /\ config' # config))
  /\ UNCHANGED <<drawn, usersFile, stored>>

-----------------------------------------------------------------------------
(* Agents, as far as requests see them; their connections are in Hub.      *)

Connect(s, d) ==
  /\ Listening(s)
  /\ cfg[s].open
  /\ \A r \in Servers : d \notin online[r]
  /\ online' = [online EXCEPT ![s] = @ \cup {d}]
  /\ stored' = stored \cup {d}
  /\ UNCHANGED <<files, stage, cfg, admin, port, rewritten>>

\* A connection is lost, or cut because its queue is full.
Cut(s, d) ==
  /\ d \in online[s]
  /\ online' = [online EXCEPT ![s] = @ \ {d}]
  /\ UNCHANGED <<files, stage, cfg, admin, port, stored, rewritten>>
=============================================================================
