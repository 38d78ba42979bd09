----------------------------- MODULE AgentHost -----------------------------
(***************************************************************************)
(* The agent on its PC: the configuration file with the identity of the    *)
(* device, and the processes that read and rewrite it - that of the        *)
(* scheduled task, that of the Windows service and those started by hand.  *)
(* Nothing keeps two of them from running at once.                         *)
(*                                                                         *)
(* Of the file the model keeps the identity: the number of the device, 0   *)
(* for none or for an id that no server knows, and whether the token is    *)
(* whole.  The server is external here (its side is in Presence): it       *)
(* stores devices, and an operator may delete them.                        *)
(***************************************************************************)
EXTENDS Naturals, FiniteSets

CONSTANTS ByHand,       \* processes started by hand
          MaxDevices,   \* bound: devices that the server creates for this PC
          Absent,       \* no file
          Broken        \* a file that cannot be parsed

Procs == {"task", "service"} \cup ByHand

ASSUME DevicesAssumption == MaxDevices \in Nat

VARIABLES
  power,     \* "off", "boot" (nobody has logged in) or "user"
  task,      \* the scheduled task is registered
  service,   \* the service is "none", "present" or being "deleted"
  stopping,  \* the service has been told to stop
  phase,     \* what each process is doing
  mem,       \* its configuration
  got,       \* the device in the answer of the server
  file,      \* agent.yaml
  known,     \* devices of this PC that the server stores
  issued,    \* devices it has created
  mishaps    \* how often something happened that may cost the PC a device more

setup == <<power, task, service>>
server == <<known, issued>>
hostVars == <<setup, stopping, phase, mem, got, file, server, mishaps>>

Text == [id : 0 .. MaxDevices, whole : BOOLEAN]

ASSUME FileAssumption == Absent # Broken /\ Absent \notin Text /\ Broken \notin Text

\* The template, the defaults and an empty file say the same.
Blank == [id |-> 0, whole |-> TRUE]

\* What can be left of a text that was not written to its end: the id is written
\* before the token.
Cuts(t) == {Broken, Blank} \cup {u \in {[t EXCEPT !.whole = FALSE]} : t.id # 0}

On(p) == phase[p] # "off"

HostInit ==
  /\ power = "off"
  /\ task = FALSE
  /\ service = "none"
  /\ stopping = FALSE
  /\ phase = [p \in Procs |-> "off"]
  /\ mem = [p \in Procs |-> Blank]
  /\ got = [p \in Procs |-> 0]
  /\ file = Absent
  /\ known = {}
  /\ issued = 0
  /\ mishaps = 0

Goto(p, next) == phase' = [phase EXCEPT ![p] = next]

\* Counted as far as it matters: there are no more than MaxDevices devices.
Mishap(c) == mishaps' = IF c /\ mishaps < MaxDevices THEN mishaps + 1 ELSE mishaps

-----------------------------------------------------------------------------
(* Processes begin and end.                                                *)

\* runConsole begins with ensureConfig; a service does not.  Two processes side by
\* side are a mishap, once.
Begin(p) ==
  /\ ~On(p)
  /\ Goto(p, IF p = "service" THEN "load" ELSE "check")
  /\ Mishap(\E q \in Procs : On(q))
  /\ UNCHANGED <<setup, stopping, mem, got, file, server>>

\* By the logon trigger, by enable or by the scheduler after a failure; a task that
\* runs is not started again.
StartTask == power = "user" /\ task /\ Begin("task")

\* By the start of Windows or by the start command.
StartService == power # "off" /\ service = "present" /\ Begin("service")

StartByHand(p) == power = "user" /\ Begin(p)

Identified(t) == t \notin {Absent, Broken} /\ t.id # 0

\* p writes to the file, or is about to.
Writing(p) == phase[p] \in {"template", "saving"}
Output(p) == IF phase[p] = "saving" THEN mem[p] ELSE Blank

\* A new identity that exists only in p: it has not reached the file.
Unsaved(p) ==
  \/ phase[p] \in {"save", "saving"}
  \/ phase[p] = "reply" /\ got[p] # mem[p].id

\* The processes of ps end, wherever they are.
End(ps) ==
  /\ phase' = [p \in Procs |-> IF p \in ps THEN "off" ELSE phase[p]]
  /\ mem' = [p \in Procs |-> IF p \in ps THEN Blank ELSE mem[p]]
  /\ got' = [p \in Procs |-> IF p \in ps THEN 0 ELSE got[p]]
  /\ IF \E p \in ps : Writing(p)
     THEN \E p \in ps : Writing(p) /\ file' \in Cuts(Output(p)) \cup {Output(p), file}
     ELSE UNCHANGED file
  /\ Mishap((\E p \in ps : Unsaved(p)) \/ (Identified(file) /\ file' # file))
  /\ IF "service" \in ps
     THEN stopping' = FALSE /\ service' = IF service = "deleted" THEN "none" ELSE service
     ELSE UNCHANGED <<stopping, service>>
  /\ UNCHANGED <<task, server>>

Boot ==
  /\ power = "off"
  /\ power' = "boot"
  /\ UNCHANGED <<task, service, stopping, phase, mem, got, file, server, mishaps>>

Logon ==
  /\ power = "boot"
  /\ power' = "user"
  /\ UNCHANGED <<task, service, stopping, phase, mem, got, file, server, mishaps>>

Logoff == power = "user" /\ power' = "boot" /\ End(Procs \ {"service"})
PowerOff == power # "off" /\ power' = "off" /\ End(Procs)

\* A crash, or the Task Manager.
Kill(p) == On(p) /\ End({p}) /\ UNCHANGED power

\* The user closes the dialog of an error: the process ends without failure.
CloseDialog(p) == p # "service" /\ phase[p] = "failed" /\ End({p}) /\ UNCHANGED power

-----------------------------------------------------------------------------
(* The commands of cmd/agent.                                              *)

\* enable: the configuration is prepared, the task registered (or not).
Enable ==
  /\ power = "user"
  /\ file' = IF file = Absent THEN Blank ELSE file
  /\ task' \in {task, TRUE}
  /\ UNCHANGED <<power, service, stopping, phase, mem, got, server, mishaps>>

\* disable removes the task; a process that runs goes on.
Disable ==
  /\ power = "user"
  /\ task' = FALSE
  /\ UNCHANGED <<power, service, stopping, phase, mem, got, file, server, mishaps>>

InstallService ==
  /\ power = "user"
  /\ service = "none"
  /\ service' = "present"
  /\ UNCHANGED <<power, task, stopping, phase, mem, got, file, server, mishaps>>

\* stop, and the first half of uninstall.
StopService ==
  /\ power # "off"
  /\ On("service")
  /\ stopping' = TRUE
  /\ service' \in {service, "deleted"}
  /\ UNCHANGED <<power, task, phase, mem, got, file, server, mishaps>>

\* Execute waits for the work to end, but for no more than ten seconds.
ServiceEnds == (stopping \/ phase["service"] = "failed") /\ End({"service"}) /\ UNCHANGED power

\* A service that does not run is deleted at once.
UninstallService ==
  /\ power = "user"
  /\ ~On("service")
  /\ service' = "none"
  /\ UNCHANGED <<power, task, stopping, phase, mem, got, file, server, mishaps>>

-----------------------------------------------------------------------------
(* A process: configuration, registration, session.                        *)

ProcUnchanged == UNCHANGED <<setup, stopping>>

\* ensureConfig looks for the file and then writes the template, if there was none.
EnsureConfig(p) ==
  /\ phase[p] = "check"
  /\ Goto(p, IF file = Absent THEN "template" ELSE "load")
  /\ UNCHANGED <<mem, got, file, server, mishaps>>
  /\ ProcUnchanged

\* By now another process may have created the file: it is overwritten.
WriteTemplate(p) ==
  /\ phase[p] = "template"
  /\ file' = Blank
  /\ Mishap(Identified(file))
  /\ Goto(p, "load")
  /\ UNCHANGED <<mem, got, server>>
  /\ ProcUnchanged

\* Fault: the file is taken as it is.
LoadUnchecked(p) ==
  /\ phase[p] = "load"
  /\ mem' = [mem EXCEPT ![p] = file]
  /\ Goto(p, "connect")
  /\ UNCHANGED <<got, file, server, mishaps>>
  /\ ProcUnchanged

\* A file that does not exist gives the defaults; one that cannot be parsed ends in
\* a dialog, or in the silent end of a service.
Load(p) ==
  /\ phase[p] = "load"
  /\ \/ /\ file # Broken
        /\ mem' = [mem EXCEPT ![p] = IF file = Absent THEN Blank ELSE file]
        /\ Goto(p, "connect")
     \/ file = Broken /\ Goto(p, "failed") /\ UNCHANGED mem
  /\ UNCHANGED <<got, file, server, mishaps>>
  /\ ProcUnchanged

\* The server is found and answers a registration: a known device with its token
\* is accepted, one with another token refused - and tried again, for ever -, and
\* what the server does not know becomes a new device.
Accepted(p) == mem[p].id \in known /\ mem[p].whole
Rejected(p) == mem[p].id \in known /\ ~mem[p].whole

Answer(p, d) == got' = [got EXCEPT ![p] = d] /\ Goto(p, "reply")

RegisterKnown(p) ==
  /\ phase[p] = "connect"
  /\ Accepted(p)
  /\ Answer(p, mem[p].id)
  /\ UNCHANGED <<mem, file, server, mishaps>>
  /\ ProcUnchanged

\* Fault: an id that the server does not know is refused.
RegisterOnlyBlank(p) ==
  /\ phase[p] = "connect"
  /\ mem[p].id = 0
  /\ issued < MaxDevices
  /\ issued' = issued + 1
  /\ known' = known \cup {issued + 1}
  /\ Answer(p, issued + 1)
  /\ UNCHANGED <<mem, file, mishaps>>
  /\ ProcUnchanged

RegisterNew(p) ==
  /\ phase[p] = "connect"
  /\ mem[p].id \notin known
  /\ issued < MaxDevices
  /\ issued' = issued + 1
  /\ known' = known \cup {issued + 1}
  /\ Answer(p, issued + 1)
  /\ UNCHANGED <<mem, file, mishaps>>
  /\ ProcUnchanged

\* The answer is lost with the connection, or comes after 15 seconds.
LoseAnswer(p) ==
  /\ phase[p] = "reply"
  /\ got' = [got EXCEPT ![p] = 0]
  /\ Mishap(got[p] # mem[p].id)
  /\ Goto(p, "connect")
  /\ UNCHANGED <<mem, file, server>>
  /\ ProcUnchanged

\* Fault: the new identity is only kept in memory.
AdoptInMemory(p) ==
  /\ phase[p] = "reply"
  /\ mem' = [mem EXCEPT ![p].id = got[p], ![p].whole = TRUE]
  /\ Goto(p, "serving")
  /\ UNCHANGED <<got, file, server, mishaps>>
  /\ ProcUnchanged

\* persistIdentity: what is new is adopted and saved.
Adopt(p) ==
  /\ phase[p] = "reply"
  /\ IF got[p] = mem[p].id
     THEN Goto(p, "serving") /\ UNCHANGED mem
     ELSE Goto(p, "save") /\ mem' = [mem EXCEPT ![p].id = got[p], ![p].whole = TRUE]
  /\ UNCHANGED <<got, file, server, mishaps>>
  /\ ProcUnchanged

\* Save truncates the file and writes it.
OpenSave(p) ==
  /\ phase[p] = "save"
  /\ file' = Blank
  /\ Goto(p, "saving")
  /\ UNCHANGED <<mem, got, server, mishaps>>
  /\ ProcUnchanged

Save(p) ==
  /\ phase[p] = "saving"
  /\ file' = mem[p]
  /\ Goto(p, "serving")
  /\ UNCHANGED <<mem, got, server, mishaps>>
  /\ ProcUnchanged

\* A failure is only logged; it leaves the file as it was, or a part of the text.
SaveFails(p) ==
  /\ \/ phase[p] = "save" /\ UNCHANGED file
     \/ phase[p] = "saving" /\ file' \in Cuts(mem[p])
  /\ Mishap(TRUE)
  /\ Goto(p, "serving")
  /\ UNCHANGED <<mem, got, server>>
  /\ ProcUnchanged

\* The session ends with its connection; after reconnect_seconds comes the next.
Disconnect(p) ==
  /\ phase[p] = "serving"
  /\ got' = [got EXCEPT ![p] = 0]
  /\ Goto(p, "connect")
  /\ UNCHANGED <<mem, file, server, mishaps>>
  /\ ProcUnchanged

\* External: an operator deletes a device.
DeleteDevice(d) ==
  /\ known' = known \ {d}
  /\ UNCHANGED <<setup, stopping, phase, mem, got, file, issued, mishaps>>

-----------------------------------------------------------------------------
ProcStep(p) ==
  \/ EnsureConfig(p) \/ WriteTemplate(p) \/ Load(p)
  \/ RegisterKnown(p) \/ RegisterNew(p) \/ LoseAnswer(p) \/ Adopt(p)
  \/ OpenSave(p) \/ Save(p) \/ SaveFails(p) \/ Disconnect(p)

HostNext ==
  \/ StartTask \/ StartService \/ \E p \in ByHand : StartByHand(p)
  \/ Boot \/ Logon \/ Logoff \/ PowerOff
  \/ Enable \/ Disable \/ InstallService \/ StopService \/ ServiceEnds \/ UninstallService
  \/ \E p \in Procs : ProcStep(p) \/ Kill(p) \/ CloseDialog(p)
  \/ \E d \in known : DeleteDevice(d)

HostSpec == HostInit /\ [][HostNext]_hostVars

\* The task is fair, whatever other processes do: it goes on, and while it keeps
\* trying it meets, some time, a server that can be reached, an answer that arrives
\* and a write that does not fail.
HostFairness ==
  /\ WF_hostVars(EnsureConfig("task") \/ WriteTemplate("task") \/ Load("task"))
  /\ SF_hostVars(RegisterKnown("task") \/ RegisterNew("task"))
  /\ SF_hostVars(Adopt("task"))
  /\ WF_hostVars(OpenSave("task") \/ Save("task"))

-----------------------------------------------------------------------------
(* Properties.                                                             *)

HostTypeOK ==
  /\ power \in {"off", "boot", "user"}
  /\ task \in BOOLEAN
  /\ service \in {"none", "present", "deleted"}
  /\ stopping \in BOOLEAN
  /\ phase \in [Procs -> {"off", "check", "template", "load", "failed", "connect",
                          "reply", "save", "saving", "serving"}]
  /\ mem \in [Procs -> Text]
  /\ got \in [Procs -> 0 .. MaxDevices]
  /\ file \in Text \cup {Absent, Broken}
  /\ issued \in 0 .. MaxDevices
  /\ known \subseteq 1 .. issued
  /\ mishaps \in 0 .. MaxDevices

\* A PC is one device of the server, and every further one has been paid for:
\* restarts, disconnections, deletions and renewed registrations create none, and
\* none of these costs more than one device - an answer to a first registration that
\* is lost, a save that fails, the end of processes amid saving an identity, a
\* template written over one, and a process that begins next to another, however
\* often the two register afterwards (client.go:164-173, config.go:124-138).
DevicesAccounted == Cardinality(known) <= 1 + mishaps

\* An agent that goes on running serves its PC again and again, whatever happened
\* before, unless its token was cut: that one the server refuses for ever
\* (client.go:45-64, handler.go:110-117).  Up to the bound on devices.
ServesAgain ==
  <>[](phase["task"] \notin {"off", "failed"}) =>
    \/ []<>(phase["task"] = "serving")
    \/ <>[]Rejected("task")
    \/ <>[](mem["task"].id \notin known /\ issued = MaxDevices)
=============================================================================
