------------------------------ MODULE Machine ------------------------------
(***************************************************************************)
(* What the commands of operators do to a computer outside its files: its  *)
(* services, its processes, its keyboard and its power.  A command goes    *)
(* through a REST handler, Hub.Request and the agent, which runs it in a   *)
(* goroutine of its own, so that commands overlap; keys and clicks come    *)
(* through the WebSocket of an operator and are executed by the reader of  *)
(* the agent itself, one after the other.                                  *)
(*                                                                         *)
(* Windows - its service manager, its processes, its power - is external:  *)
(* services hang, fail and are controlled by others, the computer is       *)
(* switched off and the agent is killed at any point.                      *)
(***************************************************************************)
EXTENDS Integers, Sequences, SequencesExt

CONSTANTS Calls,      \* REST calls under way, with the goroutines they begin
          Services,   \* names of services
          Pids,       \* process numbers, which Windows uses again
          Operators,  \* operators who type and click
          Events      \* bound: the events that they send

\* Keys with their modifiers, texts and the mouse.
InputEvents ==
  [kind : {"key"}, mods : Seq(STRING), key : STRING]
  \cup [kind : {"text"}, runes : Seq({"bmp", "beyond"})]
  \cup [kind : {"mouse"}, action : STRING]

ASSUME EventsAssumption == Events \subseteq InputEvents

VARIABLES
  computer,  \* "off", "alone" (without agent) or "on" (the agent is connected)
  svc,       \* the state of each service
  runs,      \* the process numbers in use
  cmd,       \* the command of each call
  told,      \* what the caller knows: "idle", "waiting", "ok" or "error"
  job,       \* what the agent does for it
  did,       \* what has happened on the computer on behalf of the call
  hand,      \* the strokes that are left of an operator's event
  held,      \* keys and buttons that are down
  stuck      \* those left down by an agent that was killed

commands == <<cmd, told, job, did>>
input == <<hand, held, stuck>>
machineVars == <<computer, svc, runs, commands, input>>

Commands == [do : {"start", "stop", "restart"}, to : Services]
            \cup [do : {"kill"}, to : Pids]

NoCommand == [do |-> "none", to |-> "none"]

\* What a command has to bring about before its caller may be told "ok".
Asked(k) == CASE k.do = "start" -> {"started"}
              [] k.do = "stop" -> {"stopping"}
              [] k.do = "restart" -> {"stopping", "stopped", "started"}
              [] k.do = "kill" -> {"killed"}

MachineInit ==
  /\ computer = "on"
  /\ svc = [s \in Services |-> "running"]
  /\ runs = {}
  /\ cmd = [c \in Calls |-> NoCommand]
  /\ told = [c \in Calls |-> "idle"]
  /\ job = [c \in Calls |-> "none"]
  /\ did = [c \in Calls |-> {}]
  /\ hand = [o \in Operators |-> <<>>]
  /\ held = {}
  /\ stuck = {}

-----------------------------------------------------------------------------
(* The caller: ControlService, KillProcess and proxy.                      *)

Call(c, k) ==
  /\ told[c] = "idle"
  /\ job[c] = "none"
  /\ cmd' = [cmd EXCEPT ![c] = k]
  /\ \/ /\ computer = "on"
        /\ told' = [told EXCEPT ![c] = "waiting"]
        /\ job' = [job EXCEPT ![c] = "sent"]
     \/ /\ computer # "on"
        /\ told' = [told EXCEPT ![c] = "error"]
        /\ UNCHANGED job
  /\ UNCHANGED <<computer, svc, runs, did, input>>

\* After thirty seconds the caller is answered without the agent, whose goroutine
\* goes on.
Timeout(c) ==
  /\ told[c] = "waiting"
  /\ told' = [told EXCEPT ![c] = "error"]
  /\ UNCHANGED <<computer, svc, runs, cmd, job, did, input>>

\* The answer has been read; the next call can come.
Forget(c) ==
  /\ told[c] \in {"ok", "error"}
  /\ job[c] = "none"
  /\ told' = [told EXCEPT ![c] = "idle"]
  /\ cmd' = [cmd EXCEPT ![c] = NoCommand]
  /\ did' = [did EXCEPT ![c] = {}]
  /\ UNCHANGED <<computer, svc, runs, job, input>>

-----------------------------------------------------------------------------
(* The agent's goroutine: winservices.Control and procs.Kill.              *)

Goto(c, next) == job' = [job EXCEPT ![c] = next]

\* Service s changes to state v, which counts for call c and, when it is "stopped",
\* for all that wait for that.
Effect(s, v, c, what) ==
  /\ svc' = [svc EXCEPT ![s] = v]
  /\ did' = [d \in Calls |->
       did[d] \cup (IF d = c THEN {what} ELSE {})
              \cup (IF v = "stopped" /\ cmd[d].to = s /\ (d = c \/ job[d] = "wait")
                    THEN {"stopped"} ELSE {})]

Doing(c, do) == job[c] = "sent" /\ cmd[c].do = do

\* No rights, no such service or process, a request that cannot be decoded, or a
\* service that is in no state to obey.
Refuse(c) ==
  /\ job[c] = "sent"
  /\ Goto(c, "no")
  /\ UNCHANGED <<computer, svc, runs, cmd, told, did, input>>

Start(c) ==
  /\ Doing(c, "start") \/ job[c] = "down"
  /\ svc[cmd[c].to] = "stopped"
  /\ Effect(cmd[c].to, "starting", c, "started")
  /\ Goto(c, "yes")
  /\ UNCHANGED <<computer, runs, cmd, told, input>>

Stop(c) ==
  /\ Doing(c, "stop")
  /\ svc[cmd[c].to] = "running"
  /\ \E v \in {"stopping", "stopped"} : Effect(cmd[c].to, v, c, "stopping")
  /\ Goto(c, "yes")
  /\ UNCHANGED <<computer, runs, cmd, told, input>>

\* Fault: the error of Control is not looked at.
RestartAnyway(c) ==
  /\ Doing(c, "restart")
  /\ \/ /\ svc[cmd[c].to] = "running"
        /\ Effect(cmd[c].to, "stopping", c, "stopping")
        /\ Goto(c, "wait")
     \/ /\ svc[cmd[c].to] = "stopped"
        /\ Goto(c, "down")
        /\ UNCHANGED <<svc, did>>
  /\ UNCHANGED <<computer, runs, cmd, told, input>>

\* stopAndWait begins: the state comes with the answer to Control.
Restart(c) ==
  /\ Doing(c, "restart")
  /\ svc[cmd[c].to] = "running"
  /\ \E v \in {"stopping", "stopped"} :
       /\ Effect(cmd[c].to, v, c, "stopping")
       /\ Goto(c, IF v = "stopped" THEN "down" ELSE "wait")
  /\ UNCHANGED <<computer, runs, cmd, told, input>>

Query(c) ==
  /\ job[c] = "wait"
  /\ svc[cmd[c].to] = "stopped"
  /\ Goto(c, "down")
  /\ UNCHANGED <<computer, svc, runs, cmd, told, did, input>>

\* Fault: the wait has no deadline.
WaitForEver(c) ==
  /\ job[c] = "wait"
  /\ svc[cmd[c].to] = "stopped"
  /\ Goto(c, "no")
  /\ UNCHANGED <<computer, svc, runs, cmd, told, did, input>>

\* The state cannot be queried, or twenty seconds are over: the service, which may
\* stop later, is not started again.
GiveUp(c) ==
  /\ job[c] = "wait"
  /\ Goto(c, "no")
  /\ UNCHANGED <<computer, svc, runs, cmd, told, did, input>>

\* It cannot be started, or somebody else has done it.
StartFails(c) ==
  /\ job[c] = "down"
  /\ Goto(c, "no")
  /\ UNCHANGED <<computer, svc, runs, cmd, told, did, input>>

\* Whatever process has the number now.
Kill(c) ==
  /\ Doing(c, "kill")
  /\ cmd[c].to \in runs
  /\ runs' = runs \ {cmd[c].to}
  /\ did' = [did EXCEPT ![c] = @ \cup {"killed"}]
  /\ Goto(c, "yes")
  /\ UNCHANGED <<computer, svc, cmd, told, input>>

\* The answer reaches Request, which may have given up.
Answer(c) ==
  /\ job[c] \in {"yes", "no"}
  /\ told' = [told EXCEPT ![c] = IF told[c] # "waiting" THEN @
                                 ELSE IF job[c] = "yes" THEN "ok" ELSE "error"]
  /\ Goto(c, "none")
  /\ UNCHANGED <<computer, svc, runs, cmd, did, input>>

\* The command or the answer is lost with the connection.
Lose(c) ==
  /\ job[c] \in {"sent", "yes", "no"}
  /\ Goto(c, "none")
  /\ UNCHANGED <<computer, svc, runs, cmd, told, did, input>>

-----------------------------------------------------------------------------
(* Keys and clicks: input.Key and input.Mouse.                             *)

Down(k) == [key |-> k, down |-> TRUE]
Up(k) == [key |-> k, down |-> FALSE]

\* The names of a key: they stand for the first that CHOOSE picks.  Letters and digits
\* are a letter and a digit; capitals are small letters.
NamedKeys == {{"enter", "return"}, {"backspace"}, {"tab"}, {"escape", "esc"}, {"space", " "},
              {"delete", "del"}, {"insert"}, {"home"}, {"end"}, {"pageup"}, {"pagedown"},
              {"arrowleft", "left"}, {"arrowup", "up"}, {"arrowright", "right"},
              {"arrowdown", "down"}, {"c"}, {"7"}}
FunctionKeys == {{"f1"}, {"f2"}, {"f3"}, {"f4"}, {"f5"}, {"f6"}, {"f7"}, {"f8"}, {"f9"},
                 {"f10"}, {"f11"}, {"f12"}}
ModifierKeys == {{"ctrl", "control"}, {"alt"}, {"shift"}, {"win", "meta", "super"}}

Code(names) == CHOOSE n \in names : TRUE
Codes(keys) == [k \in UNION keys |-> Code(CHOOSE names \in keys : k \in names)]

VkFor == Codes(NamedKeys \cup FunctionKeys)
ModVK == Codes(ModifierKeys)

Modifiers == {Code(names) : names \in ModifierKeys}
Buttons == {"LEFT", "RIGHT"}
KeyCodes == {Code(names) : names \in NamedKeys \cup FunctionKeys} \cup Modifiers \cup {"CHAR"}

\* Fault: the modifiers are pressed before the key is looked up.
StrokesBeforeLookup(e) ==
  CASE e.kind = "text" -> FlattenSeq([i \in DOMAIN e.runes |-> <<Down("CHAR"), Up("CHAR")>>])
    [] e.kind = "key" ->
         LET mods == SelectSeq(e.mods, LAMBDA m : m \in DOMAIN ModVK)
             press == [i \in DOMAIN mods |-> Down(ModVK[mods[i]])]
             release == [i \in DOMAIN mods |-> Up(ModVK[mods[i]])]
         IN IF e.key \notin DOMAIN VkFor THEN press
            ELSE press \o <<Down(VkFor[e.key]), Up(VkFor[e.key])>> \o Reverse(release)
    [] e.kind = "mouse" -> <<>>

\* What is known of a list, in its order; the rest is passed over.
Filtered(list, known) ==
  LET kept[n \in 0 .. Len(list)] ==
        IF n = 0 THEN <<>>
        ELSE IF list[n] \in known THEN Append(kept[n - 1], list[n]) ELSE kept[n - 1]
  IN kept[Len(list)]

\* Each rune is pressed and released.
TextStrokes(runes) ==
  LET known == Filtered(runes, {"bmp"})
  IN [i \in 1 .. 2 * Len(known) |-> IF i % 2 = 1 THEN Down("CHAR") ELSE Up("CHAR")]

KeyStrokes(mods, key) ==
  LET known == Filtered(mods, DOMAIN ModVK)
      press == [i \in DOMAIN known |-> Down(ModVK[known[i]])]
      release == [i \in DOMAIN known |-> Up(ModVK[known[i]])]
  IN IF key \notin DOMAIN VkFor THEN <<>>
     ELSE press \o <<Down(VkFor[key]), Up(VkFor[key])>> \o Reverse(release)

Click(button) == <<Down(button), Up(button)>>

\* A button can be held over several events, to drag; move and scroll press nothing.
MouseStrokes(action) ==
  CASE action = "down" -> <<Down("LEFT")>>
    [] action = "up" -> <<Up("LEFT")>>
    [] action = "click" -> Click("LEFT")
    [] action = "rclick" -> Click("RIGHT")
    [] action = "dblclick" -> Click("LEFT") \o Click("LEFT")
    [] OTHER -> <<>>

Strokes(e) ==
  CASE e.kind = "text" -> TextStrokes(e.runes)
    [] e.kind = "key" -> KeyStrokes(e.mods, e.key)
    [] e.kind = "mouse" -> MouseStrokes(e.action)

\* Fault: each event is executed in a goroutine of its own, as commands are.
TakeAtOnce(o, e) ==
  /\ computer = "on"
  /\ hand[o] = <<>>
  /\ hand' = [hand EXCEPT ![o] = Strokes(e)]
  /\ UNCHANGED <<computer, svc, runs, commands, held, stuck>>

\* The reader takes the next event when it is done with the last one.
Take(o, e) ==
  /\ computer = "on"
  /\ \A p \in Operators : hand[p] = <<>>
  /\ hand' = [hand EXCEPT ![o] = Strokes(e)]
  /\ UNCHANGED <<computer, svc, runs, commands, held, stuck>>

\* Fault: a key that was left down is taken for down for ever.
StrokeKeepsStuck(o) ==
  /\ hand[o] # <<>>
  /\ LET s == Head(hand[o])
     IN held' = IF s.down THEN held \cup {s.key} ELSE held \ {s.key}
  /\ hand' = [hand EXCEPT ![o] = Tail(@)]
  /\ UNCHANGED <<computer, svc, runs, commands, stuck>>

\* SendInput.
Stroke(o) ==
  /\ hand[o] # <<>>
  /\ LET s == Head(hand[o])
     IN /\ held' = IF s.down THEN held \cup {s.key} ELSE held \ {s.key}
        /\ stuck' = IF s.down THEN stuck ELSE stuck \ {s.key}
  /\ hand' = [hand EXCEPT ![o] = Tail(@)]
  /\ UNCHANGED <<computer, svc, runs, commands>>

-----------------------------------------------------------------------------
(* External: Windows and those who use it.                                 *)

\* A service comes up, or does not; it stops, or hangs; it fails, or somebody else
\* stops or starts it.
ServiceChanges(s) ==
  /\ computer # "off"
  /\ \E next \in [starting |-> {"running", "stopped"}, stopping |-> {"stopped"},
                  running |-> {"stopped"}, stopped |-> {"starting"}][svc[s]] :
       /\ svc' = [svc EXCEPT ![s] = next]
       /\ did' = [c \in Calls |-> did[c] \cup
            {w \in {next} : w = "stopped" /\ job[c] = "wait" /\ cmd[c].to = s}]
  /\ UNCHANGED <<computer, runs, cmd, told, job, input>>

\* A process begins, with a number that is free, or ends by itself.
ProcessChanges(p) ==
  /\ computer # "off"
  /\ runs' = IF p \in runs THEN runs \ {p} ELSE runs \cup {p}
  /\ UNCHANGED <<computer, svc, commands, input>>

NoJobs == job' = [c \in Calls |-> "none"] /\ hand' = [o \in Operators |-> <<>>]

\* The agent's process is killed: its goroutines end where they are.
AgentEnds ==
  /\ computer = "on"
  /\ computer' = "alone"
  /\ stuck' = held
  /\ NoJobs
  /\ UNCHANGED <<svc, runs, cmd, told, did, held>>

AgentConnects ==
  /\ computer = "alone"
  /\ computer' = "on"
  /\ UNCHANGED <<svc, runs, commands, input>>

\* shutdown.exe, the user or the mains.
PowerOff ==
  /\ computer # "off"
  /\ computer' = "off"
  /\ svc' = [s \in Services |-> "stopped"]
  /\ runs' = {}
  /\ held' = {}
  /\ stuck' = {}
  /\ NoJobs
  /\ UNCHANGED <<cmd, told, did>>

\* wol.Send: a broadcast that wakes a computer whose network card is set up for it.
MagicPacket ==
  /\ computer' \in {"off", "alone"}
  /\ UNCHANGED <<svc, runs, commands, input>>

\* Wake asks nothing but the address of the device's card.
Wake == computer = "off" /\ MagicPacket

\* External: somebody switches the computer on.
SwitchOn ==
  /\ computer = "off"
  /\ computer' = "alone"
  /\ UNCHANGED <<svc, runs, commands, input>>

-----------------------------------------------------------------------------
JobStep(c) ==
  \/ Refuse(c) \/ Start(c) \/ Stop(c) \/ Restart(c) \/ Query(c) \/ GiveUp(c)
  \/ StartFails(c) \/ Kill(c) \/ Answer(c) \/ Lose(c)

MachineNext ==
  \/ \E c \in Calls : \/ \E k \in Commands : Call(c, k)
                      \/ Timeout(c) \/ Forget(c) \/ JobStep(c)
  \/ \E o \in Operators : Stroke(o) \/ \E e \in Events : Take(o, e)
  \/ \E s \in Services : ServiceChanges(s)
  \/ \E p \in Pids : ProcessChanges(p)
  \/ AgentEnds \/ AgentConnects \/ PowerOff \/ Wake \/ SwitchOn

MachineSpec == MachineInit /\ [][MachineNext]_machineVars

\* Goroutines go on, and the two deadlines pass.  Nothing obliges a service to stop.
MachineFairness ==
  \A c \in Calls : WF_machineVars(JobStep(c)) /\ WF_machineVars(Timeout(c))

MachineFairSpec == MachineSpec /\ MachineFairness

-----------------------------------------------------------------------------
(* Properties.                                                             *)

MachineTypeOK ==
  /\ computer \in {"off", "alone", "on"}
  /\ svc \in [Services -> {"running", "stopping", "stopped", "starting"}]
  /\ runs \subseteq Pids
  /\ cmd \in [Calls -> Commands \cup {NoCommand}]
  /\ told \in [Calls -> {"idle", "waiting", "ok", "error"}]
  /\ job \in [Calls -> {"none", "sent", "wait", "down", "yes", "no"}]
  /\ did \in [Calls -> SUBSET {"started", "stopping", "stopped", "killed"}]
  /\ hand \in [Operators -> Seq([key : KeyCodes \cup Buttons, down : BOOLEAN])]
  /\ held \subseteq KeyCodes \cup Buttons
  /\ stuck \subseteq held

\* An operator who is told that a command succeeded is told the truth, whatever
\* other operators, Windows and the connection do meanwhile: a service that was
\* "restarted" was told to stop by this command, was down after that, and was
\* started by it (winservices.go:81-114, dispatch.go:107-148, commands.go:21-36).
OkIsTrue == \A c \in Calls : told[c] = "ok" => Asked(cmd[c]) \subseteq did[c]

\* Keys that an operator's event will release.
Owed(o) == {hand[o][i].key : i \in {j \in DOMAIN hand[o] : ~hand[o][j].down}}

\* Events of several operators do not mix: when a key goes down, the modifiers that
\* are down are those of its own event, and between events no key is down; what an agent
\* left down that was killed in the middle is excepted (input_windows.go:116-146,
\* dispatch.go:69-78).
KeysAreOwn ==
  /\ (held \cap KeyCodes) \ stuck \subseteq UNION {Owed(o) : o \in Operators}
  /\ \A o \in Operators :
       (hand[o] # <<>> /\ ~Head(hand[o]).down /\ Head(hand[o]).key \notin Modifiers)
         => (held \cap Modifiers) \ stuck \subseteq Owed(o)

\* Every caller is told something, and every goroutine that a command has begun ends,
\* also when a service never stops: an agent does not collect goroutines that wait
\* (winservices.go:98-114), nor the server callers (commands.go:15-28).
JobEnds ==
  \A c \in Calls : /\ told[c] = "waiting" ~> told[c] # "waiting"
                   /\ job[c] # "none" ~> job[c] = "none"
=============================================================================
