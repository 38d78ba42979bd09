----------------------------- MODULE Discovery -----------------------------
(***************************************************************************)
(* How an agent finds its server.  The server's computer changes its       *)
(* address; its processes listen on a TCP port and, to be discovered, on   *)
(* the UDP port of the same number; its firewall lets in what "enable" has *)
(* let in.  The agent either broadcasts a probe before every connection or *)
(* uses an address of its configuration, which it also writes back.        *)
(***************************************************************************)
EXTENDS FiniteSets

CONSTANTS Addrs,     \* addresses
          Near,      \* those on the agent's segment, which a broadcast reaches
          ByHand,    \* server processes started by hand
          Texts,     \* bound: what a user writes into agent.yaml
          None,      \* no address, nobody
          Foreign    \* another program with the UDP port

Servers == {"task"} \cup ByHand

ASSUME NearAddrsAssumption == Near \subseteq Addrs
ASSUME TextsAssumption == Texts \subseteq [host : Addrs \cup {"auto"}, url : Addrs \cup {None}]
ASSUME NoServerAssumption == {None, Foreign} \cap Servers = {}

VARIABLES
  place,    \* the address of the server's computer
  boot,     \* the boot task is registered
  rules,    \* what its firewall lets in
  wizard,   \* the step of the enable or disable command that runs
  said,     \* what the last such command has told of the port
  life,     \* the state of each server process
  heard,    \* whether it has got the UDP port: "untried", "bound" or "failed"
  tcp, udp, \* the owners of the two ports
  file,     \* server_host and server_url in agent.yaml
  conf,     \* what the agent has made of them
  agent,    \* "off", "rest", "dial" or "up"
  target    \* the address it dials

admin == <<boot, rules, wizard, said>>
server == <<life, heard, tcp, udp>>
client == <<file, conf, agent, target>>
discoveryVars == <<place, admin, server, client>>

Template == [host |-> "auto", url |-> None]

\* applyDefaults: an address makes the url; "auto" counts only without a url.
Resolved(t) ==
  [host |-> t.host,
   auto |-> t.host = "auto" /\ t.url = None,
   url |-> IF t.host = "auto" THEN t.url ELSE t.host]

DiscoveryInit ==
  /\ place \in Addrs
  /\ boot = FALSE
  /\ rules = {}
  /\ wizard = "none"
  /\ said = "nothing"
  /\ life = [s \in Servers |-> "off"]
  /\ heard = [s \in Servers |-> "untried"]
  /\ tcp = None
  /\ udp = None
  /\ file = Template
  /\ conf = Resolved(Template)
  /\ agent = "off"
  /\ target = None

-----------------------------------------------------------------------------
(* enable and disable.  A step that fails is told, or ends the command.    *)

\* schtasks and netsh: what their success changes.
CreateTask == boot' = TRUE
DeleteTask == boot' = FALSE
AddRule(proto) == rules' = rules \cup {proto}
RemoveRules == rules' = {}

\* The user has confirmed the elevation, and the configuration exists.
EnableBegins ==
  /\ wizard = "none"
  /\ wizard' = "install"
  /\ UNCHANGED <<boot, rules, said, place, server, client>>

Install ==
  /\ wizard = "install"
  /\ \/ wizard' = "tcp" /\ CreateTask
     \/ wizard' = "none" /\ UNCHANGED boot
  /\ UNCHANGED <<rules, said, place, server, client>>

\* addFirewallRule adds a rule for each protocol and returns at the first error.
AddTCP ==
  /\ wizard = "tcp"
  /\ \/ wizard' = "udp" /\ AddRule("TCP") /\ UNCHANGED said
     \/ wizard' = "run" /\ said' = "blocked" /\ UNCHANGED rules
  /\ UNCHANGED <<boot, place, server, client>>

\* Fault: only the error of the first rule is returned.
AddUDPUnchecked ==
  /\ wizard = "udp"
  /\ wizard' = "run"
  /\ rules' \in {rules, rules \cup {"UDP"}}
  /\ said' = "open"
  /\ UNCHANGED <<boot, place, server, client>>

AddUDP ==
  /\ wizard = "udp"
  /\ wizard' = "run"
  /\ \/ AddRule("UDP") /\ said' = "open"
     \/ said' = "blocked" /\ UNCHANGED rules
  /\ UNCHANGED <<boot, place, server, client>>

\* Uninstall succeeds if there is no task; removeFirewallRule deletes both rules, or
\* fails, which nobody looks at.
Uninstall ==
  /\ wizard = "none"
  /\ DeleteTask
  /\ wizard' = "remove"
  /\ said' = "nothing"
  /\ UNCHANGED <<rules, place, server, client>>

CloseFirewall ==
  /\ wizard = "remove"
  /\ wizard' = "none"
  /\ RemoveRules \/ UNCHANGED rules
  /\ said' = "closed"
  /\ UNCHANGED <<boot, place, server, client>>

-----------------------------------------------------------------------------
(* A process of the server.                                                *)

Begin(s) ==
  /\ life[s] = "off"
  /\ life' = [life EXCEPT ![s] = "starting"]
  /\ heard' = [heard EXCEPT ![s] = "untried"]
  /\ UNCHANGED <<tcp, udp, place, client>>

\* By the boot, or by the scheduler after a crash.
StartTask == boot /\ Begin("task") /\ UNCHANGED admin

\* The last step of enable.
RunTask ==
  /\ wizard = "run"
  /\ wizard' = "none"
  /\ Begin("task") \/ UNCHANGED <<place, server, client>>
  /\ UNCHANGED <<boot, rules, said>>

StartByHand(s) == s \in ByHand /\ Begin(s) /\ UNCHANGED admin

\* discovery.Serve, in a goroutine of its own: it tries once.
BindUDP(s) ==
  /\ life[s] # "off"
  /\ heard[s] = "untried"
  /\ IF udp = None
     THEN udp' = s /\ heard' = [heard EXCEPT ![s] = "bound"]
     ELSE heard' = [heard EXCEPT ![s] = "failed"] /\ UNCHANGED udp
  /\ UNCHANGED <<life, tcp, place, admin, client>>

\* Fault: a port that is in use is taken all the same.
ListenAnyway(s) ==
  /\ life[s] = "starting"
  /\ tcp' = s
  /\ life' = [life EXCEPT ![s] = "serving"]
  /\ UNCHANGED <<heard, udp, place, admin, client>>

\* A process that does not get the TCP port ends, after its dialog.
Listen(s) ==
  /\ life[s] = "starting"
  /\ IF tcp = None
     THEN tcp' = s /\ life' = [life EXCEPT ![s] = "serving"]
     ELSE life' = [life EXCEPT ![s] = "stopping"] /\ UNCHANGED tcp
  /\ UNCHANGED <<heard, udp, place, admin, client>>

Interrupt(s) ==
  /\ life[s] = "serving"
  /\ life' = [life EXCEPT ![s] = "stopping"]
  /\ UNCHANGED <<heard, tcp, udp, place, admin, client>>

\* The end of the context closes the UDP socket, Shutdown the listener, in any order.
CloseUDP(s) ==
  /\ life[s] = "stopping"
  /\ udp = s
  /\ udp' = None
  /\ UNCHANGED <<life, heard, tcp, place, admin, client>>

CloseTCP(s) ==
  /\ life[s] = "stopping"
  /\ tcp = s
  /\ tcp' = None
  /\ UNCHANGED <<life, heard, udp, place, admin, client>>

\* The end of processes, also by force.
End(ss) ==
  /\ life' = [s \in Servers |-> IF s \in ss THEN "off" ELSE life[s]]
  /\ heard' = [s \in Servers |-> IF s \in ss THEN "untried" ELSE heard[s]]
  /\ tcp' = IF tcp \in ss THEN None ELSE tcp
  /\ udp' = IF udp \in ss THEN None ELSE udp
  /\ UNCHANGED client

Ends(s) == life[s] # "off" /\ End({s}) /\ UNCHANGED <<place, admin>>

\* External: another program takes the UDP port, or leaves it.
ForeignProgram ==
  /\ \/ udp = None /\ udp' = Foreign
     \/ udp = Foreign /\ udp' = None
  /\ UNCHANGED <<life, heard, tcp, place, admin, client>>

\* External: the computer loses its address or gets one.
Moves(a) ==
  /\ place' = a
  /\ UNCHANGED <<admin, server, client>>

ServerOff ==
  /\ place' = None
  /\ wizard' = "none"
  /\ End(Servers)
  /\ UNCHANGED <<boot, rules, said>>

-----------------------------------------------------------------------------
(* The agent.                                                              *)

\* The user edits agent.yaml; an agent that runs does not notice.
Edit(t) ==
  /\ file' = t
  /\ UNCHANGED <<conf, agent, target, place, admin, server>>

Load ==
  /\ agent = "off"
  /\ agent' = "rest"
  /\ conf' = Resolved(file)
  /\ UNCHANGED <<file, target, place, admin, server>>

\* broadcastTargets: every interface of the agent, and nothing beyond its segment.
Reached == place \in Near

\* A server process answers the probe; what other programs send is passed over.
Answers == udp \in Servers /\ "UDP" \in rules

Dials(a) ==
  /\ agent = "rest"
  /\ agent' = "dial"
  /\ target' = a
  /\ UNCHANGED <<file, conf, place, admin, server>>

\* Fault: an address that was found once is used again.
DiscoverOnce ==
  /\ conf.auto
  /\ \/ target # None /\ Dials(target)
     \/ target = None /\ Reached /\ Answers /\ Dials(place)

\* Discover: the address is where the answer came from.
Discover == conf.auto /\ Reached /\ Answers /\ Dials(place)

UseURL == ~conf.auto /\ conf.url # None /\ Dials(conf.url)

Accepts(a) == place = a /\ tcp \in Servers /\ life[tcp] = "serving" /\ "TCP" \in rules

\* The connection is open and the agent registered; a new identity is saved, and
\* with it the configuration as it is in memory.
Connect ==
  /\ agent = "dial"
  /\ Accepts(target)
  /\ agent' = "up"
  /\ file' \in {file, [host |-> conf.host, url |-> conf.url]}
  /\ UNCHANGED <<conf, target, place, admin, server>>

Fails ==
  /\ agent = "dial"
  /\ agent' = "rest"
  /\ UNCHANGED <<file, conf, target, place, admin, server>>

Disconnects ==
  /\ agent = "up"
  /\ agent' = "rest"
  /\ UNCHANGED <<file, conf, target, place, admin, server>>

AgentStops ==
  /\ agent # "off"
  /\ agent' = "off"
  /\ target' = None
  /\ UNCHANGED <<file, conf, place, admin, server>>

-----------------------------------------------------------------------------
DiscoveryNext ==
  \/ EnableBegins \/ Install \/ AddTCP \/ AddUDP \/ Uninstall \/ CloseFirewall
  \/ StartTask \/ RunTask \/ ForeignProgram \/ ServerOff
  \/ \E s \in Servers : \/ StartByHand(s) \/ BindUDP(s) \/ Listen(s) \/ Interrupt(s)
                        \/ CloseUDP(s) \/ CloseTCP(s) \/ Ends(s)
  \/ \E a \in Addrs \cup {None} : Moves(a)
  \/ \E t \in Texts : Edit(t)
  \/ Load \/ Discover \/ UseURL \/ Connect \/ Fails \/ Disconnects \/ AgentStops

DiscoverySpec == DiscoveryInit /\ [][DiscoveryNext]_discoveryVars

\* An agent that goes on trying meets, some time, a probe that is not lost and a
\* dial that does not fail, if there is somebody who answers; heartbeats that nobody
\* acknowledges end its connection.
DiscoveryFairness ==
  /\ SF_discoveryVars(Discover)
  /\ WF_discoveryVars(UseURL)
  /\ SF_discoveryVars(Connect)
  /\ WF_discoveryVars(Fails)
  /\ WF_discoveryVars(Disconnects /\ ~Accepts(target))

DiscoveryFairSpec == DiscoverySpec /\ DiscoveryFairness

-----------------------------------------------------------------------------
(* Properties.                                                             *)

DiscoveryTypeOK ==
  /\ place \in Addrs \cup {None}
  /\ boot \in BOOLEAN
  /\ rules \subseteq {"TCP", "UDP"}
  /\ wizard \in {"none", "install", "tcp", "udp", "run", "remove"}
  /\ said \in {"nothing", "open", "blocked", "closed"}
  /\ life \in [Servers -> {"off", "starting", "serving", "stopping"}]
  /\ heard \in [Servers -> {"untried", "bound", "failed"}]
  /\ tcp \in Servers \cup {None}
  /\ udp \in Servers \cup {None, Foreign}
  /\ file \in [host : Addrs \cup {"auto"}, url : Addrs \cup {None}]
  /\ conf \in [host : Addrs \cup {"auto"}, auto : BOOLEAN, url : Addrs \cup {None}]
  /\ agent \in {"off", "rest", "dial", "up"}
  /\ target \in Addrs \cup {None}
  /\ \A s \in Servers : life[s] = "serving" <=> tcp = s /\ life[s] # "stopping"

\* When enable has told the user that the port is open, both protocols are let in,
\* also after earlier attempts that failed half-way (setup_windows.go:73-80, 104-119).
ReportedOpen == said = "open" => rules = {"TCP", "UDP"}

\* An agent that runs connects again and again to a server that is, in the end,
\* there: at the configured address, or, in auto mode, wherever it has moved on the
\* segment - "sehingga tetap bekerja walau IP server berubah" (client.go:103-106).
\* Its UDP port must be its own for that: the bind is tried once (discovery.go:41).
FollowsServer ==
  \A a \in Addrs :
    <>[](/\ agent # "off" /\ Accepts(a)
         /\ IF conf.auto THEN Reached /\ Answers ELSE conf.url = a)
      => []<>(agent = "up" /\ target = a)
=============================================================================
