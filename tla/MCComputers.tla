---------------------------- MODULE MCComputers ----------------------------
(***************************************************************************)
(* A small instance of Machine and one of Discovery, in one run: two       *)
(* modules without a variable in common.  No property is about commands    *)
(* and input at once, or about the commands of the administrator while an  *)
(* agent runs: a behaviour is followed in one part at a time, so that the  *)
(* states of the parts add up instead of multiplying.                      *)
(***************************************************************************)
EXTENDS Machine, Discovery

CONSTANTS x1, x2

VARIABLE part

allVars == <<machineVars, discoveryVars, part>>

\* A shortcut with two modifiers, one that has several names and an unknown one, a
\* key that is not known, a text with a rune that cannot be typed, and the mouse.
SomeEvents ==
  {[kind |-> "key", mods |-> <<"ctrl", "shift">>, key |-> "c"],
   [kind |-> "key", mods |-> <<"control", "ctrl", "hyper">>, key |-> "return"],
   [kind |-> "key", mods |-> <<"alt">>, key |-> "f13"],
   [kind |-> "text", runes |-> <<"bmp", "beyond", "bmp">>]}
  \cup [kind : {"mouse"}, action : {"move", "down", "up", "rclick", "dblclick"}]

\* What the installer writes, and an address by hand in each of its two forms.
SomeTexts == {Template, [host |-> x1, url |-> None], [host |-> "auto", url |-> x2]}

PartsInit ==
  /\ MachineInit
  /\ DiscoveryInit
  /\ part \in {"commands", "input", "setup"}
  /\ place = x1

\* The agent is first started after an enable that succeeded; the rules then stay as they are, and
\* the server moves only then.
PartsNext ==
  \/ /\ part = "commands"
     /\ MachineNext
     /\ UNCHANGED <<input, discoveryVars, part>>
  \/ /\ part = "input"
     /\ MachineNext
     /\ UNCHANGED <<commands, runs, discoveryVars, part>>
  \/ /\ part = "setup"
     /\ DiscoveryNext
     /\ place' \in {x1, None}
     /\ UNCHANGED machineVars
     /\ \/ Load /\ boot /\ said = "open" /\ wizard = "none" /\ part' = "agent"
        \/ UNCHANGED <<client, part>>
  \/ /\ part = "agent"
     /\ DiscoveryNext
     /\ UNCHANGED <<admin, machineVars, part>>

PartsFairSpec ==
  /\ PartsInit /\ [][PartsNext]_allVars
  /\ MachineFairness
  /\ DiscoveryFairness
=============================================================================
