\* Two calls at once on one service and one process number; two operators who type;
\* a server that moves between two addresses, whose task and one process by hand
\* compete for its ports.
SPECIFICATION PartsFairSpec
CONSTANTS
  x1 = x1
  x2 = x2
  Calls = {a1, a2}
  Services = {spooler}
  Pids = {p1}
  Operators = {o1, o2}
  Events <- SomeEvents
  Texts <- SomeTexts
  Addrs = {x1, x2}
  Near = {x1, x2}
  ByHand = {h1}
  None = None
  Foreign = Foreign
INVARIANTS
  MachineTypeOK
  DiscoveryTypeOK
  OkIsTrue
  KeysAreOwn
  ReportedOpen
PROPERTIES
  JobEnds
  FollowsServer
