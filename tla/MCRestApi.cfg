\* Two processes of the server, one after the other or both at once, and two devices.
\* One request suffices: requests meet only in stored and online, which change at
\* any time without them.
SPECIFICATION ApiSpec
CONSTANTS
  Servers = {s1, s2}
  Devices = {d1, d2}
  Handlers = {h1}
  Operators = {o1}
  MaxSecret = 2
  None = None
  Absent = Absent
  Broken = Broken
INVARIANTS
  OperatorsKept
  BroadcastReaches
SYMMETRY MCSymmetry
