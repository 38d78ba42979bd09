\* Safety, refinement and liveness: a connection and the one that replaces it, two
\* calls.
SPECIFICATION OrderedSpec
CONSTANTS
  c1 = c1
  c2 = c2
  s1 = s1
  s2 = s2
  Devices = {d1}
  Conns = {c1, c2}
  Senders = {s1, s2}
  SendBuffer = 1
  None = None
INVARIANTS
  PendingExact
  ReaderNeverBlocks
PROPERTIES
  ImplementsRemoteCall
  RequestReturns
  ClosedIsReleased
