\* Safety, refinement and liveness: a connection and the one that replaces it,
\* two calls of Send, so that the second can find a full buffer, and a shutdown.
SPECIFICATION FairSpec
CONSTANTS
  Devices = {d1}
  Conns = {c1, c2}
  Senders = {s1, s2}
  SendBuffer = 1
  None = None
INVARIANTS
  NoOrphan
  NoGhost
  RefusedMeansCut
  CloseAllComplete
PROPERTIES
  ImplementsRegistry
  ClosedIsReleased
  AcceptedIsSentOrCut
