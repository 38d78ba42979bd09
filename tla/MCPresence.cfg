\* One agent, a connection and the one that replaces it, two identities.
SPECIFICATION FairSpec
CONSTANTS
  Agents = {a1}
  Conns = {c1, c2}
  Ids = {i1, i2}
  None = None
INVARIANTS
  RegisteredIsStored
PROPERTIES
  IdentityKept
  OfflineInTheEnd
  OnlineAgain
CHECK_DEADLOCK FALSE
