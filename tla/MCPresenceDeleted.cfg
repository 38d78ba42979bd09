\* What api/devices.go:84 says of a deleted device.
SPECIFICATION Spec
CONSTANTS
  Agents = {a1}
  Conns = {c1}
  Ids = {i1}
  None = None
INVARIANTS
  DeletedStaysDeleted
CHECK_DEADLOCK FALSE
