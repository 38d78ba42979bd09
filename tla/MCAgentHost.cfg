\* The task, the service and one process by hand, so that three can share the file.
SPECIFICATION MCFairSpec
CONSTANTS
  ByHand = {h1}
  MaxDevices = 3
  FewDevices = 2
  Absent = Absent
  Broken = Broken
INVARIANTS
  DevicesAccounted
PROPERTIES
  ServesAgain
