\* Two devices and room for three entries, so that a device can be there twice.
SPECIFICATION Spec
CONSTANTS
  Ids = {i1, i2}
  MaxItems = 3
  None = None
INVARIANTS
  StoreTypeOK
  FileIsWhole
  AckedIsInFile
PROPERTIES
  ImplementsDeviceMap
