\* What broker.go:5-6 says of an operator who watches.
SPECIFICATION FairSpec
CONSTANTS
  Operators = {v1, v2}
  Buffer = 1
  MaxCommands = 4
PROPERTIES
  WatcherIsServed
