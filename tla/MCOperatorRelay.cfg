\* Two operators: one can come, watch or leave while the other does.  Each sends
\* at most a start and a stop, so that four commands are all there can be.
SPECIFICATION FairSpec
CONSTANTS
  Operators = {v1, v2}
  Buffer = 2
  MaxCommands = 4
INVARIANTS
  NoSendOnClosed
  StreamIsWatched
PROPERTIES
  TeardownEnds
  StreamStops
