\* Two streams, so that one can start while the goroutine of the one before has
\* not ended; a shell, started again when it is over; a request; and a channel of
\* one place, so that every sender meets it full.  A session that is over stops.
SPECIFICATION SessionFairSpec
CONSTANTS
  Streams = {i1, i2}
  Shells = {t1}
  Requests = {r1}
  SendCap = 1
  None = None
INVARIANTS
  OneOwner
  NoticeOrder
PROPERTIES
  SessionEnds
CHECK_DEADLOCK FALSE
