SPECIFICATION Spec
CONSTANTS
  Waiters = {}
  ToMe = {}
  Streams = {page}
  Threads = {}
  MaxQueue = 4
  Page = 4
  MaxEvents = 4
INVARIANT StreamHasNoGaps
CHECK_DEADLOCK FALSE
