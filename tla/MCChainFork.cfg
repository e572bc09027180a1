SPECIFICATION Spec
CONSTANTS
  Threads = {loop, checker}
  Checkers = {checker}
  Bodies = {b1, b2}
  MaxRows = 3
INVARIANT EventsVerify
CHECK_DEADLOCK FALSE
