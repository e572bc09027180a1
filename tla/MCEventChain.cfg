SPECIFICATION Spec
CONSTANTS
  Threads = {loop, checker}
  Checkers = {}
  Bodies = {b1, b2}
  MaxRows = 4
SYMMETRY Alike
INVARIANTS
  TransitionsVerify
  EditIsFound
  EventsHangTogether
CHECK_DEADLOCK FALSE
