SPECIFICATION Spec
CONSTANTS
  Tasks = {t1}
  Todos = {d1}
  Proofs = {p1}
  Questions = {q1}
  MaxVersion = 5
  Workers = {loop, tool}
  MaxCrashes = 0
  MaxHistory = 2
ACTION_CONSTRAINT Short
SYMMETRY Alike
INVARIANTS
  VersionCountsWrites
  RowAgreesWithLog
CHECK_DEADLOCK FALSE
