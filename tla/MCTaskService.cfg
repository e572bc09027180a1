SPECIFICATION Spec
CONSTANTS
  Tasks = {t1}
  Todos = {d1}
  Proofs = {p1}
  Questions = {q1}
  MaxVersion = 5
  Workers = {loop}
  MaxCrashes = 1
  MaxHistory = 3
ACTION_CONSTRAINT Short
INVARIANTS
  EventsFollowLog
  AttentionIsRaised
PROPERTY ImplementsTaskFlow
CHECK_DEADLOCK FALSE
