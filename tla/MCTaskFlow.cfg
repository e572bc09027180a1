SPECIFICATION Spec
CONSTANTS
  Tasks = {t1}
  Todos = {d1}
  Proofs = {p1}
  Questions = {q1}
  MaxVersion = 6
  MaxAside = 2
CONSTRAINT Aside
ACTION_CONSTRAINT ReadsOnce
INVARIANTS
  LogIsWalk
  SettledKnowsOrigin
  RestoreReturns
  HumanGates
  VersionIdentifiesTask
PROPERTY FrozenIsUntouched
CHECK_DEADLOCK FALSE
