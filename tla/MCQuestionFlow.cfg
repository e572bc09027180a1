SPECIFICATION Spec
CONSTANTS
  Root = root
  Admins = {admin}
  Users = {}
  Clankers = {clanker}
  Present = {root, admin}
  GroupMax = 2
  Questions = {q1}
  Requests = {r1, r2}
  Loop = {r1, r2}
  MaxEvents = 3
  MaxCrashes = 1
  MaxRevoked = 2
  AskTargets = {clanker, "everyone"}
  Readers = {clanker}
ACTION_CONSTRAINT Sensible
SYMMETRY Alike
INVARIANTS
  AnsweredByAddressee
  OpenIsDelivered
  ClosedLeavesNothingUnread
  AskedIsNoticed
  EscapeHatch
PROPERTY ClosedIsFinal
CHECK_DEADLOCK FALSE
