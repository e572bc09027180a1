SPECIFICATION Spec
CONSTANTS
  Root = root
  Admins = {admin}
  Users = {}
  Clankers = {clanker}
  Present = {root, admin, clanker}
  GroupMax = 3
  Questions = {q1}
  Requests = {r1}
  Loop = {r1}
  MaxEvents = 3
  MaxCrashes = 0
  MaxRevoked = 0
  AskTargets = {clanker, "everyone"}
  Readers = {clanker}
ACTION_CONSTRAINT Sensible
PROPERTY AskerSeesAnswer
CHECK_DEADLOCK FALSE
