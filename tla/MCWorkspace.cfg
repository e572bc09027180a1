SPECIFICATION Spec
CONSTANTS
  Clankers = {bot}
  Users = {}
  Admins = {boss}
  Superadmins = {}
  Texts = {"a", "b"}
  Threads = {tool}
  MaxDepth = 2
  MaxId = 3
  MaxRows = 6
ACTION_CONSTRAINT KeepsToTheme
INVARIANTS
  ReferencesHold
  IndexMirrorsTables
  CommentTrees
  PurgeIsFree
PROPERTIES
  EditsAreKept
  PurgeIsLocal
  DecidedIsFinal
CHECK_DEADLOCK FALSE
