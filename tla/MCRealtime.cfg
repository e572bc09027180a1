SPECIFICATION FairSpec
CONSTANTS
  Waiters = {agent, watcher}
  ToMe = {agent}
  Streams = {page}
  Threads = {thread}
  MaxQueue = 1
  Page = 1
  MaxEvents = 2
INVARIANTS
  TypeOK
  ReadWasDelivered
  SleeperHasNothing
  StreamIsOrdered
PROPERTY InboxDrains
CHECK_DEADLOCK FALSE
