SPECIFICATION MCSpec
CONSTANTS
  a = a
  b = b
  l = l
  w1 = w1
  c1 = c1
  c2 = c2
  c3 = c3
  c4 = c4
  Watchers = {w1}
  Records <- SomeRecords
  Requests <- SomeRequests
  InternalKeys = {l}
  MaxRevisions = 1
  MaxEvents = 2
  MaxLog = 3
INVARIANTS
  FlushedInOrder
PROPERTIES
  WatchersGoOn
  QueuedIsFlushed
  
CHECK_DEADLOCK FALSE
