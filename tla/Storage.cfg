SPECIFICATION MCSpec
CONSTANTS
  ka = ka
  kb = kb
  kl = kl
  w1 = w1
  w2 = w2
  Watchers = {w1, w2}
  Records <- SomeRecords
  Requests <- SomeRequests
  InternalKeys = {kl}
  MaxRevisions = 2
  MaxEvents = 2
  MaxLog = 3
SYMMETRY Symmetry
INVARIANTS
  DeliveredExactly
  WatchInv
  OpenWatcherReadable
  ReadsSurviveCompaction
  ListsItsKeys
  
CHECK_DEADLOCK FALSE
