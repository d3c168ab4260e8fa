SPECIFICATION MCSpec
CONSTANTS
  a = a
  b = b
  Keys = {a, b}
  Records <- SomeRecords
  RotateSize = 2
  DeadShare = 2
  MaxLog = 4
  MaxRestarts = 1
INVARIANTS
  
  
  
  IndexIsScan
  EvictsOldest
  
  OpensWithLive
CHECK_DEADLOCK FALSE
