SPECIFICATION MCSpec
CONSTANTS
  RotateSize = 1
  MaxBatch = 2
  MaxLog = 3
  MaxCrashes = 2
  MaxKills = 2
  MaxRemoveErrors = 1
INVARIANTS
  OpensWithAcked
  AckedIsOnDisk
CHECK_DEADLOCK FALSE
