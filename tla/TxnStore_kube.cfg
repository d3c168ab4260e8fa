SPECIFICATION Spec
CONSTANTS
  a = a
  b = b
  t1 = t1
  t2 = t2
  t3 = t3
  Keys = {a}
  Txns = {t1, t2, t3}
  Requests <- KubeRequests
  CompactRevs = {2, 3}
  MaxAttempts = 2
  MaxCrashes = 1
SYMMETRY Symmetry
INVARIANTS
  CompactionKeepsState
  AckedIsDurableAndVisible
  WrittenAtMostOnce
  StoreInv
PROPERTIES
  ImplementsSerialStore
