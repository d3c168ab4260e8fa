SPECIFICATION MCSpec
CONSTANTS
  s1 = s1
  l1 = l1
  l2 = l2
  k1 = k1
  Ids = {l1, l2}
  Keys = {k1}
  MaxLog = 4
  MaxFailures = 1
  MaxRestarts = 1
  w1 = w1
  w2 = w2
  NoLease = NoLease
  Absent = Absent
SYMMETRY Symmetry
INVARIANTS
  EachWatchInOrder
  
  GivesUpOnlyWhenRaced
  
  ListIsSnapshot
CHECK_DEADLOCK FALSE
