SPECIFICATION FairSpec
CONSTANTS
  Goroutines = {"watch", "commit"}
  Groups = {{"watch", "commit"}}
  Capacity = 1
  Queued = 0
PROPERTIES
  BatchIsCommitted
CHECK_DEADLOCK FALSE
