SPECIFICATION MCSpec
CONSTANTS
  s1 = s1
  l1 = l1
  k1 = k1
  w1 = w1
  w2 = w2
  r1 = r1
  r2 = r2
  NoLease = NoLease
  Absent = Absent
  Readers = {r1, r2}
  Revs = {1, 2}
  Mapping = {TRUE, FALSE}
  MaxVersions = 3
INVARIANTS
  PinnedStaysMapped
  DecodesOwnBytes
  EndsInOrder
PROPERTIES
  RetiredIsUnmapped
  StreamsEnd
  
  RunReturns
CHECK_DEADLOCK FALSE
