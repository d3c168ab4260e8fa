SPECIFICATION Spec
CONSTANTS
  a = a
  b = b
  t1 = t1
  t2 = t2
  t3 = t3
  Keys = {a, b}
  Txns = {t1, t2, t3}
  Requests <- MultiKeyRequests
  CompactRevs = {3}
  MaxAttempts = 2
  MaxCrashes = 0
SYMMETRY Symmetry
INVARIANTS
  Serializable
  AnswersSerial
