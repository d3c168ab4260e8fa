SPECIFICATION FairSpec
CONSTANTS
  a = a
  b = b
  t1 = t1
  t2 = t2
  t3 = t3
  Keys = {a}
  Txns = {t1, t2, t3}
  Requests <- RetryRequests
  CompactRevs = {}
  MaxAttempts = 2
  MaxCrashes = 0
PROPERTIES
  RetrySeesWinner
  EveryTxnEnds
