SPECIFICATION Spec
CONSTANTS
  t1 = t1
  t2 = t2
  t3 = t3
  Transports = {t1, t2, t3}
  Channels = {c1}
INVARIANTS
  HistoryFetched
  AliveUntilAllLeave
  DeafAfterLeaving
CHECK_DEADLOCK FALSE
