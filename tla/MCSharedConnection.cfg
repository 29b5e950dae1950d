SPECIFICATION FairSpec
CONSTANTS
  t1 = t1
  t2 = t2
  t3 = t3
  Transports = {t1, t2}
  Channels = {c1}
INVARIANTS
  TypeOK
  CountsExact
  NobodyCutOff
PROPERTIES
  CallsSettle
CHECK_DEADLOCK FALSE
