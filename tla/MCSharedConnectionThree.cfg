SPECIFICATION Spec
CONSTANTS
  t1 = t1
  t2 = t2
  t3 = t3
  Transports = {t1, t2, t3}
  Channels = {c1}
SYMMETRY Symmetry
INVARIANTS
  TypeOK
  CountsExact
  NobodyCutOff
CHECK_DEADLOCK FALSE
