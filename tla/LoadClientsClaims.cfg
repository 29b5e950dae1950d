SPECIFICATION Spec
CONSTANTS
  Clients = 3
  MaxReturns = 2
INVARIANTS
  PeakIsPeak
CHECK_DEADLOCK FALSE
