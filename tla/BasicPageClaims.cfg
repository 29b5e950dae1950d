SPECIFICATION Spec
CONSTANTS
  MaxAttempts = 2
INVARIANTS
  ConnectedIsReal
CHECK_DEADLOCK FALSE
