SPECIFICATION Spec
CONSTANTS
  Sessions = 1
INVARIANTS
  Survives
CHECK_DEADLOCK FALSE
