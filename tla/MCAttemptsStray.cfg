SPECIFICATION Spec
CONSTANTS
  MaxAttempts = 2
  Modes = {"trusted", "untrusted"}
INVARIANTS
  SelfContained
CHECK_DEADLOCK FALSE
