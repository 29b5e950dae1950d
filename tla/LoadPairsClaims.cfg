SPECIFICATION Spec
CONSTANTS
  Pairs = 2
  Messages = 1
INVARIANTS
  LoopsAwaited
  Survives
CHECK_DEADLOCK FALSE
