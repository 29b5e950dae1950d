SPECIFICATION Spec
CONSTANTS
  MaxAttempts = 2
  Modes = {"trusted", "untrusted"}
INVARIANTS
  FinalRecords
  LastAttemptOnly
CHECK_DEADLOCK FALSE
