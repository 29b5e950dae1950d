SPECIFICATION Spec
CONSTANTS
  MaxAttempts = 2
INVARIANTS
  TimerCleared
  ReadyMeansReady
PROPERTIES
  AnswersOwnSession
CHECK_DEADLOCK FALSE
