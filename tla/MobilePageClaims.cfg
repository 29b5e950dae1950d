SPECIFICATION Spec
CONSTANTS
  MaxAttempts = 2
  MaxRequests = 2
INVARIANTS
  ResultIsOfLast
CHECK_DEADLOCK FALSE
