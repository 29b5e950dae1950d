SPECIFICATION Spec
CONSTANTS
  Senders = {a, b}
  Lanes = {1, 2}
  MaxFeed = 3
  MaxNonce = 3
  MaxCrashes = 1
INVARIANTS
  NoDataMissed
CHECK_DEADLOCK FALSE
