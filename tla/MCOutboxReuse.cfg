SPECIFICATION Spec
CONSTANTS
  Channels = {chA}
  Attempts = 2
  MaxItems = 2
  MaxCrashes = 0
INVARIANTS
  NothingLeftPending
