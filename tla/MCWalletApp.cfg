SPECIFICATION Spec
CONSTANTS
  Apps = {"rn"}
  Clients = 0
  MaxReturns = 0
  Pairs = 0
  Messages = 1
  Sessions = 0
  MaxAttempts = 0
  MaxRequests = 0
  Requests = {r1, r2}
  MaxScans = 2
  MaxLists = 2
  AllScans = 2
  MaxExpired = 1
SYMMETRY Symmetry
CONSTRAINT Bounds
INVARIANTS
  Managed
  ShownIsStored
CHECK_DEADLOCK FALSE
