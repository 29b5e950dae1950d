SPECIFICATION FairSpec
CONSTANTS
  Senders = {a}
  Lanes = {1, 2}
  MaxFeed = 3
  MaxNonce = 3
  MaxCrashes = 1
CONSTRAINT NotOverlapped
INVARIANTS
  OnceInOrder
  NothingLost
PROPERTIES
  ArrivesInTheEnd
CHECK_DEADLOCK FALSE
