SPECIFICATION FairSpec
CONSTANTS
  NoSession = NoSession
  Sessions = {s1, s2}
  Calls = {c1, c2}
CONSTRAINT NotCrossed
INVARIANTS
  ConnectedIsUsable
  ConnectingIsOwned
  EndedForGood
  HandledOrRedialed
PROPERTIES
  ConnectingEnds
CHECK_DEADLOCK FALSE
