SPECIFICATION FairSpec
CONSTANTS
  Channels = {chA, chB}
  Attempts = 3
  MaxItems = 2
  MaxCrashes = 1
INVARIANTS
  RelayOrder
  NoStalledQueue
  TrueMeansAccepted
  PendingIsQueued
PROPERTIES
  PublishSettles
