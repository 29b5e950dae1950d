SPECIFICATION FairSpec
CONSTANTS
  Ids = {s1, s2}
  Callers = {a, b}
  MayCrash = TRUE
  KvFails = TRUE
INVARIANTS
  NoLostEntry
  ListIsComplete
  UsedAfterGc
  ListMatchesRecords
PROPERTIES
  CallsReturn
