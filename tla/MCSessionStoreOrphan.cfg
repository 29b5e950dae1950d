SPECIFICATION Spec
CONSTANTS
  Ids = {s1}
  Callers = {a}
  KvFails = FALSE
  MayCrash = TRUE
INVARIANTS
  ActiveIsListed
