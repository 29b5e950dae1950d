SPECIFICATION Spec
CONSTANTS
  Apps = {"connections", "pairs", "async", "demo", "mobile", "basic"}
  Clients = 3
  MaxReturns = 2
  Pairs = 1
  Messages = 2
  Sessions = 2
  MaxAttempts = 2
  MaxRequests = 2
  Requests = {}
  MaxScans = 1
  MaxLists = 0
  AllScans = 0
  MaxExpired = 0
INVARIANTS
  TypeOK
  CountsNoMore
  ExchangesMatch
  AnsweredOnce
  ClosedAtTheEnd
  PagesShowTheirClients
  OneCountdown
PROPERTIES
  TestsEnd
CHECK_DEADLOCK FALSE
