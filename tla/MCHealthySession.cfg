CONSTANTS
  PoolIds = {p1, p2, p3, p4}
  NoPool = NoPool
  Callers = {request1, request2}
  Background = {}
  Requests = {request1, request2}
  Poison = {request1}
  Pingers = {ping}
  Main = lifespan
  NoTask = NoTask
  Outages = TRUE
  MaxSessions = 2
  COOLDOWN = 1
  DB_RETRY_COUNT = 1
SPECIFICATION SessionSpec
SYMMETRY PoolSymmetry
INVARIANTS
  SessionTypeOK
  RetryIsFresh
  SessionsReturned
PROPERTY
  SessionsFromHealthyPool
