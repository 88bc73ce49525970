CONSTANTS
  PoolIds = {p1, p2, p3, p4}
  NoPool = NoPool
  Callers = {request, heartbeat}
  Background = {heartbeat}
  Requests = {request}
  Poison = {}
  Pingers = {ping1, ping2}
  Main = lifespan
  NoTask = NoTask
  Outages = TRUE
  MaxSessions = 1
  COOLDOWN = 1
  DB_RETRY_COUNT = 0
  Endpoints = {"search", "unfiltered", "tree", "health"}
SPECIFICATION ServiceSpec
SYMMETRY PoolSymmetry
INVARIANTS
  ServiceTypeOK
  OneAnswerPerPing
PROPERTY
  ImplementsSession
