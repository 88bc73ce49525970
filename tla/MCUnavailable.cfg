CONSTANTS
  PoolIds = {p1, p2}
  NoPool = NoPool
  Callers = {request}
  Background = {}
  Requests = {request}
  Poison = {}
  Pingers = {}
  Main = lifespan
  NoTask = NoTask
  Outages = TRUE
  MaxSessions = 2
  COOLDOWN = 1
  DB_RETRY_COUNT = 1
  Endpoints = {"search", "tree"}
SPECIFICATION ServiceSpec
INVARIANT
  UnavailableIs503
