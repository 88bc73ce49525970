CONSTANTS
  PoolIds = {p1, p2}
  NoPool = NoPool
  Callers = {request, heartbeat}
  Background = {heartbeat}
  Requests = {request}
  Poison = {}
  Pingers = {ping1, ping2, ping3}
  Main = lifespan
  NoTask = NoTask
  Outages = TRUE
  MaxSessions = 1
  COOLDOWN = 1
  DB_RETRY_COUNT = 1
  Endpoints = {"tree"}
  Threads = 1
  MaxBacklog = 2
SPECIFICATION FairExecSpec
INVARIANTS
  OnlyAwaitedStart
  NoJobLost
PROPERTIES
  RequestsAnswered
  HeartbeatGoesOn
  TrafficHeals
CHECK_DEADLOCK FALSE
