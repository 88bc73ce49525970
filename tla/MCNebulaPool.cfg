CONSTANTS
  PoolIds = {p1, p2, p3, p4, p5}
  NoPool = NoPool
  Callers = {request1, request2, heartbeat}
  Background = {heartbeat}
  Pingers = {ping}
  Main = lifespan
  NoTask = NoTask
  Outages = TRUE
  MaxSessions = 1
  COOLDOWN = 1
SPECIFICATION Spec
SYMMETRY PoolSymmetry
INVARIANTS
  TypeOK
  HealthyIsOpen
  VerdictNotStale
  ReinitExclusive
  OneLivePool
  NoOrphanPool
  IInv
PROPERTIES
  FitPoolKept
  ImplementsLifecycle
