CONSTANTS
  s = s
  m = m
  n = n
  f = f
  x = x
  u = u
  y = y
  z = z
  Systems = {s, m, n, f}
  Parts = {NoPart, x, u, y, z}
  NoPart = NoPart
  NoSystem = NoSystem
  NoDoc = NoDoc
  Docs = {1, 2}
  Graphs <- MCGraphs
  Filters <- MCFilters
  Cutoff = 1
  MAX_PATH_DEPTH = 3
  MaxChanges = 0
  MayReject = FALSE
  DB_RETRY_COUNT = 0
SPECIFICATION SearchSpec
INVARIANT
  SegmentsAreEdges
CHECK_DEADLOCK FALSE
