CONSTANTS
  NoSystem = NoSystem
  NoPart = NoPart
  s = s
  m = m
  f = f
  x = x
  y = y
  z = z
  Docs = {1, 2}
  Dates = {1, 2}
  Paths <- MCPaths
  Filters <- MCFilters
  Orders = {"most_frequent", "longest", "shortest", "most_recent"}
  Counts = {1, 2}
  Nameless = {m, y}
  NoName = NoName
  MaxRejections = 1
  DB_RETRY_COUNT = 1
SPECIFICATION AnswerSpec
INVARIANTS
  GroupsExact
  BestKept
  NamesBelong
CHECK_DEADLOCK FALSE
