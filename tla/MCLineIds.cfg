CONSTANTS
  Requests = {r1, r2}
  Given = {given}
  NoId = NoId
  Garbled = garbled
  Routes = {"paths", "health", "tree"}
  MaxChunks = 2
SPECIFICATION Spec
INVARIANT
  LinesCarryId
CHECK_DEADLOCK FALSE
