CONSTANTS
  Requests = {r1, r2}
  Given = {given}
  NoId = NoId
  Garbled = garbled
  Routes = {"paths", "health", "tree"}
  MaxChunks = 2
SPECIFICATION Spec
INVARIANTS
  TypeOK
  BodyIntact
  NoForeignId
  AccessLineTrue
PROPERTY
  EveryRequestLogged
CHECK_DEADLOCK FALSE
