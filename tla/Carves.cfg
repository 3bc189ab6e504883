\* Blocks are sent again, any statement may fail, the service restarts and the operator deletes.
SPECIFICATION CarvesSpec
CONSTANTS
  NoCarve = NoCarve  NoSession = NoSession
  Total <- SameTotal
  Carvings = {c1}
  Sessions = {s1}
  Blocks = 2
  Workers = {w1, w2, w3}
  InFlight = 3
  Resends = 1
  Deletes = TRUE
  Crashes = TRUE
  DBErrors = TRUE
SYMMETRY CarveWorkerSymmetry
INVARIANTS
  FinishNeverEarly
CHECK_DEADLOCK FALSE
