\* Two goroutines change the status at the same time.
SPECIFICATION CarvesSpec
CONSTANTS
  NoCarve = NoCarve  NoSession = NoSession
  Total <- SameTotal
  Carvings = {c1}
  Sessions = {s1}
  Blocks = 3
  Workers = {w1, w2, w3}
  InFlight = 3
  Resends = 0
  Deletes = FALSE
  Crashes = FALSE
  DBErrors = FALSE
SYMMETRY CarveWorkerSymmetry
INVARIANTS
  StatusTellsCompletion
CHECK_DEADLOCK FALSE
