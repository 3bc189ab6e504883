\* The first download may come before the upload is complete.
SPECIFICATION DownloadsSpec
CONSTANTS
  NoCarve = NoCarve  NoSession = NoSession
  Total <- SameTotal
  Carvings = {c1}
  Sessions = {s1}
  Blocks = 3
  Workers = {w1, w2, w3}
  InFlight = 3
  Resends = 0
  Deletes = FALSE
  Crashes = FALSE
  DBErrors = FALSE
  Downloads = {d1, d2}
  AtOnce = 1
  DiskErrors = FALSE
  Zipped = {}
SYMMETRY CarveSymmetry
INVARIANTS
  CompletedDownloadsWhole
CHECK_DEADLOCK FALSE
