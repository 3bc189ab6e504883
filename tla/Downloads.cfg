\* An upload whose blocks are sent once, and three downloads, two of them at the same time.
SPECIFICATION DownloadsSpec
CONSTANTS
  NoCarve = NoCarve  NoSession = NoSession
  Total <- SameTotal
  Carvings = {c1}
  Sessions = {s1}
  Blocks = 2
  Workers = {w1, w2}
  InFlight = 2
  Resends = 0
  Deletes = TRUE
  Crashes = TRUE
  DBErrors = FALSE
  Downloads = {d1, d2, d3}
  AtOnce = 2
  DiskErrors = TRUE
  Zipped = {}
SYMMETRY CarveSymmetry
INVARIANTS
  DownloadsTypeOK
  CompletedFilesWhole
  DownloadsInOrder
  WholeFilesCompleted
PROPERTIES
  ImplementsTransfer
CHECK_DEADLOCK FALSE
