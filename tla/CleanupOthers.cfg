\* Two queries, as many as the setting keeps, one of them completed.
SPECIFICATION CleanupSpec
CONSTANTS
  OldNames = {q1, q2}
  LogEnvs = {e1}
  LogKinds = {"status", "result"}
  NoQuery = NoQuery
  Entries = 2
  MaxLogs = 0
PROPERTIES
  OthersKept
CHECK_DEADLOCK FALSE
