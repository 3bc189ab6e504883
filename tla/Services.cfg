CONSTANTS
  \* Metrics
  Counters = {"requests"}
  Senders = {s1, s2}
  NoSender = NoSender
  MaxIncs = 3
  MaxTime = 1
  Interval = 1
  Retries = 0
  Unreachable = TRUE
  \* AdminSessions
  Browsers = {b1}
  People = {u1, u2}
  Pages = {p1, p2}
  MaxSessions = 2
  MaxSent = 2
  MaxStarts = 2
  SessionErrors = TRUE
  \* LogCleanup
  OldNames = {q1, q2}
  LogEnvs = {e1}
  LogKinds = {"status", "result"}
  NoQuery = NoQuery
  Entries = 1
  MaxLogs = 2
  \* ServiceSettings
  Services = {"tls"}
  Program <- TlsProgram
  JsonNames = {}
  MetricNames = {"metrics"}
  Disabling = {"tls"}
  MapOf = "tls"
  MapNames = {"accelerate"}
  MaxEdits = 1
SPECIFICATION ServicesSpec
INVARIANTS
  ServicesTypeOK
  CountersExact
  ConnectionKept
  OrphansAreLate
PROPERTIES
  UncompletedStay
  OldRecordsGo
  ValuesReachMap
  StartsSucceed
CHECK_DEADLOCK FALSE
