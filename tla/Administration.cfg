\* Three requests of any kind on an environment, two of them at the same time;
\* two on users; three pages, two of them at the same time;
\* and two services that start, with one change of a setting.
SPECIFICATION AdministrationSpec
CONSTANTS
  Requests = {r1, r2, r3}
  First = First
  Blank = Blank
  On = On
  Off = Off
  InFlight = 2
  MaxRows = 2
  Operations = {"configuration", "certificate", "expire enroll", "expire remove", "debug on", "debug off", "intervals", "extend enroll", "extend remove", "update", "create", "create by command", "delete", "remove tag"}
  Users = {u1, u2}
  MaxOrders = 2
  MaxUserRows = 3
  Browsers = {b1}
  People = {u1, u2}
  Pages = {p1, p2}
  MaxSessions = 2
  MaxSent = 3
  MaxStarts = 2
  SessionErrors = TRUE
  Services = {"tls", "admin"}
  Program <- MCProgram
  JsonNames = {"json"}
  MetricNames = {"metrics"}
  Disabling = {"tls"}
  MapOf = "tls"
  MapNames = {}
  MaxEdits = 1
SYMMETRY RequestSymmetry
INVARIANTS
  AdministrationTypeOK
  LinkKeepsDeadline
  FlagsUpToDate
  SomeAdminLeft
  CookieMatchesLogin
  OneRowPerSetting
  FileValuesCurrent
PROPERTIES
  RevokedForGood
  DoneWhenOK
  RefusedForGood
CHECK_DEADLOCK FALSE
