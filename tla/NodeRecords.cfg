\* A host that enrols three times, in two environments, while operators
\* delete and tag it; and what two handlers make of its requests.
SPECIFICATION RecordsSpec
CONSTANTS
  Nodes = {n1}
  Environments = {dev, prod}
  Handlers = {h1, h2}
  InFlight = 2
  MaxKey = 3
  MaxRows = 3
  MaxAsked = 2
  Failures = TRUE
  Operations = {"delete", "tag", "untag", "add tag", "remove tag", "reinstall"}
  NodeRequests = {h1, h2}
  Addresses = {"a1", "a2", ""}
  Hosts = {"h1"}
  MaxRequests = 3
  MaxRemovals = 1
SYMMETRY HandlerSymmetry
INVARIANTS
  RecordsTypeOK
  KeyNamesOneRow
  AnsweredKeyKnown
  NothingTwice
  RowRecorded
  CountsNotAbove
PROPERTIES
  ReplacedKeysArchived
  LogsReachRow
CHECK_DEADLOCK FALSE
