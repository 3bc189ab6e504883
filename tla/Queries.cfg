\* Results of a query that targets a node twice are accounted for at the same time; the operator may delete it.
SPECIFICATION FairOverlapSpec
CONSTANTS
  n1 = n1  n2 = n2  q1 = q1  q2 = q2
  env = env  uuid1 = uuid1  host1 = host1  host2 = host2
  NoUUID = NoUUID  NoName = NoName
  Targets <- FleetTargets
  Kind <- FleetKind
  Covers <- FleetCovers
  Listed <- FleetListed
  Names = {q1}
  Requests = {"query"}
  Nodes = {n1}
  Choices <- UuidAndHost
  Workers = {w1, w2}
  InFlight = 2
  MaxKey = 1
  Operations = {"delete"}
  DBErrors = FALSE
INVARIANTS
  VerdictNeverEarly
  QueryCountersExact
  CompletedWhenAnswered
PROPERTIES
  AcceptedResultsLast
  WithdrawnNotServed
CHECK_DEADLOCK FALSE
