\* The node is removed and enrols again between its requests, the operator does
\* anything to the query, and any statement may fail.
SPECIFICATION OverlapSpec
CONSTANTS
  n1 = n1  n2 = n2  q1 = q1  q2 = q2
  env = env  uuid1 = uuid1  host1 = host1  host2 = host2
  NoUUID = NoUUID  NoName = NoName
  Targets <- FleetTargets
  Kind <- FleetKind
  Covers <- FleetCovers
  Listed <- FleetListed
  Names = {q1}
  Requests = {"carve", "api"}
  Nodes = {n1}
  Choices <- EitherHost
  Workers = {w1}
  InFlight = 1
  MaxKey = 2
  Operations = {"complete", "activate", "delete", "remove node"}
  DBErrors = TRUE
INVARIANTS
  TypeOK
  OnlyTargetedNodesTracked
PROPERTIES
  ImplementsLifecycle
CHECK_DEADLOCK FALSE
