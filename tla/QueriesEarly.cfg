\* A result comes in while the query is being created.
SPECIFICATION Spec
CONSTANTS
  n1 = n1  n2 = n2  q1 = q1  q2 = q2
  env = env  uuid1 = uuid1  host1 = host1  host2 = host2
  NoUUID = NoUUID  NoName = NoName
  Targets <- FleetTargets
  Kind <- FleetKind
  Covers <- FleetCovers
  Listed <- FleetListed
  Names = {q1}
  Requests = {"query"}
  Nodes = {n1, n2}
  Choices <- OneEnvironment
  Workers = {w1, w2}
  InFlight = 2
  MaxKey = 1
  Operations = {}
  DBErrors = FALSE
SYMMETRY WorkerSymmetry
INVARIANTS
  CompletedOnlyWhenDone
CHECK_DEADLOCK FALSE
