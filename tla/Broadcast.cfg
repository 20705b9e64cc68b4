SPECIFICATION FairSpec
CONSTANTS
  Instances = {i1, i2}
  Clients = {c1}
  Sessions = {s1, s2}
  SessionOf <- OneSession
  Partitions = {p1}
  PartitionOf <- OnePartition
  HubCap = 1
  Faults <- FaultKinds
  MaxEvents = 2
  MaxMoves = 2
  None = None
INVARIANTS
  TypeOK
  OneInstancePerEvent
  ShownInOrder
  OwnInstanceShows
PROPERTIES
  EveryEventForwarded
CHECK_DEADLOCK FALSE
