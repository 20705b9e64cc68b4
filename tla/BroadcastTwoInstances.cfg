SPECIFICATION Spec
CONSTANTS
  Instances = {i1, i2}
  Clients = {c1, c2}
  Sessions = {s1}
  SessionOf <- OneSession
  Partitions = {p1}
  PartitionOf <- OnePartition
  HubCap = 1
  Faults <- NoFaults
  MaxEvents = 1
  MaxMoves = 0
  None = None
INVARIANTS
  AllClientsShown
CHECK_DEADLOCK FALSE
