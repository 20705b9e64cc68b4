SPECIFICATION FairSpec
CONSTANTS
  c1 = c1
  c2 = c2
  s1 = s1
  Clients = {c1, c2}
  Sessions = {s1}
  SessionOf <- OneSession
  Pollers = {p1}
  SendCap = 1
  QueueCap = 1
  MaxBroadcasts = 2
  MaxRequests = 0
  None = None
PROPERTIES
  HubNeverStuck
  DeadClientsRemoved
  MembersServed
CHECK_DEADLOCK FALSE
