SPECIFICATION Spec
CONSTANTS
  c1 = c1
  c2 = c2
  s1 = s1
  Clients = {c1, c2}
  Sessions = {s1}
  SessionOf <- OneSession
  Pollers = {}
  SendCap = 1
  QueueCap = 1
  MaxBroadcasts = 3
  MaxRequests = 1
  None = None
SYMMETRY Symmetry
INVARIANTS
  TypeOK
  NoClientStranded
  NeverOffersToClosed
  PanicOnlyAfterSlow
  NoGap
CHECK_DEADLOCK FALSE
