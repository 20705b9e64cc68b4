SPECIFICATION Spec
CONSTANTS
  Requests = {r1, r2, r3, r4}
  Sessions = {s1}
  Faults <- FaultKinds
SYMMETRY Symmetry
INVARIANTS
  TypeOK
  StaleOnlyByRace
  AcceptedWhileOpen
CHECK_DEADLOCK FALSE
