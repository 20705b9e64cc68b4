SPECIFICATION Spec
CONSTANTS
  Requests = {r1, r2, r3}
  Emails = {e1, e2}
  Passwords = {w1, w2}
  Faults <- FaultKinds
  None = None
SYMMETRY Symmetry
INVARIANTS
  TypeOK
  EmailTakenOnlyByRace
  RegisteredCanLogin
  TokensNeedAccounts
CHECK_DEADLOCK FALSE
