SPECIFICATION Spec
CONSTANTS
  Instances = {i1}
  VoteIDs = {v1, v2}
  Participants = {p1}
  HexParticipants = {p1}
  Questions = {q1}
  QuestionIDs = {q1}
  NumOptions = 2
  Selections <- OneSelection
  MaxRetries = 3
  FirstBatch = 1
  Faults <- NoFaults
  None = None
  NilObjectID = NilObjectID
INVARIANTS
  OneVotePerParticipant
