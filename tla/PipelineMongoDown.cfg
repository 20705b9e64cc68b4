SPECIFICATION Spec
CONSTANTS
  Instances = {i1}
  VoteIDs = {v1}
  Participants = {p1}
  HexParticipants = {p1}
  Questions = {q1}
  QuestionIDs = {q1}
  NumOptions = 2
  Selections <- OneSelection
  MaxRetries = 3
  FirstBatch = 1
  Faults <- MongoDown
  None = None
  NilObjectID = NilObjectID
INVARIANTS
  VotesQueueUntilSaved
