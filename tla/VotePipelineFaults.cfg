SPECIFICATION Spec
CONSTANTS
  Instances = {i1, i2}
  VoteIDs = {v1, v2}
  Participants = {p1}
  HexParticipants = {p1}
  Questions = {}
  QuestionIDs = {q1}
  NumOptions = 2
  Selections <- OneSelection
  MaxRetries = 1
  FirstBatch = 1
  Faults <- AllFaults
  None = None
  NilObjectID = NilObjectID
SYMMETRY Symmetry
INVARIANTS
  TypeOK
  OneVotePerLock
  VotesLostOnlyToFaults
PROPERTIES
  RedeliveredOnlyIfOvertaken
  ImplementsBallotBox
