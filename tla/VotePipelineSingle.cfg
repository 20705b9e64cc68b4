SPECIFICATION FairSpec
CONSTANTS
  Instances = {i1}
  VoteIDs = {v1, v2}
  Participants = {p1, p2}
  HexParticipants = {p1, p2}
  Questions = {q1}
  QuestionIDs = {q1}
  NumOptions = 2
  Selections <- VariedSelections
  MaxRetries = 1
  FirstBatch = 1
  Faults <- RepeatsAndCuts
  None = None
  NilObjectID = NilObjectID
INVARIANTS
  VotesQueueUntilSaved
  ResultsMonotone
  ResultsComplete
  VotersCountUnique
  TotalsAddUp
  OptionWithinVoters
PROPERTIES
  AcceptedEventuallyCounted
  ImplementsBallotBox
