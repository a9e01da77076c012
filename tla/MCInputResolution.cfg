CONSTANTS
  MaxMsgs = 3
  MaxReqs = 3
  Tokens = {runner}
  NoToken = NoToken
  Runner = runner
  Users = {u1}
  MaxAsks = 2
  MaxCrashes = 1
SPECIFICATION InputSpec
INVARIANTS
  AnswersWhatWasSeen
  NewestQuestionSurvives
PROPERTIES
  QueueDrains
  ImplementsInputRequest
CHECK_DEADLOCK FALSE
