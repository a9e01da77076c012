CONSTANTS
  MaxRounds = 2
  NumEvents = 1
  MaxMishaps = 1
SPECIFICATION PRLoopSpec
INVARIANTS
  RoundsBounded
  RoundsHaveReviewers
  HandledTookEffect
  BlockIsSurfaced
PROPERTIES
  ImplementsReviewLoop
  LoopAdvances
CHECK_DEADLOCK FALSE
