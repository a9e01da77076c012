CONSTANTS
  MaxRounds = 2
  NumEvents = 0
  MaxMishaps = 0
SPECIFICATION PRLoopSpec
INVARIANTS
  NextRoundAfterResolve
CHECK_DEADLOCK FALSE
