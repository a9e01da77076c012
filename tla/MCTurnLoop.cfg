CONSTANTS
  MaxMsgs = 3
  MaxReqs = 1
  Tokens = {1, 2, 3}
  NoToken = 0
  Pods = {1, 2, 3}
  MaxPasses = 6
  MaxContinue = 2
  MaxSends = 2
  MaxStops = 2
  MaxCrashes = 2
  MaxFaults = 2
  MaxEvents = 5
SPECIFICATION TurnSpec
INVARIANTS
  StoppedStaysStopped
  FirstReplyOnce
  ClaimMatchesTurn
PROPERTIES
  StopHoldsInItsPod
  QueueServed
  InterruptedWorkResumes
CHECK_DEADLOCK FALSE
