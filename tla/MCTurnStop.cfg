CONSTANTS
  MaxMsgs = 2
  MaxReqs = 1
  Tokens = {1, 2}
  NoToken = 0
  Pods = {1, 2}
  MaxPasses = 3
  MaxContinue = 2
  MaxSends = 1
  MaxStops = 1
  MaxCrashes = 0
  MaxFaults = 0
  MaxEvents = 3
SPECIFICATION TurnSpec
PROPERTIES
  StopIsHonoured
CHECK_DEADLOCK FALSE
