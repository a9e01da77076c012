CONSTANTS
  Pulls = {p1}
  FailureBudget = 1
  MaxCommands = 2
  MaxPushes = 0
  MaxErrors = 1
SPECIFICATION DeliverySpec
PROPERTY FinalizeSettles
CHECK_DEADLOCK FALSE
