CONSTANTS
  Pulls = {p1}
  FailureBudget = 1
  MaxCommands = 2
  MaxPushes = 1
  MaxErrors = 1
SPECIFICATION DeliverySpec
INVARIANTS
  MergesAreSafe
  DeliveryIsEarned
PROPERTIES
  CommandsConclude
  ImplementsDelivery
CHECK_DEADLOCK FALSE
