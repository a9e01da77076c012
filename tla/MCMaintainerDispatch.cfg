CONSTANTS
  Items = {i1, i2}
  MaxConcurrent = 1
  MaxDaily = 1
  FailureBudget = 1
  MaxCommands = 2
  MaxBreaks = 1
  LastDay = 2
SPECIFICATION DispatchSpec
INVARIANTS
  CountCoversSlots
  FleetWithinCap
  DispatchKeepsItsSlot
  RetriesWithinBudget
SYMMETRY Symmetry
CHECK_DEADLOCK FALSE
