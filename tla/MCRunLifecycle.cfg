CONSTANTS
  Cap = 1
  MaxEvents = 2
SPECIFICATION RunSpec
INVARIANTS
  SlotsWithinCap
  OneWorkerAtATime
  NothingLeftBehind
PROPERTIES
  ImplementsRunLife
  StopsAreNotDropped
  StopsConclude
CHECK_DEADLOCK FALSE
