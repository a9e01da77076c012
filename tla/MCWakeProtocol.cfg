CONSTANTS
  Resumes = {resume}
  Retries = {retry}
  Plain = {plain}
  Once = {once}
  NoDelivery = NoDelivery
  MaxRetries = 1
  MaxCrashes = 1
  MaxRequests = 1
SPECIFICATION WakeSpec
INVARIANTS
  KeyCountedOnce
PROPERTIES
  StopSupersedes
  WakeIsHandled
  ImplementsWake
CHECK_DEADLOCK FALSE
